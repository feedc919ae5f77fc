\* Two committing threads, two stoppers, one waiter, three calls of recheck().
CONSTANTS
  r1 = r1
  r2 = r2
  s1 = s1
  s2 = s2
  v1 = v1
  Free = Free
  Requesters <- TwoRequesters
  Stoppers <- TwoStoppers
  Waiters <- OneWaiter
  MaxRequests = 3
SPECIFICATION FairSpec
INVARIANTS
  NoOrphanGate
  GateClosedOnce
  WaitCoversRequests
  StopMeansExited
PROPERTIES
  ServiceSpec
  WaitReturns
  StopReturns
  RequestsServed
