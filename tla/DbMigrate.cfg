\* Two databases of three keys, batches of two.
CONSTANTS
  d1 = d1
  d2 = d2
  k1 = k1
  k2 = k2
  k3 = k3
  v1 = v1
  None = None
  Absent = Absent
  DbOrder <- BothDbs
  KeyOrder <- ThreeKeys
  Stored <- AllStored
  Values = {v1, v2}
  Backends = {goleveldb, rocksdb}
  FirstBackend = goleveldb
  BatchSize = 2
  MaxSessions = 1
  MaxMigrations = 2
  MaxFaults = 2
SPECIFICATION FairSpec
INVARIANTS
  VerifiedIsExact
  DataSurvives
PROPERTY SwapResumes
CHECK_DEADLOCK FALSE
