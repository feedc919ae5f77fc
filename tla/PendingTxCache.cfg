\* Two readers, two writers, three changes of the pool.
CONSTANTS
  r1 = r1
  r2 = r2
  w1 = w1
  w2 = w2
  Unlocked = Unlocked
  Readers <- TwoReaders
  Writers <- TwoWriters
  MaxChanges = 3
SPECIFICATION CacheSpec
SYMMETRY ThreadSymmetry
INVARIANTS
  FreshRead
