CONSTANTS
  Inserters = {i1, i2}
  Readers = {r}
  k1 = k1 k2 = k2 k3 = k3 k4 = k4
  Key = {k1, k3}
  EMPTY = EMPTY BUSY = BUSY
  Hash1 <- MCHash1 Hash2 <- MCHash2
  FirstCapacity = 3
  MaxSubmaps = 2
  LoadNum = 1 LoadDen = 4
SYMMETRY Symmetry
SPECIFICATION Spec
INVARIANTS TypeOK FoundOnceInserted IterationComplete LoadBounded CountersLag StatsErrByOverlap ProbesEveryBucket
