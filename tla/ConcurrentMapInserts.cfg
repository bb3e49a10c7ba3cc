CONSTANTS
  Inserters = {i1, i2}
  Readers = {}
  k1 = k1 k2 = k2 k3 = k3 k4 = k4
  Key = {k1, k2, k3, k4}
  EMPTY = EMPTY BUSY = BUSY
  Hash1 <- MCHash1 Hash2 <- MCHash2
  FirstCapacity = 3
  MaxSubmaps = 2
  LoadNum = 9 LoadDen = 10
CHECK_DEADLOCK FALSE
SPECIFICATION FairSpec
INVARIANT NoSecondInsert
PROPERTY InsertsReturn
