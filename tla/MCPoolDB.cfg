SPECIFICATION Spec
CONSTANTS
  Client = {main, t1}
  Boot = main
  Conn = {k1, k2, k3, k4, k5}
  PoolSize = 2
  MaxNest = 2
  main = main
  t1 = t1
  k1 = k1
  k2 = k2
  k3 = k3
  k4 = k4
  k5 = k5
INVARIANTS
  TypeOK
  ExclusiveLease
  PoolPartition
  QuietInit
  PoolBounded
PROPERTIES
  ConnectionsKept
  LeaseSpec
