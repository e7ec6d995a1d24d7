SPECIFICATION Spec
CONSTANTS
  n1 = n1
  n2 = n2
  Node = {n1, n2}
  None = None
  Pools <- All
  HasRedis = TRUE
  Restarts = TRUE
  MaxEvents = 3
INVARIANTS TypeOK
PROPERTIES GivesWayToDesignated PoolIsLed MinersJoin
CHECK_DEADLOCK FALSE
