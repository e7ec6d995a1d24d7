SPECIFICATION Spec
CONSTANTS
  n1 = n1
  n2 = n2
  Node = {n1, n2}
  None = None
  Pools <- Bully
  HasRedis = TRUE
  Restarts = FALSE
  MaxEvents = 1
PROPERTIES PoolIsLed
CHECK_DEADLOCK FALSE
