SPECIFICATION Spec
CONSTANTS
  a1 = a1
  a2 = a2
  p1 = p1
  p2 = p2
  Api = {a1, a2}
  Pod = {p1, p2}
  None = None
  Token <- Tokens
  MaxRequests = 3
  MaxEvents = 1
INVARIANTS TypeOK DeploymentHasSecret ValidIsInSecret NoNeedlessReissue
CHECK_DEADLOCK FALSE
PROPERTIES PodsGetBound
