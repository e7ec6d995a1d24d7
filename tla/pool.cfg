SPECIFICATION Spec
CONSTANTS
  m1 = m1  m2 = m2  None = None
  Miner = {m1, m2}
  Ranges = 2
  Golden <- TwoNonces
  MaxWindows = 2
  MaxIds = 2
  MaxRestarts = 0
  MaxLosses = 0
INVARIANTS TypeOK RangeCovered NoWorkForClosedWindow
  OneWindowAtATime OneNoncePerThread
SYMMETRY Symmetry
