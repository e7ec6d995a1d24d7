SPECIFICATION FairSpec
CONSTANTS
  m1 = m1  m2 = m2  None = None
  Miner = {m1}
  Ranges = 2
  Golden <- LastRange
  MaxWindows = 1
  MaxIds = 2
  MaxRestarts = 1
  MaxLosses = 1
PROPERTIES NonceIsSent
