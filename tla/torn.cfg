SPECIFICATION FairSpec
CONSTANTS
  l1 = l1  l2 = l2  ana = ana  beto = beto  caro = caro
  NoNct = NoNct  NoLaw = NoLaw  NoMsg = NoMsg
  Nct = {n1, n2}
  Primary = {}
  Law = {l1}
  Author = {ana, beto}
  Proposals <- OneLaw
  Deliberates = FALSE
  TornCrashes = TRUE
  CooldownNew = 2
  MaxWindows = 2
  MaxCrashes = 2
  MaxOverlaps = 0
  MaxErrors = 0
INVARIANTS OneBlockPerWindow SealedNeverExpires
PROPERTIES SealedWindowCompletes VerdictFinal
