SPECIFICATION Spec
CONSTANTS
  l1 = l1  l2 = l2  ana = ana  beto = beto  caro = caro
  NoNct = NoNct  NoLaw = NoLaw  NoMsg = NoMsg
  Nct = {n1, n2}
  Primary = {n1}
  Law = {l1}
  Author = {ana, beto, caro}
  Proposals <- OneLawRepealed
  Deliberates = FALSE
  TornCrashes = TRUE
  CooldownNew = 1
  MaxWindows = 2
  MaxCrashes = 1
  MaxOverlaps = 0
  MaxErrors = 1
INVARIANTS OneBlockPerWindow StatusIsLastVerdict
