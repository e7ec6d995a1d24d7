SPECIFICATION Spec
CONSTANTS
  l1 = l1  l2 = l2  ana = ana  beto = beto  caro = caro
  NoNct = NoNct  NoLaw = NoLaw  NoMsg = NoMsg
  Nct = {n1, n2}
  Primary = {}
  Law = {l1, l2}
  Author = {ana, beto, caro}
  Proposals <- TwoLaws
  Deliberates = FALSE
  TornCrashes = FALSE
  CooldownNew = 2
  MaxWindows = 2
  MaxCrashes = 0
  MaxOverlaps = 1
  MaxErrors = 0
INVARIANTS OneBlockPerWindow
