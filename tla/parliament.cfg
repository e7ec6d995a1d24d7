SPECIFICATION Spec
CONSTANTS
  None = None
  Law <- Laws
  Author = {"A", "B", "C"}
  Area <- Areas
  AreaOf <- AreasOfLaws
  ActionOf <- ActionsOfLaws
  Holder <- HoldersOfLaws
  Worker <- Workers
  Coordinator <- Teams
  TeamOf <- Roster
  Anonymous = {}
  Power <- Powers
  Base = 2
  NMin = 1
  NMax = 3
  DecayWindows = 2
  Sample = 3
  QuotaLimit = 1
  MinWorkers = 1
  ByArea = TRUE
  MaxSilent = 2
  Modes = {TRUE, FALSE}
  NConfig = 2
  Histories <- OneAuthor
  Populations <- Networks
  MaxEvents = 2
INVARIANTS TypeOK NobodyStarves AnnouncedToSomebody PullingOutDoesNotCheapen
PROPERTIES DifficultyFallsSlowly EveryLawDecided
CHECK_DEADLOCK FALSE
