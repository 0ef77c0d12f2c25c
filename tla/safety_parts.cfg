SPECIFICATION Spec
CONSTANTS
  GatedDatasets = {"a", "b"}
  SourceClose = 2
  LocalClose = 1
  Enrollers = {"e", "f"}
  Declarations = {"x", "y"}
  MaxClock = 1
  MaxCommands = 3
  MaxCycles = 1
  MaxLosses = 1
  PlanMembers = {"a", "g"}
  Gaps = {"g"}
  Runs = {"r", "q", "n", "h"}
  Carries <- DeliveryCarries
  SequenceOf <- DeliverySequence
  SequenceCount = 2
  Historical = {"h"}
  Writers = {"v", "w"}
  PlanFeeds <- DeliveryFeeds
  MaxOutcomes = 1
  TradeDays = {1, 2}
  DayStatuses = {"open", "closed"}
  Weekend = {}
  MaxRevisions = 3
  PlanSessions = {"s", "t"}
  Universes <- PlanUniverses
  MaxChange = 50
  Menus <- PlanMenus
  MaxReleases = 3
  MaxControl = 3
INVARIANTS
  PartsTypeOK
  PlansSound
  SummariesTrue
  VerdictsSound
  AccessSound
  RowsAreBest
  OutputsSound
  PagesExact
  BudgetsKept
  BodiesSound
  GateSound
PROPERTY StepsJustified
CHECK_DEADLOCK FALSE
