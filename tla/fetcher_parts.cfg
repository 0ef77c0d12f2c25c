SPECIFICATION Spec
CONSTANTS
  Procs = {1, 2}
  MaxCalls = 2
  MaxDeaths = 2
  MaxLost = 1
  MaxStops = 1
  Styles = {"us", "tw"}
  Contents <- RefreshContents
  LastDay = 2
  MaxAttempts = 1
  MaxTroubles = 1
  Universe <- StageUniverse
  DatasetOf <- StageDatasets
  CallLimit = 2
  WindowLimit = 1
  MaxFaults = 1
INVARIANTS FetcherSound OneCaller SessionSound StagedSound UniversesSound
PROPERTY FetcherSettles
CHECK_DEADLOCK FALSE
