SPECIFICATION MCSpec
CONSTANTS
  Configs = {"a", "b"}
  MaxObjects = 2
  MaxRevision = 3
  MaxActs = 5
  Guis = {g1, g2}
  g1 = g1
  g2 = g2
  Nobody = nobody
  Absent = absent
  Broken = broken
  MaxSaves = 3
  Total = 3
  Workers = 2
  Retries = 2
  Rounds = 5
  Videos = 3
  MaxLocal = 3
  Services = 2
  MaxInsertions = 2
  AuthRounds = 2
  AuthTimeout = 2
  ConnectTimeout = 1
  Activations = 2
  MaxReconnects = 3
  LastEvent = 2
  MaxCycles = 3
  MaxSteps5 = 2
  TrackLimit = 3
  MaxRuntime = 120
  MinGrace = 10
  EndGrace = 5
INVARIANTS RunsWhatWasAsked OverwritesOnlySeen FilesWhole SavedSurvives BackupIsLastGood PassedMeansAll PassedMeansDone NumbersUnique StreamsAndAuth PlanHolds
PROPERTY DraftKept
CHECK_DEADLOCK FALSE
