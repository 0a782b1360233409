\* Two dates, two sessions of the script and one fault.
SPECIFICATION FairSpec
CONSTANTS
  LastDay = 2
  Requests <- TwoDates
  Shards = {7}
  MaxTasks = 1
  MaxSessions = 2
  MaxFaults = 1
INVARIANTS
  OrchestratorTypeOK
  OneTaskPerDate
  CompleteMeansSummarised
PROPERTIES
  NotReplacedUnderTask
  DatesLiveTheirLives
  ScriptEnds
CHECK_DEADLOCK FALSE
