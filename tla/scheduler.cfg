CONSTANTS
  report = report
  hedge = hedge
  key1 = key1
  nobody = nobody
  none = none
  Job <- TwoJobs
  JobDef <- TwoJobDefs
  NoKey = nokey
  ExternalTopics = {"price"}
  HistoryCap = 2
  Swept <- ReportOnly
  Attended <- ReportOnly
  Call = {1, 2}
  NoJob <- nobody
  NoCall <- none
  MinWorkers = 0
  MaxWorkers = 1
  MaxStarts = 2
  MaxStops = 1
  MaxSpawned = 2
SPECIFICATION SchedulerSpec
INVARIANTS SchedulerTypeOK StatusIsHonest ScheduledRunsNeverOverlap RetryTimersTracked ExhaustedJobsRest
PROPERTIES RunsEnd
CHECK_DEADLOCK FALSE
