SPECIFICATION FairSpec
CONSTANTS
  Keys = {1, 2}
  LateKeys = {2}
  MaxTime = 5
  NMonths = 2
  MonthOf <- MCMonthOf
  StartTime = 3
  Histories <- MCHistories
  InitialTypes = {"stock", "timescaledb", "clickhouse"}
  Offered = {"stock", "timescaledb", "clickhouse"}
  Engines = {"native", "docker"}
  None = None
  MayFail <- MCRecoverable
  Killable = {"prepare", "copy", "copy_latest", "finish"}
  StartsAt <- MCServing
  LateAnswer = FALSE
  MayRemove = {"spare"}
  MaxVersion = 1
  MaxFaults = 1
  MaxKills = 1
  MaxJobs = 2
  MaxWrites = 2
INVARIANTS NothingDeleted HistoryReachable LatestNewest FailedMigrationUndone
PROPERTIES SourceKept CopyFinishes
\* Every job has been run and every bound used up: nothing is left to do.
CHECK_DEADLOCK FALSE
