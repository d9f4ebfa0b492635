SPECIFICATION Spec
CONSTANTS
  Keys = {1, 2}
  LateKeys = {2}
  MaxTime = 5
  NMonths = 2
  MonthOf <- MCMonthOf
  StartTime = 3
  Histories <- MCHistories
  InitialTypes = {"stock", "timescaledb", "clickhouse"}
  Offered = {"stock", "timescaledb", "clickhouse"}
  Engines = {"docker"}
  None = None
  MayFail = {"answer"}
  Killable = {}
  StartsAt = {}
  LateAnswer = TRUE
  MayRemove = {"spare", "source"}
  MaxVersion = 1
  MaxFaults = 1
  MaxKills = 1
  MaxJobs = 1
  MaxWrites = 2
INVARIANT NothingDeleted
CHECK_DEADLOCK FALSE
