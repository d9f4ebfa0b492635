SPECIFICATION Spec
CONSTANTS
  Flavors = {"stock", "timescaledb", "clickhouse"}
  Time = {1, 2, 3}
  MonthOf <- MCMonthOf
  Since = 3
  Offered <- MCOffered
  None = None
  MayFail <- MCAnywhere
  MonthAt <- MCMonthAt
  MergeAt <- MCMergeAt
  MaxWrites = 2
  MaxBackups = 1
  MaxRestores = 1
  MaxFaults = 1
  MaxDamage = 1
INVARIANTS SelectedRestored ReportsHaveFiles Restorable OnlyWholeRestored
\* Every job has been run and every bound used up: nothing is left to do.
CHECK_DEADLOCK FALSE
