SPECIFICATION ManagerSpec
CONSTANTS
  First <- MCFirst
  Engines = {"linux", "docker"}
  Versions = {1, 2}
  Values = {1, 2}
  Types = {"stock", "clickhouse"}
  Names = {"restored"}
  JobKinds <- AllKinds
  MaxJobs = 3
  MaxQuits = 1
  Nil = Nil
INVARIANTS RecordTrue OfferedIsWhole
\* Every job has been run and every screen opened: nothing is left to do.
CHECK_DEADLOCK FALSE
