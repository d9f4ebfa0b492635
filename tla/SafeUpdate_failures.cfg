SPECIFICATION Spec
CONSTANTS
  Versions = {v1, v2}
  Installed = v1
  Newer = {v2}
  NItems = 2
  Ships <- MCShipsAll
  Absent = Absent
  Partial = Partial
  None = None
  MayFail <- MCAnywhere
  MaxFaults = 1
  MaxCrashes = 1
  MaxJobs = 2
  MaxMinute = 1
  MaxWrites = 1
  SameMinute = TRUE
  Meddles = {"start", "remove"}
INVARIANTS SnapshotHeld WritesKept
PROPERTY ImplementsVault
\* Every job has been run and every bound used up: nothing is left to do.
CHECK_DEADLOCK FALSE
