SPECIFICATION FairSpec
CONSTANTS
  Versions = {v1, v2, v3}
  Installed = v1
  Newer = {v2, v3}
  NItems = 2
  Ships <- MCShipsMore
  Absent = Absent
  Partial = Partial
  None = None
  MayFail <- MCRestartable
  MaxFaults = 1
  MaxCrashes = 0
  MaxJobs = 3
  MaxMinute = 3
  MaxWrites = 1
  SameMinute = FALSE
  Meddles = {"start"}
INVARIANTS FailedUpdateUndone FailedRollbackUndone RollbackPointCoherent
PROPERTY EndsRunning
\* Every job has been run and every bound used up: nothing is left to do.
CHECK_DEADLOCK FALSE
