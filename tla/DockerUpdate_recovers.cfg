SPECIFICATION Spec
CONSTANTS
  Versions = {1, 2}
  Installed = 1
  Refs = {latest}
  FirstRef = latest
  Partial = Partial
  None = None
  MayFail <- MCRecoverable
  Operator = {"start", "stop", "reconfigure", "remove"}
  MaxFaults = 1
  MaxCrashes = 0
  MaxJobs = 3
  MaxMinute = 3
  MaxWrites = 1
  SameMinute = FALSE
  Meddles = {"start"}
INVARIANTS FailedUpdateUndone FailedRollbackUndone RollbackPointCoherent
PROPERTY ImplementsVault
\* Every job has been run and every bound used up: nothing is left to do.
CHECK_DEADLOCK FALSE
