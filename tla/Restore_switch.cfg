SPECIFICATION Spec
CONSTANTS
  Installations <- MCInstallations
  Targets <- MCTargets
  k0 = k0
  k1 = k1
  k2 = k2
  FirstKey = k0
  Keys = {k0, k1, k2}
  Backups <- MCBackups
  Partial = Partial
  None = None
  MayFail <- MCNoTransient
  MayRefuse = {"ts_kv", "ts_kv_latest_agg"}
  MaxFaults = 1
  MaxCrashes = 1
  MaxJobs = 3
  MaxMinute = 1
  MaxWrites = 1
INVARIANTS DataKept MatchedInService KeysKept
PROPERTY FailedSwitchUndone
\* Every job has been run and every bound used up: nothing is left to do.
CHECK_DEADLOCK FALSE
