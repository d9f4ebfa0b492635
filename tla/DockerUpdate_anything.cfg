SPECIFICATION Spec
CONSTANTS
  Versions = {1, 2}
  Installed = 1
  Refs = {latest, numbered}
  FirstRef = latest
  Partial = Partial
  None = None
  MayFail <- MCAnywhere
  Operator = {"load"}
  MaxFaults = 1
  MaxCrashes = 1
  MaxJobs = 2
  MaxMinute = 1
  MaxWrites = 1
  SameMinute = TRUE
  Meddles = {"remove"}
INVARIANT WritesKept
\* Every job has been run and every bound used up: nothing is left to do.
CHECK_DEADLOCK FALSE
