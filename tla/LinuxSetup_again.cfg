SPECIFICATION Spec
CONSTANTS
  Plans <- MCPlans
  Values <- MCValues
  Unfit = {2}
  UnfitPg = {}
  None = None
  MayFail <- MCMayFail
  MayTear <- MCMayTear
  MayDie <- MCMayDie
  MaxSetups = 2
  MaxChanges = 4
  MaxFaults = 1
INVARIANTS SetupAgainFinishes KeptSurvives CredentialsAgree SettingsTogether
\* Every setup and every change has been made: nothing is left to do.
CHECK_DEADLOCK FALSE
