SPECIFICATION Spec
CONSTANTS
  Plans <- MCPlans
  Values = {0, 1, 2}
  Unfit = {2}
  None = None
  MayFail <- MCMayFail
  MayTear <- MCMayTear
  MayDie <- MCMayDie
  MaxSetups = 2
  MaxChanges = 4
  MaxFaults = 1
INVARIANTS SetupAgainFinishes KeptSurvives SecretsWork SettingsTogether
\* Every setup and every change has been made: nothing is left to do.
CHECK_DEADLOCK FALSE
