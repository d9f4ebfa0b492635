SPECIFICATION Spec
CONSTANTS
  Plans <- MCPlans
  GivenSuper = {0, 1, 2}
  NewSuper = 3
  None = None
  MayFail <- MCMayFail
  TearAt <- MCTearAt
  LateResume = FALSE
  MaxSetups = 2
  MaxChanges = 2
  MaxFaults = 1
INVARIANTS SetupAgainFinishes KeptSurvives CredentialsAgree InstalledAsChosen
\* Every setup and every change has been made: nothing is left to do.
CHECK_DEADLOCK FALSE
