CONSTANTS
  MaxId = 1
  MoveSeqs <- MCMoveSeqs
  HeldSteps <- MCHeldSteps
  ReleaseSteps <- MCReleaseSteps
  Prompt = TRUE
SPECIFICATION SimSpec
INVARIANTS
  TurnsAreShown
  PoseIsShown
  NoStandAlarm
