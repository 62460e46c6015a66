CONSTANTS
  MaxId = 2
  MoveSeqs <- MCMoveSeqs
  HeldSteps <- MCHeldSteps
  ReleaseSteps <- MCReleaseSteps
SPECIFICATION DaemonSpec
INVARIANTS
  PressIsAdmitted
PROPERTIES
  ScansOwnCube
  MovesOnlyWhenPressed
  NoMotionOutOfFault
VIEW Distinguished
