CONSTANTS
  MaxId = 1
  MoveSeqs <- MCMoveSeqs
  HeldSteps <- MCHeldSteps
  ReleaseSteps <- MCReleaseSteps
SPECIFICATION CellSpec
INVARIANTS
  CubeStaysIntact
  FrontFacesCamera
  ProgressIsTrue
PROPERTIES
  CapturesFaceItNames
  EveryOperationEnds
