CONSTANTS
  MaxId = 2
  MoveSeqs <- MCMoveSeqs
  HeldSteps <- MCHeldSteps
  ReleaseSteps <- MCReleaseSteps
SPECIFICATION ClientSpec
INVARIANTS
  TypeOK
  OneOperation
  ResultsBelongToSession
  Custody
  ReplicaIsTrue
PROPERTIES
  EveryOperationEndsOnce
  OnlyRecoveryLeavesSafeState
  ExecutionCompletesWhole
  KeepsContract
