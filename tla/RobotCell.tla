----------------------------- MODULE RobotCell -----------------------------
(***************************************************************************)
(* The robot service together with the cube in its stand.  Whenever a step *)
(* of a scan or execute plan ends, the cube is where that step has brought *)
(* it; a cube that is put in between two sessions starts afresh.  Nothing  *)
(* here restricts the service: each of its steps is a step of the cell.    *)
(***************************************************************************)
EXTENDS RobotService, Mechanics

VARIABLES
  cube,   \* the cube: what it shows each direction, and the turns done to it
  asked   \* the moves the running execution was asked for

cellVars == <<vars, cube, asked>>

\* Where the servos were when they last came to rest.
At(servos) == [a \in Axis |-> servos[a].current]

After(step) ==
  IF step.op = "grippers" THEN TurnedCube(cube, At(rails), At(grippers), step.to)
  ELSE IF Releasing THEN cube
  ELSE MovedRails(cube, At(rails), step.to)

\* The steps of the service in which the cube or the task changes.
StepEnds(job, later) == job.pending # NoStep /\ later.op = job.op /\ later.pending = NoStep
JobStarts(job, later) == job.op = NoId /\ later.op # NoId

CubeAfter ==
  CASE StepEnds(scanJob, scanJob')  -> After(scanJob.pending)
    [] StepEnds(execJob, execJob')  -> After(execJob.pending)
    [] JobStarts(execJob, execJob') -> [cube EXCEPT !.turns = <<>>]
    [] session' = NoId              -> NewCube
    [] OTHER                        -> cube

AskedAfter ==
  IF ~JobStarts(execJob, execJob') THEN (IF execJob'.op = NoId THEN <<>> ELSE asked)
  ELSE CASE execJob'.kind = "ExecuteMoves" ->
              CHOOSE m \in MoveSeqs : HeldSteps(m) = execJob'.plan
         [] execJob'.kind = "Open" -> <<>>
         [] OTHER -> solution'.moves

CellInit == Init /\ cube = NewCube /\ asked = <<>>
CellNext == Next /\ cube' = CubeAfter /\ asked' = AskedAfter

\* With the fairness of FairSpec.
CellSpec == /\ CellInit /\ [][CellNext]_cellVars
            /\ WF_vars(Tick) /\ WF_vars(SolverAnswers)

-----------------------------------------------------------------------------
\* Neither a scan nor an execution drops, twists or shears the cube before
\* it is let go of on purpose.
CubeStaysIntact == session # NoId /\ ~Releasing => cube.intact

\* Whole-cube rotations of scans and front or back turns are never exposed:
\* whenever a client may give a command, the face the operator chose as
\* Front faces the camera again.
FrontFacesCamera == controller = "Ready" /\ session # NoId => cube.sees = Canonical

\* The face a capture is filed under is the face the camera sees.
CapturesFaceItNames ==
  [][ scanJob.op # NoId /\ scanJob'.op = scanJob.op /\ scan'.faces # scan.faces
      => scan'.faces \ scan.faces = {cube.sees["Front"]} ]_cellVars

\* Reported progress is true: the turns done to the cube are the moves asked
\* for, in their order, and a move is counted after it was done and before
\* the next one is begun; a manual sequence that is about to report success
\* has turned the cube by exactly the moves asked for.
ProgressIsTrue ==
  /\ solution.state = "Executing" =>
       /\ IsPrefix(cube.turns, solution.moves)
       /\ Len(cube.turns) - solution.completed \in {0, 1}
  /\ execJob.kind = "ExecuteMoves" =>
       /\ IsPrefix(cube.turns, asked)
       /\ execJob.plan = <<>> /\ execJob.pending = NoStep => cube.turns = asked
=============================================================================
