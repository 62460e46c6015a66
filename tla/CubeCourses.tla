---------------------------- MODULE CubeCourses ----------------------------
(***************************************************************************)
(* The cube along the course of a plan: what each step of it does to a     *)
(* cube that is put in in canonical orientation.  The service takes it on  *)
(* trust that the planner's plans turn the cube as they were asked to;     *)
(* this module says what that means, step by step, and names the           *)
(* assumption.  PlannerBench checks the planner itself for sequences of    *)
(* any length.                                                             *)
(***************************************************************************)
EXTENDS PlanCourses, Mechanics

FaceTurns == [face : CubeFace, turn : {"CW", "Half", "CCW"}]

Cube == [sees : [CubeFace -> CubeFace], turns : Seq(FaceTurns), intact : BOOLEAN]

\* One step, from a stand at rest.  Rails that move once the cube has been
\* let go of on purpose leave it where it is put down.
CubeAfterStep(before, rest, step, letGo) ==
  CASE step.op = "grippers"         -> TurnedCube(before, rest.rails, rest.grippers, step.to)
    [] step.op = "rails" /\ ~letGo  -> MovedRails(before, rest.rails, step.to)
    [] OTHER                        -> before

\* A plan lets go of the cube after n moves; a held plan never does.
Never == -1

CubeCourse(c, plan, n) ==
  LET d[i \in 0 .. Len(plan)] ==
        IF i = 0 THEN NewCube
                 ELSE CubeAfterStep(d[i - 1], c[i - 1], plan[i], c[i - 1].done = n)
  IN d

-----------------------------------------------------------------------------
\* d is what becomes of the cube on the course c of the plan.
CubeFollows(d, c, plan, n) ==
  /\ d \in [0 .. Len(plan) -> Cube]
  /\ d[0] = NewCube
  /\ \A i \in 1 .. Len(plan) :
       d[i] = CubeAfterStep(d[i - 1], c[i - 1], plan[i], c[i - 1].done = n)

\* A plan that does the moves m with the cube held comes back to canonical
\* orientation; one that lets go of it afterwards counts each move after it
\* was done and before the next one is begun.
DoesHeld(d, plan, m) ==
  /\ \A i \in 0 .. Len(plan) : d[i].intact /\ IsPrefix(d[i].turns, m)
  /\ d[Len(plan)].sees = Canonical
  /\ d[Len(plan)].turns = m

DoesAndCounts(d, c, plan, m) ==
  \A i \in 0 .. Len(plan) :
    /\ c[i].done # Len(m) => d[i].intact
    /\ IsPrefix(d[i].turns, m)
    /\ Len(d[i].turns) - c[i].done \in {0, 1}

\* What the service takes for granted of the planner beyond CourseAssumption:
\* its plans do the moves they were made for, in their order and no others,
\* and never drop, twist or shear the cube.
ASSUME CubeAssumption ==
  \A m \in MoveSeqs :
    /\ LET plan == HeldSteps(m)
           c == Course(plan)
           d == CubeCourse(c, plan, Never)
       IN CubeFollows(d, c, plan, Never) /\ DoesHeld(d, plan, m)
    /\ LET plan == ReleaseSteps(m)
           c == Course(plan)
           d == CubeCourse(c, plan, Len(m))
       IN CubeFollows(d, c, plan, Len(m)) /\ DoesAndCounts(d, c, plan, m)
=============================================================================
