---------------------------- MODULE PlanCourses ----------------------------
(***************************************************************************)
(* The course of a plan: where the stand rests after each of its steps     *)
(* when it is started from canonical grip.  The service takes it on trust  *)
(* that the planner's plans keep hold of the cube; this module says what   *)
(* that means, step by step, and names the assumption.  The planner itself *)
(* is put on the stand, for sequences of any length, in PlannerBench.      *)
(***************************************************************************)
EXTENDS RobotService

\* A stand at rest: where its rails and grippers are, whether the grippers
\* are driven, and how many moves have been completed.
Rest == [rails : [Axis -> RailPosition], grippers : [Axis -> Orientation],
         on : BOOLEAN, done : Nat]

CanonicalRest == [rails    |-> [a \in Axis |-> "Grip"],
                  grippers |-> [a \in Axis |-> "Perpendicular"],
                  on       |-> TRUE,
                  done     |-> 0]

PutTo(at, to) == [a \in Axis |-> IF a \in DOMAIN to THEN to[a] ELSE at[a]]

AfterStep(rest, step) ==
  CASE step.op = "rails"    -> [rest EXCEPT !.rails = PutTo(@, step.to)]
    [] step.op = "grippers" -> [rest EXCEPT !.grippers = PutTo(@, step.to)]
    [] step.op = "moved"    -> [rest EXCEPT !.done = @ + 1]
    [] step.op = "off"      -> [rest EXCEPT !.on = FALSE]
    [] OTHER                -> rest

Course(plan) ==
  LET c[i \in 0 .. Len(plan)] ==
        IF i = 0 THEN CanonicalRest ELSE AfterStep(c[i - 1], plan[i])
  IN c

-----------------------------------------------------------------------------
(* The servos of a stand at rest, and while it carries out a step.         *)

SettledAt(positions) == [a \in Axis |-> Settled(positions[a])]

RailsDuring(rest, step) ==
  IF step.op = "rails" THEN Sent(SettledAt(rest.rails), step.to) ELSE SettledAt(rest.rails)
GrippersDuring(rest, step) ==
  IF step.op = "grippers" THEN Sent(SettledAt(rest.grippers), step.to) ELSE SettledAt(rest.grippers)

\* No two neighbouring grippers meet.
Apart(rest) == NoCollision(SettledAt(rest.rails), SettledAt(rest.grippers))
ApartDuring(rest, step) == NoCollision(RailsDuring(rest, step), GrippersDuring(rest, step))

\* The cube is held between two grippers that keep their orientation.
HeldAt(rest) == rest.on /\ Held(SettledAt(rest.rails))
HeldDuring(rest, step) == Held(RailsDuring(rest, step))

-----------------------------------------------------------------------------
\* c is the course of the plan, from canonical grip, and no two grippers
\* meet on it; what moves is driven.
Follows(c, plan) ==
  /\ c \in [0 .. Len(plan) -> Rest]
  /\ c[0] = CanonicalRest
  /\ \A i \in 1 .. Len(plan) : c[i] = AfterStep(c[i - 1], plan[i])

NoneMeet(c, plan) ==
  /\ \A i \in 0 .. Len(plan) : Apart(c[i])
  /\ \A i \in 1 .. Len(plan) : ApartDuring(c[i - 1], plan[i])

\* The cube is held until n moves have been completed, and all the time.
HoldsUntil(c, plan, n) ==
  /\ \A i \in 0 .. Len(plan) : c[i].done # n => HeldAt(c[i])
  /\ \A i \in 1 .. Len(plan) : c[i - 1].done # n => HeldDuring(c[i - 1], plan[i])

AlwaysHolds(c, plan) ==
  /\ \A i \in 0 .. Len(plan) : HeldAt(c[i])
  /\ \A i \in 1 .. Len(plan) : HeldDuring(c[i - 1], plan[i])

EndsCanonical(c, plan) == /\ c[Len(plan)].rails = CanonicalRest.rails
                          /\ c[Len(plan)].grippers = CanonicalRest.grippers

\* What the service takes for granted of the planner beyond PlanAssumption: a
\* held plan never lets go of the cube and ends in canonical grip, a plan that
\* is followed by opening the stand holds it until the last of its moves and
\* leaves every rail in, and in neither can two neighbouring grippers meet.
ASSUME CourseAssumption ==
  \A m \in MoveSeqs :
    /\ LET c == Course(HeldSteps(m)) IN
         /\ Follows(c, HeldSteps(m))
         /\ NoneMeet(c, HeldSteps(m))
         /\ AlwaysHolds(c, HeldSteps(m))
         /\ EndsCanonical(c, HeldSteps(m))
    /\ LET c == Course(ReleaseSteps(m)) IN
         /\ Follows(c, ReleaseSteps(m))
         /\ NoneMeet(c, ReleaseSteps(m))
         /\ HoldsUntil(c, ReleaseSteps(m), Len(m))
         /\ \A i \in 0 .. Len(ReleaseSteps(m)) : c[i].on
         /\ c[Len(ReleaseSteps(m))].done = Len(m)
         /\ c[Len(ReleaseSteps(m))].rails = CanonicalRest.rails

-----------------------------------------------------------------------------
(***************************************************************************)
(* Where a running plan has got to.                                        *)
(***************************************************************************)

Rests(rest) ==
  /\ rails = SettledAt(rest.rails) /\ grippers = SettledAt(rest.grippers)
  /\ energised = IF rest.on THEN Grippers(Axis) ELSE {}
  /\ outputsOn = rest.on

CarriesOut(rest, step) ==
  /\ rest.on /\ outputsOn
  /\ rails = RailsDuring(rest, step) /\ grippers = GrippersDuring(rest, step)
  /\ energised = Grippers(Axis) \cup StepChannels(step)

\* The first k steps of the plan are issued and `left` is the rest of it;
\* the step issued last is under way, or the stand is at rest.
Left(plan, k, left) ==
  /\ k \in 0 .. Len(plan)
  /\ Len(left) = Len(plan) - k
  /\ \A i \in 1 .. Len(left) : left[i] = plan[k + i]

UnderWay(c, plan, k, step) == /\ k > 0 /\ step = plan[k] /\ IsMotion(step)
                              /\ CarriesOut(c[k - 1], step)

OnCourse(c, plan, k, pending) ==
  IF pending = NoStep THEN Rests(c[k]) ELSE UnderWay(c, plan, k, pending)

\* A plan that ends with the cube held, one that lets go of it after n moves.
KeepsCube(c, plan) ==
  /\ plan \in Seq(Step)
  /\ Follows(c, plan)    /\ NoneMeet(c, plan)
  /\ AlwaysHolds(c, plan) /\ EndsCanonical(c, plan)

AllOpen(rest) == ~rest.on /\ \A a \in Axis : rest.rails[a] = "Open"

LetsGo(c, plan, n) ==
  /\ plan \in Seq(Step)
  /\ Follows(c, plan)      /\ NoneMeet(c, plan)
  /\ HoldsUntil(c, plan, n)
  /\ \A i \in 1 .. Len(plan) : IsMotion(plan[i]) => c[i - 1].on
  /\ c[Len(plan)].done = n /\ AllOpen(c[Len(plan)])
=============================================================================
