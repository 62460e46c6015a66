------------------------------- MODULE Stand -------------------------------
(***************************************************************************)
(* The eight-servo stand: four axes, each with a rail that brings a        *)
(* gripper to the cube and a gripper that turns, and the steps a motion    *)
(* plan is made of.  The module only holds data: the wiring, the steps and *)
(* the two mechanical rules every plan has to respect.                     *)
(***************************************************************************)
EXTENDS Integers, FiniteSets, Sequences

Axis == {"Left", "Right", "Top", "Bottom"}

LeftRight == {"Left", "Right"}
TopBottom == {"Top", "Bottom"}

\* The pair of axes an axis belongs to, and the other pair.
PairOf(a)    == IF a \in LeftRight THEN LeftRight ELSE TopBottom
OtherPair(A) == Axis \ A

\* FarOpen and NearGrip of the code, under their protocol names.
RailPosition == {"Open", "Grip"}

\* FrameParallel, FramePerpendicular and FrameParallelReversed.
Orientation == {"Parallel", "Perpendicular", "Reversed"}

\* A gripper in one of these lies in the plane of its neighbours.
FrameParallel == {"Parallel", "Reversed"}

CubeFace == {"Up", "Right", "Front", "Down", "Left", "Back"}

-----------------------------------------------------------------------------
(* The PCA9685 channels of the eight servos.                               *)

Channel == {"gripper", "rail"} \X Axis

Grippers(A) == {"gripper"} \X A
Rails(A)    == {"rail"} \X A

\* The channels in the order of their numbers, from channel 0.
ChannelOrder ==
  << <<"gripper", "Right">>, <<"gripper", "Bottom">>, <<"gripper", "Top">>,
     <<"gripper", "Left">>,  <<"rail", "Top">>,       <<"rail", "Left">>,
     <<"rail", "Bottom">>,   <<"rail", "Right">> >>

-----------------------------------------------------------------------------
(* Plan steps.  A motion step carries the targets of the axes it moves.    *)

Targets(V) == UNION {[A -> V] : A \in SUBSET Axis}

RailStep    == [op : {"rails"}, to : Targets(RailPosition)]
GripperStep == [op : {"grippers"}, to : Targets(Orientation)]
CaptureStep == [op : {"capture"}, face : CubeFace]
MarkerStep  == [op : {"moved", "off"}]

MotionStep == RailStep \cup GripperStep
Step       == MotionStep \cup CaptureStep \cup MarkerStep

IsMotion(s) == s.op \in {"rails", "grippers"}

MoveRails(A, position) == [op |-> "rails", to |-> [a \in A |-> position]]
Turn(to)               == [op |-> "grippers", to |-> to]
TurnAll(A, o)          == Turn([a \in A |-> o])
Capture(face)          == [op |-> "capture", face |-> face]
MoveCompleted          == [op |-> "moved"]
AllOff                 == [op |-> "off"]

\* Mutant of TopBottomTurn: the two grippers confused.
TurnConfused(top, bottom) ==
  Turn([a \in TopBottom |-> IF a = "Bottom" THEN top ELSE bottom])

\* Top turned one way and bottom the other: the whole cube rotates.
TopBottomTurn(top, bottom) ==
  Turn([a \in TopBottom |-> IF a = "Top" THEN top ELSE bottom])
LeftRightTurn(left, right) ==
  Turn([a \in LeftRight |-> IF a = "Left" THEN left ELSE right])

\* append_open_steps: how every plan that lets go of the cube ends.
OpenSteps == << MoveRails(LeftRight, "Open"), MoveRails(TopBottom, "Open"), AllOff >>

-----------------------------------------------------------------------------
(***************************************************************************)
(* The commanded state of a servo, as the status snapshot reports it, and  *)
(* the two rules of docs/planner-optimization.md on it.                    *)
(***************************************************************************)
None == "None"

ServoState(V) == [motion  : {"Unknown", "Stable", "Moving"},
                  current : V \cup {None},
                  target  : V \cup {None}]

UnknownServo == [motion |-> "Unknown", current |-> None, target |-> None]
Settled(v)   == [motion |-> "Stable", current |-> v, target |-> None]

\* The servos commanded towards their targets, and arrived there.
Sent(servos, to) ==
  [a \in Axis |-> IF a \in DOMAIN to
                  THEN [servos[a] EXCEPT !.motion = "Moving", !.target = to[a]]
                  ELSE servos[a]]
Arrived(servos, to) ==
  [a \in Axis |-> IF a \in DOMAIN to THEN Settled(to[a]) ELSE servos[a]]

\* An opposite pair holds the cube between its two grippers.
Holds(rails, A) == \A a \in A : rails[a] = Settled("Grip")
Held(rails)     == Holds(rails, LeftRight) \/ Holds(rails, TopBottom)

\* Where a servo may be: at rest, or anywhere between two endpoints.
MayBe(servo, V) == servo.motion = "Unknown" \/ {servo.current, servo.target} \cap V # {}

\* A rail that is not known to stand at its open end may be in: one on its
\* way counts as in wherever it comes from and goes to.
MayBeIn(rail) == rail.motion # "Stable" \/ rail.current = "Grip"

\* Two neighbouring grippers collide when both are folded into the frame
\* plane while both rails are in.
Collides(rails, grippers, a, b) ==
  /\ MayBeIn(rails[a]) /\ MayBeIn(rails[b])
  /\ MayBe(grippers[a], FrameParallel) /\ MayBe(grippers[b], FrameParallel)

NoCollision(rails, grippers) ==
  \A a \in LeftRight, b \in TopBottom : ~Collides(rails, grippers, a, b)
=============================================================================
