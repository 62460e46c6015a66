------------------------- MODULE RobotCustodyProofs -------------------------
(***************************************************************************)
(* Custody of the cube: for every planner whose plans keep to their        *)
(* courses (PlanCourses), every set of move sequences and every width of   *)
(* the ids, a cube is held from grip to release, no two grippers meet, and *)
(* an execution that reports success has done all of its work.             *)
(***************************************************************************)
EXTENDS RobotContractProofs, PlanCourses

-----------------------------------------------------------------------------
(***************************************************************************)
(* The stand.                                                              *)
(***************************************************************************)

LEMMA AxisPairs ==
  /\ Axis = {"Left", "Right", "Top", "Bottom"} /\ Axis = LeftRight \cup TopBottom
  /\ LeftRight = {"Left", "Right"} /\ TopBottom = {"Top", "Bottom"}
  BY DEF Axis, LeftRight, TopBottom

LEMMA SettledIs ==
  /\ \A p : \A a \in Axis : SettledAt(p)[a] = Settled(p[a])
  /\ \A v : /\ Settled(v).motion = "Stable" /\ Settled(v).current = v
            /\ Settled(v).target = None
  /\ \A v, w : Settled(v) = Settled(w) => v = w
<1>1. \A v : Settled(v).current = v /\ Settled(v).motion = "Stable" /\ Settled(v).target = None
  BY DEF Settled
<1>2. \A v, w : Settled(v) = Settled(w) => v = w
  BY <1>1
<1> QED
  BY <1>1, <1>2 DEF SettledAt

\* A servo that is sent off moves between its two endpoints.
LEMMA SentIs ==
  ASSUME NEW p, NEW to, NEW a \in Axis
  PROVE  /\ a \in DOMAIN to => /\ Sent(SettledAt(p), to)[a].motion = "Moving"
                               /\ Sent(SettledAt(p), to)[a].current = p[a]
                               /\ Sent(SettledAt(p), to)[a].target = to[a]
         /\ a \notin DOMAIN to => Sent(SettledAt(p), to)[a] = Settled(p[a])
<1> DEFINE servo == Settled(p[a])
           sent  == [servo EXCEPT !.motion = "Moving", !.target = to[a]]
<1>1. DOMAIN servo = {"motion", "current", "target"}
  BY DEF Settled
<1>2. sent.motion = "Moving" /\ sent.current = servo.current /\ sent.target = to[a]
  BY <1>1
<1>3. servo.current = p[a]
  BY SettledIs
<1> HIDE DEF servo
<1>4. SettledAt(p)[a] = servo
  BY SettledIs DEF servo
<1> QED
  BY <1>2, <1>3, <1>4, SettledIs DEF Sent, servo

LEMMA ArrivedIs ==
  ASSUME NEW p, NEW to
  PROVE  Arrived(Sent(SettledAt(p), to), to) = SettledAt(PutTo(p, to))
<1>1. ASSUME NEW a \in Axis
      PROVE  Arrived(Sent(SettledAt(p), to), to)[a] = SettledAt(PutTo(p, to))[a]
  <2>1. SettledAt(PutTo(p, to))[a] = Settled(PutTo(p, to)[a])
    BY SettledIs
  <2>2. CASE a \in DOMAIN to
    <3>1. PutTo(p, to)[a] = to[a] /\ Arrived(Sent(SettledAt(p), to), to)[a] = Settled(to[a])
      BY <2>2 DEF PutTo, Arrived
    <3> QED
      BY <2>1, <3>1
  <2>3. CASE a \notin DOMAIN to
    <3>1. PutTo(p, to)[a] = p[a]
      BY <2>3 DEF PutTo
    <3>2. Arrived(Sent(SettledAt(p), to), to)[a] = Settled(p[a])
      BY <2>3, SentIs DEF Arrived
    <3> QED
      BY <2>1, <3>1, <3>2
  <2> QED
    BY <2>2, <2>3
<1> QED
  BY <1>1 DEF Arrived, SettledAt

\* Where a servo may be, at rest and on its way.
LEMMA MayBeIs ==
  /\ \A v, V : None \notin V => (MayBe(Settled(v), V) <=> v \in V)
  /\ \A v, w, V : MayBe([motion |-> "Moving", current |-> v, target |-> w], V) <=> v \in V \/ w \in V
  BY DEF MayBe, Settled

\* A settled rail is in where it stands, and one on its way always counts.
LEMMA MayBeInIs ==
  /\ \A v : MayBeIn(Settled(v)) <=> v = "Grip"
  /\ \A rail : rail.motion = "Moving" => MayBeIn(rail)
<1>1. \A v : Settled(v).motion = "Stable" /\ Settled(v).current = v
  BY SettledIs
<1> QED
  BY <1>1 DEF MayBeIn

-----------------------------------------------------------------------------
(***************************************************************************)
(* One step of a plan, issued and finished.                                *)
(***************************************************************************)

LEMMA StepKinds ==
  ASSUME NEW s \in Step
  PROVE  /\ s.op \in {"rails", "grippers", "capture", "moved", "off"}
         /\ IsMotion(s) <=> s \in MotionStep
         /\ s # NoStep
  BY StepTypes, MotionStepKinds
  DEF Step, MotionStep, RailStep, GripperStep, CaptureStep, MarkerStep, IsMotion, NoStep

LEMMA AfterStepIs ==
  ASSUME NEW rest \in Rest, NEW s
  PROVE  /\ s.op = "rails" => /\ AfterStep(rest, s).rails = PutTo(rest.rails, s.to)
                              /\ AfterStep(rest, s).grippers = rest.grippers
         /\ s.op = "grippers" => /\ AfterStep(rest, s).rails = rest.rails
                                 /\ AfterStep(rest, s).grippers = PutTo(rest.grippers, s.to)
         /\ s.op \notin {"rails", "grippers"} => /\ AfterStep(rest, s).rails = rest.rails
                                                 /\ AfterStep(rest, s).grippers = rest.grippers
         /\ AfterStep(rest, s).done = IF s.op = "moved" THEN rest.done + 1 ELSE rest.done
         /\ AfterStep(rest, s).on = IF s.op = "off" THEN FALSE ELSE rest.on
<1>1. CASE s.op = "rails"
  BY <1>1 DEF AfterStep, Rest
<1>2. CASE s.op = "grippers"
  BY <1>2 DEF AfterStep, Rest
<1>3. CASE s.op = "moved"
  BY <1>3 DEF AfterStep, Rest
<1>4. CASE s.op = "off"
  BY <1>4 DEF AfterStep, Rest
<1>5. CASE s.op \notin {"rails", "grippers", "moved", "off"}
  BY <1>5 DEF AfterStep, Rest
<1> QED
  BY <1>1, <1>2, <1>3, <1>4, <1>5

LEMMA DoneAfter ==
  \A rest \in Rest : \A s :
    AfterStep(rest, s).done = IF s.op = "moved" THEN rest.done + 1 ELSE rest.done
  BY AfterStepIs

LEMMA RailsAfter ==
  \A rest \in Rest : \A s : s.op = "rails" => AfterStep(rest, s).rails = PutTo(rest.rails, s.to)
  BY AfterStepIs

LEMMA OffKeepsPlace ==
  \A rest \in Rest : \A s : s.op = "off" => /\ AfterStep(rest, s).rails = rest.rails
                                          /\ AfterStep(rest, s).grippers = rest.grippers
  BY AfterStepIs

LEMMA OnAfter ==
  \A rest \in Rest : \A s :
    AfterStep(rest, s).on = IF s.op = "off" THEN FALSE ELSE rest.on
  BY AfterStepIs

LEMMA OpeningAfter ==
  \A rest \in Rest : \A s :
    /\ s.op \in {"rails", "off"} => AfterStep(rest, s).done = rest.done
    /\ s.op = "off" => AfterStep(rest, s).on = FALSE
<1>1. "rails" # "moved" /\ "off" # "moved"
  OBVIOUS
<1> QED
  BY <1>1, DoneAfter, OnAfter

LEMMA IssueCarriesOut ==
  ASSUME NEW rest \in Rest, NEW s, IsMotion(s), rest.on, Rests(rest), IssueStep(s)
  PROVE  CarriesOut(rest, s)'
<1>1. energised' = Grippers(Axis) \cup StepChannels(s) /\ outputsOn'
  BY DEF IssueStep, Drive, Rests
<1>2. CASE s.op = "rails"
  BY <1>1, <1>2 DEF IssueStep, Rests, CarriesOut, RailsDuring, GrippersDuring
<1>3. CASE s.op = "grippers"
  BY <1>1, <1>3 DEF IssueStep, Rests, CarriesOut, RailsDuring, GrippersDuring
<1> QED
  BY <1>2, <1>3 DEF IsMotion

LEMMA FinishRests ==
  ASSUME NEW rest \in Rest, NEW s \in MotionStep, CarriesOut(rest, s), FinishStep(s),
         outputsOn' = outputsOn
  PROVE  Rests(AfterStep(rest, s))'
<1>1. AfterStep(rest, s).on = rest.on /\ rest.on /\ outputsOn'
  BY AfterStepIs, MotionStepKinds DEF CarriesOut
<1>2. /\ Arrived(Sent(SettledAt(rest.rails), s.to), s.to) = SettledAt(PutTo(rest.rails, s.to))
      /\ Arrived(Sent(SettledAt(rest.grippers), s.to), s.to) = SettledAt(PutTo(rest.grippers, s.to))
  BY ArrivedIs
<1>3. CASE s.op = "rails"
  <2>1. energised' = Grippers(Axis)
    BY <1>3 DEF FinishStep, CarriesOut, StepChannels, Grippers, Rails
  <2>2. /\ rails = Sent(SettledAt(rest.rails), s.to)
        /\ grippers = SettledAt(rest.grippers)
    BY <1>3 DEF CarriesOut, RailsDuring, GrippersDuring
  <2>3. rails' = SettledAt(PutTo(rest.rails, s.to)) /\ grippers' = SettledAt(rest.grippers)
    BY <1>2, <1>3, <2>2 DEF FinishStep
  <2> QED
    BY <1>1, <1>3, <2>1, <2>3, AfterStepIs DEF Rests
<1>4. CASE s.op = "grippers"
  <2>1. energised' = Grippers(Axis)
    <3>1. DOMAIN s.to \subseteq Axis
      BY <1>4, MotionStepKinds DEF Targets
    <3> QED
      BY <1>4, <3>1 DEF FinishStep, CarriesOut, StepChannels, Grippers
  <2>2. /\ rails = SettledAt(rest.rails)
        /\ grippers = Sent(SettledAt(rest.grippers), s.to)
    BY <1>4 DEF CarriesOut, RailsDuring, GrippersDuring
  <2>3. rails' = SettledAt(rest.rails) /\ grippers' = SettledAt(PutTo(rest.grippers, s.to))
    BY <1>2, <1>4, <2>2 DEF FinishStep
  <2> QED
    BY <1>1, <1>4, <2>1, <2>3, AfterStepIs DEF Rests
<1> QED
  BY <1>3, <1>4, MotionStepKinds

\* A step that moves nothing leaves the stand at rest.
LEMMA MarkerRests ==
  ASSUME NEW rest \in Rest, NEW s, s.op \in {"capture", "moved"}, Rests(rest),
         UNCHANGED <<rails, grippers, energised, outputsOn>>
  PROVE  Rests(AfterStep(rest, s))'
  BY AfterStepIs DEF Rests

LEMMA OffRests ==
  ASSUME NEW rest \in Rest, NEW s, s.op = "off", Rests(rest),
         UNCHANGED <<rails, grippers>>, energised' = {}, outputsOn' = FALSE
  PROVE  Rests(AfterStep(rest, s))'
<1>1. /\ AfterStep(rest, s).on = FALSE /\ AfterStep(rest, s).rails = rest.rails
      /\ AfterStep(rest, s).grippers = rest.grippers
  BY AfterStepIs
<1> QED
  BY <1>1 DEF Rests

-----------------------------------------------------------------------------
(***************************************************************************)
(* One step along a plan.                                                  *)
(***************************************************************************)

LEMMA PlanAdvances ==
  ASSUME NEW plan \in Seq(Step), NEW k, NEW left \in Seq(Step), Left(plan, k, left), left # <<>>
  PROVE  /\ k \in Nat /\ k + 1 \in 1 .. Len(plan) /\ k \in 0 .. Len(plan)
         /\ Head(left) = plan[k + 1] /\ plan[k + 1] \in Step
         /\ Left(plan, k + 1, Tail(left)) /\ Len(Tail(left)) = Len(left) - 1
<1>1. /\ k \in 0 .. Len(plan) /\ Len(plan) \in Nat /\ Len(left) \in Nat
      /\ Len(left) = Len(plan) - k /\ Len(left) > 0
  BY EmptySeq DEF Left
<1>2. Head(left) = plan[k + 1] /\ k + 1 \in 1 .. Len(plan)
  BY <1>1 DEF Left
<1>3. /\ Tail(left) \in Seq(Step) /\ Len(Tail(left)) = Len(left) - 1
      /\ \A i \in 1 .. Len(left) - 1 : Tail(left)[i] = left[i + 1]
  BY <1>1
<1>4. \A i \in 1 .. Len(left) - 1 : left[i + 1] = plan[k + 1 + i]
  BY <1>1 DEF Left
<1>5. Left(plan, k + 1, Tail(left))
  BY <1>1, <1>2, <1>3, <1>4 DEF Left
<1> QED
  BY <1>1, <1>2, <1>3, <1>5

LEMMA PlanStarts ==
  ASSUME NEW plan \in Seq(Step) PROVE Left(plan, 0, plan)
<1>1. Len(plan) \in Nat
  OBVIOUS
<1> QED
  BY <1>1 DEF Left

LEMMA PlanEnds ==
  ASSUME NEW plan \in Seq(Step), NEW k, Left(plan, k, <<>>) PROVE k = Len(plan)
<1>1. Len(plan) \in Nat /\ Len(<<>>) = 0
  OBVIOUS
<1> QED
  BY <1>1 DEF Left

LEMMA CourseTypes ==
  ASSUME NEW c, NEW plan \in Seq(Step), Follows(c, plan)
  PROVE  /\ \A i \in 0 .. Len(plan) : c[i] \in Rest
         /\ \A i \in 1 .. Len(plan) : i - 1 \in 0 .. Len(plan) /\ c[i] = AfterStep(c[i - 1], plan[i])
  BY DEF Follows

\* The stand on a course: what a running plan may rely on.
LEMMA FinishOnCourse ==
  ASSUME NEW c, NEW plan \in Seq(Step), Follows(c, plan), NEW k \in 1 .. Len(plan),
         plan[k] \in MotionStep, CarriesOut(c[k - 1], plan[k]), FinishStep(plan[k]),
         outputsOn' = outputsOn
  PROVE  Rests(c[k])'
<1>1. c[k - 1] \in Rest /\ c[k] = AfterStep(c[k - 1], plan[k])
  BY CourseTypes
<1>2. Rests(AfterStep(c[k - 1], plan[k]))'
  BY <1>1, FinishRests
<1> QED
  BY <1>1, <1>2

LEMMA MarkerOnCourse ==
  ASSUME NEW c, NEW plan \in Seq(Step), Follows(c, plan), NEW k \in Nat, k + 1 \in 1 .. Len(plan),
         Rests(c[k]), UNCHANGED <<rails, grippers>>,
         \/ plan[k + 1].op \in {"capture", "moved"} /\ UNCHANGED <<energised, outputsOn>>
         \/ plan[k + 1].op = "off" /\ energised' = {} /\ outputsOn' = FALSE
  PROVE  Rests(c[k + 1])'
<1>1. k + 1 - 1 = k
  OBVIOUS
<1>2. c[k] \in Rest /\ c[k + 1] = AfterStep(c[k], plan[k + 1])
  BY <1>1, CourseTypes
<1>3. Rests(AfterStep(c[k], plan[k + 1]))'
  <2>1. CASE plan[k + 1].op \in {"capture", "moved"} /\ UNCHANGED <<energised, outputsOn>>
    BY <1>2, <2>1, MarkerRests
  <2>2. CASE plan[k + 1].op = "off" /\ energised' = {} /\ outputsOn' = FALSE
    BY <1>2, <2>2, OffRests
  <2> QED
    BY <2>1, <2>2
<1> QED
  BY <1>2, <1>3

-----------------------------------------------------------------------------
(***************************************************************************)
(* The courses of the service's own plans.  A rest in which each pair of   *)
(* rails is together is written down by its parameters.                    *)
(***************************************************************************)

RailsAt(lr, tb) == [a \in Axis |-> IF a \in LeftRight THEN lr ELSE tb]
GrippersAt(left, right, top, bottom) ==
  [a \in Axis |-> CASE a = "Left" -> left [] a = "Right" -> right
                    [] a = "Top" -> top   [] a = "Bottom" -> bottom]

RestAt(lr, tb, left, right, top, bottom) ==
  [rails |-> RailsAt(lr, tb), grippers |-> GrippersAt(left, right, top, bottom),
   on |-> TRUE, done |-> 0]

LEMMA RestAtIs ==
  \A lr, tb, l, r, t, b :
    LET rest == RestAt(lr, tb, l, r, t, b) IN
    /\ rest.on = TRUE /\ rest.done = 0
    /\ \A a \in LeftRight : rest.rails[a] = lr
    /\ \A a \in TopBottom : rest.rails[a] = tb
    /\ \A a \in Axis : /\ a = "Left" => rest.grippers[a] = l
                       /\ a = "Right" => rest.grippers[a] = r
                       /\ a = "Top" => rest.grippers[a] = t
                       /\ a = "Bottom" => rest.grippers[a] = b
  BY AxisPairs DEF RestAt, RailsAt, GrippersAt

LEMMA RestAtType ==
  ASSUME NEW lr \in RailPosition, NEW tb \in RailPosition, NEW l \in Orientation,
         NEW r \in Orientation, NEW t \in Orientation, NEW b \in Orientation
  PROVE  RestAt(lr, tb, l, r, t, b) \in Rest
<1>1. RailsAt(lr, tb) \in [Axis -> RailPosition]
  BY DEF RailsAt
<1>2. \A a \in Axis : GrippersAt(l, r, t, b)[a] \in Orientation
  BY DEF Axis, GrippersAt
<1>3. GrippersAt(l, r, t, b) \in [Axis -> Orientation]
  BY <1>2 DEF GrippersAt
<1> QED
  BY <1>1, <1>3 DEF RestAt, Rest

LEMMA RestUpdate ==
  ASSUME NEW lr, NEW tb, NEW l, NEW r, NEW t, NEW b, NEW p, NEW q, NEW w, NEW x, NEW y, NEW z
  PROVE  /\ [RestAt(lr, tb, l, r, t, b) EXCEPT !.rails = RailsAt(p, q)] = RestAt(p, q, l, r, t, b)
         /\ [RestAt(lr, tb, l, r, t, b) EXCEPT !.grippers = GrippersAt(w, x, y, z)]
              = RestAt(lr, tb, w, x, y, z)
         /\ RestAt(lr, tb, l, r, t, b).rails = RailsAt(lr, tb)
         /\ RestAt(lr, tb, l, r, t, b).grippers = GrippersAt(l, r, t, b)
<1> DEFINE R == RailsAt(lr, tb)         R2 == RailsAt(p, q)
           G == GrippersAt(l, r, t, b)  G2 == GrippersAt(w, x, y, z)
           T == TRUE
<1>1. /\ [[rails |-> R, grippers |-> G, on |-> T, done |-> 0] EXCEPT !.rails = R2]
           = [rails |-> R2, grippers |-> G, on |-> T, done |-> 0]
      /\ [[rails |-> R, grippers |-> G, on |-> T, done |-> 0] EXCEPT !.grippers = G2]
           = [rails |-> R, grippers |-> G2, on |-> T, done |-> 0]
  <2> HIDE DEF R, G, R2, G2, T
  <2> QED
    BY SMT
<1>2. /\ [RestAt(lr, tb, l, r, t, b) EXCEPT !.rails = R2] = RestAt(p, q, l, r, t, b)
      /\ [RestAt(lr, tb, l, r, t, b) EXCEPT !.grippers = G2] = RestAt(lr, tb, w, x, y, z)
  BY <1>1, Zenon DEF RestAt
<1>3. /\ RestAt(lr, tb, l, r, t, b).rails = RailsAt(lr, tb)
      /\ RestAt(lr, tb, l, r, t, b).grippers = GrippersAt(l, r, t, b)
  BY DEF RestAt
<1> QED
  BY <1>1, <1>2, <1>3

\* One of the pairs of grippers is perpendicular to the frame.
Clear(l, r, t, b) == \/ l = "Perpendicular" /\ r = "Perpendicular"
                     \/ t = "Perpendicular" /\ b = "Perpendicular"

LEMMA NotFolded ==
  /\ None \notin FrameParallel /\ None \notin {"Grip"}
  /\ "Perpendicular" \notin FrameParallel
  BY DEF None, FrameParallel

\* A pair of grippers that is perpendicular and not turning meets no other.
LEMMA ClearIsApart ==
  ASSUME NEW rs, NEW gs, NEW A \in {LeftRight, TopBottom},
         \A a \in A : gs[a] = Settled("Perpendicular")
  PROVE  NoCollision(rs, gs)
  BY NotFolded, MayBeIs, AxisPairs DEF NoCollision, Collides

LEMMA RestIsSafe ==
  ASSUME NEW lr \in RailPosition, NEW tb \in RailPosition, NEW l \in Orientation,
         NEW r \in Orientation, NEW t \in Orientation, NEW b \in Orientation,
         Clear(l, r, t, b), "Grip" \in {lr, tb}
  PROVE  Apart(RestAt(lr, tb, l, r, t, b)) /\ HeldAt(RestAt(lr, tb, l, r, t, b))
<1> DEFINE rest == RestAt(lr, tb, l, r, t, b)
<1>1. /\ rest.on
      /\ \A a \in LeftRight : rest.rails[a] = lr
      /\ \A a \in TopBottom : rest.rails[a] = tb
      /\ \A a \in Axis : /\ a = "Left" => rest.grippers[a] = l
                         /\ a = "Right" => rest.grippers[a] = r
                         /\ a = "Top" => rest.grippers[a] = t
                         /\ a = "Bottom" => rest.grippers[a] = b
  BY RestAtIs
<1> HIDE DEF rest
<1>2. \/ \A a \in LeftRight : SettledAt(rest.grippers)[a] = Settled("Perpendicular")
      \/ \A a \in TopBottom : SettledAt(rest.grippers)[a] = Settled("Perpendicular")
  BY <1>1, SettledIs, AxisPairs DEF Clear
<1>3. Apart(rest)
  BY <1>2, ClearIsApart DEF Apart
<1>4. HeldAt(rest)
  BY <1>1, SettledIs, AxisPairs DEF HeldAt, Held, Holds
<1> QED
  BY <1>3, <1>4 DEF rest

\* A step that leads safely from one rest to the next.
GoesSafely(rest, step, later) ==
  /\ later = AfterStep(rest, step)
  /\ ApartDuring(rest, step) /\ HeldDuring(rest, step)

LEMMA PairMovesRails ==
  ASSUME NEW lr \in RailPosition, NEW tb \in RailPosition, NEW l \in Orientation,
         NEW r \in Orientation, NEW t \in Orientation, NEW b \in Orientation,
         Clear(l, r, t, b), NEW p \in RailPosition
  PROVE  /\ tb = "Grip" => GoesSafely(RestAt(lr, tb, l, r, t, b), MoveRails(LeftRight, p),
                                      RestAt(p, tb, l, r, t, b))
         /\ lr = "Grip" => GoesSafely(RestAt(lr, tb, l, r, t, b), MoveRails(TopBottom, p),
                                      RestAt(lr, p, l, r, t, b))
<1> DEFINE rest == RestAt(lr, tb, l, r, t, b)
<1>1. /\ \A a \in LeftRight : rest.rails[a] = lr
      /\ \A a \in TopBottom : rest.rails[a] = tb
      /\ \A a \in Axis : /\ a = "Left" => rest.grippers[a] = l
                         /\ a = "Right" => rest.grippers[a] = r
                         /\ a = "Top" => rest.grippers[a] = t
                         /\ a = "Bottom" => rest.grippers[a] = b
  BY RestAtIs
<1>2. \A A : MoveRails(A, p).op = "rails" /\ MoveRails(A, p).to = [a \in A |-> p]
  BY DEF MoveRails
<1>3. /\ PutTo(rest.rails, [a \in LeftRight |-> p]) = RailsAt(p, tb)
      /\ PutTo(rest.rails, [a \in TopBottom |-> p]) = RailsAt(lr, p)
  <2>1. rest.rails = RailsAt(lr, tb)
    BY RestUpdate
  <2>2. \A a \in Axis : a \in TopBottom <=> a \notin LeftRight
    BY AxisPairs
  <2>3. /\ PutTo(RailsAt(lr, tb), [a \in LeftRight |-> p]) = RailsAt(p, tb)
        /\ PutTo(RailsAt(lr, tb), [a \in TopBottom |-> p]) = RailsAt(lr, p)
    BY <2>2 DEF PutTo, RailsAt
  <2> QED
    BY <2>1, <2>3
<1>4. /\ [rest EXCEPT !.rails = RailsAt(p, tb)] = RestAt(p, tb, l, r, t, b)
      /\ [rest EXCEPT !.rails = RailsAt(lr, p)] = RestAt(lr, p, l, r, t, b)
  BY RestUpdate
<1> HIDE DEF rest
<1>5. /\ AfterStep(rest, MoveRails(LeftRight, p)) = RestAt(p, tb, l, r, t, b)
      /\ AfterStep(rest, MoveRails(TopBottom, p)) = RestAt(lr, p, l, r, t, b)
  BY <1>2, <1>3, <1>4 DEF AfterStep
<1>6. \/ \A a \in LeftRight : SettledAt(rest.grippers)[a] = Settled("Perpendicular")
      \/ \A a \in TopBottom : SettledAt(rest.grippers)[a] = Settled("Perpendicular")
  BY <1>1, SettledIs, AxisPairs DEF Clear
<1>7. ApartDuring(rest, MoveRails(LeftRight, p)) /\ ApartDuring(rest, MoveRails(TopBottom, p))
  BY <1>2, <1>6, ClearIsApart DEF ApartDuring, GrippersDuring
<1>8. tb = "Grip" => HeldDuring(rest, MoveRails(LeftRight, p))
  <2>1. \A a \in TopBottom : Sent(SettledAt(rest.rails), [x \in LeftRight |-> p])[a] = Settled(tb)
    BY <1>1, SentIs, AxisPairs
  <2> QED
    BY <1>2, <2>1 DEF HeldDuring, RailsDuring, Held, Holds
<1>9. lr = "Grip" => HeldDuring(rest, MoveRails(TopBottom, p))
  <2>1. \A a \in LeftRight : Sent(SettledAt(rest.rails), [x \in TopBottom |-> p])[a] = Settled(lr)
    BY <1>1, SentIs, AxisPairs
  <2> QED
    BY <1>2, <2>1 DEF HeldDuring, RailsDuring, Held, Holds
<1> QED
  BY <1>5, <1>7, <1>8, <1>9 DEF GoesSafely, rest

LEMMA PairTurns ==
  ASSUME NEW lr \in RailPosition, NEW tb \in RailPosition, NEW x \in Orientation,
         NEW y \in Orientation, NEW v \in Orientation, NEW w \in Orientation,
         "Grip" \in {lr, tb}
  PROVE  /\ GoesSafely(RestAt(lr, tb, "Perpendicular", "Perpendicular", v, w),
                       TopBottomTurn(x, y),
                       RestAt(lr, tb, "Perpendicular", "Perpendicular", x, y))
         /\ GoesSafely(RestAt(lr, tb, v, w, "Perpendicular", "Perpendicular"),
                       LeftRightTurn(x, y),
                       RestAt(lr, tb, x, y, "Perpendicular", "Perpendicular"))
<1> DEFINE P == "Perpendicular"
           TB == RestAt(lr, tb, P, P, v, w)
           LR == RestAt(lr, tb, v, w, P, P)
<1>1. /\ \A a \in LeftRight : TB.rails[a] = lr /\ LR.rails[a] = lr
      /\ \A a \in TopBottom : TB.rails[a] = tb /\ LR.rails[a] = tb
      /\ \A a \in LeftRight : TB.grippers[a] = P
      /\ \A a \in TopBottom : LR.grippers[a] = P
  BY RestAtIs, AxisPairs
<1>2. /\ TopBottomTurn(x, y).op = "grippers"
      /\ TopBottomTurn(x, y).to = [a \in TopBottom |-> IF a = "Top" THEN x ELSE y]
      /\ LeftRightTurn(x, y).op = "grippers"
      /\ LeftRightTurn(x, y).to = [a \in LeftRight |-> IF a = "Left" THEN x ELSE y]
  BY DEF TopBottomTurn, LeftRightTurn, Turn
<1>3. /\ PutTo(TB.grippers, TopBottomTurn(x, y).to) = GrippersAt(P, P, x, y)
      /\ PutTo(LR.grippers, LeftRightTurn(x, y).to) = GrippersAt(x, y, P, P)
  <2>1. TB.grippers = GrippersAt(P, P, v, w) /\ LR.grippers = GrippersAt(v, w, P, P)
    BY RestUpdate
  <2>2. PutTo(GrippersAt(P, P, v, w), [a \in TopBottom |-> IF a = "Top" THEN x ELSE y])
          = GrippersAt(P, P, x, y)
    BY AxisPairs DEF PutTo, GrippersAt
  <2>3. PutTo(GrippersAt(v, w, P, P), [a \in LeftRight |-> IF a = "Left" THEN x ELSE y])
          = GrippersAt(x, y, P, P)
    BY AxisPairs DEF PutTo, GrippersAt
  <2> QED
    BY <1>2, <2>1, <2>2, <2>3
<1>4. /\ [TB EXCEPT !.grippers = GrippersAt(P, P, x, y)] = RestAt(lr, tb, P, P, x, y)
      /\ [LR EXCEPT !.grippers = GrippersAt(x, y, P, P)] = RestAt(lr, tb, x, y, P, P)
  BY RestUpdate
<1> HIDE DEF TB, LR
<1>5. /\ AfterStep(TB, TopBottomTurn(x, y)) = RestAt(lr, tb, P, P, x, y)
      /\ AfterStep(LR, LeftRightTurn(x, y)) = RestAt(lr, tb, x, y, P, P)
  BY <1>2, <1>3, <1>4 DEF AfterStep
<1>6. ApartDuring(TB, TopBottomTurn(x, y))
  <2>1. \A a \in LeftRight : GrippersDuring(TB, TopBottomTurn(x, y))[a] = Settled(P)
    BY <1>1, <1>2, SentIs, AxisPairs DEF GrippersDuring
  <2> QED
    BY <2>1, ClearIsApart DEF ApartDuring
<1>7. ApartDuring(LR, LeftRightTurn(x, y))
  <2>1. \A a \in TopBottom : GrippersDuring(LR, LeftRightTurn(x, y))[a] = Settled(P)
    BY <1>1, <1>2, SentIs, AxisPairs DEF GrippersDuring
  <2> QED
    BY <2>1, ClearIsApart DEF ApartDuring
<1>8. HeldDuring(TB, TopBottomTurn(x, y)) /\ HeldDuring(LR, LeftRightTurn(x, y))
  BY <1>1, <1>2, SettledIs, AxisPairs DEF HeldDuring, RailsDuring, Held, Holds
<1> QED
  BY <1>5, <1>6, <1>7, <1>8 DEF GoesSafely, TB, LR

LEMMA CaptureIsSafe ==
  ASSUME NEW rest, NEW face, Apart(rest), HeldAt(rest)
  PROVE  GoesSafely(rest, Capture(face), rest)
<1>1. Capture(face).op = "capture"
  BY DEF Capture
<1> QED
  BY <1>1
  DEF GoesSafely, AfterStep, ApartDuring, HeldDuring, RailsDuring, GrippersDuring, Apart, HeldAt

\* The rests of the scan: one pair of rails out, or none.
LeftRightOut(top, bottom) ==
  RestAt("Open", "Grip", "Perpendicular", "Perpendicular", top, bottom)
TopBottomOut(left, right) ==
  RestAt("Grip", "Open", left, right, "Perpendicular", "Perpendicular")
TopBottomFree(top, bottom) ==
  RestAt("Grip", "Open", "Perpendicular", "Perpendicular", top, bottom)
AllIn(top, bottom) ==
  RestAt("Grip", "Grip", "Perpendicular", "Perpendicular", top, bottom)

\* One rest after each step of the plan, laid out like ScanPlan.
ScanRests ==
  << LeftRightOut("Perpendicular", "Perpendicular"),
     LeftRightOut("Parallel", "Reversed"),            LeftRightOut("Parallel", "Reversed"),
     LeftRightOut("Perpendicular", "Perpendicular"),
     LeftRightOut("Reversed", "Parallel"),            LeftRightOut("Reversed", "Parallel"),
     LeftRightOut("Perpendicular", "Perpendicular"),
     AllIn("Perpendicular", "Perpendicular"), TopBottomOut("Perpendicular", "Perpendicular"),
     TopBottomOut("Parallel", "Reversed"),            TopBottomOut("Parallel", "Reversed"),
     TopBottomOut("Perpendicular", "Perpendicular"),
     TopBottomOut("Reversed", "Parallel"),            TopBottomOut("Reversed", "Parallel"),
     TopBottomOut("Perpendicular", "Perpendicular"),
     TopBottomFree("Parallel", "Reversed"),
     AllIn("Parallel", "Reversed"),                   LeftRightOut("Parallel", "Reversed"),
     LeftRightOut("Parallel", "Reversed"),
     LeftRightOut("Reversed", "Parallel"),            LeftRightOut("Reversed", "Parallel"),
     LeftRightOut("Parallel", "Reversed"),
     AllIn("Parallel", "Reversed"),                   TopBottomFree("Parallel", "Reversed"),
     TopBottomFree("Perpendicular", "Perpendicular"),
     AllIn("Perpendicular", "Perpendicular") >>

ScanCourse == [i \in 0 .. 26 |-> IF i = 0 THEN CanonicalRest ELSE ScanRests[i]]

LEMMA CanonicalRestIs ==
  CanonicalRest = RestAt("Grip", "Grip", "Perpendicular", "Perpendicular",
                         "Perpendicular", "Perpendicular")
<1> DEFINE P == "Perpendicular"
<1>1. [a \in Axis |-> "Grip"] = RailsAt("Grip", "Grip")
  BY DEF RailsAt
<1>2. [a \in Axis |-> P] = GrippersAt(P, P, P, P)
  BY AxisPairs DEF GrippersAt
<1> QED
  BY <1>1, <1>2, Zenon DEF RestAt, CanonicalRest

\* A step that goes safely from a rest like those of the scan to another.
ScanLeg(rest, step, later) ==
  /\ rest \in Rest /\ later \in Rest
  /\ Apart(rest) /\ HeldAt(rest) /\ Apart(later) /\ HeldAt(later)
  /\ GoesSafely(rest, step, later)

LEMMA ScanLegs ==
  /\ \A l, r, t, b \in Orientation :
       Clear(l, r, t, b) =>
         /\ ScanLeg(RestAt("Open", "Grip", l, r, t, b), MoveRails(LeftRight, "Grip"),
                    RestAt("Grip", "Grip", l, r, t, b))
         /\ ScanLeg(RestAt("Grip", "Grip", l, r, t, b), MoveRails(LeftRight, "Open"),
                    RestAt("Open", "Grip", l, r, t, b))
         /\ ScanLeg(RestAt("Grip", "Open", l, r, t, b), MoveRails(TopBottom, "Grip"),
                    RestAt("Grip", "Grip", l, r, t, b))
         /\ ScanLeg(RestAt("Grip", "Grip", l, r, t, b), MoveRails(TopBottom, "Open"),
                    RestAt("Grip", "Open", l, r, t, b))
  /\ \A lr, tb \in RailPosition, v, w, x, y \in Orientation : "Grip" \in {lr, tb} =>
       /\ ScanLeg(RestAt(lr, tb, "Perpendicular", "Perpendicular", v, w), TopBottomTurn(x, y),
                  RestAt(lr, tb, "Perpendicular", "Perpendicular", x, y))
       /\ ScanLeg(RestAt(lr, tb, v, w, "Perpendicular", "Perpendicular"), LeftRightTurn(x, y),
                  RestAt(lr, tb, x, y, "Perpendicular", "Perpendicular"))
  /\ \A lr, tb \in RailPosition, l, r, t, b \in Orientation, face \in CubeFace :
       Clear(l, r, t, b) /\ "Grip" \in {lr, tb} =>
         ScanLeg(RestAt(lr, tb, l, r, t, b), Capture(face), RestAt(lr, tb, l, r, t, b))
<1>t. /\ "Grip" \in RailPosition /\ "Open" \in RailPosition
      /\ "Perpendicular" \in Orientation
  BY DEF RailPosition, Orientation
<1>1. \A lr, tb \in RailPosition, l, r, t, b \in Orientation :
        /\ RestAt(lr, tb, l, r, t, b) \in Rest
        /\ Clear(l, r, t, b) /\ "Grip" \in {lr, tb} =>
             Apart(RestAt(lr, tb, l, r, t, b)) /\ HeldAt(RestAt(lr, tb, l, r, t, b))
  BY RestAtType, RestIsSafe
<1>2. ASSUME NEW l \in Orientation, NEW r \in Orientation, NEW t \in Orientation,
             NEW b \in Orientation, Clear(l, r, t, b)
      PROVE  /\ ScanLeg(RestAt("Open", "Grip", l, r, t, b), MoveRails(LeftRight, "Grip"),
                        RestAt("Grip", "Grip", l, r, t, b))
             /\ ScanLeg(RestAt("Grip", "Grip", l, r, t, b), MoveRails(LeftRight, "Open"),
                        RestAt("Open", "Grip", l, r, t, b))
             /\ ScanLeg(RestAt("Grip", "Open", l, r, t, b), MoveRails(TopBottom, "Grip"),
                        RestAt("Grip", "Grip", l, r, t, b))
             /\ ScanLeg(RestAt("Grip", "Grip", l, r, t, b), MoveRails(TopBottom, "Open"),
                        RestAt("Grip", "Open", l, r, t, b))
  BY <1>t, <1>1, <1>2, PairMovesRails DEF ScanLeg
<1>3. ASSUME NEW lr \in RailPosition, NEW tb \in RailPosition, "Grip" \in {lr, tb},
             NEW v \in Orientation, NEW w \in Orientation,
             NEW x \in Orientation, NEW y \in Orientation
      PROVE  /\ ScanLeg(RestAt(lr, tb, "Perpendicular", "Perpendicular", v, w),
                        TopBottomTurn(x, y),
                        RestAt(lr, tb, "Perpendicular", "Perpendicular", x, y))
             /\ ScanLeg(RestAt(lr, tb, v, w, "Perpendicular", "Perpendicular"),
                        LeftRightTurn(x, y),
                        RestAt(lr, tb, x, y, "Perpendicular", "Perpendicular"))
  BY <1>t, <1>1, <1>3, PairTurns DEF ScanLeg, Clear
<1>4. ASSUME NEW lr \in RailPosition, NEW tb \in RailPosition, "Grip" \in {lr, tb},
             NEW l \in Orientation, NEW r \in Orientation, NEW t \in Orientation,
             NEW b \in Orientation, Clear(l, r, t, b), NEW face \in CubeFace
      PROVE  ScanLeg(RestAt(lr, tb, l, r, t, b), Capture(face), RestAt(lr, tb, l, r, t, b))
  BY <1>1, <1>4, CaptureIsSafe DEF ScanLeg
<1> QED
  BY <1>2, <1>3, <1>4

\* The legs of the scan, for every pair of orientations it turns to.
LEMMA ScanLegKinds ==
  /\ TopBottomFree("Perpendicular", "Perpendicular") = TopBottomOut("Perpendicular", "Perpendicular")
  /\ \A x, y \in Orientation :
       /\ ScanLeg(AllIn(x, y), MoveRails(LeftRight, "Open"), LeftRightOut(x, y))
       /\ ScanLeg(LeftRightOut(x, y), MoveRails(LeftRight, "Grip"), AllIn(x, y))
       /\ ScanLeg(AllIn(x, y), MoveRails(TopBottom, "Open"), TopBottomFree(x, y))
       /\ ScanLeg(TopBottomFree(x, y), MoveRails(TopBottom, "Grip"), AllIn(x, y))
  /\ \A v, w, x, y \in Orientation :
       /\ ScanLeg(LeftRightOut(v, w), TopBottomTurn(x, y), LeftRightOut(x, y))
       /\ ScanLeg(TopBottomFree(v, w), TopBottomTurn(x, y), TopBottomFree(x, y))
       /\ ScanLeg(TopBottomOut(v, w), LeftRightTurn(x, y), TopBottomOut(x, y))
  /\ \A x, y \in Orientation, face \in CubeFace :
       /\ ScanLeg(LeftRightOut(x, y), Capture(face), LeftRightOut(x, y))
       /\ ScanLeg(TopBottomOut(x, y), Capture(face), TopBottomOut(x, y))
<1>1. /\ "Grip" \in RailPosition /\ "Open" \in RailPosition
      /\ "Perpendicular" \in Orientation
      /\ \A x, y : Clear("Perpendicular", "Perpendicular", x, y)
      /\ \A x, y : Clear(x, y, "Perpendicular", "Perpendicular")
  BY DEF RailPosition, Orientation, Clear
<1>2. ASSUME NEW x \in Orientation, NEW y \in Orientation
      PROVE  /\ ScanLeg(AllIn(x, y), MoveRails(LeftRight, "Open"), LeftRightOut(x, y))
             /\ ScanLeg(LeftRightOut(x, y), MoveRails(LeftRight, "Grip"), AllIn(x, y))
             /\ ScanLeg(AllIn(x, y), MoveRails(TopBottom, "Open"), TopBottomFree(x, y))
             /\ ScanLeg(TopBottomFree(x, y), MoveRails(TopBottom, "Grip"), AllIn(x, y))
  BY <1>1, ScanLegs DEF AllIn, LeftRightOut, TopBottomFree
<1>3. ASSUME NEW v \in Orientation, NEW w \in Orientation,
             NEW x \in Orientation, NEW y \in Orientation
      PROVE  /\ ScanLeg(LeftRightOut(v, w), TopBottomTurn(x, y), LeftRightOut(x, y))
             /\ ScanLeg(TopBottomFree(v, w), TopBottomTurn(x, y), TopBottomFree(x, y))
             /\ ScanLeg(TopBottomOut(v, w), LeftRightTurn(x, y), TopBottomOut(x, y))
  BY <1>1, ScanLegs DEF LeftRightOut, TopBottomFree, TopBottomOut
<1>4. ASSUME NEW x \in Orientation, NEW y \in Orientation, NEW face \in CubeFace
      PROVE  /\ ScanLeg(LeftRightOut(x, y), Capture(face), LeftRightOut(x, y))
             /\ ScanLeg(TopBottomOut(x, y), Capture(face), TopBottomOut(x, y))
  BY <1>1, ScanLegs DEF LeftRightOut, TopBottomOut
<1>5. TopBottomFree("Perpendicular", "Perpendicular") = TopBottomOut("Perpendicular", "Perpendicular")
  BY DEF TopBottomFree, TopBottomOut
<1> QED
  BY <1>2, <1>3, <1>4, <1>5

LEMMA ScanPlanIs ==
  /\ Len(ScanPlan) = 26
  /\ \A i \in 1 .. 26 : ScanLeg(ScanCourse[i - 1], ScanPlan[i], ScanCourse[i])
<1>1. ScanCourse[0] = AllIn("Perpendicular", "Perpendicular")
  BY CanonicalRestIs DEF ScanCourse, AllIn
<1>2. Len(ScanPlan) = 26
  BY DEF ScanPlan
<1>3. \A i \in 1 .. 26 : ScanCourse[i] = ScanRests[i]
  BY DEF ScanCourse
<1>4. \A i \in 2 .. 26 : ScanCourse[i - 1] = ScanRests[i - 1]
  BY DEF ScanCourse
<1>5. /\ {"Parallel", "Perpendicular", "Reversed"} \subseteq Orientation
      /\ {"Up", "Right", "Front", "Down", "Left", "Back"} \subseteq CubeFace
  BY DEF Orientation, CubeFace
<1>6. ScanLeg(ScanCourse[0], ScanPlan[1], ScanRests[1])
  BY <1>1, <1>5, ScanLegKinds DEF ScanPlan, ScanRests
<1>7. \A i \in 2 .. 9 : ScanLeg(ScanRests[i - 1], ScanPlan[i], ScanRests[i])
  BY <1>5, ScanLegKinds DEF ScanPlan, ScanRests
<1>8. \A i \in 10 .. 18 : ScanLeg(ScanRests[i - 1], ScanPlan[i], ScanRests[i])
  BY <1>5, ScanLegKinds DEF ScanPlan, ScanRests
<1>9. \A i \in 19 .. 26 : ScanLeg(ScanRests[i - 1], ScanPlan[i], ScanRests[i])
  BY <1>5, ScanLegKinds DEF ScanPlan, ScanRests
<1>10. ASSUME NEW i \in 1 .. 26 PROVE ScanLeg(ScanCourse[i - 1], ScanPlan[i], ScanCourse[i])
  <2>1. CASE i = 1
    BY <1>3, <1>6, <2>1
  <2>2. CASE i # 1
    <3>1. i \in 2 .. 26 /\ (i \in 2 .. 9 \/ i \in 10 .. 18 \/ i \in 19 .. 26)
      BY <2>2
    <3> QED
      BY <1>3, <1>4, <1>7, <1>8, <1>9, <2>2, <3>1
  <2> QED
    BY <2>1, <2>2
<1> QED
  BY <1>2, <1>10

LEMMA ScanKeepsCube == KeepsCube(ScanCourse, ScanPlan)
<1>1. \A i \in 1 .. 26 : /\ ScanCourse[i - 1] \in Rest /\ ScanCourse[i] \in Rest
                         /\ Apart(ScanCourse[i - 1]) /\ HeldAt(ScanCourse[i - 1])
                         /\ Apart(ScanCourse[i]) /\ HeldAt(ScanCourse[i])
                         /\ ScanCourse[i] = AfterStep(ScanCourse[i - 1], ScanPlan[i])
                         /\ ApartDuring(ScanCourse[i - 1], ScanPlan[i])
                         /\ HeldDuring(ScanCourse[i - 1], ScanPlan[i])
  BY ScanPlanIs DEF ScanLeg, GoesSafely
<1>2. \A i \in 0 .. 26 : ScanCourse[i] \in Rest /\ Apart(ScanCourse[i]) /\ HeldAt(ScanCourse[i])
  <2>1. ASSUME NEW i \in 0 .. 26
        PROVE  ScanCourse[i] \in Rest /\ Apart(ScanCourse[i]) /\ HeldAt(ScanCourse[i])
    <3>1. CASE i = 0
      <4>1. 1 \in 1 .. 26 /\ 1 - 1 = 0
        OBVIOUS
      <4> QED
        BY <1>1, <3>1, <4>1
    <3>2. CASE i # 0
      <4>1. i \in 1 .. 26
        BY <3>2
      <4> QED
        BY <1>1, <4>1
    <3> QED
      BY <3>1, <3>2
  <2> QED
    BY <2>1
<1>3. ScanCourse \in [0 .. 26 -> Rest]
  BY <1>2 DEF ScanCourse
<1>4. ScanCourse[0] = CanonicalRest
  BY DEF ScanCourse
<1>5. Follows(ScanCourse, ScanPlan)
  BY <1>1, <1>3, <1>4, ScanPlanIs DEF Follows
<1>6. NoneMeet(ScanCourse, ScanPlan) /\ AlwaysHolds(ScanCourse, ScanPlan)
  BY <1>1, <1>2, ScanPlanIs DEF NoneMeet, AlwaysHolds
<1>7. EndsCanonical(ScanCourse, ScanPlan)
  <2>1. ScanCourse[26] = CanonicalRest
    BY CanonicalRestIs DEF ScanCourse, ScanRests, AllIn
  <2> QED
    BY <2>1, ScanPlanIs DEF EndsCanonical
<1> QED
  BY <1>5, <1>6, <1>7, PlanTypes DEF KeepsCube

\* The plans of the planner that end with the cube held.
LEMMA HeldKeepsCube ==
  ASSUME NEW m \in MoveSeqs
  PROVE  KeepsCube(Course(HeldSteps(m)), HeldSteps(m))
  BY CourseAssumption, PlanTypes DEF KeepsCube

-----------------------------------------------------------------------------
(* Opening the stand: rails that move out bring no two grippers together.  *)

\* The servos of a stand at rest, and while rails move out.
LEMMA OpensSafely ==
  ASSUME NEW rest \in Rest, NEW A \in SUBSET Axis, Apart(rest),
         \A a \in A : rest.rails[a] = "Grip"
  PROVE  /\ ApartDuring(rest, MoveRails(A, "Open"))
         /\ Apart(AfterStep(rest, MoveRails(A, "Open")))
         /\ AfterStep(rest, MoveRails(A, "Open")) \in Rest
<1> DEFINE step  == MoveRails(A, "Open")
           later == AfterStep(rest, step)
<1>1. step.op = "rails" /\ step.to = [a \in A |-> "Open"]
  BY DEF MoveRails
<1>2. later.rails = PutTo(rest.rails, step.to) /\ later.grippers = rest.grippers
  BY <1>1, AfterStepIs
<1>3. \A a \in Axis : later.rails[a] = IF a \in A THEN "Open" ELSE rest.rails[a]
  BY <1>1, <1>2 DEF PutTo
<1>4. \A a \in Axis : MayBeIn(SettledAt(rest.rails)[a]) <=> rest.rails[a] = "Grip"
  BY SettledIs, MayBeInIs
<1>5. \A a \in Axis : MayBeIn(SettledAt(later.rails)[a]) => rest.rails[a] = "Grip"
  BY <1>3, SettledIs, MayBeInIs
<1>6. \A a \in Axis : MayBeIn(RailsDuring(rest, step)[a]) => rest.rails[a] = "Grip"
  <2>1. ASSUME NEW a \in Axis, MayBeIn(RailsDuring(rest, step)[a]), a \notin A
        PROVE  rest.rails[a] = "Grip"
    <3>1. RailsDuring(rest, step)[a] = Settled(rest.rails[a])
      BY <1>1, <2>1, SentIs DEF RailsDuring
    <3> QED
      BY <2>1, <3>1, MayBeInIs
  <2> QED
    BY <2>1
<1>7. GrippersDuring(rest, step) = SettledAt(rest.grippers)
  BY <1>1 DEF GrippersDuring
<1>8. \A a \in LeftRight, b \in TopBottom :
        ~Collides(SettledAt(rest.rails), SettledAt(rest.grippers), a, b)
  BY DEF Apart, NoCollision
<1>9. ApartDuring(rest, step)
  <2>1. ASSUME NEW a \in LeftRight, NEW b \in TopBottom,
               Collides(RailsDuring(rest, step), SettledAt(rest.grippers), a, b)
        PROVE  FALSE
    <3>1. a \in Axis /\ b \in Axis
      BY AxisPairs
    <3> QED
      BY <1>4, <1>6, <1>8, <2>1, <3>1 DEF Collides
  <2> QED
    BY <1>7, <2>1 DEF ApartDuring, NoCollision
<1>10. Apart(later)
  <2>1. ASSUME NEW a \in LeftRight, NEW b \in TopBottom,
               Collides(SettledAt(later.rails), SettledAt(rest.grippers), a, b)
        PROVE  FALSE
    <3>1. a \in Axis /\ b \in Axis
      BY AxisPairs
    <3> QED
      BY <1>4, <1>5, <1>8, <2>1, <3>1 DEF Collides
  <2> QED
    BY <1>2, <2>1 DEF Apart, NoCollision
<1>11. later \in Rest
  <2>1. PutTo(rest.rails, step.to) \in [Axis -> RailPosition]
    BY <1>1 DEF PutTo, Rest, RailPosition
  <2>2. later = [rest EXCEPT !.rails = PutTo(rest.rails, step.to)]
    BY <1>1 DEF AfterStep
  <2> HIDE DEF step, later
  <2> QED
    BY <2>1, <2>2 DEF Rest
<1> QED
  BY <1>9, <1>10, <1>11

\* A plan that holds the cube until its n moves are done can be followed by
\* opening the stand.
HoldsToItsEnd(c, plan, n) ==
  /\ plan \in Seq(Step)
  /\ Follows(c, plan) /\ NoneMeet(c, plan) /\ HoldsUntil(c, plan, n)
  /\ \A i \in 0 .. Len(plan) : c[i].on
  /\ c[Len(plan)].done = n
  /\ \A a \in Axis : c[Len(plan)].rails[a] = "Grip"

\* The three steps of OpenSteps, from any rest at which the stand is driven and
\* every rail is in.
LEMMA OpeningIs ==
  ASSUME NEW rest \in Rest, Apart(rest), rest.on = TRUE,
         \A a \in Axis : rest.rails[a] = "Grip",
         NEW r1, r1 = AfterStep(rest, OpenSteps[1]),
         NEW r2, r2 = AfterStep(r1, OpenSteps[2]),
         NEW r3, r3 = AfterStep(r2, OpenSteps[3])
  PROVE  /\ r1 \in Rest /\ r2 \in Rest /\ r3 \in Rest
         /\ Apart(r1) /\ Apart(r2) /\ Apart(r3)
         /\ ApartDuring(rest, OpenSteps[1]) /\ ApartDuring(r1, OpenSteps[2])
         /\ ApartDuring(r2, OpenSteps[3])
         /\ r1.done = rest.done /\ r2.done = rest.done /\ r3.done = rest.done
         /\ r1.on = TRUE /\ ~IsMotion(OpenSteps[3])
         /\ AllOpen(r3)
<1>1. /\ OpenSteps[1] = MoveRails(LeftRight, "Open") /\ OpenSteps[2] = MoveRails(TopBottom, "Open")
      /\ OpenSteps[3] = AllOff
  BY DEF OpenSteps
<1>2. /\ LeftRight \in SUBSET Axis /\ TopBottom \in SUBSET Axis
  BY AxisPairs
<1>3. /\ r1 \in Rest /\ Apart(r1) /\ ApartDuring(rest, OpenSteps[1])
      /\ r2 \in Rest /\ Apart(r2) /\ ApartDuring(r1, OpenSteps[2])
  <2>1. /\ r1 \in Rest /\ Apart(r1) /\ ApartDuring(rest, OpenSteps[1])
    BY <1>1, <1>2, OpensSafely
  <2>2. OpenSteps[1].op = "rails" /\ OpenSteps[1].to = [a \in LeftRight |-> "Open"]
    BY <1>1 DEF MoveRails
  <2>3. r1.rails = PutTo(rest.rails, [a \in LeftRight |-> "Open"])
    BY <2>2, RailsAfter
  <2>4. \A a \in TopBottom : a \in Axis /\ a \notin LeftRight
    BY AxisPairs
  <2>5. \A a \in TopBottom : r1.rails[a] = "Grip"
    BY <2>3, <2>4 DEF PutTo
  <2> QED
    BY <1>1, <1>2, <2>1, <2>5, OpensSafely
<1>4. \A A : MoveRails(A, "Open").op = "rails" /\ MoveRails(A, "Open").to = [a \in A |-> "Open"]
  BY DEF MoveRails
<1>5. AllOff.op = "off"
  BY DEF AllOff
<1> DEFINE s1 == OpenSteps[1]  s2 == OpenSteps[2]  s3 == OpenSteps[3]
<1>s. /\ s1.op = "rails" /\ s1.to = [a \in LeftRight |-> "Open"]
      /\ s2.op = "rails" /\ s2.to = [a \in TopBottom |-> "Open"]
      /\ s3.op = "off"
  BY <1>1, <1>4, <1>5
<1> HIDE DEF s1, s2, s3
<1>a. /\ r1 = AfterStep(rest, s1) /\ r2 = AfterStep(r1, s2) /\ r3 = AfterStep(r2, s3)
  BY DEF s1, s2, s3
<1>b. /\ AfterStep(rest, s1).rails = PutTo(rest.rails, s1.to)
      /\ AfterStep(rest, s1).done = rest.done /\ AfterStep(rest, s1).on = rest.on
  <2>1. AfterStep(rest, s1).rails = PutTo(rest.rails, s1.to)
    BY <1>s, RailsAfter
  <2>2. AfterStep(rest, s1).done = rest.done
    BY <1>s, DoneAfter
  <2>3. AfterStep(rest, s1).on = rest.on
    BY <1>s, OnAfter
  <2> QED
    BY <2>1, <2>2, <2>3
<1>c. AfterStep(r1, s2).rails = PutTo(r1.rails, s2.to)
  BY <1>3, <1>s, RailsAfter
<1>d. AfterStep(r2, s3).rails = r2.rails /\ AfterStep(r2, s3).grippers = r2.grippers
  BY <1>3, <1>s, OffKeepsPlace
<1>r. r1 \in Rest /\ r2 \in Rest /\ s2.op \in {"rails", "off"} /\ s3.op = "off"
  BY <1>3, <1>s
<1>e. AfterStep(r1, s2).done = r1.done
  BY <1>r, OpeningAfter, Zenon
<1>o. AfterStep(r2, s3).done = r2.done
  BY <1>r, OpeningAfter
<1>f. AfterStep(r2, s3).on = FALSE
  BY <1>r, OpeningAfter
<1>6. /\ r1.rails = PutTo(rest.rails, [a \in LeftRight |-> "Open"])
      /\ r2.rails = PutTo(r1.rails, [a \in TopBottom |-> "Open"])
      /\ r3.rails = r2.rails /\ r3.grippers = r2.grippers
  BY <1>s, <1>a, <1>b, <1>c, <1>d
<1>7. r1.done = rest.done /\ r2.done = rest.done /\ r3.done = rest.done
  BY <1>a, <1>b, <1>e, <1>o
<1>8. r1.on = TRUE
  BY <1>a, <1>b
<1>9. r3.on = FALSE
  BY <1>a, <1>f
<1>10. r3 \in Rest
  <2>1. r3 = [r2 EXCEPT !.on = FALSE]
    BY <1>1, <1>5 DEF AfterStep
  <2> QED
    BY <1>3, <2>1 DEF Rest
<1>11. Apart(r3)
  BY <1>3, <1>6 DEF Apart
<1>12. ApartDuring(r2, OpenSteps[3])
  BY <1>1, <1>3, <1>5 DEF ApartDuring, Apart, RailsDuring, GrippersDuring
<1>13. \A a \in Axis : r3.rails[a] = "Open"
  <2>1. \A a \in Axis : a \in LeftRight \/ a \in TopBottom
    BY AxisPairs
  <2> QED
    BY <1>6, <2>1 DEF PutTo
<1>14. ~IsMotion(OpenSteps[3])
  BY <1>1, <1>5 DEF IsMotion
<1>15. AllOpen(r3)
  BY <1>9, <1>13 DEF AllOpen
<1> QED
  BY <1>3, <1>7, <1>8, <1>10, <1>11, <1>12, <1>14, <1>15

LEMMA PlanThenOpen ==
  ASSUME NEW plan \in Seq(Step)
  PROVE  LET L == Len(plan)  whole == plan \o OpenSteps IN
         /\ whole \in Seq(Step) /\ Len(whole) = L + 3
         /\ \A i \in 1 .. L : whole[i] = plan[i]
         /\ whole[L + 1] = OpenSteps[1] /\ whole[L + 2] = OpenSteps[2]
         /\ whole[L + 3] = OpenSteps[3]
<1>1. Len(plan) \in Nat /\ OpenSteps \in Seq(Step) /\ Len(OpenSteps) = 3
  BY PlanTypes DEF OpenSteps
<1> DEFINE open == OpenSteps
<1> HIDE DEF open
<1>2. open \in Seq(Step) /\ Len(open) = 3
  BY <1>1 DEF open
<1>3. /\ plan \o open \in Seq(Step) /\ Len(plan \o open) = Len(plan) + 3
      /\ \A i \in 1 .. Len(plan) + 3 :
            (plan \o open)[i] = IF i <= Len(plan) THEN plan[i] ELSE open[i - Len(plan)]
  <2>1. plan \o open \in Seq(Step) /\ Len(plan \o open) = Len(plan) + Len(open)
    BY <1>2, ConcatProperties
  <2>2. \A i \in 1 .. Len(plan) + Len(open) :
            (plan \o open)[i] = IF i <= Len(plan) THEN plan[i] ELSE open[i - Len(plan)]
    BY <1>2, ConcatProperties
  <2> QED
    BY <1>2, <2>1, <2>2
<1>4. \A i \in 1 .. Len(plan) : (plan \o open)[i] = plan[i]
  BY <1>1, <1>3
<1>5. /\ (plan \o open)[Len(plan) + 1] = open[1] /\ (plan \o open)[Len(plan) + 2] = open[2]
      /\ (plan \o open)[Len(plan) + 3] = open[3]
  BY <1>1, <1>3
<1> QED
  BY <1>3, <1>4, <1>5 DEF open

LEMMA OpeningLetsGo ==
  ASSUME NEW c, NEW plan, NEW n, HoldsToItsEnd(c, plan, n)
  PROVE  \E d : /\ LetsGo(d, plan \o OpenSteps, n)
                /\ \A i \in 0 .. Len(plan) : d[i] = c[i]
<1> DEFINE L  == Len(plan)
           whole == plan \o OpenSteps
           r0 == c[L]
           r1 == AfterStep(r0, OpenSteps[1])
           r2 == AfterStep(r1, OpenSteps[2])
           r3 == AfterStep(r2, OpenSteps[3])
           d  == [i \in 0 .. L + 3 |-> IF i \in 0 .. L THEN c[i]
                                       ELSE IF i = L + 1 THEN r1
                                       ELSE IF i = L + 2 THEN r2 ELSE r3]
<1>1. /\ plan \in Seq(Step) /\ L \in Nat /\ OpenSteps \in Seq(Step) /\ Len(OpenSteps) = 3
  BY PlanTypes DEF HoldsToItsEnd, OpenSteps
<1>2. /\ whole \in Seq(Step) /\ Len(whole) = L + 3
      /\ \A i \in 1 .. L : whole[i] = plan[i]
      /\ whole[L + 1] = OpenSteps[1] /\ whole[L + 2] = OpenSteps[2] /\ whole[L + 3] = OpenSteps[3]
  BY <1>1, PlanThenOpen
<1>3. /\ \A i \in 0 .. L : c[i] \in Rest /\ Apart(c[i]) /\ c[i].on
      /\ \A i \in 1 .. L : c[i] = AfterStep(c[i - 1], plan[i]) /\ ApartDuring(c[i - 1], plan[i])
      /\ c[0] = CanonicalRest /\ r0.done = n
      /\ \A i \in 0 .. L : c[i].done # n => HeldAt(c[i])
      /\ \A i \in 1 .. L : c[i - 1].done # n => HeldDuring(c[i - 1], plan[i])
  BY <1>1 DEF HoldsToItsEnd, Follows, NoneMeet, HoldsUntil
<1>4. r0 \in Rest /\ Apart(r0) /\ r0.on = TRUE /\ \A a \in Axis : r0.rails[a] = "Grip"
  <2>1. L \in 0 .. L
    BY <1>1
  <2>2. \A a \in Axis : r0.rails[a] = "Grip"
    BY DEF HoldsToItsEnd
  <2> QED
    BY <1>3, <2>1, <2>2 DEF Rest
<1> HIDE DEF whole, r0, L
<1>5. /\ r1 \in Rest /\ r2 \in Rest /\ r3 \in Rest
      /\ Apart(r1) /\ Apart(r2) /\ Apart(r3)
      /\ ApartDuring(r0, OpenSteps[1]) /\ ApartDuring(r1, OpenSteps[2])
      /\ ApartDuring(r2, OpenSteps[3])
      /\ r1.done = r0.done /\ r2.done = r0.done /\ r3.done = r0.done
      /\ r1.on = TRUE /\ ~IsMotion(OpenSteps[3])
      /\ AllOpen(r3)
  BY <1>4, OpeningIs
<1>6. /\ r1 = AfterStep(r0, OpenSteps[1]) /\ r2 = AfterStep(r1, OpenSteps[2])
      /\ r3 = AfterStep(r2, OpenSteps[3])
  OBVIOUS
<1> HIDE DEF r1, r2, r3
<1>7. /\ \A i \in 0 .. L : d[i] = c[i]
      /\ d[L] = r0 /\ d[L + 1] = r1 /\ d[L + 2] = r2 /\ d[L + 3] = r3
  BY <1>1 DEF r0
<1>8. /\ d \in [0 .. L + 3 -> Rest]
  BY <1>1, <1>3, <1>5
<1>9. \A i \in 0 .. L + 3 : i \in 0 .. L \/ i = L + 1 \/ i = L + 2 \/ i = L + 3
  BY <1>1
<1>10. \A i \in 1 .. L + 3 : \/ i \in 1 .. L /\ i - 1 \in 0 .. L
                             \/ i = L + 1 /\ i - 1 = L
                             \/ i = L + 2 /\ i - 1 = L + 1
                             \/ i = L + 3 /\ i - 1 = L + 2
  BY <1>1
<1> HIDE DEF d
<1>11. \A i \in 1 .. L + 3 : d[i] = AfterStep(d[i - 1], whole[i]) /\ ApartDuring(d[i - 1], whole[i])
  <2>1. ASSUME NEW i \in 1 .. L
        PROVE  d[i] = AfterStep(d[i - 1], whole[i]) /\ ApartDuring(d[i - 1], whole[i])
    <3>1. i \in 0 .. L /\ i - 1 \in 0 .. L
      BY <1>1
    <3> QED
      BY <1>2, <1>3, <1>7, <3>1
  <2>2. /\ d[L + 1] = AfterStep(d[L], whole[L + 1]) /\ ApartDuring(d[L], whole[L + 1])
        /\ d[L + 2] = AfterStep(d[L + 1], whole[L + 2]) /\ ApartDuring(d[L + 1], whole[L + 2])
        /\ d[L + 3] = AfterStep(d[L + 2], whole[L + 3]) /\ ApartDuring(d[L + 2], whole[L + 3])
    <3>1. /\ d[L + 1] = AfterStep(d[L], whole[L + 1])
          /\ d[L + 2] = AfterStep(d[L + 1], whole[L + 2])
          /\ d[L + 3] = AfterStep(d[L + 2], whole[L + 3])
      BY <1>2, <1>6, <1>7
    <3>2. /\ ApartDuring(d[L], whole[L + 1]) /\ ApartDuring(d[L + 1], whole[L + 2])
          /\ ApartDuring(d[L + 2], whole[L + 3])
      BY <1>2, <1>5, <1>7
    <3> QED
      BY <3>1, <3>2
  <2> QED
    BY <1>10, <2>1, <2>2
<1>12. \A i \in 0 .. L + 3 : Apart(d[i])
  BY <1>3, <1>5, <1>7, <1>9
<1>13. d[0] = CanonicalRest
  BY <1>1, <1>3, <1>7
<1>14. Follows(d, whole) /\ NoneMeet(d, whole)
  BY <1>2, <1>8, <1>11, <1>12, <1>13 DEF Follows, NoneMeet
<1>15. HoldsUntil(d, whole, n)
  <2>1. d[L].done = n /\ d[L + 1].done = n /\ d[L + 2].done = n /\ d[L + 3].done = n
    BY <1>3, <1>5, <1>7
  <2>2. \A i \in 0 .. L + 3 : d[i].done # n => HeldAt(d[i])
    BY <1>3, <1>7, <1>9, <2>1
  <2>3. ASSUME NEW i \in 1 .. L + 3, d[i - 1].done # n PROVE HeldDuring(d[i - 1], whole[i])
    <3>1. i \in 1 .. L /\ i - 1 \in 0 .. L
      BY <1>10, <2>1, <2>3
    <3> QED
      BY <1>2, <1>3, <1>7, <2>3, <3>1
  <2> QED
    BY <1>2, <2>2, <2>3 DEF HoldsUntil
<1>16. \A i \in 1 .. L + 3 : IsMotion(whole[i]) => d[i - 1].on
  <2>1. d[L].on /\ d[L + 1].on /\ ~IsMotion(whole[L + 3])
    BY <1>2, <1>4, <1>5, <1>7
  <2> QED
    BY <1>3, <1>7, <1>10, <2>1
<1>17. d[L + 3].done = n /\ AllOpen(d[L + 3])
  BY <1>3, <1>5, <1>7
<1>18. LetsGo(d, whole, n)
  BY <1>2, <1>14, <1>15, <1>16, <1>17 DEF LetsGo
<1>19. \A i \in 0 .. Len(plan) : d[i] = c[i]
  BY <1>7 DEF L
<1> QED
  BY <1>18, <1>19 DEF whole

LEMMA CanonicalRestSafe ==
  /\ CanonicalRest \in Rest /\ Apart(CanonicalRest) /\ HeldAt(CanonicalRest)
  /\ CanonicalRest.on = TRUE /\ CanonicalRest.done = 0
  /\ \A a \in Axis : CanonicalRest.rails[a] = "Grip"
<1>1. /\ "Grip" \in RailPosition /\ "Perpendicular" \in Orientation
      /\ Clear("Perpendicular", "Perpendicular", "Perpendicular", "Perpendicular")
  BY DEF RailPosition, Orientation, Clear
<1>2. CanonicalRest \in Rest /\ Apart(CanonicalRest) /\ HeldAt(CanonicalRest)
  BY <1>1, CanonicalRestIs, RestAtType, RestIsSafe
<1>3. CanonicalRest.on = TRUE
  BY DEF CanonicalRest
<1>4. CanonicalRest.done = 0
  BY DEF CanonicalRest
<1>5. \A a \in Axis : CanonicalRest.rails[a] = "Grip"
  BY DEF CanonicalRest
<1> QED
  BY <1>2, <1>3, <1>4, <1>5

LEMMA OpenStepsLetGo == \E c : LetsGo(c, OpenSteps, 0)
<1> DEFINE c == [i \in 0 .. 0 |-> CanonicalRest]
<1>1. /\ <<>> \in Seq(Step) /\ Len(<<>>) = 0 /\ 0 .. 0 = {0} /\ 1 .. 0 = {}
  OBVIOUS
<1>2. c \in [0 .. 0 -> Rest] /\ c[0] = CanonicalRest
  BY CanonicalRestSafe
<1> HIDE DEF c
<1>3. HoldsToItsEnd(c, <<>>, 0)
  BY <1>1, <1>2, CanonicalRestSafe DEF HoldsToItsEnd, Follows, NoneMeet, HoldsUntil
<1>4. <<>> \o OpenSteps = OpenSteps
  BY PlanTypes, ConcatEmptySeq
<1> QED
  BY <1>3, <1>4, OpeningLetsGo

LEMMA ExecutePlanLetsGo ==
  ASSUME NEW m \in MoveSeqs
  PROVE  \E c : /\ LetsGo(c, ExecutePlan(m), Len(m))
                /\ \A i \in 0 .. Len(ReleaseSteps(m)) : c[i] = Course(ReleaseSteps(m))[i]
<1>1. ReleaseSteps(m) \in Seq(Step)
  <2>1. MotionStep \cup {MoveCompleted} \subseteq Step
    BY StepTypes DEF Step
  <2> QED
    BY <2>1, PlanAssumption
<1>2. HoldsToItsEnd(Course(ReleaseSteps(m)), ReleaseSteps(m), Len(m))
  BY <1>1, CourseAssumption, CanonicalRestSafe DEF HoldsToItsEnd
<1> QED
  BY <1>2, OpeningLetsGo DEF ExecutePlan

-----------------------------------------------------------------------------
(***************************************************************************)
(* Custody is not inductive: where the servos are has to be known for      *)
(* every phase of a recovery and a grip, and for every place in a running  *)
(* plan.                                                                   *)
(***************************************************************************)

NothingMoves == \A a \in Axis : rails[a].motion # "Moving" /\ grippers[a].motion # "Moving"
RailsOpen    == \A a \in Axis : rails[a] = Settled("Open")

IdleCustody ==
  operation.id = NoId =>
    /\ NothingMoves
    /\ session # NoId => Rests(CanonicalRest) /\ pose = "CanonicalGrip"
    /\ pose = "Open" => RailsOpen /\ energised = {}

MotionCustody ==
  /\ motion.op # NoId => motion.phase \in Phases
  /\ motion.phase \in {"RecoverStart", "GripStart"} => NothingMoves
  /\ motion.phase = "RecoverStart" /\ session # NoId => Rests(CanonicalRest)
  /\ motion.phase \in {"RecoverFinishLeftRight", "RecoverFinishTopBottom"} =>
       \A a \in Axis : grippers[a].motion # "Moving"
  /\ motion.phase = "RecoverFinishTopBottom" =>
       \A a \in LeftRight : rails[a] = Settled("Open")
  /\ motion.phase \in {"RecoverFinishGrippers", "GripStart", "GripFinishGrippers"} => RailsOpen
  /\ motion.phase = "GripFinishRails" =>
       \A a \in Axis : grippers[a] = Settled("Perpendicular")
  /\ motion.phase = "GripStart" => energised = {}
  /\ motion.phase = "GripFinishGrippers" => energised = Grippers(Axis) /\ outputsOn
  /\ motion.phase = "GripFinishRails" =>
       energised \ Rails(Axis) = Grippers(Axis) /\ outputsOn

ScanCustody ==
  scanJob.op # NoId =>
    \E c, plan, k : /\ KeepsCube(c, plan)
                    /\ Left(plan, k, scanJob.plan)
                    /\ OnCourse(c, plan, k, scanJob.pending)

SolveCustody == solveJob.op # NoId => Rests(CanonicalRest)

\* How many moves the running plan does before it lets go.
MovesToDo == IF execJob.kind = "Open" THEN 0 ELSE Len(solution.moves)

ExecCustody ==
  execJob.op # NoId =>
    \E c, plan, k : /\ IF execJob.kind = "ExecuteMoves"
                       THEN KeepsCube(c, plan)
                       ELSE /\ LetsGo(c, plan, MovesToDo)
                            /\ execJob.kind # "Open" => solution.completed = c[k].done
                    /\ Left(plan, k, execJob.plan)
                    /\ OnCourse(c, plan, k, execJob.pending)

\* Every action an execution announced is done, under way or still to come.
ActionsCounted ==
  execJob.op # NoId =>
    operation.current + Len(execJob.plan) + (IF execJob.pending = NoStep THEN 0 ELSE 1)
      = operation.count

CustodyInv == /\ IdleCustody  /\ MotionCustody  /\ ScanCustody
              /\ SolveCustody /\ ExecCustody    /\ ActionsCounted

-----------------------------------------------------------------------------
(* What the parts of CustodyInv rest on.                                   *)

LEMMA NoJobCustody ==
  ASSUME scanJob'.op = NoId, solveJob'.op = NoId, execJob'.op = NoId
  PROVE  ScanCustody' /\ SolveCustody' /\ ExecCustody' /\ ActionsCounted'
  BY DEF ScanCustody, SolveCustody, ExecCustody, ActionsCounted

LEMMA NoMotionCustody == motion'.op = NoId /\ motion'.phase = None => MotionCustody'
  BY DEF MotionCustody, None

LEMMA BusyCustody == operation'.id # NoId => IdleCustody'
  BY DEF IdleCustody

LEMMA UnknownServosAreStill == UnknownServo.motion # "Moving"
  BY DEF UnknownServo

LEMMA SettledServosAreStill ==
  \A rest : Rests(rest) => NothingMoves
<1> SUFFICES ASSUME NEW rest, Rests(rest), NEW a \in Axis
             PROVE  rails[a].motion # "Moving" /\ grippers[a].motion # "Moving"
  BY DEF NothingMoves
<1>1. rails = SettledAt(rest.rails) /\ grippers = SettledAt(rest.grippers)
  BY DEF Rests
<1> QED
  BY <1>1, SettledIs

\* A stop leaves no servo known to move, no cube and no job.
LEMMA DropCustody == DropOperation => CustodyInv'
<1> SUFFICES ASSUME DropOperation PROVE CustodyInv'
  OBVIOUS
<1>1. /\ motion' = NoMotion /\ scanJob' = NoScanJob /\ solveJob' = NoSolveJob
      /\ execJob' = NoExecJob /\ session' = NoId /\ pose' = "Unknown"
      /\ rails' = [a \in Axis |-> UnknownServo] /\ grippers' = [a \in Axis |-> UnknownServo]
  BY DEF DropOperation, DropJobs, UnknownStand
<1>2. ScanCustody' /\ SolveCustody' /\ ExecCustody' /\ ActionsCounted' /\ MotionCustody'
  BY <1>1, EmptyIds, NoJobCustody, NoMotionCustody
<1>3. IdleCustody'
  BY <1>1, UnknownServosAreStill DEF IdleCustody, NothingMoves
<1> QED
  BY <1>2, <1>3 DEF CustodyInv

LEMMA FaultCustody ==
  /\ \A op : Faults(op) => CustodyInv'
  /\ Abort => CustodyInv'
  BY DropCustody, FaultsHappen DEF Faults, Abort

\* A stand that is left alone.
LEMMA StandKept ==
  ASSUME UNCHANGED <<rails, grippers, outputsOn, energised>>
  PROVE  /\ \A rest : Rests(rest) => Rests(rest)'
         /\ NothingMoves => NothingMoves'
         /\ RailsOpen => RailsOpen'
  BY DEF Rests, NothingMoves, RailsOpen

\* Steered: what a running plan needs of its course.
Steered(c, plan) == /\ plan \in Seq(Step) /\ Follows(c, plan)
                    /\ \A i \in 1 .. Len(plan) : IsMotion(plan[i]) => c[i - 1].on

LEMMA PlansAreSteered ==
  /\ \A c, plan : KeepsCube(c, plan) => Steered(c, plan)
  /\ \A c, plan, n : LetsGo(c, plan, n) => Steered(c, plan)
<1>1. ASSUME NEW c, NEW plan, KeepsCube(c, plan) PROVE Steered(c, plan)
  <2>1. \A i \in 1 .. Len(plan) : i - 1 \in 0 .. Len(plan)
    BY <1>1, CourseTypes DEF KeepsCube
  <2> QED
    BY <1>1, <2>1 DEF KeepsCube, Steered, AlwaysHolds, HeldAt
<1>2. ASSUME NEW c, NEW plan, NEW n, LetsGo(c, plan, n) PROVE Steered(c, plan)
  BY <1>2 DEF LetsGo, Steered
<1> QED
  BY <1>1, <1>2

\* The next motion of a plan is issued.
LEMMA IssueAdvances ==
  ASSUME NEW c, NEW plan, Steered(c, plan), NEW k, NEW left \in Seq(Step),
         Left(plan, k, left), left # <<>>, NEW step, step = Head(left), IsMotion(step),
         Rests(c[k]), IssueStep(step)
  PROVE  \E n : /\ Left(plan, n, Tail(left)) /\ UnderWay(c, plan, n, step)'
                /\ step # NoStep /\ Len(Tail(left)) = Len(left) - 1
                /\ c[n].done = c[k].done
<1>1. /\ k \in Nat /\ k + 1 \in 1 .. Len(plan) /\ k \in 0 .. Len(plan)
      /\ step = plan[k + 1] /\ plan[k + 1] \in Step
      /\ Left(plan, k + 1, Tail(left)) /\ Len(Tail(left)) = Len(left) - 1
  BY PlanAdvances DEF Steered
<1>2. k + 1 - 1 = k /\ k + 1 > 0
  BY <1>1
<1>3. c[k].on /\ plan \in Seq(Step) /\ Follows(c, plan)
  BY <1>1, <1>2 DEF Steered
<1>4. c[k] \in Rest /\ c[k + 1] = AfterStep(c[k], plan[k + 1])
  BY <1>1, <1>2, <1>3, CourseTypes
<1>5. CarriesOut(c[k], step)'
  BY <1>3, <1>4, IssueCarriesOut
<1>6. UnderWay(c, plan, k + 1, step)'
  BY <1>1, <1>2, <1>5 DEF UnderWay
<1>7. step.op # "moved"
  BY DEF IsMotion
<1>8. c[k + 1].done = c[k].done
  <2>1. AfterStep(c[k], plan[k + 1]).done = c[k].done
    BY <1>1, <1>4, <1>7, DoneAfter
  <2> QED
    BY <1>4, <2>1
<1>9. step # NoStep
  BY <1>1, StepKinds
<1> QED
  BY <1>1, <1>6, <1>8, <1>9

\* A marker of a plan is passed.
LEMMA MarkerAdvances ==
  ASSUME NEW c, NEW plan, Steered(c, plan), NEW k, NEW left \in Seq(Step),
         Left(plan, k, left), left # <<>>, Rests(c[k]), UNCHANGED <<rails, grippers>>,
         \/ Head(left).op \in {"capture", "moved"} /\ UNCHANGED <<energised, outputsOn>>
         \/ Head(left).op = "off" /\ energised' = {} /\ outputsOn' = FALSE
  PROVE  /\ Left(plan, k + 1, Tail(left)) /\ Len(Tail(left)) = Len(left) - 1
         /\ Rests(c[k + 1])'
         /\ c[k + 1].done = IF Head(left).op = "moved" THEN c[k].done + 1 ELSE c[k].done
<1>1. /\ k \in Nat /\ k + 1 \in 1 .. Len(plan) /\ k \in 0 .. Len(plan)
      /\ Head(left) = plan[k + 1]
      /\ Left(plan, k + 1, Tail(left)) /\ Len(Tail(left)) = Len(left) - 1
  BY PlanAdvances DEF Steered
<1>2. k + 1 - 1 = k
  BY <1>1
<1>3. plan \in Seq(Step) /\ Follows(c, plan)
  BY DEF Steered
<1>4. Rests(c[k + 1])'
  BY <1>1, <1>3, MarkerOnCourse
<1>5. c[k] \in Rest /\ c[k + 1] = AfterStep(c[k], plan[k + 1])
  BY <1>1, <1>2, <1>3, CourseTypes
<1>6. c[k + 1].done = IF Head(left).op = "moved" THEN c[k].done + 1 ELSE c[k].done
  <2>1. AfterStep(c[k], plan[k + 1]).done
          = IF plan[k + 1].op = "moved" THEN c[k].done + 1 ELSE c[k].done
    BY <1>5, DoneAfter
  <2> QED
    BY <1>1, <1>5, <2>1
<1> QED
  BY <1>1, <1>4, <1>6

\* The motion under way arrives.
LEMMA FinishArrives ==
  ASSUME NEW c, NEW plan, Steered(c, plan), NEW k, NEW left, Left(plan, k, left),
         NEW pending \in MotionStep, OnCourse(c, plan, k, pending), FinishStep(pending),
         outputsOn' = outputsOn
  PROVE  Rests(c[k])'
<1>1. pending # NoStep
  BY StepKinds DEF Step
<1>2. /\ k > 0 /\ pending = plan[k] /\ CarriesOut(c[k - 1], plan[k])
      /\ k \in 0 .. Len(plan)
  BY <1>1 DEF OnCourse, UnderWay, Left
<1>3. plan \in Seq(Step) /\ Follows(c, plan)
  BY DEF Steered
<1>4. k \in 1 .. Len(plan)
  BY <1>2, <1>3
<1> QED
  BY <1>2, <1>3, <1>4, FinishOnCourse

\* A plan that keeps the cube is over in canonical grip.
LEMMA EndsAtCanonical ==
  ASSUME NEW c, NEW plan, KeepsCube(c, plan), NEW k, Left(plan, k, <<>>), Rests(c[k])
  PROVE  Rests(CanonicalRest)
<1>1. plan \in Seq(Step) /\ k = Len(plan) /\ k \in 0 .. Len(plan)
  BY PlanEnds DEF KeepsCube, Left
<1>2. /\ c[k].rails = CanonicalRest.rails /\ c[k].grippers = CanonicalRest.grippers
  BY <1>1 DEF KeepsCube, EndsCanonical
<1>3. c[k].on
  BY <1>1 DEF KeepsCube, AlwaysHolds, HeldAt
<1>4. CanonicalRest.on = TRUE
  BY CanonicalRestSafe
<1> QED
  BY <1>2, <1>3, <1>4 DEF Rests

\* A plan that lets go of the cube is over with the stand open and off.
LEMMA EndsOpen ==
  ASSUME NEW c, NEW plan, NEW n, LetsGo(c, plan, n), NEW k, Left(plan, k, <<>>), Rests(c[k])
  PROVE  RailsOpen /\ energised = {} /\ c[k].done = n
<1>1. plan \in Seq(Step) /\ k = Len(plan)
  BY PlanEnds DEF LetsGo
<1>2. AllOpen(c[k]) /\ c[k].done = n
  BY <1>1 DEF LetsGo
<1>3. \A a \in Axis : rails[a] = Settled("Open")
  BY <1>2, SettledIs DEF Rests, AllOpen
<1> QED
  BY <1>2, <1>3 DEF Rests, AllOpen, RailsOpen

-----------------------------------------------------------------------------
(* CustodyInv through the requests.                                        *)

\* A course at its start.
LEMMA CourseBegins ==
  ASSUME NEW c, NEW plan, Steered(c, plan), Rests(CanonicalRest)'
  PROVE  Left(plan, 0, plan) /\ Rests(c[0])'
<1>1. c[0] = CanonicalRest /\ plan \in Seq(Step)
  BY DEF Steered, Follows
<1> QED
  BY <1>1, PlanStarts

LEMMA StartMotionCustody ==
  ASSUME TypeInv, OneInv, CustodyInv, ~OperationActive, NEW kind, NEW count,
         \/ StartMotion(kind, "RecoverStart", count)
         \/ StartMotion(kind, "GripStart", count) /\ pose = "Open"
  PROVE  CustodyInv'
<1>1. /\ motion.op = NoId /\ scanJob.op = NoId /\ solveJob.op = NoId /\ execJob.op = NoId
      /\ operation.id = NoId
  BY DEF OperationActive, OneInv, OneJob, OnlyMotion, OnlyScan, OnlySolve, OnlyExec, Nothing
<1>2. /\ UNCHANGED <<stand, session, scanJob, solveJob, execJob, energised>>
      /\ \/ motion' = [op |-> next.operation, phase |-> "RecoverStart"]
         \/ pose = "Open" /\ motion' = [op |-> next.operation, phase |-> "GripStart"]
      /\ operation'.id = next.operation
  BY DEF StartMotion, Begin
<1>3. ScanCustody' /\ SolveCustody' /\ ExecCustody' /\ ActionsCounted'
  BY <1>1, <1>2, NoJobCustody
<1>4. IdleCustody'
  BY <1>2, NextType, IdsAreNotNoId DEF IdleCustody, TypeInv, TypeOK
<1>5. NothingMoves' /\ (session' # NoId => Rests(CanonicalRest)')
  BY <1>1, <1>2, StandKept DEF CustodyInv, IdleCustody, stand
<1>6. pose = "Open" => RailsOpen' /\ energised' = {}
  BY <1>1, <1>2, StandKept DEF CustodyInv, IdleCustody, stand
<1>7. MotionCustody'
  <2>1. CASE motion'.phase = "RecoverStart"
    BY <1>5, <2>1 DEF MotionCustody, Phases
  <2>2. CASE motion'.phase = "GripStart" /\ pose = "Open"
    BY <1>5, <1>6, <2>2 DEF MotionCustody, Phases
  <2> QED
    BY <1>2, <2>1, <2>2
<1> QED
  BY <1>3, <1>4, <1>7 DEF CustodyInv

\* A cube that is held between operations is held in canonical grip.
LEMMA CubeHeldRests ==
  ASSUME OneInv, CustodyInv, NEW sid, CubeHeld(sid)
  PROVE  /\ Rests(CanonicalRest)
         /\ motion.op = NoId /\ scanJob.op = NoId /\ solveJob.op = NoId /\ execJob.op = NoId
         /\ motion = NoMotion
BY DEF CubeHeld, OperationActive, OneInv, OneJob, OnlyMotion, OnlyScan, OnlySolve, OnlyExec,
       Nothing, NoWorkWithoutJob, CustodyInv, IdleCustody

LEMMA StartScanCustody ==
  ASSUME TypeInv, OneInv, CustodyInv, NEW kind, NEW sid, StartScan(kind, sid)
  PROVE  CustodyInv'
<1>1. /\ Rests(CanonicalRest) /\ motion = NoMotion
      /\ solveJob.op = NoId /\ execJob.op = NoId
  BY CubeHeldRests DEF StartScan
<1>2. /\ UNCHANGED <<stand, session, motion, solveJob, execJob, energised>>
      /\ operation'.id = next.operation
      /\ scanJob'.plan = ScanPlan /\ scanJob'.pending = NoStep
  BY DEF StartScan, Begin
<1>3. Rests(CanonicalRest)'
  BY <1>1, <1>2, StandKept DEF stand
<1>4. ScanCustody'
  <2>1. Left(ScanPlan, 0, ScanPlan) /\ Rests(ScanCourse[0])'
    BY <1>3, ScanKeepsCube, PlansAreSteered, CourseBegins
  <2> QED
    BY <1>2, <2>1, ScanKeepsCube DEF ScanCustody, OnCourse
<1>5. IdleCustody'
  BY <1>2, NextType, IdsAreNotNoId DEF IdleCustody, TypeInv, TypeOK
<1>6. SolveCustody' /\ ExecCustody' /\ ActionsCounted'
  BY <1>1, <1>2 DEF SolveCustody, ExecCustody, ActionsCounted
<1>7. MotionCustody'
  BY <1>1, <1>2, EmptyIds, NoMotionCustody
<1> QED
  BY <1>4, <1>5, <1>6, <1>7 DEF CustodyInv

LEMMA SolveCustodyKept ==
  ASSUME TypeInv, OneInv, CustodyInv, NEW sid, NEW revision, Solve(sid, revision)
  PROVE  CustodyInv'
<1>1. /\ Rests(CanonicalRest) /\ motion = NoMotion
      /\ scanJob.op = NoId /\ execJob.op = NoId
  BY CubeHeldRests DEF Solve
<1>2. /\ UNCHANGED <<stand, session, motion, scanJob, execJob, energised>>
      /\ operation'.id = next.operation
  BY DEF Solve, Begin
<1>3. SolveCustody'
  BY <1>1, <1>2, StandKept DEF SolveCustody, stand
<1>4. IdleCustody'
  BY <1>2, NextType, IdsAreNotNoId DEF IdleCustody, TypeInv, TypeOK
<1>5. ScanCustody' /\ ExecCustody' /\ ActionsCounted'
  BY <1>1, <1>2 DEF ScanCustody, ExecCustody, ActionsCounted
<1>6. MotionCustody'
  BY <1>1, <1>2, EmptyIds, NoMotionCustody
<1> QED
  BY <1>3, <1>4, <1>5, <1>6 DEF CustodyInv

\* An execution starts on a course of its own.
LEMMA StartExecuteCustody ==
  ASSUME TypeInv, OneInv, CustodyInv, NEW sid, CubeHeld(sid),
         NEW kind, NEW plan \in Seq(Step), StartExecute(kind, plan),
         NEW c,
         IF kind = "ExecuteMoves"
         THEN KeepsCube(c, plan)
         ELSE /\ LetsGo(c, plan, IF kind = "Open" THEN 0 ELSE Len(solution'.moves))
              /\ kind # "Open" => solution'.completed = 0
  PROVE  CustodyInv'
<1>1. /\ Rests(CanonicalRest) /\ motion = NoMotion
      /\ scanJob.op = NoId /\ solveJob.op = NoId
  BY CubeHeldRests
<1>2. /\ UNCHANGED <<stand, session, motion, scanJob, solveJob, energised>>
      /\ operation'.id = next.operation
      /\ operation'.current = 0 /\ operation'.count = Len(plan)
      /\ execJob'.plan = plan /\ execJob'.pending = NoStep /\ execJob'.kind = kind
  BY DEF StartExecute, Begin, NewExecJob
<1>3. Rests(CanonicalRest)'
  BY <1>1, <1>2, StandKept DEF stand
<1>4. Left(plan, 0, plan) /\ Rests(c[0])'
  BY <1>3, PlansAreSteered, CourseBegins
<1>5. c[0].done = 0
  <2>1. c[0] = CanonicalRest
    BY PlansAreSteered DEF Steered, Follows
  <2> QED
    BY <2>1, CanonicalRestSafe
<1>6. ExecCustody'
  <2>1. CASE kind = "ExecuteMoves"
    BY <1>2, <1>4, <2>1 DEF ExecCustody, OnCourse
  <2>2. CASE kind # "ExecuteMoves"
    <3>1. MovesToDo' = IF kind = "Open" THEN 0 ELSE Len(solution'.moves)
      BY <1>2 DEF MovesToDo
    <3>2. LetsGo(c, plan, MovesToDo')
      BY <2>2, <3>1
    <3> QED
      BY <1>2, <1>4, <1>5, <2>2, <3>2 DEF ExecCustody, OnCourse
  <2> QED
    BY <2>1, <2>2
<1>7. IdleCustody'
  BY <1>2, NextType, IdsAreNotNoId DEF IdleCustody, TypeInv, TypeOK
<1>8. ScanCustody' /\ SolveCustody'
  BY <1>1, <1>2 DEF ScanCustody, SolveCustody
<1>9. MotionCustody'
  BY <1>1, <1>2, EmptyIds, NoMotionCustody
<1>10. ActionsCounted'
  <2>1. Len(plan) \in Nat
    OBVIOUS
  <2> QED
    BY <1>2, <2>1 DEF ActionsCounted
<1> QED
  BY <1>6, <1>7, <1>8, <1>9, <1>10 DEF CustodyInv

LEMMA RequestCustody ==
  ASSUME TypeInv, OneInv, CustodyInv, Request
  PROVE  CustodyInv'
<1>1. CASE RecoverToOpen
  BY <1>1, StartMotionCustody DEF RecoverToOpen
<1>2. CASE Grip
  BY <1>2, StartMotionCustody DEF Grip, GripAdmitted
<1>3. ASSUME NEW kind, NEW sid, StartScan(kind, sid) PROVE CustodyInv'
  BY <1>3, StartScanCustody
<1>4. ASSUME NEW sid, NEW revision, Solve(sid, revision) PROVE CustodyInv'
  BY <1>4, SolveCustodyKept
<1>5. ASSUME NEW sid, NEW revision, NEW id, Execute(sid, revision, id) PROVE CustodyInv'
  <2>1. CubeHeld(sid) /\ SolutionMatches(id, revision)
    BY <1>5 DEF Execute
  <2>2. PICK m \in MoveSeqs : m = solution.moves
    BY <2>1 DEF SolutionMatches, TypeInv, MovesArePlanned
  <2>3. StartExecute("Execute", ExecutePlan(m)) /\ ExecutePlan(m) \in Seq(Step)
    BY <1>5, <2>2, PlanTypes DEF Execute
  <2>4. solution'.completed = 0 /\ solution'.moves = m
    BY <1>5, <2>2 DEF Execute, TypeInv, TypeOK, SolutionStatus
  <2>5. PICK c : LetsGo(c, ExecutePlan(m), Len(m))
    BY ExecutePlanLetsGo
  <2> QED
    BY <2>1, <2>3, <2>4, <2>5, StartExecuteCustody
<1>6. ASSUME NEW sid, NEW m \in MoveSeqs, ExecuteMoves(sid, m) PROVE CustodyInv'
  <2>1. CubeHeld(sid) /\ StartExecute("ExecuteMoves", HeldSteps(m)) /\ HeldSteps(m) \in Seq(Step)
    BY <1>6, PlanTypes DEF ExecuteMoves
  <2>2. KeepsCube(Course(HeldSteps(m)), HeldSteps(m))
    BY HeldKeepsCube
  <2> QED
    BY <2>1, <2>2, StartExecuteCustody
<1>7. ASSUME NEW sid, Open(sid) PROVE CustodyInv'
  <2>1. CubeHeld(sid) /\ StartExecute("Open", OpenSteps) /\ OpenSteps \in Seq(Step)
    BY <1>7, PlanTypes DEF Open
  <2>2. PICK c : LetsGo(c, OpenSteps, 0)
    BY OpenStepsLetGo
  <2> QED
    BY <2>1, <2>2, StartExecuteCustody
<1> QED
  BY <1>1, <1>2, <1>3, <1>4, <1>5, <1>6, <1>7, FaultCustody DEF Request

-----------------------------------------------------------------------------
(* CustodyInv through the ticks of a recovery and a grip.                  *)

\* The servos of some of the axes, sent off or arrived.
LEMMA SomeServos ==
  ASSUME NEW servos, NEW A \in SUBSET Axis, NEW v
  PROVE  /\ \A a \in Axis : /\ a \in A => Arrived(servos, AllRails(A, v))[a] = Settled(v)
                            /\ a \notin A => /\ Arrived(servos, AllRails(A, v))[a] = servos[a]
                                             /\ Sent(servos, AllRails(A, v))[a] = servos[a]
         /\ \A a \in Axis : Arrived(servos, AllPerpendicular)[a] = Settled("Perpendicular")
  BY DEF Arrived, Sent, AllRails, AllPerpendicular

LEMMA GripEndsCanonical ==
  ASSUME TypeInv, motion.phase = "GripFinishRails", MotionCustody,
         rails' = Arrived(rails, AllRails(Axis, "Grip")), UNCHANGED <<grippers, outputsOn>>,
         energised' = energised \ Rails(Axis)
  PROVE  Rests(CanonicalRest)'
<1>1. /\ \A a \in Axis : grippers[a] = Settled("Perpendicular")
      /\ energised \ Rails(Axis) = Grippers(Axis) /\ outputsOn
  BY DEF MotionCustody
<1>2. CanonicalRest.rails = [a \in Axis |-> "Grip"]
  BY DEF CanonicalRest
<1>3. CanonicalRest.grippers = [a \in Axis |-> "Perpendicular"]
  BY DEF CanonicalRest
<1>4. grippers \in [Axis -> ServoState(Orientation)]
  BY DEF TypeInv, TypeOK
<1>5. grippers = SettledAt(CanonicalRest.grippers)
  BY <1>1, <1>3, <1>4 DEF SettledAt
<1>6. rails' = SettledAt(CanonicalRest.rails)
  BY <1>2 DEF SettledAt, Arrived, AllRails
<1>7. CanonicalRest.on = TRUE
  BY DEF CanonicalRest
<1>8. outputsOn' = TRUE
  BY <1>1 DEF TypeInv, TypeOK
<1> QED
  BY <1>1, <1>5, <1>6, <1>7, <1>8 DEF Rests

LEMMA StillAfter == Rests(CanonicalRest)' => NothingMoves'
<1> SUFFICES ASSUME Rests(CanonicalRest)', NEW a \in Axis
             PROVE  rails'[a].motion # "Moving" /\ grippers'[a].motion # "Moving"
  BY DEF NothingMoves
<1>1. /\ rails' = SettledAt(CanonicalRest.rails)
      /\ grippers' = SettledAt(CanonicalRest.grippers)
  BY DEF Rests
<1> QED
  BY <1>1, SettledIs

LEMMA MotionTickCustody ==
  ASSUME TypeInv, OneInv, PhaseFitsKind, CustodyInv, MotionTick
  PROVE  CustodyInv'
<1>1. /\ motion.op = operation.id /\ motion.op # NoId
      /\ scanJob.op = NoId /\ solveJob.op = NoId /\ execJob.op = NoId
  BY MotionTickOutcomes DEF OnlyMotion
<1> SUFFICES ASSUME ~Faults(operation.id) PROVE CustodyInv'
  BY FaultCustody
<1>f. \A op, drive, release, E : op = operation.id => ~WriteFault(op, drive, release) /\ ~EnterFault(op, E)
  BY FaultsHappen
<1>2. MotionCustody
  BY DEF CustodyInv
<1>3. ASSUME NEW phase, NEW current, Phase(phase, current)
      PROVE  /\ motion'.phase = phase /\ operation'.id # NoId
             /\ ScanCustody' /\ SolveCustody' /\ ExecCustody' /\ ActionsCounted' /\ IdleCustody'
  <2>1. motion'.phase = phase /\ operation'.id = operation.id
    BY <1>3 DEF Phase, TypeInv, TypeOK, ActiveMotion, Operation
  <2>2. UNCHANGED <<scanJob, solveJob, execJob>>
    BY <1>3 DEF Phase
  <2> QED
    BY <1>1, <2>1, <2>2, NoJobCustody, BusyCustody
<1>4. ASSUME NEW first, Complete(first)
      PROVE  ScanCustody' /\ SolveCustody' /\ ExecCustody' /\ ActionsCounted' /\ MotionCustody'
  <2>1. motion' = NoMotion /\ UNCHANGED <<scanJob, solveJob, execJob>>
    BY <1>4 DEF Complete
  <2> QED
    BY <1>1, <2>1, EmptyIds, NoJobCustody, NoMotionCustody
<1>a. /\ LeftRight \in SUBSET Axis /\ TopBottom \in SUBSET Axis /\ Axis \in SUBSET Axis
      /\ \A a \in Axis : a \in TopBottom <=> a \notin LeftRight
  BY AxisPairs
<1>s. \A v : Settled(v).motion # "Moving"
  BY SettledIs
<1>5. CASE RecoverStart
  <2>1. /\ Phase("RecoverFinishLeftRight", 0) /\ grippers' = grippers
        /\ motion.phase = "RecoverStart"
    BY <1>1, <1>5, <1>f DEF RecoverStart
  <2>2. \A a \in Axis : grippers'[a].motion # "Moving"
    BY <1>2, <2>1 DEF MotionCustody, NothingMoves
  <2>3. MotionCustody'
    BY <1>3, <2>1, <2>2 DEF MotionCustody, Phases
  <2> QED
    BY <1>3, <2>1, <2>3 DEF CustodyInv
<1>6. CASE RecoverFinishLeftRight
  <2>1. /\ Phase("RecoverFinishTopBottom", 1) /\ grippers' = grippers
        /\ motion.phase = "RecoverFinishLeftRight"
        /\ rails' = Sent(Arrived(rails, AllRails(LeftRight, "Open")), AllRails(TopBottom, "Open"))
    BY <1>1, <1>6, <1>f DEF RecoverFinishLeftRight
  <2>2. \A a \in Axis : grippers'[a].motion # "Moving"
    BY <1>2, <2>1 DEF MotionCustody
  <2>3. ASSUME NEW a \in LeftRight PROVE rails'[a] = Settled("Open")
    <3> DEFINE there == Arrived(rails, AllRails(LeftRight, "Open"))
    <3>1. a \in Axis /\ a \notin TopBottom
      BY <1>a
    <3>2. there[a] = Settled("Open")
      BY <3>1 DEF Arrived, AllRails
    <3> HIDE DEF there
    <3>3. Sent(there, AllRails(TopBottom, "Open"))[a] = there[a]
      BY <1>a, <3>1, SomeServos
    <3> QED
      BY <2>1, <3>2, <3>3 DEF there
  <2>4. MotionCustody'
    BY <1>3, <2>1, <2>2, <2>3 DEF MotionCustody, Phases
  <2> QED
    BY <1>3, <2>1, <2>4 DEF CustodyInv
<1>7. CASE RecoverFinishTopBottom
  <2>1. /\ Phase("RecoverFinishGrippers", 2) /\ motion.phase = "RecoverFinishTopBottom"
        /\ rails' = Arrived(rails, AllRails(TopBottom, "Open"))
    BY <1>1, <1>7, <1>f DEF RecoverFinishTopBottom
  <2>2. ASSUME NEW a \in Axis PROVE rails'[a] = Settled("Open")
    <3>1. CASE a \in TopBottom
      BY <2>1, <3>1 DEF Arrived, AllRails
    <3>2. CASE a \in LeftRight
      <4>1. rails'[a] = rails[a]
        BY <1>a, <2>1, <3>2, SomeServos
      <4> QED
        BY <1>2, <2>1, <3>2, <4>1 DEF MotionCustody
    <3> QED
      BY <1>a, <3>1, <3>2
  <2>3. MotionCustody'
    BY <1>3, <2>1, <2>2 DEF MotionCustody, RailsOpen, Phases
  <2> QED
    BY <1>3, <2>1, <2>3 DEF CustodyInv
<1>8. CASE RecoverFinishGrippers
  <2>1. /\ Complete(<<>>) /\ motion.phase = "RecoverFinishGrippers"
        /\ rails' = rails /\ grippers' = Arrived(grippers, AllPerpendicular)
        /\ energised' = {} /\ session' = session
    BY <1>1, <1>8, <1>f DEF RecoverFinishGrippers
  <2>2. RailsOpen /\ RailsOpen'
    BY <1>2, <2>1 DEF MotionCustody, RailsOpen
  <2>3. \A a \in Axis : grippers'[a] = Settled("Perpendicular")
    BY <2>1, SomeServos
  <2>4. NothingMoves'
    BY <1>s, <2>2, <2>3 DEF NothingMoves, RailsOpen
  <2>5. session' = NoId
    BY <2>1 DEF PhaseFitsKind, RecoveryPhases
  <2>6. IdleCustody'
    BY <2>1, <2>2, <2>4, <2>5 DEF IdleCustody
  <2> QED
    BY <1>4, <2>1, <2>6 DEF CustodyInv
<1>9. CASE GripStart
  <2>1. /\ Phase("GripFinishGrippers", 0) /\ motion.phase = "GripStart"
        /\ rails' = rails /\ energised' = energised \cup Grippers(Axis)
        /\ outputsOn' = TRUE
    BY <1>1, <1>9, <1>f DEF GripStart, Drive
  <2>2. RailsOpen' /\ energised = {}
    BY <1>2, <2>1 DEF MotionCustody, RailsOpen
  <2>3. MotionCustody'
    BY <1>3, <2>1, <2>2 DEF MotionCustody, Phases
  <2> QED
    BY <1>3, <2>1, <2>3 DEF CustodyInv
<1>10. CASE GripFinishGrippers
  <2>1. /\ Phase("GripFinishRails", 1) /\ motion.phase = "GripFinishGrippers"
        /\ grippers' = Arrived(grippers, AllPerpendicular)
        /\ energised' = energised \cup Rails(Axis) /\ outputsOn' = TRUE
    BY <1>1, <1>10, <1>f DEF GripFinishGrippers, Drive
  <2>2. \A a \in Axis : grippers'[a] = Settled("Perpendicular")
    BY <2>1, SomeServos
  <2>3. energised' \ Rails(Axis) = Grippers(Axis)
    <3>1. energised = Grippers(Axis)
      BY <1>2, <2>1 DEF MotionCustody
    <3>2. Grippers(Axis) \cap Rails(Axis) = {}
      BY DEF Grippers, Rails
    <3> QED
      BY <2>1, <3>1, <3>2
  <2>4. MotionCustody'
    BY <1>3, <2>1, <2>2, <2>3 DEF MotionCustody, Phases
  <2> QED
    BY <1>3, <2>1, <2>4 DEF CustodyInv
<1>11. CASE GripFinishRails
  <2>1. /\ Complete(<< CubeSessionChanged >>) /\ motion.phase = "GripFinishRails"
        /\ rails' = Arrived(rails, AllRails(Axis, "Grip"))
        /\ energised' = energised \ Rails(Axis)
        /\ UNCHANGED <<grippers, outputsOn>> /\ pose' = "CanonicalGrip"
    BY <1>1, <1>11, <1>f DEF GripFinishRails
  <2>2. Rests(CanonicalRest)'
    BY <1>2, <2>1, GripEndsCanonical
  <2>3. NothingMoves'
    BY <2>2, StillAfter
  <2>4. IdleCustody'
    BY <2>1, <2>2, <2>3 DEF IdleCustody
  <2> QED
    BY <1>4, <2>1, <2>4 DEF CustodyInv
<1> QED
  BY <1>5, <1>6, <1>7, <1>8, <1>9, <1>10, <1>11 DEF MotionTick

-----------------------------------------------------------------------------
(* CustodyInv through the ticks of a scan.                                 *)

\* The scan is where its course says.
ScanAt(c, plan, k) == /\ KeepsCube(c, plan) /\ Steered(c, plan)
                      /\ Left(plan, k, scanJob.plan)
                      /\ OnCourse(c, plan, k, scanJob.pending)

LEMMA ScanIsSomewhere ==
  ASSUME CustodyInv, scanJob.op # NoId
  PROVE  \E c, plan, k : ScanAt(c, plan, k)
  BY PlansAreSteered DEF CustodyInv, ScanCustody, ScanAt

LEMMA ScanStaysCourse ==
  ASSUME OneInv, CustodyInv, ScanTick, SameOperation,
         scanJob'.op = scanJob.op, UNCHANGED <<motion, solveJob, execJob>>,
         NEW c, NEW plan, KeepsCube(c, plan), NEW k, Left(plan, k, scanJob'.plan),
         NEW step, scanJob'.pending = step,
         IF step = NoStep THEN Rests(c[k])' ELSE UnderWay(c, plan, k, step)'
  PROVE  CustodyInv'
<1>1. /\ scanJob.op # NoId /\ operation.id # NoId
      /\ solveJob.op = NoId /\ execJob.op = NoId /\ motion.op = NoId
  BY RunningJob
  DEF ScanTick, ScanFinishStep, ScanIssueStep, ScanCapture, ScanFinishInvalid, ScanFinishValid,
      ScanFinishSolve, ScanEnds, OnlyScan
<1>2. ScanCustody'
  <2>1. OnCourse(c, plan, k, scanJob.pending)'
    BY DEF OnCourse, UnderWay
  <2> QED
    BY <2>1 DEF ScanCustody
<1>3. SolveCustody' /\ ExecCustody' /\ ActionsCounted'
  BY <1>1 DEF SolveCustody, ExecCustody, ActionsCounted
<1>4. MotionCustody'
  BY <1>1, EmptyIds, NoMotionCustody DEF OneInv, NoWorkWithoutJob
<1>5. IdleCustody'
  BY <1>1, BusyCustody DEF SameOperation
<1> QED
  BY <1>2, <1>3, <1>4, <1>5 DEF CustodyInv

LEMMA ScanTickCustody ==
  ASSUME TypeInv, OneInv, CustodyInv, ScanTick
  PROVE  CustodyInv'
<1> SUFFICES ASSUME ~Faults(operation.id) PROVE CustodyInv'
  BY FaultCustody
<1>1. /\ scanJob.op = operation.id /\ scanJob.op # NoId
      /\ solveJob.op = NoId /\ execJob.op = NoId /\ motion.op = NoId
  BY ScanTickOutcomes DEF OnlyScan
<1>m. motion = NoMotion
  BY <1>1 DEF OneInv, NoWorkWithoutJob
<1>f. \A op, drive, release, E : op = operation.id => ~WriteFault(op, drive, release) /\ ~EnterFault(op, E)
  BY FaultsHappen
<1>t. /\ scanJob \in ActiveScan /\ scanJob.plan \in Seq(Step)
      /\ scanJob.pending \in MotionStep \cup {NoStep}
  BY DEF TypeInv, TypeOK, ActiveScan
<1>2. PICK c, plan, k : ScanAt(c, plan, k)
  BY <1>1, ScanIsSomewhere
<1>3. /\ KeepsCube(c, plan) /\ Steered(c, plan) /\ Left(plan, k, scanJob.plan)
      /\ OnCourse(c, plan, k, scanJob.pending)
      /\ scanJob.pending = NoStep => Rests(c[k])
  BY <1>2 DEF ScanAt, OnCourse
<1>4. CASE ScanFinishStep
  <2>1. /\ scanJob.pending # NoStep /\ FinishStep(scanJob.pending)
        /\ scanJob' = [scanJob EXCEPT !.pending = NoStep]
        /\ AdvanceCounter /\ outputsOn' = outputsOn
        /\ UNCHANGED <<motion, solveJob, execJob>>
    BY <1>1, <1>4, <1>f DEF ScanFinishStep, PlanFrame
  <2>2. PICK pending \in MotionStep : pending = scanJob.pending
    BY <1>t, <2>1
  <2>3. Rests(c[k])'
    BY <1>3, <2>1, <2>2, FinishArrives
  <2>4. scanJob'.op = scanJob.op /\ scanJob'.plan = scanJob.plan /\ scanJob'.pending = NoStep
    BY <1>t, <2>1 DEF ActiveScan
  <2>5. SameOperation
    BY <2>1, CounterOne DEF SameOperation
  <2> QED
    BY <1>3, <2>1, <2>3, <2>4, <2>5, ScanStaysCourse
<1>5. CASE ScanIssueStep
  <2>1. PICK left \in Seq(Step) : left = scanJob.plan
    BY <1>t
  <2>s. PICK step : step = Head(left)
    OBVIOUS
  <2>2. /\ scanJob.pending = NoStep /\ left # <<>>
        /\ IsMotion(step) /\ IssueStep(step)
        /\ scanJob' = [scanJob EXCEPT !.pending = step, !.plan = Tail(@)]
        /\ UNCHANGED <<operation, motion, solveJob, execJob>>
    BY <1>1, <1>5, <1>f, <2>1, <2>s DEF ScanIssueStep, PlanFrame
  <2>3. PICK n : Left(plan, n, Tail(left)) /\ UnderWay(c, plan, n, step)' /\ step # NoStep
    BY <1>3, <2>1, <2>s, <2>2, IssueAdvances
  <2>4. scanJob'.op = scanJob.op /\ scanJob'.plan = Tail(left) /\ scanJob'.pending = step
    BY <1>t, <2>1, <2>2 DEF ActiveScan
  <2>5. SameOperation
    BY <2>2 DEF SameOperation
  <2> QED
    BY <1>3, <2>2, <2>3, <2>4, <2>5, ScanStaysCourse
<1>6. CASE ScanCapture
  <2>1. PICK left \in Seq(Step) : left = scanJob.plan
    BY <1>t
  <2>2. /\ scanJob.pending = NoStep /\ left # <<>> /\ Head(left).op = "capture"
        /\ UNCHANGED <<rails, grippers, outputsOn, energised>>
        /\ AdvanceCounter
        /\ UNCHANGED <<motion, solveJob, execJob>>
    BY <1>6, <2>1 DEF ScanCapture, PlanFrame
  <2>3. \/ scanJob' = [scanJob EXCEPT !.plan = Tail(@)]
        \/ scanJob' = [scanJob EXCEPT !.plan = Tail(@), !.failed = TRUE]
    BY <1>6 DEF ScanCapture
  <2>4. Left(plan, k + 1, Tail(left)) /\ Rests(c[k + 1])'
    <3>1. Steered(c, plan) /\ Left(plan, k, left) /\ Rests(c[k])
      BY <1>3, <2>1, <2>2
    <3> QED
      BY <2>2, <3>1, MarkerAdvances
  <2>5. scanJob'.op = scanJob.op /\ scanJob'.plan = Tail(left) /\ scanJob'.pending = NoStep
    BY <1>t, <2>1, <2>2, <2>3 DEF ActiveScan
  <2>6. SameOperation
    BY <2>2, CounterOne DEF SameOperation
  <2> QED
    BY <1>3, <2>2, <2>4, <2>5, <2>6, ScanStaysCourse
<1>7. CASE ScanIsOver
  <2>1. /\ scanJob.pending = NoStep /\ scanJob.plan = <<>>
        /\ scanJob' = NoScanJob /\ pose' = "CanonicalGrip"
        /\ UNCHANGED <<rails, grippers, outputsOn, energised, motion, execJob>>
    BY <1>7
    DEF ScanIsOver, ScanFinishInvalid, ScanFinishValid, ScanFinishSolve, ScanEnds,
        ScanLeavesCanonicalGrip
  <2>2. Rests(CanonicalRest)
    BY <1>3, <2>1, EndsAtCanonical
  <2>3. Rests(CanonicalRest)' /\ NothingMoves'
    BY <2>1, <2>2, StandKept, StillAfter
  <2>4. ScanCustody' /\ ExecCustody' /\ ActionsCounted'
    BY <1>1, <2>1, EmptyIds DEF ScanCustody, ExecCustody, ActionsCounted
  <2>5. MotionCustody'
    BY <1>m, <2>1, EmptyIds, NoMotionCustody
  <2>6. IdleCustody'
    BY <2>1, <2>3 DEF IdleCustody
  <2>7. SolveCustody'
    BY <2>3 DEF SolveCustody
  <2> QED
    BY <2>4, <2>5, <2>6, <2>7 DEF CustodyInv
<1> QED
  BY <1>4, <1>5, <1>6, <1>7 DEF ScanTick, ScanIsOver

-----------------------------------------------------------------------------
(* CustodyInv through the solver.                                          *)

\* Custody does not depend on what the solver has found.
LEMMA CustodyKept ==
  ASSUME CustodyInv, solveJob'.op = solveJob.op,
         UNCHANGED <<pose, rails, grippers, outputsOn, energised, session>>,
         UNCHANGED <<operation, solution, motion, scanJob, execJob>>
  PROVE  CustodyInv'
<1>1. SolveCustody'
  BY StandKept DEF CustodyInv, SolveCustody
<1>2. IdleCustody' /\ MotionCustody'
  BY DEF CustodyInv, IdleCustody, MotionCustody, NothingMoves, RailsOpen, Rests
<1>3. ScanCustody'
  <2>1. ASSUME NEW c, NEW plan, NEW k, OnCourse(c, plan, k, scanJob.pending)
        PROVE  OnCourse(c, plan, k, scanJob.pending)'
    BY <2>1 DEF OnCourse, UnderWay, Rests, CarriesOut
  <2> QED
    BY <2>1 DEF CustodyInv, ScanCustody
<1>4. ExecCustody'
  <2>1. ASSUME NEW c, NEW plan, NEW k, OnCourse(c, plan, k, execJob.pending)
        PROVE  OnCourse(c, plan, k, execJob.pending)'
    BY <2>1 DEF OnCourse, UnderWay, Rests, CarriesOut
  <2>2. MovesToDo' = MovesToDo
    BY DEF MovesToDo
  <2> QED
    BY <2>1, <2>2 DEF CustodyInv, ExecCustody
<1>5. ActionsCounted'
  BY DEF CustodyInv, ActionsCounted
<1> QED
  BY <1>1, <1>2, <1>3, <1>4, <1>5 DEF CustodyInv

LEMMA SolverAnswersCustody ==
  ASSUME TypeInv, CustodyInv, SolverAnswers
  PROVE  CustodyInv'
<1>1. solveJob'.op = solveJob.op
  BY DEF SolverAnswers, TypeInv, TypeOK, ActiveSolve
<1>2. /\ UNCHANGED <<pose, rails, grippers, outputsOn, energised, session>>
      /\ UNCHANGED <<operation, solution, motion, scanJob, execJob>>
  BY DEF SolverAnswers, status
<1> QED
  BY <1>1, <1>2, CustodyKept

LEMMA SolveTickCustody ==
  ASSUME TypeInv, OneInv, PoseFits, CustodyInv, SolveTick
  PROVE  CustodyInv'
<1> SUFFICES ASSUME ~Faults(operation.id) PROVE CustodyInv'
  BY FaultCustody
<1>1. /\ solveJob.op = operation.id /\ solveJob.op # NoId
      /\ scanJob.op = NoId /\ execJob.op = NoId /\ motion.op = NoId
  BY SolveTickOutcomes DEF OnlySolve
<1>2. Rests(CanonicalRest) /\ pose = "CanonicalGrip" /\ motion = NoMotion
  BY <1>1 DEF CustodyInv, SolveCustody, PoseFits, OneInv, NoWorkWithoutJob
<1>3. CASE SolveFails \/ SolveFinishes
  <2>1. UNCHANGED <<stand, motion, scanJob, execJob, energised>> /\ solveJob' = NoSolveJob
    BY <1>3 DEF SolveFails, SolveFinishes
  <2>2. Rests(CanonicalRest)' /\ NothingMoves' /\ pose' = "CanonicalGrip"
    BY <1>2, <2>1, StandKept, StillAfter DEF stand
  <2>3. ScanCustody' /\ SolveCustody' /\ ExecCustody' /\ ActionsCounted'
    BY <1>1, <2>1, EmptyIds, NoJobCustody
  <2>4. MotionCustody'
    BY <1>2, <2>1, EmptyIds, NoMotionCustody
  <2>5. IdleCustody'
    BY <2>2 DEF IdleCustody
  <2> QED
    BY <2>3, <2>4, <2>5 DEF CustodyInv
<1>4. CASE SolveStartsExecution
  <2>1. PICK m \in MoveSeqs : m = solveJob.moves
    BY <1>4 DEF SolveStartsExecution, TypeInv, MovesArePlanned
  <2>2. /\ ExecutePlan(m) \in Seq(Step) /\ ExecutePlan(m) # <<>>
        /\ Head(ExecutePlan(m)) \in MotionStep
    BY PlanTypes
  <2>3. PICK left \in Seq(Step), step \in MotionStep : left = ExecutePlan(m) /\ step = Head(left)
    BY <2>2
  <2>4. PICK c : LetsGo(c, left, Len(m))
    BY <2>3, ExecutePlanLetsGo
  <2>5. /\ IssueStep(step)
        /\ solution' = Solution("Executing")
        /\ operation' = [operation EXCEPT !.current = @ + 1,
                                          !.count = operation.current + 1 + Len(left)]
        /\ execJob' = [NewExecJob(solveJob.op, solveJob.kind, left)
                         EXCEPT !.pending = step, !.plan = Tail(@)]
        /\ solveJob' = NoSolveJob
        /\ UNCHANGED <<motion, scanJob>> /\ solveJob.kind = "ScanSolveExecute"
    <3>1. ~(FaultAfter(<< RobotStateChanged >>, solveJob.op,
                       PartlySet(energised, StepChannels(Head(ExecutePlan(solveJob.moves)))))
             /\ next' = [next EXCEPT !.solution = NextId(@)])
      <4>1. next' = [next EXCEPT !.solution = NextId(@)] => next'.session = next.session
        BY DEF TypeInv, TypeOK, Counters
      <4> QED
        BY <1>1, <4>1, FaultsHappen
    <3> QED
      BY <1>4, <2>1, <2>3, <3>1 DEF SolveStartsExecution
  <2>6. /\ execJob'.op = solveJob.op /\ execJob'.kind = "ScanSolveExecute"
        /\ execJob'.plan = Tail(left) /\ execJob'.pending = step
    BY <2>5 DEF NewExecJob
  <2>7. /\ operation'.id = operation.id /\ operation'.current = operation.current + 1
        /\ operation'.count = operation.current + 1 + Len(left)
    BY <2>5 DEF TypeInv, TypeOK, Operation
  <2>8. solution'.moves = m /\ solution'.completed = 0
    BY <2>1, <2>5 DEF Solution
  <2>9. Steered(c, left) /\ c[0] = CanonicalRest
    BY <2>4, PlansAreSteered DEF Steered, Follows
  <2>10. IsMotion(step) /\ left # <<>>
    BY <2>2, <2>3, MotionStepKinds DEF IsMotion
  <2>11. PICK n : /\ Left(left, n, Tail(left)) /\ UnderWay(c, left, n, step)'
                  /\ step # NoStep /\ Len(Tail(left)) = Len(left) - 1
                  /\ c[n].done = c[0].done
    <3>1. Left(left, 0, left) /\ Rests(c[0])
      BY <1>2, <2>9, PlanStarts
    <3> QED
      BY <2>3, <2>5, <2>9, <2>10, <3>1, IssueAdvances
  <2>12. ExecCustody'
    <3>1. MovesToDo' = Len(m)
      BY <2>6, <2>8 DEF MovesToDo
    <3>2. LetsGo(c, left, MovesToDo')
      BY <2>4, <3>1
    <3>3. solution'.completed = c[n].done
      BY <2>8, <2>9, <2>11, CanonicalRestSafe
    <3>4. OnCourse(c, left, n, execJob.pending)'
      BY <2>6, <2>11 DEF OnCourse, UnderWay
    <3> QED
      BY <2>6, <2>11, <3>2, <3>3, <3>4 DEF ExecCustody
  <2>13. ActionsCounted'
    <3>1. Len(left) \in Nat /\ operation.current \in Nat
      BY DEF TypeInv, TypeOK, Operation
    <3>2. execJob'.pending # NoStep /\ Len(execJob'.plan) = Len(left) - 1
      BY <2>6, <2>11
    <3> QED
      BY <2>7, <3>1, <3>2 DEF ActionsCounted
  <2>14. MotionCustody' /\ ScanCustody' /\ SolveCustody' /\ IdleCustody'
    <3>1. MotionCustody'
      BY <1>2, <2>5, EmptyIds, NoMotionCustody
    <3>2. ScanCustody' /\ SolveCustody'
      BY <1>1, <2>5, EmptyIds DEF ScanCustody, SolveCustody
    <3>3. IdleCustody'
      BY <1>1, <2>7, BusyCustody
    <3> QED
      BY <3>1, <3>2, <3>3
  <2> QED
    BY <2>12, <2>13, <2>14 DEF CustodyInv
<1> QED
  BY <1>3, <1>4 DEF SolveTick

-----------------------------------------------------------------------------
(* CustodyInv through the ticks of an execution.                           *)

\* The plan does what its kind promises.
PromisedBy(c, plan) ==
  IF execJob.kind = "ExecuteMoves" THEN KeepsCube(c, plan) ELSE LetsGo(c, plan, MovesToDo)

\* The moves of the solution that are done are those its course has done.
DoneOnCourse(rest) ==
  execJob.kind \notin {"ExecuteMoves", "Open"} => solution.completed = rest.done

\* The execution is where its course says.
ExecAt(c, plan, k) == /\ PromisedBy(c, plan) /\ Steered(c, plan)
                      /\ DoneOnCourse(c[k])
                      /\ Left(plan, k, execJob.plan)
                      /\ OnCourse(c, plan, k, execJob.pending)

LEMMA ExecIsSomewhere ==
  ASSUME CustodyInv, execJob.op # NoId
  PROVE  \E c, plan, k : ExecAt(c, plan, k)
<1>1. PICK c, plan, k : /\ IF execJob.kind = "ExecuteMoves"
                           THEN KeepsCube(c, plan)
                           ELSE /\ LetsGo(c, plan, MovesToDo)
                                /\ execJob.kind # "Open" => solution.completed = c[k].done
                        /\ Left(plan, k, execJob.plan)
                        /\ OnCourse(c, plan, k, execJob.pending)
  BY DEF CustodyInv, ExecCustody
<1>2. PromisedBy(c, plan) /\ DoneOnCourse(c[k])
  BY <1>1 DEF PromisedBy, DoneOnCourse
<1>3. Steered(c, plan)
  BY <1>1, PlansAreSteered
<1> QED
  BY <1>1, <1>2, <1>3 DEF ExecAt

LEMMA CountAdvances ==
  ASSUME TypeInv, AdvanceCounter
  PROVE  /\ operation'.current = operation.current + 1 /\ operation'.count = operation.count
         /\ operation.current \in Nat /\ operation.count \in Nat
  BY DEF TypeInv, TypeOK, Operation, AdvanceCounter

LEMMA OneDone ==
  \A current, left, count \in Nat : current + left = count => (current + 1) + (left - 1) + 0 = count
  OBVIOUS

LEMMA ExecStaysCourse ==
  ASSUME CustodyInv, OnlyExec, motion = NoMotion, SameOperation,
         execJob'.op = execJob.op, execJob'.kind = execJob.kind,
         UNCHANGED <<motion, scanJob, solveJob>>,
         NEW c, NEW plan, PromisedBy(c, plan), NEW k, Left(plan, k, execJob'.plan),
         execJob.kind # "ExecuteMoves" => solution'.moves = solution.moves,
         DoneOnCourse(c[k])',
         NEW step, execJob'.pending = step,
         IF step = NoStep THEN Rests(c[k])' ELSE UnderWay(c, plan, k, step)',
         ActionsCounted'
  PROVE  CustodyInv'
<1>1. ExecCustody'
  <2>1. OnCourse(c, plan, k, execJob.pending)'
    BY DEF OnCourse, UnderWay
  <2>2. CASE execJob.kind = "ExecuteMoves"
    <3>1. KeepsCube(c, plan)
      BY <2>2 DEF PromisedBy
    <3> QED
      BY <2>1, <2>2, <3>1 DEF ExecCustody
  <2>3. CASE execJob.kind # "ExecuteMoves"
    <3>1. MovesToDo' = MovesToDo
      BY <2>3 DEF MovesToDo
    <3>2. LetsGo(c, plan, MovesToDo')
      BY <2>3, <3>1 DEF PromisedBy
    <3>3. execJob'.kind # "Open" => solution'.completed = c[k].done
      BY <2>3 DEF DoneOnCourse
    <3> QED
      BY <2>1, <2>3, <3>2, <3>3 DEF ExecCustody
  <2> QED
    BY <2>2, <2>3
<1>2. ScanCustody' /\ SolveCustody'
  BY DEF OnlyExec, ScanCustody, SolveCustody
<1>3. MotionCustody'
  BY EmptyIds, NoMotionCustody
<1>4. IdleCustody'
  BY BusyCustody DEF OnlyExec, SameOperation
<1> QED
  BY <1>1, <1>2, <1>3, <1>4 DEF CustodyInv

LEMMA ExecTickCustody ==
  ASSUME TypeInv, OneInv, CustodyInv, ExecTick
  PROVE  CustodyInv'
<1> SUFFICES ASSUME ~Faults(operation.id) PROVE CustodyInv'
  BY FaultCustody
<1>1. OnlyExec
  BY ExecTickOutcomes
<1>2. /\ execJob.op = operation.id /\ execJob.op # NoId
      /\ motion.op = NoId /\ scanJob.op = NoId /\ solveJob.op = NoId
  BY <1>1 DEF OnlyExec
<1>m. motion = NoMotion
  BY <1>2 DEF OneInv, NoWorkWithoutJob
<1>f. \A op, drive, release, E : op = operation.id => ~WriteFault(op, drive, release) /\ ~EnterFault(op, E)
  BY FaultsHappen
<1>t. /\ execJob \in ActiveExecute /\ execJob.plan \in Seq(Step)
      /\ execJob.pending \in MotionStep \cup {NoStep}
  BY DEF TypeInv, TypeOK, ActiveExecute
<1>3. PICK c, plan, k : ExecAt(c, plan, k)
  BY <1>2, ExecIsSomewhere
<1>4. /\ PromisedBy(c, plan) /\ Steered(c, plan) /\ Left(plan, k, execJob.plan)
      /\ OnCourse(c, plan, k, execJob.pending)
      /\ execJob.pending = NoStep => Rests(c[k])
      /\ DoneOnCourse(c[k])
  BY <1>3 DEF ExecAt, OnCourse
<1>5. /\ execJob.pending = NoStep =>
           operation.current + Len(execJob.plan) = operation.count
      /\ execJob.pending # NoStep =>
           operation.current + Len(execJob.plan) + 1 = operation.count
      /\ operation.current \in Nat /\ operation.count \in Nat /\ Len(execJob.plan) \in Nat
  <2>1. operation.current \in Nat /\ operation.count \in Nat /\ Len(execJob.plan) \in Nat
    BY <1>t DEF TypeInv, TypeOK, Operation
  <2> QED
    BY <1>2, <2>1 DEF CustodyInv, ActionsCounted
<1>n. operation.current \in Nat /\ operation.count \in Nat /\ Len(execJob.plan) \in Nat
  BY <1>5
<1>6. CASE ExecFinishStep
  <2>1. /\ execJob.pending # NoStep /\ FinishStep(execJob.pending)
        /\ execJob' = [execJob EXCEPT !.pending = NoStep]
        /\ AdvanceCounter /\ outputsOn' = outputsOn
        /\ UNCHANGED <<motion, scanJob, solveJob, solution>>
    BY <1>2, <1>6, <1>f DEF ExecFinishStep, PlanFrame
  <2>2. PICK pending \in MotionStep : pending = execJob.pending
    BY <1>t, <2>1
  <2>3. Rests(c[k])'
    BY <1>4, <2>1, <2>2, FinishArrives
  <2>4. /\ execJob'.op = execJob.op /\ execJob'.kind = execJob.kind
        /\ execJob'.plan = execJob.plan /\ execJob'.pending = NoStep
    BY <1>t, <2>1 DEF ActiveExecute
  <2>5. SameOperation
    BY <2>1, CounterOne DEF SameOperation
  <2>6. ActionsCounted'
    BY <1>5, <2>1, <2>4, CountAdvances DEF ActionsCounted
  <2>7. DoneOnCourse(c[k])'
    BY <1>4, <2>1, <2>4 DEF DoneOnCourse
  <2> QED
    BY <1>1, <1>m, <1>4, <2>1, <2>3, <2>4, <2>5, <2>6, <2>7, ExecStaysCourse
<1>7. CASE ExecIssueStep
  <2>1. PICK left \in Seq(Step) : left = execJob.plan
    BY <1>t
  <2>s. PICK step : step = Head(left)
    OBVIOUS
  <2>2. /\ execJob.pending = NoStep /\ left # <<>>
        /\ IsMotion(step) /\ IssueStep(step)
        /\ execJob' = [execJob EXCEPT !.pending = step, !.plan = Tail(@)]
        /\ UNCHANGED <<operation, motion, scanJob, solveJob, solution>>
    BY <1>2, <1>7, <1>f, <2>1, <2>s DEF ExecIssueStep, ExecPops, IsMotion, PlanFrame
  <2>3. PICK n : /\ Left(plan, n, Tail(left)) /\ UnderWay(c, plan, n, step)'
                 /\ step # NoStep /\ Len(Tail(left)) = Len(left) - 1
                 /\ c[n].done = c[k].done
    BY <1>4, <2>1, <2>s, <2>2, IssueAdvances
  <2>4. /\ execJob'.op = execJob.op /\ execJob'.kind = execJob.kind
        /\ execJob'.plan = Tail(left) /\ execJob'.pending = step
    BY <1>t, <2>1, <2>2 DEF ActiveExecute
  <2>5. SameOperation
    BY <2>2 DEF SameOperation
  <2>6. ActionsCounted'
    BY <1>5, <2>1, <2>2, <2>3, <2>4 DEF ActionsCounted
  <2>7. DoneOnCourse(c[n])'
    BY <1>4, <2>2, <2>3, <2>4 DEF DoneOnCourse
  <2> QED
    BY <1>1, <1>m, <1>4, <2>2, <2>3, <2>4, <2>5, <2>6, <2>7, ExecStaysCourse
<1>8. CASE ExecMoveCompleted
  <2>1. PICK left \in Seq(Step) : left = execJob.plan
    BY <1>t
  <2>2. /\ execJob.pending = NoStep /\ left # <<>> /\ Head(left).op = "moved"
        /\ execJob' = [execJob EXCEPT !.plan = Tail(@)]
        /\ UNCHANGED <<rails, grippers, outputsOn, energised>> /\ AdvanceCounter
        /\ UNCHANGED <<motion, scanJob, solveJob>>
    BY <1>8, <2>1 DEF ExecMoveCompleted, ExecPops, PlanFrame
  <2>3. /\ Left(plan, k + 1, Tail(left)) /\ Len(Tail(left)) = Len(left) - 1
        /\ Rests(c[k + 1])' /\ c[k + 1].done = c[k].done + 1
    <3>1. Steered(c, plan) /\ Left(plan, k, left) /\ Rests(c[k])
      BY <1>4, <2>1, <2>2
    <3> QED
      BY <2>2, <3>1, MarkerAdvances
  <2>4. /\ execJob'.op = execJob.op /\ execJob'.kind = execJob.kind
        /\ execJob'.plan = Tail(left) /\ execJob'.pending = NoStep
    BY <1>t, <2>1, <2>2 DEF ActiveExecute
  <2>5. SameOperation
    BY <2>2, CounterOne DEF SameOperation
  <2>6. ActionsCounted'
    <3>1. Len(execJob'.plan) = Len(execJob.plan) - 1
      BY <2>1, <2>3, <2>4
    <3>2. operation'.current = operation.current + 1 /\ operation'.count = operation.count
      BY <2>2, CountAdvances
    <3>3. operation.current + Len(execJob.plan) = operation.count
      BY <1>5, <2>2
    <3>4. operation'.current + Len(execJob'.plan) + 0 = operation'.count
      BY <1>n, <3>1, <3>2, <3>3, OneDone
    <3> QED
      BY <2>4, <3>4 DEF ActionsCounted
  <2>7. execJob.kind # "ExecuteMoves" => /\ solution'.moves = solution.moves
                                         /\ solution'.completed = solution.completed + 1
    BY <1>8 DEF ExecMoveCompleted, TypeInv, TypeOK, SolutionStatus
  <2>8. DoneOnCourse(c[k + 1])'
    BY <1>4, <2>3, <2>4, <2>7 DEF DoneOnCourse
  <2> QED
    BY <1>1, <1>m, <1>4, <2>2, <2>3, <2>4, <2>5, <2>6, <2>7, <2>8, ExecStaysCourse
<1>9. CASE ExecAllOff
  <2>1. PICK left \in Seq(Step) : left = execJob.plan
    BY <1>t
  <2>2. /\ execJob.pending = NoStep /\ left # <<>> /\ Head(left).op = "off"
        /\ execJob' = [execJob EXCEPT !.plan = Tail(@)]
        /\ energised' = {} /\ outputsOn' = FALSE /\ AdvanceCounter
        /\ UNCHANGED <<rails, grippers, motion, scanJob, solveJob, solution>>
    BY <1>2, <1>9, <1>f, <2>1 DEF ExecAllOff, ExecPops, PlanFrame
  <2>3. /\ Left(plan, k + 1, Tail(left)) /\ Len(Tail(left)) = Len(left) - 1
        /\ Rests(c[k + 1])' /\ c[k + 1].done = c[k].done
    <3>1. Steered(c, plan) /\ Left(plan, k, left) /\ Rests(c[k])
      BY <1>4, <2>1, <2>2
    <3> QED
      BY <2>2, <3>1, MarkerAdvances
  <2>4. /\ execJob'.op = execJob.op /\ execJob'.kind = execJob.kind
        /\ execJob'.plan = Tail(left) /\ execJob'.pending = NoStep
    BY <1>t, <2>1, <2>2 DEF ActiveExecute
  <2>5. SameOperation
    BY <2>2, CounterOne DEF SameOperation
  <2>6. ActionsCounted'
    <3>1. Len(execJob'.plan) = Len(execJob.plan) - 1
      BY <2>1, <2>3, <2>4
    <3>2. operation'.current = operation.current + 1 /\ operation'.count = operation.count
      BY <2>2, CountAdvances
    <3>3. operation.current + Len(execJob.plan) = operation.count
      BY <1>5, <2>2
    <3>4. operation'.current + Len(execJob'.plan) + 0 = operation'.count
      BY <1>n, <3>1, <3>2, <3>3, OneDone
    <3> QED
      BY <2>4, <3>4 DEF ActionsCounted
  <2>7. DoneOnCourse(c[k + 1])'
    BY <1>4, <2>2, <2>3, <2>4 DEF DoneOnCourse
  <2> QED
    BY <1>1, <1>m, <1>4, <2>2, <2>3, <2>4, <2>5, <2>6, <2>7, ExecStaysCourse
<1>10. ASSUME ExecEnds
       PROVE  /\ ScanCustody' /\ SolveCustody' /\ ExecCustody' /\ ActionsCounted' /\ MotionCustody'
              /\ Left(plan, k, <<>>) /\ Rests(c[k])
              /\ UNCHANGED <<rails, grippers, energised>>
  <2>1. /\ execJob' = NoExecJob /\ UNCHANGED <<motion, scanJob, solveJob>>
        /\ execJob.pending = NoStep /\ execJob.plan = <<>>
        /\ UNCHANGED <<rails, grippers, energised>>
    BY <1>10 DEF ExecEnds
  <2> QED
    BY <1>2, <1>m, <1>4, <2>1, EmptyIds, NoJobCustody, NoMotionCustody
<1>11. CASE ExecFinishHeld
  <2>1. /\ ExecEnds /\ pose' = "CanonicalGrip" /\ outputsOn' = outputsOn
        /\ execJob.kind = "ExecuteMoves"
    BY <1>11 DEF ExecFinishHeld
  <2>2. Rests(CanonicalRest)
    BY <1>4, <1>10, <2>1, EndsAtCanonical DEF PromisedBy
  <2>3. Rests(CanonicalRest)' /\ NothingMoves'
    BY <1>10, <2>1, <2>2, StandKept, StillAfter
  <2>4. IdleCustody'
    BY <2>1, <2>3 DEF IdleCustody
  <2> QED
    BY <1>10, <2>1, <2>4 DEF CustodyInv
<1>12. CASE ExecFinishOpen
  <2>1. /\ ExecEnds /\ session' = NoId /\ execJob.kind # "ExecuteMoves"
    BY <1>12 DEF ExecFinishOpen
  <2>2. RailsOpen /\ energised = {}
    BY <1>4, <1>10, <2>1, EndsOpen DEF PromisedBy
  <2>3. NothingMoves
    BY <1>10, <2>1, SettledServosAreStill
  <2>4. RailsOpen' /\ energised' = {} /\ NothingMoves'
    BY <1>10, <2>1, <2>2, <2>3 DEF RailsOpen, NothingMoves
  <2>5. IdleCustody'
    BY <2>1, <2>4 DEF IdleCustody
  <2> QED
    BY <1>10, <2>1, <2>5 DEF CustodyInv
<1> QED
  BY <1>6, <1>7, <1>8, <1>9, <1>11, <1>12 DEF ExecTick

-----------------------------------------------------------------------------
LEMMA CustodyInvInit == Init => CustodyInv
<1> SUFFICES ASSUME Init PROVE CustodyInv
  OBVIOUS
<1>1. /\ motion = NoMotion /\ scanJob = NoScanJob /\ solveJob = NoSolveJob /\ execJob = NoExecJob
      /\ session = NoId /\ pose = "Unknown"
      /\ rails = [a \in Axis |-> UnknownServo] /\ grippers = [a \in Axis |-> UnknownServo]
  BY DEF Init
<1>2. ScanCustody /\ SolveCustody /\ ExecCustody /\ ActionsCounted
  BY <1>1, EmptyIds DEF ScanCustody, SolveCustody, ExecCustody, ActionsCounted
<1>3. MotionCustody
  BY <1>1, EmptyIds DEF MotionCustody, None
<1>4. IdleCustody
  BY <1>1, UnknownServosAreStill DEF IdleCustody, NothingMoves
<1> QED
  BY <1>2, <1>3, <1>4 DEF CustodyInv

LEMMA CustodyInvNext ==
  TypeInv /\ OneInv /\ PhaseFitsKind /\ PoseFits /\ CustodyInv /\ [Next]_vars => CustodyInv'
<1> SUFFICES ASSUME TypeInv, OneInv, PhaseFitsKind, PoseFits, CustodyInv, [Next]_vars
             PROVE  CustodyInv'
  OBVIOUS
<1>1. CASE Request
  BY <1>1, RequestCustody
<1>2. CASE Tick
  BY <1>2, MotionTickCustody, ScanTickCustody, SolveTickCustody, ExecTickCustody DEF Tick
<1>3. CASE SolverAnswers
  BY <1>3, SolverAnswersCustody
<1>4. CASE UNCHANGED vars
  <2>1. UNCHANGED <<status, jobs, energised>>
    BY <1>4 DEF vars
  <2>2. /\ UNCHANGED <<pose, rails, grippers, outputsOn, energised, session>>
        /\ UNCHANGED <<operation, solution, motion, scanJob, solveJob, execJob>>
    BY <2>1 DEF status, jobs
  <2> QED
    BY <2>2, CustodyKept
<1> QED
  BY <1>1, <1>2, <1>3, <1>4 DEF Next

\* Where every servo is, in every phase of a recovery and a grip and at every
\* place of a running plan, and how much an execution has still to do.
THEOREM CustodyInvariance == Spec => []CustodyInv
  BY CustodyInvInit, CustodyInvNext, TypeInvariance, OneInvariance, PhaseInvariance,
     PoseInvariance, PTL DEF Spec

-----------------------------------------------------------------------------
(***************************************************************************)
(* Custody follows.                                                        *)
(***************************************************************************)

LEMMA ChannelsApart ==
  /\ \A A, B : Grippers(A) \cap Rails(B) = {}
  /\ \A A \in SUBSET Axis : (Grippers(Axis) \cup Rails(A)) \cap Rails(Axis) = Rails(A)
  /\ \A A \in SUBSET Axis : (Grippers(Axis) \cup Grippers(A)) \cap Rails(Axis) = {}
  /\ Rails({}) = {}
  BY DEF Grippers, Rails

\* A stand at rest: nothing moves and no rail servo is driven.
LEMMA RestIsStill ==
  ASSUME NEW rest, Rests(rest)
  PROVE  NothingMoves /\ energised \cap Rails(Axis) = {}
<1>1. NothingMoves
  BY SettledServosAreStill
<1>2. CASE rest.on
  BY <1>1, <1>2, ChannelsApart DEF Rests
<1>3. CASE ~rest.on
  BY <1>1, <1>3 DEF Rests
<1> QED
  BY <1>1, <1>2, <1>3

MovingRails == {a \in Axis : rails[a].motion = "Moving"}

LEMMA StillIsOneKind ==
  ASSUME NothingMoves
  PROVE  /\ \A a, b \in Axis : ~(rails[a].motion = "Moving" /\ grippers[b].motion = "Moving")
         /\ MovingRails = {}
  BY DEF NothingMoves, MovingRails

\* What moves during a step, and what is driven.
LEMMA StepIsOneKind ==
  ASSUME NEW rest, NEW step \in MotionStep, CarriesOut(rest, step)
  PROVE  /\ \A a, b \in Axis : ~(rails[a].motion = "Moving" /\ grippers[b].motion = "Moving")
         /\ energised \cap Rails(Axis) = Rails(MovingRails)
<1>1. DOMAIN step.to \in SUBSET Axis
  BY MotionStepKinds DEF Targets
<1>2. CASE step.op = "rails"
  <2>1. /\ rails = Sent(SettledAt(rest.rails), step.to)
        /\ grippers = SettledAt(rest.grippers)
        /\ energised = Grippers(Axis) \cup Rails(DOMAIN step.to)
    BY <1>2 DEF CarriesOut, RailsDuring, GrippersDuring, StepChannels
  <2>2. \A a \in Axis : grippers[a].motion # "Moving"
    BY <2>1, SettledIs
  <2>3. \A a \in Axis : rails[a].motion = "Moving" <=> a \in DOMAIN step.to
    BY <2>1, SentIs, SettledIs
  <2>4. MovingRails = DOMAIN step.to
    BY <1>1, <2>3 DEF MovingRails
  <2> QED
    BY <1>1, <2>1, <2>2, <2>4, ChannelsApart
<1>3. CASE step.op = "grippers"
  <2>1. /\ rails = SettledAt(rest.rails)
        /\ energised = Grippers(Axis) \cup Grippers(DOMAIN step.to)
    BY <1>3 DEF CarriesOut, RailsDuring, StepChannels
  <2>2. \A a \in Axis : rails[a].motion # "Moving"
    BY <2>1, SettledIs
  <2>3. MovingRails = {}
    BY <2>2 DEF MovingRails
  <2> QED
    BY <1>1, <2>1, <2>2, <2>3, ChannelsApart
<1> QED
  BY <1>2, <1>3, MotionStepKinds

\* On the course of a plan no grippers meet, and rails and grippers do not
\* move together.
OneKindInSession ==
  /\ \A a, b \in Axis : ~(rails[a].motion = "Moving" /\ grippers[b].motion = "Moving")
  /\ energised \cap Rails(Axis) = Rails(MovingRails)

LEMMA SafeOnCourse ==
  ASSUME NEW c, NEW plan \in Seq(Step), Follows(c, plan), NoneMeet(c, plan),
         NEW k, NEW left, Left(plan, k, left),
         NEW pending \in MotionStep \cup {NoStep}, OnCourse(c, plan, k, pending)
  PROVE  NoCollision(rails, grippers) /\ OneKindInSession
<1>1. k \in 0 .. Len(plan) /\ Len(plan) \in Nat
  BY DEF Left
<1>2. CASE pending = NoStep
  <2>1. Rests(c[k]) /\ Apart(c[k])
    BY <1>1, <1>2 DEF OnCourse, NoneMeet
  <2>2. NoCollision(rails, grippers)
    BY <2>1 DEF Rests, Apart
  <2>3. OneKindInSession
    BY <2>1, RestIsStill, StillIsOneKind, ChannelsApart DEF OneKindInSession
  <2> QED
    BY <2>2, <2>3
<1>3. CASE pending # NoStep
  <2>1. /\ k > 0 /\ pending = plan[k] /\ CarriesOut(c[k - 1], plan[k]) /\ pending \in MotionStep
    BY <1>3 DEF OnCourse, UnderWay
  <2>2. ApartDuring(c[k - 1], plan[k])
    <3>1. k \in 1 .. Len(plan)
      BY <1>1, <2>1
    <3> QED
      BY <3>1 DEF NoneMeet
  <2>3. NoCollision(rails, grippers)
    BY <2>1, <2>2 DEF CarriesOut, ApartDuring
  <2>4. OneKindInSession
    BY <2>1, StepIsOneKind DEF OneKindInSession
  <2> QED
    BY <2>3, <2>4
<1> QED
  BY <1>2, <1>3

\* The cube is held by a driven pair.
PairHeld == Held(rails) /\ Grippers(Axis) \subseteq energised /\ outputsOn

\* It is held wherever the course holds it, at rest or during the step.
LEMMA HeldOnCourse ==
  ASSUME NEW c, NEW plan \in Seq(Step), NEW k, NEW left, Left(plan, k, left),
         NEW pending \in MotionStep \cup {NoStep}, OnCourse(c, plan, k, pending),
         pending = NoStep => HeldAt(c[k]),
         k \in 1 .. Len(plan) /\ pending # NoStep => HeldDuring(c[k - 1], plan[k])
  PROVE  PairHeld
<1>1. k \in 0 .. Len(plan) /\ Len(plan) \in Nat
  BY DEF Left
<1>2. CASE pending = NoStep
  BY <1>2 DEF OnCourse, Rests, HeldAt, PairHeld
<1>3. CASE pending # NoStep
  <2>1. k > 0 /\ CarriesOut(c[k - 1], plan[k])
    BY <1>3 DEF OnCourse, UnderWay
  <2>2. HeldDuring(c[k - 1], plan[k])
    <3>1. k \in 1 .. Len(plan)
      BY <1>1, <2>1
    <3> QED
      BY <1>3, <3>1
  <2>3. Held(rails)
    BY <2>1, <2>2 DEF CarriesOut, HeldDuring
  <2>4. Grippers(Axis) \subseteq energised /\ outputsOn
    BY <2>1 DEF CarriesOut
  <2> QED
    BY <2>3, <2>4 DEF PairHeld
<1> QED
  BY <1>2, <1>3

\* A stand that rests with the cube in canonical grip.
LEMMA CanonicalCustody ==
  ASSUME Rests(CanonicalRest)
  PROVE  /\ PairHeld /\ NoCollision(rails, grippers) /\ OneKindInSession
         /\ \A a \in Axis : rails[a] = Settled("Grip") /\ grippers[a] = Settled("Perpendicular")
         /\ energised = Grippers(Axis) /\ outputsOn
<1>1. /\ rails = SettledAt(CanonicalRest.rails) /\ grippers = SettledAt(CanonicalRest.grippers)
      /\ energised = Grippers(Axis) /\ outputsOn
  BY CanonicalRestSafe DEF Rests
<1>2. PairHeld /\ NoCollision(rails, grippers)
  BY <1>1, CanonicalRestSafe DEF PairHeld, Apart, HeldAt
<1>3. OneKindInSession
  BY RestIsStill, StillIsOneKind, ChannelsApart DEF OneKindInSession
<1>4. /\ CanonicalRest.rails = [a \in Axis |-> "Grip"]
      /\ CanonicalRest.grippers = [a \in Axis |-> "Perpendicular"]
  BY DEF CanonicalRest
<1>5. \A a \in Axis : CanonicalRest.rails[a] = "Grip" /\ CanonicalRest.grippers[a] = "Perpendicular"
  BY <1>4
<1>6. \A a \in Axis : rails[a] = Settled("Grip") /\ grippers[a] = Settled("Perpendicular")
  BY <1>1, <1>5, SettledIs
<1> QED
  BY <1>1, <1>2, <1>3, <1>6

\* With the rails open, or all grippers perpendicular, no two grippers meet.
LEMMA NoneCanMeet ==
  /\ RailsOpen => NoCollision(rails, grippers)
  /\ (\A a \in Axis : grippers[a] = Settled("Perpendicular")) => NoCollision(rails, grippers)
<1>1. /\ ~MayBeIn(Settled("Open")) /\ ~MayBe(Settled("Perpendicular"), FrameParallel)
  BY MayBeIs, MayBeInIs DEF None, FrameParallel
<1>2. LeftRight \subseteq Axis
  BY AxisPairs
<1> QED
  BY <1>1, <1>2 DEF RailsOpen, NoCollision, Collides

\* Custody in all of its parts, said of a cube that is not being released.
InCustody ==
  /\ session # NoId => (Releasing \/ PairHeld) /\ NoCollision(rails, grippers) /\ OneKindInSession
  /\ scanJob.op # NoId \/ solveJob.op # NoId \/ execJob.op # NoId => NoCollision(rails, grippers)
  /\ motion.phase \in {"GripFinishGrippers", "GripFinishRails"} => NoCollision(rails, grippers)
  /\ \A a, b \in Axis : ~(rails[a].motion = "Moving" /\ grippers[b].motion = "Moving")
  /\ IdleSessionInCanonicalGrip

LEMMA InCustodyIsCustody == InCustody => Custody
  BY DEF InCustody, Custody, PairHolds, PairHeld, GrippersApart, OneKindMoves, OneKindInSession,
         MovingRails

LEMMA IdleInCustody ==
  ASSUME OneInv, CustodyInv, Nothing
  PROVE  InCustody
<1>1. NothingMoves /\ motion.phase = None
  BY EmptyIds DEF CustodyInv, IdleCustody, Nothing, OneInv, NoWorkWithoutJob
<1>2. session # NoId => Rests(CanonicalRest) /\ pose = "CanonicalGrip"
  BY DEF CustodyInv, IdleCustody, Nothing
<1>3. IdleSessionInCanonicalGrip
  BY <1>2, CanonicalCustody DEF IdleSessionInCanonicalGrip
<1> QED
  BY <1>1, <1>2, <1>3, CanonicalCustody, StillIsOneKind DEF InCustody, Nothing, None

LEMMA MotionInCustody ==
  ASSUME PhaseFitsKind, PoseFits, CustodyInv, controller = "Busy", OnlyMotion
  PROVE  InCustody
<1>1. MotionCustody /\ motion.phase \in Phases
  BY DEF CustodyInv, MotionCustody, OnlyMotion
<1>2. session # NoId => Rests(CanonicalRest)
  <2>1. session # NoId => motion.phase = "RecoverStart"
    BY <1>1 DEF PhaseFitsKind, PoseFits, Phases, RecoveryPhases, GripPhases
  <2> QED
    BY <1>1, <2>1 DEF MotionCustody
<1>3. motion.phase \in {"GripFinishGrippers", "GripFinishRails"} => NoCollision(rails, grippers)
  BY <1>1, NoneCanMeet DEF MotionCustody
<1>4. \A a, b \in Axis : ~(rails[a].motion = "Moving" /\ grippers[b].motion = "Moving")
  <2>1. \A v : Settled(v).motion # "Moving"
    BY SettledIs
  <2>2. CASE motion.phase \in {"RecoverStart", "GripStart"}
    BY <1>1, <2>2 DEF MotionCustody, NothingMoves
  <2>3. CASE motion.phase \in {"RecoverFinishLeftRight", "RecoverFinishTopBottom"}
    BY <1>1, <2>3 DEF MotionCustody
  <2>4. CASE motion.phase \in {"RecoverFinishGrippers", "GripFinishGrippers"}
    BY <1>1, <2>1, <2>4 DEF MotionCustody, RailsOpen
  <2>5. CASE motion.phase = "GripFinishRails"
    BY <1>1, <2>1, <2>5 DEF MotionCustody
  <2> QED
    BY <1>1, <2>2, <2>3, <2>4, <2>5 DEF Phases
<1>5. IdleSessionInCanonicalGrip
  BY DEF IdleSessionInCanonicalGrip
<1> QED
  BY <1>2, <1>3, <1>4, <1>5, CanonicalCustody DEF InCustody, OnlyMotion

LEMMA ScanInCustody ==
  ASSUME TypeInv, OneInv, CustodyInv, controller = "Busy", OnlyScan
  PROVE  InCustody
<1>1. PICK c, plan, k : ScanAt(c, plan, k)
  BY ScanIsSomewhere DEF OnlyScan
<1>2. PICK pending \in MotionStep \cup {NoStep} : pending = scanJob.pending
  BY DEF TypeInv, TypeOK, ActiveScan
<1>3. /\ plan \in Seq(Step) /\ Follows(c, plan) /\ NoneMeet(c, plan) /\ AlwaysHolds(c, plan)
      /\ Left(plan, k, scanJob.plan) /\ OnCourse(c, plan, k, pending)
  BY <1>1, <1>2 DEF ScanAt, KeepsCube
<1>4. NoCollision(rails, grippers) /\ OneKindInSession
  BY <1>3, SafeOnCourse
<1>5. PairHeld
  <2>1. k \in 0 .. Len(plan)
    BY <1>3 DEF Left
  <2> QED
    BY <1>3, <2>1, HeldOnCourse DEF AlwaysHolds
<1>6. motion.phase = None
  BY EmptyIds DEF OneInv, NoWorkWithoutJob, OnlyScan
<1> QED
  BY <1>4, <1>5, <1>6 DEF InCustody, OneKindInSession, IdleSessionInCanonicalGrip, None

LEMMA SolveInCustody ==
  ASSUME OneInv, CustodyInv, controller = "Busy", OnlySolve
  PROVE  InCustody
<1>1. Rests(CanonicalRest)
  BY DEF CustodyInv, SolveCustody, OnlySolve
<1>2. motion.phase = None
  BY EmptyIds DEF OneInv, NoWorkWithoutJob, OnlySolve
<1> QED
  BY <1>1, <1>2, CanonicalCustody
  DEF InCustody, OneKindInSession, IdleSessionInCanonicalGrip, None

\* A plan that lets go holds the cube as long as it is not releasing it.
LEMMA HeldUntilReleased ==
  ASSUME NEW c, NEW plan \in Seq(Step), Follows(c, plan), NEW n, HoldsUntil(c, plan, n),
         NEW k, NEW left, Left(plan, k, left), c[k].done # n,
         NEW pending \in MotionStep \cup {NoStep}, OnCourse(c, plan, k, pending)
  PROVE  PairHeld
<1>1. k \in 0 .. Len(plan) /\ Len(plan) \in Nat
  BY DEF Left
<1>2. HeldAt(c[k])
  BY <1>1 DEF HoldsUntil
<1>3. ASSUME k \in 1 .. Len(plan), pending # NoStep PROVE HeldDuring(c[k - 1], plan[k])
  <2>1. pending = plan[k] /\ pending \in MotionStep
    BY <1>3 DEF OnCourse, UnderWay
  <2>2. plan[k].op # "moved"
    BY <2>1, MotionStepKinds
  <2>3. c[k - 1] \in Rest /\ c[k] = AfterStep(c[k - 1], plan[k])
    BY <1>3, CourseTypes
  <2>4. AfterStep(c[k - 1], plan[k]).done = c[k - 1].done
    BY <2>2, <2>3, DoneAfter
  <2>5. c[k - 1].done # n
    BY <2>3, <2>4
  <2> QED
    BY <1>3, <2>5 DEF HoldsUntil
<1> QED
  BY <1>2, <1>3, HeldOnCourse

LEMMA ExecInCustody ==
  ASSUME TypeInv, OneInv, CustodyInv, controller = "Busy", OnlyExec
  PROVE  InCustody
<1>1. PICK c, plan, k : ExecAt(c, plan, k)
  BY ExecIsSomewhere DEF OnlyExec
<1>2. PICK pending \in MotionStep \cup {NoStep} : pending = execJob.pending
  BY DEF TypeInv, TypeOK, ActiveExecute
<1>3. /\ PromisedBy(c, plan) /\ DoneOnCourse(c[k])
      /\ Left(plan, k, execJob.plan) /\ OnCourse(c, plan, k, pending)
  BY <1>1, <1>2 DEF ExecAt
<1>4. plan \in Seq(Step) /\ Follows(c, plan) /\ NoneMeet(c, plan)
  BY <1>3 DEF PromisedBy, KeepsCube, LetsGo
<1>5. NoCollision(rails, grippers) /\ OneKindInSession
  BY <1>3, <1>4, SafeOnCourse
<1>6. Releasing \/ PairHeld
  <2>1. CASE execJob.kind = "ExecuteMoves"
    <3>1. AlwaysHolds(c, plan) /\ k \in 0 .. Len(plan)
      BY <1>3, <2>1 DEF PromisedBy, KeepsCube, Left
    <3> QED
      BY <1>3, <1>4, <3>1, HeldOnCourse DEF AlwaysHolds
  <2>2. CASE execJob.kind # "ExecuteMoves" /\ ~Releasing
    <3>1. /\ execJob.kind # "Open" /\ solution.completed # Len(solution.moves)
      BY <2>2 DEF Releasing, OnlyExec
    <3>2. MovesToDo = Len(solution.moves) /\ solution.completed = c[k].done
      BY <1>3, <2>2, <3>1 DEF MovesToDo, DoneOnCourse
    <3>3. HoldsUntil(c, plan, MovesToDo)
      BY <1>3, <2>2 DEF PromisedBy, LetsGo
    <3> QED
      BY <1>3, <1>4, <3>1, <3>2, <3>3, HeldUntilReleased
  <2> QED
    BY <2>1, <2>2
<1>7. motion.phase = None
  BY EmptyIds DEF OneInv, NoWorkWithoutJob, OnlyExec
<1> QED
  BY <1>5, <1>6, <1>7 DEF InCustody, OneKindInSession, IdleSessionInCanonicalGrip, None

\* From grip to release the cube is held by a pair of rails that is in and at
\* rest, its grippers driven; no two neighbouring grippers can meet; rails and
\* grippers never move together; and an idle session is in canonical grip.
THEOREM CubeIsInCustody == Spec => []Custody
<1>1. TypeInv /\ OneInv /\ PhaseFitsKind /\ PoseFits /\ CustodyInv => Custody
  BY IdleInCustody, MotionInCustody, ScanInCustody, SolveInCustody, ExecInCustody,
     InCustodyIsCustody
  DEF OneInv, OneJob
<1> QED
  BY <1>1, TypeInvariance, OneInvariance, PhaseInvariance, PoseInvariance,
     CustodyInvariance, PTL

-----------------------------------------------------------------------------
(***************************************************************************)
(* Executions.                                                             *)
(***************************************************************************)

\* An execution that ends with the robot Ready, and is not of manual moves,
\* has run to its end.
LEMMA ExecutionEnds ==
  ASSUME TypeInv, OneInv, Next,
         execJob.op # NoId, execJob'.op = NoId, execJob.kind # "ExecuteMoves",
         controller' = "Ready"
  PROVE  OnlyExec /\ ExecFinishOpen
<1>1. controller = "Busy" /\ OnlyExec
  BY RunningJob
<1>2. ~Request
  BY <1>1
  DEF OnlyExec, Request, RecoverToOpen, Grip, GripAdmitted, StartScan, Solve, Execute,
      ExecuteMoves, Open, CubeHeld, OperationActive, Abort, EnterFault, FaultAfter
<1>3. ~MotionTick /\ ~ScanTick /\ ~SolveTick
  BY <1>1, MotionTickOutcomes, ScanTickOutcomes, SolveTickOutcomes
  DEF OnlyExec, OnlyMotion, OnlyScan, OnlySolve
<1>4. ~SolverAnswers
  BY DEF SolverAnswers
<1>5. ExecTick
  BY <1>2, <1>3, <1>4 DEF Next, Tick
<1>6. ~Faults(operation.id) /\ ~ExecGoesOn /\ ~ExecFinishHeld
  BY DEF Faults, ExecGoesOn, ExecFinishHeld
<1> QED
  BY <1>1, <1>5, <1>6, ExecTickOutcomes

LEMMA ExecutionIsWhole ==
  ASSUME TypeInv, OneInv, CustodyInv, OnlyExec, ExecFinishOpen,
         execJob.kind \in {"Execute", "ScanSolveExecute"}
  PROVE  /\ solution.completed = Len(solution.moves)
         /\ operation.current = operation.count
         /\ \A a \in Axis : rails'[a] = Settled("Open")
         /\ energised' = {} /\ session' = NoId
<1>1. PICK c, plan, k : ExecAt(c, plan, k)
  BY ExecIsSomewhere DEF OnlyExec
<1>2. /\ execJob.op # NoId /\ execJob.pending = NoStep /\ execJob.plan = <<>>
      /\ UNCHANGED <<rails, energised>> /\ session' = NoId
  BY DEF ExecFinishOpen, ExecEnds
<1>3. /\ LetsGo(c, plan, Len(solution.moves)) /\ solution.completed = c[k].done
      /\ Left(plan, k, <<>>) /\ Rests(c[k])
  BY <1>1, <1>2 DEF ExecAt, PromisedBy, DoneOnCourse, MovesToDo, OnCourse
<1>4. RailsOpen /\ energised = {} /\ c[k].done = Len(solution.moves)
  BY <1>3, EndsOpen
<1>5. operation.current = operation.count
  <2>1. operation.current + Len(<<>>) + 0 = operation.count
    BY <1>2 DEF CustodyInv, ActionsCounted
  <2>2. operation.current \in Nat /\ Len(<<>>) = 0
    BY DEF TypeInv, TypeOK, Operation
  <2> QED
    BY <2>1, <2>2
<1> QED
  BY <1>2, <1>3, <1>4, <1>5 DEF RailsOpen

\* An execution that reports success has done every move of the solution and
\* every action it announced, and leaves the stand open, off and without a
\* session.
THEOREM ExecutionsAreWhole == Spec => ExecutionCompletesWhole
<1> DEFINE A == /\ execJob.op # NoId /\ execJob'.op = NoId
                /\ execJob.kind \in {"Execute", "ScanSolveExecute"}
                /\ controller' = "Ready"
                => /\ solution.completed = Len(solution.moves)
                   /\ operation.current = operation.count
                   /\ \A a \in Axis : rails'[a] = Settled("Open")
                   /\ energised' = {} /\ session' = NoId
<1>1. TypeInv /\ OneInv /\ CustodyInv /\ Next => A
  BY ExecutionEnds, ExecutionIsWhole
<1> HIDE DEF A
<1>2. Spec => [][A]_vars
  BY <1>1, TypeInvariance, OneInvariance, CustodyInvariance, PTL DEF Spec
<1> QED
  BY <1>2 DEF ExecutionCompletesWhole, A
===============================================================================
