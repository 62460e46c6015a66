---------------------------- MODULE PlannerWords ----------------------------
(***************************************************************************)
(* The two planners of src/move_planner.rs compared on every sequence of   *)
(* at most MaxMoves moves: the baseline planner, which regrips after every *)
(* move, is the reference for the optimizing one.                          *)
(***************************************************************************)
EXTENDS MovePlanner, Mechanics

CONSTANT MaxMoves   (* bound on the length of the sequences compared *)

ASSUME MaxMovesAssumption == MaxMoves \in Nat

VARIABLE moves

Init == moves = <<>>
Next == /\ Len(moves) < MaxMoves
        /\ \E move \in CubeMove : moves' = Append(moves, move)

Spec == Init /\ [][Next]_moves

-----------------------------------------------------------------------------
\* The stand after one step of a plan, from the stand in canonical grip.
StandAtRest == [rails    |-> [a \in Axis |-> "Grip"],
                grippers |-> [a \in Axis |-> "Perpendicular"],
                cube     |-> NewCube]

Executed(stand, step) ==
  CASE step.op = "rails" ->
         [stand EXCEPT !.rails = step.to @@ @,
                       !.cube  = MovedRails(@, stand.rails, step.to)]
    [] step.op = "grippers" ->
         [stand EXCEPT !.grippers = step.to @@ @,
                       !.cube     = TurnedCube(@, stand.rails, stand.grippers, step.to)]
    [] OTHER -> stand

Outcome(steps) == FoldLeft(Executed, StandAtRest, steps)

Count(steps, op) == Len(SelectSeq(steps, LAMBDA step : step.op = op))
RailMoves(steps, position) ==
  Len(SelectSeq(steps, LAMBDA step : step.op = "rails" /\ position \in Range(step.to)))

\* The optimizing planner changes how a sequence is carried out and not what
\* it does: both planners do exactly the moves asked for, in their order,
\* and give the cube and the stand back as they found them.
PlannersAgree ==
  LET done == [StandAtRest EXCEPT !.cube.turns = moves]
  IN Outcome(OptimizedHeldSteps(moves)) = done /\ Outcome(BaselineHeldSteps(moves)) = done

\* For every calibration of the servo times the optimized plan takes at most
\* as long as the baseline: it opens, closes and turns at most as often
\* (estimated_duration adds up exactly these three).
NeverSlower ==
  LET optimized == OptimizedHeldSteps(moves)
      baseline  == BaselineHeldSteps(moves)
  IN /\ Count(optimized, "grippers") <= Count(baseline, "grippers")
     /\ \A position \in RailPosition :
          RailMoves(optimized, position) <= RailMoves(baseline, position)
=============================================================================
