--------------------------- MODULE RobotContract ---------------------------
(***************************************************************************)
(* What the robot service promises its clients, whatever it has to do to   *)
(* keep the promise: which operations may follow one another, what each    *)
(* leaves behind when it succeeds, when it gives up and when the robot is  *)
(* stopped, and how long a session, a scan and a solution are worth        *)
(* anything.                                                               *)
(***************************************************************************)
EXTENDS Integers

CONSTANT MaxId   (* session ids are counters that wrap from MaxId to 1 *)

VARIABLES
  controller,  \* Ready, Busy, Aborted or Faulted
  doing,       \* the kind of the operation under way, or "None"
  place,       \* where the stand is known to be
  session,     \* the session of the cube held, or 0
  last,        \* the session id issued last
  known        \* what is known about the cube: nothing, a scan, a solution

vars == <<controller, doing, place, session, last, known>>

Kind == {"RecoverToOpen", "Grip", "Scan", "Solve", "Execute", "ExecuteMoves",
         "ScanSolveExecute", "Open"}

\* What an operation on the held cube needs to be known, and what of it is
\* still known when the operation has begun.
Needed(kind) == CASE kind = "Solve"   -> {"scan", "solution"}
                  [] kind = "Execute" -> {"solution"}
                  [] OTHER            -> {"nothing", "scan", "solution"}
Kept(kind)   == CASE kind \in {"Scan", "ScanSolveExecute"} -> "nothing"
                  [] kind = "Solve"                        -> "scan"
                  [] OTHER                                 -> known

Admissible(kind) ==
  CASE kind = "RecoverToOpen" -> TRUE
    [] kind = "Grip" -> controller = "Ready" /\ place = "Open" /\ session = 0
    [] OTHER -> controller = "Ready" /\ place = "Held" /\ session # 0 /\ known \in Needed(kind)

Begin(kind) ==
  /\ doing = "None"
  /\ Admissible(kind)
  /\ controller' = "Busy"
  /\ doing' = kind
  /\ known' = Kept(kind)
  /\ UNCHANGED <<place, session, last>>

\* The operation goes on.  The cube stays in the same session, and what is
\* known about it grows only by the automatic workflow and is lost only by
\* recovery and manual moves.
Work ==
  /\ doing # "None"
  /\ place' = "Working" \/ (place' = "Held" /\ session' # 0)
  /\ \/ session' = session
     \/ doing = "RecoverToOpen" /\ session' = 0
  /\ \/ known' = known
     \/ doing \in {"RecoverToOpen", "ExecuteMoves"} /\ known' = "nothing"
     \/ doing = "ScanSolveExecute" /\ <<known, known'>> \in {<<"nothing", "scan">>,
                                                            <<"scan", "solution">>}
  /\ UNCHANGED <<controller, doing, last>>

NextSession == IF last = MaxId THEN 1 ELSE last + 1

\* Success, by kind.
Finish ==
  /\ controller' = "Ready"
  /\ doing' = "None"
  /\ \/ /\ doing \in {"RecoverToOpen", "Execute", "ScanSolveExecute", "Open"}
        /\ place' = "Open" /\ session' = 0 /\ known' = "nothing"
        /\ UNCHANGED last
     \/ /\ doing = "Grip"
        /\ place' = "Held" /\ session' = NextSession /\ last' = NextSession
        /\ known' = "nothing"
     \/ /\ \/ doing = "Scan" /\ known' = "scan"
           \/ doing = "Solve" /\ known' = "solution"
           \/ doing = "ExecuteMoves" /\ known' = "nothing"
        /\ place' = "Held"
        /\ UNCHANGED <<session, last>>

\* A recognition or solver failure: the cube stays held, in its session.
GiveUp ==
  /\ doing \in {"Scan", "Solve", "ScanSolveExecute"}
  /\ controller' = "Ready"
  /\ doing' = "None"
  /\ place' = "Held"
  /\ known # "solution"
  /\ UNCHANGED <<session, last, known>>

\* An abort, at any time, or a fault: nothing is known any more.
Stop ==
  /\ controller' \in {"Aborted", "Faulted"}
  /\ doing' = "None"
  /\ place' = "Unknown"
  /\ session' = 0
  /\ known' = "nothing"
  /\ UNCHANGED last

Init ==
  /\ controller = "Ready"
  /\ doing = "None"
  /\ place = "Unknown"
  /\ session = 0
  /\ last = MaxId
  /\ known = "nothing"

Next == (\E kind \in Kind : Begin(kind)) \/ Work \/ Finish \/ GiveUp \/ Stop

Spec == Init /\ [][Next]_vars
=============================================================================
