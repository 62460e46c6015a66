----------------------------- MODULE BenchTools -----------------------------
(***************************************************************************)
(* The command-line tools that own the stand runtime: rubik-full-scan,     *)
(* rubik-stand-runtime and rubik-move-probe, one at a time on one stand.   *)
(* A command is a sequence of calls and tool steps that ends at the first  *)
(* error.  A tool may be killed at any point; the PWM controller keeps its *)
(* registers, and the next tool finds them.                                *)
(***************************************************************************)
EXTENDS StandRuntime

CONSTANTS
  Solutions   \* the solutions min2phase finds, and the sequences of the probe

FaceTurns == [face : CubeFace, turn : {"CW", "Half", "CCW"}]

ASSUME SolutionsAssumption == Solutions \subseteq Seq(FaceTurns)

VARIABLES
  tool,       \* the tool that runs, or None
  fatal,      \* an error ends the tool
  todo,       \* what the running command has still to do
  filed,      \* the faces the running scan has recorded: face -> what was seen
  scanned,    \* full-scan: last_scan is set
  pending,    \* full-scan: pending_execution, as a set of at most one sequence
  asked       \* history: the moves the running execution was asked for

toolVars  == <<tool, fatal, todo, filed, scanned, pending, asked>>
benchVars == <<runtimeVars, toolVars>>

FullScan == "rubik-full-scan"
Shell    == "rubik-stand-runtime"
Probe    == "rubik-move-probe"

-----------------------------------------------------------------------------
(* The items of a command.                                                 *)

Call(name)      == [name |-> name]
Initialize      == Call("initialize_safe_pwm")
Reset           == Call("reset")
SafeOpenCall    == Call("safe_open")
Grip            == Call("grip")
ScanPose(face)  == [name |-> "scan_pose", face |-> face]
ScanNext(face)  == [name |-> "scan_next", face |-> face]
Record(face)    == [name |-> "record_face", face |-> face]
Accept(auto)    == [name |-> "accept", auto |-> auto]
Quit            == Call("quit")

Moves(solution) ==
  [i \in DOMAIN solution |-> [name |-> "execute_probe_move", move |-> solution[i]]]

\* The views of a scan after the first.
ViewAndRecord(faces) ==
  [i \in 1 .. 2 * Len(faces) |->
     LET f == faces[(i + 1) \div 2] IN IF i % 2 = 1 THEN ScanNext(f) ELSE Record(f)]

\* Mutant of FullScanCalls: the first face recorded after the view has changed.
RecordedLate(finish) ==
  << Grip, ScanPose("Left"), ScanNext("Right"), Record("Left"), Record("Right") >>
  \o ViewAndRecord(<< "Down", "Up", "Front", "Back" >>) \o << Call(finish) >>

\* full_scan, from the grip on.
FullScanCalls(finish) ==
  << Grip, ScanPose("Left"), Record("Left") >>
  \o ViewAndRecord(<< "Right", "Down", "Up", "Front", "Back" >>) \o << Call(finish) >>

\* execute_solution.
ExecuteCalls(solution) ==
  CASE commanded = OpenPose -> << Grip >> \o Moves(solution)
    [] commanded = GripPose -> Moves(solution)
    [] OTHER -> <<>>

StartUp(t) == << Initialize, Reset >> \o (CASE t = FullScan -> << SafeOpenCall >>
                                            [] t = Shell    -> <<>>
                                            [] t = Probe    -> << SafeOpenCall >>)

-----------------------------------------------------------------------------
(* Commands.                                                               *)

AtPrompt == tool # None /\ todo = <<>> /\ phase = "idle" /\ script = <<>>

Start ==
  /\ tool = None
  /\ \E t \in {FullScan, Shell, Probe} :
       /\ tool' = t
       /\ \E s \in Solutions :
            /\ todo' = StartUp(t) \o (IF t = Probe THEN << Grip >> \o Moves(s) ELSE <<>>)
            /\ asked' = IF t = Probe THEN s ELSE <<>>
  /\ fatal' = TRUE
  /\ commanded' = Unknown
  /\ filed' = <<>> /\ scanned' = FALSE /\ pending' = {}
  /\ UNCHANGED <<chip, writes, call, physics>>

\* A command of rubik-stand-runtime.
ShellCommand ==
  /\ AtPrompt /\ tool = Shell
  /\ fatal' = FALSE
  /\ \E c \in {SafeOpenCall, Grip, Reset}
               \cup {ScanPose(f) : f \in CubeFace} \cup {ScanNext(f) : f \in CubeFace} :
       todo' = << c >>
  /\ UNCHANGED <<runtimeVars, tool, filed, scanned, pending, asked>>

\* scan and scan-solve-execute: only from safe open, whatever is stored is forgotten.
ScanCommand(auto) ==
  /\ AtPrompt /\ tool = FullScan
  /\ todo' = IF commanded # OpenPose THEN <<>>
             ELSE FullScanCalls(IF auto THEN "finish_scan_for_execution" ELSE "finish_scan")
                  \o << Accept(auto) >>
  /\ fatal' = FALSE
  /\ filed' = <<>> /\ scanned' = FALSE /\ pending' = {}
  /\ asked' = <<>>
  /\ cube' = [cube EXCEPT !.turns = <<>>]
  /\ UNCHANGED <<chip, writes, commanded, call, rails, grippers, held, tool>>

\* solve: min2phase finds a solution, or rejects the scan.
SolveCommand ==
  /\ AtPrompt /\ tool = FullScan /\ scanned
  /\ pending' \in {{}} \cup {{s} : s \in Solutions}
  /\ UNCHANGED <<runtimeVars, tool, fatal, todo, filed, scanned, asked>>

ExecuteCommand ==
  /\ AtPrompt /\ tool = FullScan
  /\ \E s \in pending : todo' = ExecuteCalls(s) /\ asked' = s
  /\ pending' = {}
  /\ fatal' = FALSE
  /\ cube' = [cube EXCEPT !.turns = <<>>]
  /\ UNCHANGED <<chip, writes, commanded, call, rails, grippers, held, tool, filed, scanned>>

Cancel ==
  /\ AtPrompt /\ tool = FullScan
  /\ pending' = {}
  /\ UNCHANGED <<runtimeVars, tool, fatal, todo, filed, scanned, asked>>

\* off keeps what is stored, and a failure of it ends rubik-full-scan.
Off == /\ AtPrompt /\ tool = FullScan
       /\ todo' = << Reset >>
       /\ fatal' = TRUE
       /\ UNCHANGED <<runtimeVars, tool, filed, scanned, pending, asked>>

\* quit, exit, the end of the input and Ctrl-C.
QuitCommand ==
  /\ AtPrompt /\ tool \in {FullScan, Shell}
  /\ todo' = << Reset, Quit >>
  /\ fatal' = TRUE
  /\ UNCHANGED <<runtimeVars, tool, filed, scanned, pending, asked>>

-----------------------------------------------------------------------------
(* The items of a running command.                                         *)

AtItem == phase = "idle" /\ script = <<>> /\ todo # <<>>

\* The process is gone: with its memory, not with the registers.
Gone == /\ tool' = None
        /\ todo' = <<>> /\ script' = <<>>
        /\ phase' = "idle"
        /\ writes' = <<>>
        /\ commanded' = Unknown
        /\ held' = FALSE /\ cube' = NewCube
        /\ fatal' = FALSE
        /\ filed' = <<>> /\ scanned' = FALSE /\ pending' = {} /\ asked' = <<>>

\* An error returns to the prompt, or ends the tool.
StopCommand == todo' = <<>> /\ UNCHANGED <<tool, fatal, filed, scanned, pending, asked>>

StartCall ==
  /\ AtItem
  /\ CASE Head(todo).name = "reset" -> BeginReset
       [] Head(todo).name = "initialize_safe_pwm" ->
            /\ writes = <<>>
            /\ writes' = InitializeSafePwm
            /\ UNCHANGED <<chip, commanded, call, physics>>
       [] Head(todo).name \in {"record_face", "accept", "quit"} -> FALSE
       [] OTHER -> Begin(Head(todo))
  /\ writes = <<>>
  /\ todo' = Tail(todo)
  /\ UNCHANGED <<tool, fatal, filed, scanned, pending, asked>>

RefuseCall ==
  /\ AtItem /\ ~fatal
  /\ Head(todo).name \notin {"reset", "initialize_safe_pwm", "record_face", "accept", "quit"}
  /\ Admitted(Head(todo)) = {}
  /\ StopCommand
  /\ UNCHANGED runtimeVars

\* capture_face and record_face: the camera sees what the cube shows it; a
\* capture that is no face of nine stickers stops the scan where it is.
RecordFace ==
  /\ AtItem /\ Head(todo).name = "record_face"
  /\ \/ /\ todo' = Tail(todo)
        /\ filed' = [f \in DOMAIN filed \cup {Head(todo).face} |->
                       IF f = Head(todo).face THEN cube.sees["Front"] ELSE filed[f]]
        /\ UNCHANGED <<tool, fatal, scanned, pending, asked>>
     \/ StopCommand
  /\ UNCHANGED runtimeVars

\* A scan whose facelet string is invalid is not kept.  The automatic flow
\* solves the scan, executes the solution and opens the stand.
AcceptScan ==
  /\ AtItem /\ Head(todo).name = "accept"
  /\ \/ StopCommand
     \/ /\ scanned' = TRUE
        /\ \/ todo' = <<>> /\ UNCHANGED asked
           \/ \E s \in Solutions :
                /\ Head(todo).auto
                /\ todo' = ExecuteCalls(s) \o << SafeOpenCall >>
                /\ asked' = s
        /\ UNCHANGED <<tool, fatal, filed, pending>>
  /\ UNCHANGED runtimeVars

Exit == /\ AtItem /\ Head(todo).name = "quit"
        /\ Gone
        /\ UNCHANGED <<chip, goal, rails, grippers>>

\* initialize_safe_pwm is the only call without a phase of its own.
InitializeFails ==
  /\ phase = "idle" /\ writes # <<>>
  /\ Gone
  /\ UNCHANGED <<chip, goal, rails, grippers>>

CallFails ==
  /\ phase = "failed"
  /\ IF fatal
     THEN Gone /\ UNCHANGED <<chip, goal, rails, grippers>>
     ELSE /\ StopCommand
          /\ phase' = "idle"
          /\ UNCHANGED <<chip, writes, commanded, script, goal, physics>>

\* rubik-move-probe ends with the cube gripped and the grippers driven.
ProbeEnds ==
  /\ AtPrompt /\ tool = Probe /\ writes = <<>>
  /\ Gone
  /\ UNCHANGED <<chip, goal, rails, grippers>>

Killed == /\ tool # None
          /\ Gone
          /\ UNCHANGED <<chip, goal, rails, grippers>>

-----------------------------------------------------------------------------
BenchInit ==
  /\ chip = WithoutPower /\ writes = <<>>
  /\ commanded = Unknown
  /\ phase = "idle" /\ script = <<>> /\ goal = Unknown
  /\ rails = [a \in Axis |-> "Open"] /\ grippers = [a \in Axis |-> "Perpendicular"]
  /\ held = FALSE /\ cube = NewCube
  /\ tool = None /\ fatal = FALSE /\ todo = <<>>
  /\ filed = <<>> /\ scanned = FALSE /\ pending = {} /\ asked = <<>>

BenchNext ==
  \/ Start \/ ShellCommand \/ ScanCommand(TRUE) \/ ScanCommand(FALSE)
  \/ SolveCommand \/ ExecuteCommand \/ Cancel \/ Off \/ QuitCommand
  \/ StartCall \/ RefuseCall \/ RecordFace \/ AcceptScan \/ Exit
  \/ InitializeFails \/ CallFails \/ ProbeEnds \/ Killed
  \/ (RuntimeStep /\ UNCHANGED toolVars)

BenchSpec == BenchInit /\ [][BenchNext]_benchVars

-----------------------------------------------------------------------------
\* From the moment the rails close on a cube until the runtime lets go of it
\* on purpose, every step leaves it in one piece and in the hands of a pair.
CubeInGoodHands == held => cube.intact

\* Between two calls the stand is what the runtime says it is: the names of
\* its states are promises the next call builds its motion on.  The grippers
\* keep their pulse, the rails do not.
StateIsTrue ==
  phase = "idle" /\ script = <<>> =>
    /\ commanded.state \in {"SafeOpen", "Gripped", "ScanHold"} => Driven = Grippers(Axis)
    /\ commanded = OpenPose =>
         ~held /\ Released(rails, Axis) /\ grippers = [a \in Axis |-> "Perpendicular"]
    /\ commanded = GripPose =>
         /\ held /\ Gripped(rails, Axis) /\ grippers = [a \in Axis |-> "Perpendicular"]
         /\ cube.sees = Canonical
    /\ commanded.state = "ScanHold" =>
         /\ held /\ Gripped(rails, commanded.holder)
         /\ Released(rails, Axis \ commanded.holder)

\* Every face of a scan is recorded under the name the cube has for it, and a
\* scan that is kept has all six.
FacesTrulyNamed ==
  /\ \A f \in DOMAIN filed : filed[f] = f
  /\ scanned => DOMAIN filed = CubeFace

\* The moves the tools carry out are the moves they were given, one by one,
\* and a command that ends with the cube in its grip has done them all.
MovesAsAsked ==
  held /\ asked # <<>> /\ phase = "idle" /\ script = <<>> =>
    /\ IsPrefix(cube.turns, asked)
    /\ todo = <<>> => cube.turns = asked
=============================================================================
