# A TLA+ development of the Rubik solving robot

The robot of this repository is an eight-servo stand that holds, scans and
turns a Rubik's cube. A daemon on a Milk-V Duo owns the stand; an ESP32-C6
gateway carries requests from HTTP, WebSocket and USB clients to it over UART.
Bench programs drive the same stand without the daemon, and a simulator runs
the daemon's service without the stand. These modules model the part of the
program that decides what the stand does and what its clients are told; TLC
checks them on small instances, and TLAPS proves the central results for every
value of the constants. All paths below are relative to the repository.

## The system

| Part | State it keeps | Operations | Interacts with |
|---|---|---|---|
| Robot service, `src/robot_service.rs` | the status snapshot, one of four active jobs, four id counters, a cache of 16 answers | ten requests, four local commands, `tick`, `abort`, `enter_fault`, `shutdown` | the planner (plans), the PWM device (writes that can fail), the scanner, a solver thread (a channel per job) |
| Move planner, `src/move_planner.rs` | dirty grippers and cube frame, inside one call | baseline, optimized held and optimized release plans | none |
| Stand data, `src/stand.rs`, `rubik-link-protocol/src/state.rs` | none | wiring, orientations, adjacency rule, status types | shared by all |
| PWM device, `src/pca9685.rs` | the chip's registers | `initialize_safe_pwm`, `set_channels`, `disable_channels`, `all_off` | I2C bus |
| Operator button, `src/operator_button.rs` | debounce state, one follow-up | `poll`, `command_finished` | reads the service's status, returns local commands |
| Daemon loop, `src/robot_daemon.rs` | byte decoder | button, hub bytes, UART bytes, tick, in this order; shutdown at the end | runs button and service on one thread |
| Gateway, `crates/rubik-link-gateway` | four bounded queues, six routes, one abort to retry, owner of events | push from USB, network, Duo; dequeue to each; cancel | UART to the daemon, firmware around it |
| Firmware, `firmware/esp32c6-controller` | HTTP lock, request ids, one-slot channels | gateway loop, HTTP and WebSocket handlers with a timeout of 3 s | gateway |
| Clients, `src/robot_client.rs`, `rubik-robotctl` | request ids, a replica of the snapshot | encode, apply, retry every 500 ms | any transport |
| Link protocol, `crates/rubik-link-protocol`, `src/robot_link.rs` | stream decoder | COBS, CRC, packets, schemas | client, gateway, daemon |
| Stand runtime, `src/stand_runtime.rs` | commanded stand state | blocking poses, scan, probe moves | PWM device, bench programs |
| Bench programs, `src/bin/rubik-full-scan.rs`, `rubik-stand-runtime.rs`, `rubik-move-probe.rs` | last scan, solution waiting to be executed | commands of a prompt | stand runtime; one at a time |
| Simulator, `src/sim_server.rs` | sessions; of each, the view of the robot, the replay of turns, the pose of the cube, alarms | HTTP commands to an in-process daemon, a pump of statuses, a safety monitor | service, daemon hub |
| Vision, cube colours, tools | none that lasts | capture, inference, facelets | service through `FaceScanner` |

### What is hard about it

* **An abort between any two mechanical actions.** An operation is a chain of
  bounded steps; requests are served between two ticks, so an abort can find
  any job at any step. Everything known about the cube and the stand must go at once.
* **A device that fails in the middle.** Each step writes several registers.
  A failure leaves some channels driven; the `all_off` that follows may fail too.
* **The solver thread.** It answers at any time, or dies without an answer, also
  after its operation is gone.
* **Custody.** Between grip and release something must hold the cube at every
  instant, no two neighbouring grippers may meet, and rails and grippers may
  not move together. The optimizing planner carries folded grippers and a
  rotated cube from one move to the next, so a plan is right or wrong as a whole.
  The bench programs hand the cube over without a planner.
* **The button among other clients.** It acts on the status it polls, and later
  on a follow-up it remembered, while requests of other clients come in between.
* **The link.** Bytes are lost or made up, frames of two senders meet in one
  decoder, requests are repeated, queues and routes are bounded, HTTP requests
  time out while their answers are on the way, and the C6 may restart.
* **Followers.** A client's replica and the simulator's screen are brought up to
  date by events and statuses only, and must be the robot's state all the same.

The full list, each entry at its line with the properties that would catch it,
is under "hazards" in `PROJECT.json`.

## The modules

| Module | Models | Correspondence |
|---|---|---|
| `Stand` | wiring, plan steps, commanded servo states | a plan step is a record that maps the axes it moves to their targets; `Sent` and `Arrived` are what the `command_*` and `finish_*` functions write into the status |
| `MovePlanner` | `move_planner.rs` | a plan record carries the steps and the planner's state; one operator per function of the file; fused and plain reorientation are one operator, as they differ only in the straightening step |
| `Mechanics` | external: the cube | what a gripper turn or a rail movement does to a cube, including dropping or shearing it. It judges plans and restricts none |
| `PlannerBench` | the planner with the stand and a cube | moves are asked for without end; since the planner's mode is finite, sequences of every length are paths of a finite graph |
| `PlannerWords` | both planners | a state is a sequence of moves; both planners' plans are run as functions |
| `RobotService` | `robot_service.rs` with the PWM device and the solver thread | one action per request and per branch of each `advance_*`; see below |
| `RobotContract` | abstract | what the service promises its clients: six variables, five actions |
| `RobotClient` | `RobotClient::apply` | the service and a replica that hears every event of every call; `GetStatus` makes it a snapshot |
| `RobotCell` | the service and the cube in its stand | adds the cube and the moves asked for to every step of `RobotService`; restricts nothing |
| `OperatorButton` | `operator_button.rs` | `poll` split by whether the level read is a press; `Obey` is the local command with `command_finished` |
| `RobotDaemon` | `run_event_loop` | the loop's program counter, the button and the service; requests at any time between a poll and a tick |
| `LinkPackets` | `message.rs`, `opcode.rs` | requests, answers and events as far as anybody on the way tells them apart |
| `Gateway` | `rubik-link-gateway` | one action per call of the core |
| `RequestCache` | `handle_packet` and `cache_response` of the service | the answers kept, and a history of what was really dispatched |
| `Controller` | the firmware around `Gateway`, with the Duo (`RequestCache`), browsers and `rubik-robotctl` | `stage` is the place of `gateway_loop` in its pass; HTTP workers with lock, timeout and cancellation |
| `UartLink` | `cobs.rs`, `wire.rs`, `UartStreamDecoder`, the hub's frames | bytes on a line that loses, changes and makes up bytes; COBS byte by byte |
| `Pca9685` | `pca9685.rs` | registers; a call is a sequence of writes, any of which the bus may fail |
| `StandRuntime` | `stand_runtime.rs` | a call is a script of rail and gripper steps and the state it ends in, on the registers of `Pca9685` and the cube of `Mechanics` |
| `BenchTools` | the three bench programs | a command is a sequence of calls; an error ends it or ends the tool; a tool may be killed anywhere |
| `SimSession` | one session of `sim_server.rs` | extends `RobotCell` with what the pump makes of each status; the physical cube, which the simulator does not have, judges the screen |
| `PlanCourses` | the courses of plans | where the stand rests after each step of a plan; the vocabulary and the assumption of the custody proofs |
| `CubeCourses` | the cube along the course of a plan | what each step of a plan does to a cube put in in canonical orientation; the assumption of the cube's proofs |
| `RobotServiceProofs`, `RobotContractProofs`, `RobotCustodyProofs`, `RobotUsersProofs`, `RobotCellProofs`, `BenchProofs`, `LinkProofs`, `ControllerProofs` | theorems | those of the service build on each other in the order of the first three, on which those about its users (the daemon and a client) and the cell rest; `ControllerProofs` rests on `LinkProofs`; `BenchProofs` stands alone; see "What is proved" |

The modules `MC*` give the constants their values. The planner is a parameter
of the service (`HeldSteps`, `ReleaseSteps`), and the MC modules instantiate it
with the real `MovePlanner`. Operators commented "Mutant of" are slips a
programmer might make; no specification uses them. `PROJECT.json` names for
every property the one that breaks it.

### RobotService

The variables are the fields of `StatusSnapshot` that control anything
(controller, pose, rails, grippers, outputs, session, scan, solution,
operation, fault), the four `active_*` jobs, the counters, the events the last
step emitted, and two that are not in the code: `energised`, the channels the
device really drives, and `turned`, a history variable that says whether an
executor has turned the cube since the last scan began.

An action is one call of the code. A request that is refused, `GetStatus`, and
a tick before its deadline change nothing and are stuttering. Deadlines are
not modelled as clocks: a tick that finds its deadline elapsed is enabled at
once, and any number of requests may come before it, which covers every
timing. Every write has a second outcome, the fault, with every set of channels
that a failure at some register can leave driven. The solver thread is the
field `result` of its job; its answer is an action of its own. When the
automatic workflow's solver answers, `advance_solve` and `advance_execute` run
in the same tick, and so do they in `SolveStartsExecution`.

Abstracted: sticker colours (a capture succeeds or fails, a scan of six faces
turns out legal or not), calibration values, rejection reasons, plan previews.
The request cache is a module of its own, where every command that starts an
operation is one `Move`: what the command does has no part in whether it is
done twice.

### Gateway and Controller

The tasks of the firmware are cooperative, so one pass of `gateway_loop` runs
between two sleeps and no HTTP task runs meanwhile; `stage` walks through the
pass, and each of its stages may repeat as the loops in the code do. The lines
(UART, USB) and everything beyond them act while the loop sleeps: a pass looks
at each line once, so this loses no order of events. A packet's body is a
revision of the robot's state, which is what lets `StatusIsFresh` and
`AbortIsCarriedOut` say that an answer is not older than its question. HTTP
timeouts need only that the loop had time to take the request (3 s against
1 ms). `rubik-robotctl` repeats a command when its lines are empty (500 ms).

### Bench programs

`StandRuntime` is written on the registers, so a killed tool leaves what the
next one finds. `held` is true from the moment the rails close on a cube until
the runtime lets go of it on purpose, by a step that is marked as such where
the code releases: the last rails of an `open_all_rails`, or its first ones
when only they hold the cube. After a fault or a kill the cube is the operator's.

### SimSession

The daemon thread takes one frame and ticks, then sends its status; the pump
applies it. Commands that show turns run on in their HTTP handler once they have
the answer. `Prompt = TRUE` says that such a handler runs on before the next
status (the loop sleeps between two ticks); what happens otherwise is told
below. The replay, the pose of the cube with its rotation algebra and the
monitor's rules are modelled line by line; interpolated positions become "may
be near" and "may be far". An alarm is one of two kinds: a rule of the stand looks
broken (`NoStandAlarm` says that none does), or the screen finds fault with its own
guess (`TurnsAreShown` and `PoseIsShown` say that it never does).

## The runs

| Run | States | Shows |
|---|---|---|
| `planner_bench` | 1,729 | for every sequence of moves of any length, held or released at the end: the cube is held, whole and unstrained (`CubeSafe`), turned exactly as asked (`TurnsAsAsked`), a held plan ends in canonical grip and no output is switched off before every rail is open (`EndsAsPromised`) |
| `planner_words` | 6,175 | for all sequences of at most 3 moves: the optimized planner has the effect of the baseline planner (`PlannersAgree`) and never uses more gripper steps, rail openings or closings (`NeverSlower`), so it is never slower for any calibration |
| `service_safety` | 120,722 | the service: types, one job at a time, results belong to the session, custody, one end per operation, the way out of a safe state, whole executions; that it implements `RobotContract` (`KeepsContract`); and that a client that hears its events knows the robot (`ReplicaIsTrue`) |
| `robot_cell` | 3,721 | the cube is what the status says: faces are filed under the name the camera saw, progress counts turns really done, Front faces the camera between operations; and every operation ends |
| `daemon` | 391,767 | the button: presses are admitted, the follow-up scan is of the cube the press gripped, no motion without a press, none out of a fault |
| `controller_http` | 1,386,869 | two browsers whose requests time out, are cancelled and race each other, with one packet spoilt: nothing leaks, no answer goes astray, no browser takes an old answer for its own (requests over USB are in `controller_faults`; that no answer goes astray with both kinds is proved, `AnswersGoHomeAlways`) |
| `controller_faults` | 1,021,725 | `rubik-robotctl` repeating its commands while the C6 restarts, a packet is spoilt and events come: it waits for its own operation, and nothing is carried out twice while the cache remembers it |
| `controller_liveness` | 29,225 | every HTTP request ends, also when the Duo never answers |
| `bench` | 748,365 | the bench programs, failing at any register write and killed at any point: no channel gives a pulse that is neither the old nor the new one, the cube is held, scanned and turned as asked, the runtime's state is what the stand is in |
| `link` | 374,387 | commands arrive in order and once, and damage costs at most the two frames it touches |
| `sim_session` | 14,645 | the simulator's screen shows the turns and the pose of the real cube, and its monitor raises no false alarm |
| `controller_reboot` | violated | a document's statement the code does not keep (see "Where the code and its documents disagree") |

### Bounds, and why they are enough

* `MaxId` (2 for the service and the daemon, 1 for the cell and the simulator) is
  where the id counters wrap, `u32::MAX` in the code. Two ids are enough to tell the
  current session, scan, solution or operation from another one, and small
  enough for every counter to wrap. In the cell the identity of ids is not in
  question; for `EveryOperationEnds` one id makes the check stronger: two
  successive operations have the same id, and one that ended must be seen to
  have left. In the simulator one id makes operations, which its replay tells
  apart by id, as hard to tell apart as they can get.
* `MoveSeqs`: the service run uses the empty sequence (a solved cube), one
  turn, and a half turn in the rotated frame followed by one of the other pair;
  the cell, the simulator and the bench use longer ones with every gripper,
  every kind of turn and both frames. That plans of every length are mechanically
  right is the matter of `planner_bench`, where nothing bounds the length.
* `MaxMoves = 3` in `planner_words`: the planner's decisions depend on the mode
  left by earlier moves. Two moves reach 12 of its 13 modes, so these are compared
  with every move after them; the last, top and bottom both folded in the rotated
  frame, takes three moves, so there only the end of the plan is compared. With
  `MaxMoves = 4` it has every move after it too: 111,151 states, two minutes and no
  error. `planner_bench` has every move in every mode, but no baseline.
* The capacities of the gateway are 1 or 2 instead of 4, 2 and 4: its queues, its
  route table and its urgent queue all fill. `controller_http` has three ids
  (one that timed out, one that waits, one that queues for the lock) and a cache
  that does not forget them, `controller_faults` a cache of one answer, which
  forgets. `WireCapacity`, `MaxProgress`, `MaxLosses` and `MaxReboots` bound the
  packets under way, the events and the faults. With ids that run out these runs
  end, so deadlock is not checked there; nor in `planner_words` and `link`,
  which stop at their bounds. Everywhere else it is.
* `UartLink` with blocks of 3 bytes instead of 254 and packets of 4: packets have
  full blocks in the middle and at the end, zeros at both ends and next to each
  other, and frames that fill the decoder's buffer. One damaged byte, three
  UART packets and one hub packet: damage touches two frames and a third one
  shows that the decoder has recovered.
* `daemon` is checked under `VIEW Distinguished`, which leaves out the servos,
  the outputs flag, the fault flag, the channels driven, the events of the last
  step and the history `turned`: no guard of the service, the
  loop or the button reads them, nor does a property of that run, so states that
  differ only in them have the same futures.
* `controller_http` is checked up to a permutation of its two workers. Its
  properties treat all workers alike and none is a liveness property.

### Fairness

`RobotCell` assumes `WF_vars(Tick)` and `WF_vars(SolverAnswers)`. The loop waits
at most 10 ms for UART input and then calls `tick` (`robot_daemon.rs:211-237`), and
every deadline is finite, so an enabled tick is taken. The solver thread runs a
bounded search (`SOLVER_MAX_MOVES`), and if it panics its channel closes, which
`advance_solve` takes for a failure: both are answers.

`Controller`'s `FairSpec` has weak fairness for the steps of the gateway loop and
the retry timer (the loop sleeps 1 ms per pass and the executor is cooperative,
`main.rs:711`), and strong fairness for a worker that takes the lock, an answer
or its timeout, and for the task that publishes events: these are enabled again
and again while the loop sleeps, and the executor polls every task that is
woken. Nothing is assumed of the Duo, of clients or of the lines. No property of
the other runs needs fairness.

## What is proved

Everything in this section holds for every value of the constants that meets the
named assumptions. Each `... => []P` below is proved from an inductive invariant
that is stronger than `P`; an invariance proof has one lemma per group of actions,
in which every action is a step.

### The service

The service's theorems hold for every `MaxId \in Nat \ {0}` and every set of move
sequences and planner that meet three assumptions about the planner:

* `PlanAssumption` (`RobotService`): plans consist of rail, gripper and completion
  steps, a non-empty release plan starts with a motion, and the held plan of a
  sequence that has moves completes some (`move_planner.rs` pushes a completion
  after every move). TLC evaluates it for the sequences of every run.
* `CourseAssumption` (`PlanCourses`), for the custody theorems only: started from
  canonical grip, a held plan holds the cube after and during every step and ends
  in canonical grip; a release plan holds it until the last of its moves,
  completes all of them and leaves every rail in; in neither can two neighbouring grippers meet. TLC
  evaluates it for the sequences of `service_safety`, and `planner_bench`
  (`CubeSafe`, `EndsAsPromised`) is the same claim about the real planner for
  sequences of every length. Nothing is assumed of the service's own plans: the
  course of the scan plan is computed step by step in `ScanKeepsCube`, and the
  opening of the stand in `PlanThenOpen`.
* `CubeAssumption` (`CubeCourses`), for the theorems about the cube only: a held plan
  turns the cube by the moves it was made for, in their order, never drops, twists
  or shears it and leaves it in canonical orientation; a release plan does so until
  the last of its moves, and counts each move after it was done and before the next
  is begun. TLC evaluates it for the sequences of `service_safety`, and `planner_bench`
  (`CubeSafe`, `TurnsAsAsked`, `EndsAsPromised`) is the same claim about the real
  planner for sequences of every length. Nothing is assumed of the scan: what its
  whole-cube turns do is computed step by step in the proof.

`RobotServiceProofs`:

* `TypeCorrect`: `Spec => []TypeOK`. `TypeOK` is not inductive: an execute plan is
  made from the moves of a solution, which `TypeOK` lets be empty or any known
  sequence. `TypeInv` adds `MovesArePlanned`: a solution that is ready or being
  executed, and a solver's answer, are sequences the planner has a plan for.
* `DoesOneOperation`: `Spec => []OneOperation`. A tick is enabled by a phase, a
  pending step or a result, so the inductive invariant `OneInv` adds that an
  absent job has none of these; its `OneJob` tells the five cases apart (nothing
  runs, or exactly one of the four jobs) and implies `OneOperation`.
* `SafeStateIsLeftByRecovery`: `Spec => OnlyRecoveryLeavesSafeState`, an action
  property: `Aborted` and `Faulted` are left only while a recovery is the operation,
  and a recovery makes the stand `Ready` only open, off and without a session. It
  rests on both invariants and on `PhaseFitsKind`: the phase tells
  recovery from grip, and once a recovery has moved anything the session is gone.

`RobotContractProofs`:

* `ResultsAreTrue`: `Spec => []ResultsBelongToSession`. The four parts are not
  inductive: `ResultsInv` adds that scan, solve and execute jobs run in a session,
  that a solver works on the scan that is still there, and that a scan the
  executor has turned the cube under is about to be forgotten, because the rest
  of a manual plan still has a move to complete (`StillToComplete`). That last
  point is what the third conjunct of `PlanAssumption` is for. The lemmas
  `...TickOutcomes` say once what a tick of each job may lead to; later proofs cite them.
* `OperationsEndOnce`: `Spec => EveryOperationEndsOnce`.
* `ContractIsKept`: `Spec => KeepsContract`, the refinement of `RobotContract`: the
  initial state is one of the contract, and every step is a step of it or leaves
  its view (`View`) alone. The steps rest on `PoseFits`: which pose is reported in
  which phase and job, that a grip has no session yet, and that a stand reported
  open holds no cube.

`RobotCustodyProofs`:

* `CubeIsInCustody`: `Spec => []Custody`. The inductive invariant `CustodyInv` says
  where every servo is: for each phase of a recovery and a grip
  (`MotionCustody`), at rest in canonical grip during a solve and between the
  operations of a session (`SolveCustody`, `IdleCustody`), and for a running plan
  that the stand is at, or carries out, the step of the plan's course that its
  remaining entries point to (`ScanCustody`, `ExecCustody`). One step along a
  course is proved once for both kinds of job (`IssueAdvances`, `FinishArrives`,
  `MarkerAdvances`); that a course holds the cube and keeps the grippers apart
  carries over to the stand (`SafeOnCourse`, `HeldUntilReleased`).
* `ExecutionsAreWhole`: `Spec => ExecutionCompletesWhole`. The invariant's
  `ActionsCounted` says that the actions done, under way and still to come are
  those announced, also after the automatic workflow has extended its count; the
  moves done are those of the course (`ExecCustody`), whose end is open and off.

The first part of `RobotUsersProofs`, with the button and the loop:

* `DaemonIsService`: `DaemonSpec => Spec`. A poll of the button is a request of the
  service or a stutter (`PollIsRequest`), so all of the above holds in the daemon.
* `PressesAreAdmitted`: `[]PressIsAdmitted`, from the service's invariants.
* `MovesWhenPressed` and `FaultIsLeftByPress`: the action properties
  `MovesOnlyWhenPressed` and `NoMotionOutOfFault`, from `ButtonInv`, which ties the
  histories of the properties to the button's debounce state.
* `ScansAreOfOwnCube`: `ScansOwnCube`, from `OwnGrip`: while the button waits for its
  grip, a grip under way and the cube of a session are that grip's, and between
  two polls the service is never idle, so no other client's grip can slip in.

The second part of `RobotUsersProofs`, with a client's replica:

* `ReplicaStaysTrue`: `ClientSpec => []ReplicaIsTrue`. Every step is described once by
  what its events tell of (`StepTells`: the events are true, and whatever changes is
  told of); what a client makes of them follows from that alone (`HearingIsBetter`,
  along the at most four events of a step). The invariant adds that the stand is
  right also while the solver works, since the end of a solve does not tell how the
  stand is (`StandAtRest`).

`RobotCellProofs`, with the cube in the stand. The cell only watches the service
(`CellIsService`; `CellRuns` is `CellSpec` without its fairness), so all invariants of
the service hold in it and the proof adds what is about the cube:

* `CellInvariance`: `CellRuns => []CellInv`. None of the properties below is
  inductive: whether a turn shears the cube depends on where every rail and gripper
  is when it is done. `CellInv` says where the cube is in terms of the job that runs.
  With no job on it it is whole and faces the camera with its front (`HomeCell`);
  during a scan it is as the scan plan's course has it (`ScanCell`; the scan's views
  `ScanSees` are computed step by step, and the last is the first again); during an
  execution it is what the plan's steps made of it up to the marker that
  `ExecCustody` keeps (`ExecCell`). A step that is commanded and not yet finished
  has not turned the cube (`Over`), as in `RobotCell`.
* `CubeIsKeptIntact` (`CubeStaysIntact`), `CameraFacesFront` (`FrontFacesCamera`) and
  `ProgressToldIsTrue` (`ProgressIsTrue`) follow from `CellInv` with the invariants of
  the service; `FacesAreNamedTruly` (`CapturesFaceItNames`) is the action property,
  as the scan's captures stand at the places of its course where the camera sees
  the face they name; that the cube seen is whole is `CubeIsKeptIntact`.

The same module has the simulator, whose session is the cell with a view beside it:

* `SimulatorIsCell`: `SimSpec => CellRuns`, so all of the above holds of the robot in
  a simulator session (`SimulatedCubeIsSafe`).
* `StandAlarmsAreTrue`: `SimSpec => []NoStandAlarm`, for `Prompt` and late handlers
  alike. The monitor takes a servo it knows nothing of for one that is out of the
  way and a rail under way for one that may be near and far at once, so custody does
  not imply its silence: when a recovery opens the left and right rails, the top and
  bottom ones are still where the stop or the last operation left them.
  `StartsKnown` says where: an operation starts with all rails unknown, all open or in
  canonical grip (`PlaceInvariance`). Everywhere else the monitor is silent because
  no two grippers can meet wherever a rail under way may be (`NoCollision` counts it
  as in), a pair holds until the release the monitor knows to be intended
  (`ReleasingIsIntentional`), and one kind of servo moves at a time.

### The bench programs

`BenchProofs` holds for any set of solutions, each a sequence of face turns
(`SolutionsAssumption`, `BenchTools`).

* `PulsesAreWhole`: `BenchSpec => []NoMixedPulse`. Whether the registers hold a whole
  pulse after the next write depends on all the writes still to do, so the invariant
  is about them (`Harmless`): before a low register is written its channel is off,
  before a high register is written the low one holds the same position, before the
  registers are cleared the oscillator has stopped, and before it starts again every
  channel is off. Each of these is said of the registers as they are and the writes
  in between (`OffBy`, `LowBy`, `AsleepBy`), so it holds wherever the bus fails or the
  process is killed. What one write makes of it is proved once
  (`WriteByteKeepsPulses`); that the calls only ever queue harmless writes is proved
  of registers in any state (`SettingIsHarmless`, `InitializingIsHarmless`), as the
  next tool finds them. The rest of the invariant types the scripts and commands.

The theorems about the cube rest on one invariant, `CubeInv`. Its centre is a course:
the steps the call under way has still to do lead from the stand as it is to the
commanded state the call ends in (`Leads`, `IsAt`), through worlds in each of which a
held cube is whole. A commanded state stands for one world up to the turns done
(`InGrip`, `Views`): canonical in the grip, and in each scan pose with the face
to the camera that the pose is named for. What each script does from the world it
starts in is proved of the mechanism once (`CallLeads`, from the rotation algebra
of `Mechanics`), so a step of the runtime only goes on along its course. `Plan` says
what the tool has still to do once the call is over: the rest of a scan, with the
faces filed so far; the rest of the moves asked for, with the turns done so far;
the way to the first move or the way out, with no cube; or single commands.

* `CubeStaysInGoodHands`: `CubeInGoodHands`, as the course is one of whole cubes.
* `ScansAreTrue`: `FacesTrulyNamed`. The names are those of the scan list, the faces
  those the world of the pose shows the camera.
* `MovesAreAsAsked`: `MovesAsAsked`, for solutions of any length.

That the outputs are what the runtime counts on needs an invariant of its own on top
of `CubeInv`, about the registers as they will be when the writes still to do are
done (`OffAtEnd`, `OnAtEnd`). `OutInv`: while the call under way ends in a state that
drives the grippers, either every gripper is driven already or its script has still to
turn them all (`Opens`: `safe_open` and `grip`, the only calls that start with the
outputs off, both do); and no rail is driven but those the step under way has set.
`StartInv` says that the call that resets the registers only comes first, when the
runtime is in no state that promises anything.

* `StateStaysTrue`: `StateIsTrue`. Between two calls the rails, the grippers, the cube
  and the driven channels are all what the commanded state says.

### The gateway and the cache

The first part of `LinkProofs`, about the gateway, holds for every set of ids and every positive capacity
(`LinkAssumption`, `CapacityAssumption`), with callers that push, cancel and
dequeue in any order:

* `GatewayTypeCorrect`: no queue and no table ever holds more than it has slots for.
* `AnswersGoHomeAlways`: `AnswersGoHome`, an answer is only ever queued for the
  upstream that draws its request ids. The inductive invariant adds that a route
  names the upstream that draws its id: an answer goes where its route points.

The second part, about the cache, holds for every cache size and any requests in any order:

* `HandledOnceInWindow`: `ExecutedOnce`, a request is carried out a second time
  only after as many others as the cache holds. It is inductive only together
  with `CacheIsRecent`: the cache is the tail of the history of dispatched requests.

### The firmware, the Duo and the clients together

`ControllerProofs` holds for any number of workers, ids and commands, every
capacity, every cache size and every number of losses and restarts. It adds one
assumption, `ControllerAssumption` (`Controller`): the orders in which ids are
handed out have no id twice. `next_http_request_id` counts 2^31 requests before it
repeats one, and `initial_request_id` of `rubik-robotctl` is a 31-bit hash of the
time and the process id, so this leaves out a collision of two such hashes.

The invariant has three parts. `ShapeInv` says what may be in every line, queue,
channel and table. `ControlInv` says that every request anywhere under an id of
`rubik-robotctl` is the command of the process that drew the id, and that every
acceptance anywhere, in the cache too, tells of something the Duo did. Each step is
shown to pass packets on (`Carries`), to ask for one more thing (`Asks`) or to be
the Duo's handling of one (`Handles`), and the two parts are kept because of that
and not because of the step.

* `ControlIsNotMisled`, `ExecutedOnceBehindTheLink` and `AnswersGoHomeInTheFirmware`:
  `ControlWaitsForItsOwn`, `ExecutedOnce` and `AnswersGoHome` of the composed system,
  with the C6 restarting at any time.

The third part, `HttpInv`, holds until the C6 restarts. It says that one worker
waits and the ids of the others are still unheard of (`WorkersInv`); that no queue
has an id twice (`OnceInv`); that an id goes from its channel into a queue, onto
the wire and back, and has its route exactly in between, for a worker that waits or
a cancellation under way (`PhaseInv`); and that whatever is said to a waiting
request is as new as the request (`RecentInv`).

* `NoLeakUntilRestart`: `Spec => [](reboots = 0 => NothingLeaks)`.
* `StatusIsFreshUntilRestart` and `AbortIsCarriedOutUntilRestart`: the action
  properties, under the hypothesis `MaxReboots = 0`. The hypothesis is needed:
  `controller_reboot` shows how `AbortIsCarriedOut` fails once a restart makes the C6
  hand out its ids anew.

### Only model-checked

Liveness and fairness are out of the prover's reach (`EveryOperationEnds`, every
HTTP request ends). So is induction over data, and with it what a fold computes
for every input: the planner (`PlannerBench`, `PlannerWords`) and COBS (`UartLink`). So
`CubeAssumption` and `CourseAssumption` stay assumptions, which TLC discharges for
the real planner. Of the simulator, what the screen makes of the turns and of the pose
of the cube (`TurnsAreShown`, `PoseIsShown`) is model-checked: its
replay folds moves and rotations over whole sequences. So are the bytes on the line
(`InOrderOnce`, `LossIsBounded`). No module uses a RECURSIVE operator.

## Where the code and its documents disagree

One disagreement is a run of its own, because one state of the model shows it:

* `controller_reboot`: `NEXT_HTTP_REQUEST_ID` starts at the same value at every
  boot of the C6 (`firmware/esp32c6-controller/src/bin/main.rs:59`), and the Duo
  answers an id it has cached from its cache. After a restart of the C6 an abort
  may be acknowledged and not carried out, against "Duo immediately disables all
  PCA9685 outputs" (`docs/ROBOT_CONTROL_PROTOCOL.md:316`). A `GetStatus` may be
  answered with a status of the boot before (against line 165).

The others were met while modelling. The model does what the code does, and the
properties are stated so that they hold of it:

* `docs/ROBOT_OPERATION_WORKFLOWS.md:32` defines pose `Open` as all rails open
  *and grippers perpendicular*. An executed plan opens the rails with the
  grippers as the last turns left them and publishes `Open`
  (`robot_service.rs:1452`). The next grip straightens the grippers before it
  closes the rails: the definition is what is wrong.
* `enter_fault` (`robot_service.rs:1749`) reports outputs disabled whether or not
  its `all_off` worked; `ROBOT_CONTROL_PROTOCOL.md:143` promises "whether PWM
  outputs are currently enabled". After a bus failure driven channels may be
  reported off.
* `ROBOT_OPERATION_WORKFLOWS.md:176` says that the button does not start recovery
  after an abort that failed to disable PWM. The follow-up looks only at the
  controller of the next poll (`operator_button.rs:223`): if another client's abort
  succeeds in the same loop iteration, `Faulted` has become `Aborted` and
  recovery starts without a press. `NoMotionOutOfFault` holds because it then is
  not `Faulted` any more.
* One slot holds the abort to retry (`rubik-link-gateway/src/lib.rs:348`): a
  second abort, sent while the first waits for its answer, replaces it and the
  first is never sent again, against "C6 retries it until acknowledgement or Duo
  link failure" (`ROBOT_CONTROL_PROTOCOL.md:314`).
* Routes of USB requests that never get an answer are not released
  (`lib.rs:234`): `cancel_network_request` knows only network requests. Six of
  them, in one boot of the C6, refuse every later request, aborts included.
* The events of an operation go to the upstream whose command was accepted last
  (`lib.rs:470`): an HTTP abort that is accepted takes them away from the USB
  owner, against "a USB operation owner also receives its event stream"
  (`ROBOT_CONTROL_PROTOCOL.md:173`). `rubik-robotctl` then ends by its timeout.
* An answer that arrives just as its HTTP request ends stays in the one-slot
  response channel until the next request takes it out, and the loop that fills
  the channel is also the one that publishes events (`main.rs:688`): until then
  the web adapter sees none, against "Events are observable by the web adapter"
  (line 172). An event for a full USB queue returns before the network's copy is
  queued (`lib.rs:476`).
* `open_all_rails` says "While the first pair opens, the opposite pair still
  holds the cube" (`stand_runtime.rs:527`). From a scan pose held by left and right
  alone, a `safe-open` opens exactly these first; the cube is let go one step
  earlier than the comment says. `CubeInGoodHands` counts that step as the release.
* The simulator's pump may apply the first statuses of an operation before the
  handler of its command calls `set_visual_moves` (`sim_server.rs:1816`). With
  `Prompt = FALSE` TLC finds that after an aborted sequence the turns expected
  from it raise a "layer-gripper-turn-mismatch", for good, though
  `tests/ui/flow.spec.js:100` expects no violations; and that a handler that runs
  on after the first turn starts counting anew.
* In the automatic workflow `completed >= moves` is `0 >= 0` during the whole scan
  (`sim_server.rs:1059`), so the simulator's custody rule is silent there.
* Recovery and faults end a session without `CubeSessionChanged`
  (`recover_start` in `robot_service.rs`), so a client's replica keeps a dead
  session. Commands for it are refused, which is what `ReplicaIsTrue` relies on.

## Not modelled, and why

* Vision, calibration, pulse arithmetic, sticker colours and facelet strings, CRC
  and postcard encoding: data that no control property tells apart, and numeric
  code out of TLC's reach.
* HTTP servers, WebSockets, Wi-Fi, GPIO and UART drivers, the browser page: input and
  output around the modelled cores. In the simulator also the registry of
  sessions and the animation.
* Bounded pulses of the calibration tools (`rubik-servo-*`, `rubik-stand`), dataset
  tools, native bindings and scripts: single commands without state, and not part
  of the running robot.
* Shutdown, restart and loop errors of the daemon: the process ends after one
  `all_off`, whose failure it reports as it ends. A restarted daemon is a new
  behaviour of the model; its ids start anew, and the protocol gives a client
  nothing to tell two processes apart, so there is no promise to check.
* Events lost on the way to a client (`RobotClient` hears them all): the protocol's
  answer to a loss is a new `GetStatus`, which the model has as an action.
