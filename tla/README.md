# Patrol: specifications, model checking and proofs

TLA+ modules of the patrol system in this repository (`src/` at the root, docs
in `docs/`): two AMRs patrol a car park one at a time, four PCs tell them when
they may, and a System Monitor records what happened.  Every definition is
translated from the source lines that `PROJECT.json` ("map") names.

Run anything from this directory:

    tlc -workers 2 -config MCPatrolStop.cfg MCPatrolStop
    tlapm PatrolControlProofs.tla

## 1. The system

| Component (code) | State it keeps | Operations | What must be right |
|---|---|---|---|
| **Control Server** `patrol_control` (`control_core.py`, `patrol_control_node.py`) | permit, the robot in the slot, accepted/granted, the token, fire hold, goal handles, sequence numbers | start patrol, goal response, feedback, result, permit, token timer, cancel, clear fire hold | one mission at a time; authority only for an accepted goal; a robot whose permit is withdrawn is sent away; a fire stops new patrols; the slot comes back |
| **Patrol worker** `patrol_amr_safety` (`genius_patrol.py`, `move_to_safetyzone.py`, `Evacuation` and `pause_and_wait` in `event_check.py`) | step of the route, Nav2 task, the stop it waits for | start step, wait for task, stop, hold, resume, fail, dock | a stop request wins over progress; the stop is confirmed when the robot stands; a held robot can go on |
| **EventCheck** (`event_check.py`) | `_active`, `_completion`, `_responded`, `latest_allowed` | stop service (a coroutine), resume topic | every request is answered; no waiter is orphaned |
| **Vision node** (`vision_node_v2.py`, `VisionPatrolLink`) | candidate, reported, busy, stopped | frame, stop answer, report, report answer | stop, report, resume in this order |
| **Gate camera** `patrol_vision/gate_cam.py` | last position, crossing history, pending passage, cooldown | one frame | direction of a passage is never wrong |
| **Center camera** `center_cam.py` | area, stay timer, parked, leaving timer, cooldown | one frame | PARKED means stayed; EXITING follows PARKED |
| **cam_master** `cam_master.py` | permit, seen event ids, last accepted stamp | two subscriptions, purge | newest event rules, whatever the order |
| **Monitor: intake of confirmed events** `patrol_sysmon/app/services/detection_service.py`, `models/detection.py` | table rows, picture files | `receive_report` from the ROS adapter and from web requests, two processes | answers agree with rows; a row has its picture; the suppression window |
| **Monitor: patrol records** `app/ros/patrol_action.py`, `patrol_service.py`, `models/patrol.py`, latest row of `models/robot.py` | mission, progress per goal (in memory); visits, reports, latest status (tables) | feedback, status list, battery | no visit is invented; repeated reports agree; every result is reported; the row follows the mission |
| **Monitor: start** `app/__init__.py`, `database.py`, `security.py` | tables of an older release, the session key | look, migrate, create schema, key; two processes | no start loses a record; a process that serves has its tables and the common key |
| **Monitor: maps, costmaps, frames** `map_service.py`, `costmap_service.py`, `camera_service.py` and models, `ros/node.py` | picture files, rows, lock file, the due time of each camera | receive map, costmap, frame; show a frame | a row has its picture, no picture is left over; image and metadata fit; the rate is bounded |
| **Monitor: permit, E-stop** `models/cctv.py`, `models/safety.py`, `ros/qos.py` | present row, log of changes, receive queue | store, adapter start | the log is the changes and ends with the row |
| **Monitor: vehicle passages** `cctv_service.py`, `vehicle_access_service.py` | events, passages | camera state, then passage; HTTP | an event has its passage, whatever failed between |
| **Monitor: event handling** `event_service.py`, `models/event.py` | status, changes, what pages show | show, change status | who changes an event saw its status |
| **Monitor: accounts** `models/user.py`, `auth_service.py`, `security.py` | users, sessions, requests under way | login, create, update | an administrator remains |
| **AMR evacuation** `move_to_safetyzone.py`, `genius_patrol.py`, `turtlebot4_navigator.py` | place in the code, Nav2 task, dock status, odometry | command topic, escape, wait, resume, dock, undock | the robot is where the worker takes it to be |
| **AMR scenarios** `patrol_amr/scenarios` | checkpoint | start, resume, run | a patrol skips nothing |
| Dashboard and history queries, conversion of messages, launch files, tools, tests | - | - | not modelled (8) |

How they interact: the Control Server sends Patrol action goals to the robots
and publishes `PatrolCommand` and numbered `DriveToken` frames; it subscribes
to the permit of cam_master, which subscribes to the events of the two cameras
(two topics, no order between them).  On a robot the vision node asks the
patrol to stop by a service, reports the event to the Monitor by a service and
lets the patrol go by a topic.  The Monitor listens to all of this.

Where it is hard: callbacks that carry only a robot id while goals of the same
robot follow each other; a coroutine that reads shared state again after an
await; a service and a topic whose order nothing fixes; two event topics
ordered only by stamp; look-then-write over a database and a directory that two
processes share.  `PROJECT.json` ("hazards") lists each place with its line.

## 2. Modules

| Module | Models | State and actions against the code |
|---|---|---|
| `ControlCore` | `control_core.py` | a `ControlCore` object is a record, each method an operator from the record before to the record after |
| `PatrolControl` | `patrol_control_node.py` with its callbacks | one action per callback (rclpy.spin runs them one at a time); a *call* is one goal at client and server; robots' action servers are external |
| `MissionSlot` | abstract: what the node promises about drive authority | idle, reserved, accepted, driving |
| `PatrolStop` | worker, EventCheck, vision node | a locked block or a callback is one action; `on_stop` is two, around its await; futures are numbers of a pool |
| `StopReport` | abstract: stop, report, drive on | |
| `GateCam`, `CenterCam`, `CamMaster` | one camera process each, and the permit | one action per path through a frame, one per message |
| `CctvPermit` | PC 4: the three processes composed | a camera publishes in the frame that confirms |
| `DetectionStore` | `receive_report` and the tables | one action per read or write another process can slip between |
| `ReportIntake` | abstract: what ReportDetection promises its callers | store and answer in one step |
| `PatrolRecords` | the adapter's tracker and its stores | one callback is one action, with a choice of which of its stores raise; the robot and its topics are external |
| `MonitorStart` | `create_app`, `init_db` with its migrations, the session key | each look at the tables and each transaction is an action; any may fail or be the last |
| `GridStore` | `receive_map`, `receive_costmap`, their tables | one action per read or write of directory and tables |
| `FrameStore` | `receive_frame`, `latest_frame` | one action per file replaced; readers take no lock |
| `FrameRate` | the frame schedule of `_receive_camera` | a frame is taken or not; the clock |
| `EstopLog`, `PermitLog` | `store_estop`, `store_permit` behind their queues | one transaction is one action |
| `EventHandling` | `change_event_status` | the page, then the click |
| `AccessLog` | `receive_camera_state` | two transactions, two actions; either may fail |
| `Accounts` | `update_access` and the check of each request | a request is let through, then done |
| `Evacuation` | `execute`, `run_patrol`, `escape_and_wait`, dock and undock | one action per stretch in which nothing spins |
| `PatrolScenario` | `PatrolScenario.run`, start, resume | each drive and each use of the checkpoint |
| `MCParts` | the eleven modules from `MonitorStart` on and `CctvPermit`, one at a time | they share no state, so a run of their product would only multiply |
| other `MC*` | small instances for TLC | |
| `PatrolControlProofs`, `PatrolStopProofs`, `DetectionStoreProofs`, `PatrolRecordsProofs`, `MonitorStartProofs` | theorems about one module | |
| `MonitorProofs` | theorems about the monitor's other stores | |
| `CctvPermitProofs` | theorems about the cameras, cam_master and PC 4 | |
| `PartsProofs` | theorems about `Evacuation`, `PatrolScenario` and `MCParts` | |

Definitions marked **"Mutant:"** are slips next to the definition they would
spoil.  No specification uses them; each was substituted for its neighbour to
see that a property notices (`PROJECT.json`, "mutants").

### What the models abstract

* **Control.** Feedback is "waiting", "fire" or "progress", all that
  `observe_feedback` tells apart.  Goal response, feedback and result travel
  apart, so a sample may be overtaken.  With `Failures` an action future may carry
  an error while the robot works on; the passing run has it, the violations need
  none.  The client lets go of such a call as `failed`, and as `gone` of one whose
  response callback raised.
  `_pending_goal_robot_id` is written and never read, and is left out.  `order`,
  `grantedBy` and `confirmed` are history variables.
* **Stop.** A frame with an event that was already reported changes nothing.
  `history` of `EventCheck` is a log; `evacuate` is implied by the worker's
  place.  `_responded` is set before the answer is sent.  `disturbed` is a history
  variable: since the vision node's stop was taken, was another client's stop
  taken or a resume handled?  `data=true` on the
  stop service (an escape order, refused without a change) and crashes of these
  processes are not modelled.  The flow without EventCheck is `Evacuation`.  `LastFuture` is the clients and 3
  (`FutureAssumption`), enough for a free future at each request.
* **CCTV.** The detector is an input: a position (or area), or nothing.  Time
  is counted in frames, and a counter stops at the limit it is compared with;
  a slower loop is frames that could not be read.  Event ids are unique, so
  the stamp stands for the id.  A message may be delivered twice.  Clock steps
  are not modelled.  A camera takes longer to start than its last event to
  arrive.  cam_master's periodic republish repeats a value (`PermitLog` has it) and its
  timeouts only log; its queue depth of 20 is never reached within `MaxEvents`.
* **Events.** A report is a record whose fields are what hash, id, window and
  file name tell apart.  A database commit either happens or raises; `unlink`
  works.  No code deletes from `events`.  Validation is left out: a request that
  does not pass it changes nothing.

* **Start.** A column is told apart as far as a migration does: "kept" (both
  releases have it), "gone", or new.  What an earlier release may have left is
  `OldDatabaseAssumption`.  Starts overlap freely.  `overtaken` is a history
  variable: has a start changed the patrol, E-stop or event tables on a look that
  another start had made old?  (The other migrations look inside their
  transaction, or do no harm, or raise.)
* **Grids and frames.** A picture is named by what its bytes hash to, so equal
  contents are one file.  Decoding, scaling and validation are the set of valid
  inputs.  A request that dies leaves its picture (`abandoned`).
* **Permit, E-stop, passages, accounts.** A SQLite transaction is one action,
  and may fail.  The E-stop has no publisher in this release: its states are
  free.  The reason of a permit is left out: cam_master sends none.
* **Evacuation.** A place is the dock, a waypoint, a safe zone or between.
  Nav2, odometry and the dock status are external; a status may be late, as
  late as the next goal.  No goal is taken while the task of a goal that could not
  confirm its stop still runs: a bound, named in `ReceivePatrolGoal`.  Path lengths and the nearest zone are left out.
* **Scenarios.** Navigation gives a waypoint up, or is cancelled, freely.
* **Records.** Goals are numbered as they were accepted, and status lists as
  they were published: list 2g-1 says that goal g runs, list 2g that it ended.
  A list holds all goals (the action server forgets them much later).  Task
  states other than WAYPOINT_REACHED look alike to the tracker.
  WAYPOINT_REACHED without a waypoint, positions, validation, and the wall
  clock set back are not modelled, nor are `robot_status_history` and the
  dashboard's queries.  A row of `robots` is made by the first status only; the
  intake of events makes one too, which only helps.  A restart takes longer
  than a millisecond, so no arrival time repeats.  `stay`, `contested`,
  `unstored` and `late` are history.

## 3. Runs

| Run | Question | States |
|---|---|---|
| `MCPatrolControl` | Two robots, failing futures, every order of callbacks: do slot, live call, authority and permit agree? Does a robot work outside the slot only when its future failed? Is the slot given back, is a waiting robot served? Does the node implement `MissionSlot`? | 325 thousand |
| `MCPatrolControlLate` | *violated:* a late sample of an earlier goal grants the next goal its token | |
| `MCPatrolControlFire` | *violated:* a fire the node is told of too late does not stop the next patrol | |
| `MCPatrolStop` | Vision node and patrol, two events: is every stop answered, does every hold end? | 41 thousand |
| `MCPatrolStopShared` | A second client and an operator's resumes, in any order: what EventCheck itself owes; is a stop held until somebody else disturbs it? Implements `StopReport` | 1.6 million |
| `MCPatrolStopOvertaken` | *violated:* a resume handled after the next stop lets the robot drive while it is reported as stopped | |
| `MCParts` | Twelve parts, each alone: does each of the properties in the list below hold, with lost, late, doubled and stray messages, failures, deaths, restarts and races? | 0.9 million |
| `MCPartsOverlap` | *violated:* two starts that overlap on an old database keep its E-stop records | |
| `MCDetectionStore` | Two callers, three reports (one id with two contents, a neighbour in the window), failures and deaths: does each request look like one step (`ReportIntake`), what becomes of window and picture? | 3 million |
| `MCDetectionStorePicture` | *violated:* a failing request removes the picture of a stored event | |
| `MCPatrolRecords` | Feedback lost, late or before a restart, lists missed, stores that raise: visits, reports, mission, row; every result reported | 138 thousand |
| `MCPatrolRecordsRepeat` | *violated:* a report repeated after a restart is always a duplicate | |

What `MCParts` asks of each part:

| Part | Property | In words |
|---|---|---|
| `MonitorStart` | `RecordsKeptInTurn`, `ServingIsReady` | no row is lost, and who serves has current tables, until a start acts on an old look; who serves has the key the other has, always |
| `GridStore` | `PicturesMatchRows` | rows have pictures, pictures have rows |
| `FrameStore` | `FrameFitsMetadata` | the two files are of one frame; a page never sends an image older than its metadata |
| `FrameRate` | `RateBounded` | in any stretch of time no more frames than its intervals and one |
| `EstopLog` | `EstopLogTellsLatest` | the log ends with the row, changes at each step, never goes back in time |
| `PermitLog` | `PermitLogComplete`, `TypeOK` | the log is every change, unless the queue overflowed or a store failed |
| `EventHandling` | `ActedOnWhatWasSeen` | a change starts from the status that was shown |
| `AccessLog` | `AccessFollowsEvent` | a gate event has its passage |
| `Accounts` | `AdminRemains` | the last administrator stays |
| `Evacuation` | `RobotWhereAssumed` | spin, wait, patrol and dock happen where they are meant to |
| `PatrolScenario` | `RouteComplete` | nothing is skipped or repeated without a reason |
| `CctvPermit` | `GateTellsDirection`, `HalfPassageFits`, `ExitingFollowsParked`, `ParkedMeansStayed`, `LatestEventRules` | as in 1; a frame without a car counts as staying, as `center_cam.py:135` and `docs/vision.md:89` want it |

A property or type invariant that is proved for every value of the constants
and follows from its neighbours in the run is not run again: `HandleMatchesSlot`,
`AuthorityNeedsAcceptedGoal`, `LastOrderAgreesWithPermit`, `AnswersMatchRows`,
`OneRowPerEvent` and
the type invariants of `PatrolControl`, `DetectionStore` and `PatrolRecords` are
theorems only.

### Bounds

* Control: two robots (the other robot, and the same robot again), `MaxGoals`
  2 (a goal and its successor: every property speaks of at most two goals),
  `MaxCommands` 2 (withdraw and give again), `MaxFrames` 1 or 2, one sample in flight
  (a sample overtaken by response or result needs one).  The proofs hold for
  any bounds.
* Stop: two events in `MCPatrolStop` (the candidate changes while a report is
  pending), two steps (a stop between and in steps), two resume messages (the
  topic's depth in the code).  `MCPatrolStopShared` has one event and one step
  to make room for a second client.
* CCTV: positions left of, between and right of the lines; `Confirm` 2 and
  `Cooldown` 2 frames (one frame is below, one at the limit), `Stay` 2; two areas;
  two messages, one of them stray.  Order between two topics needs two messages;
  the proof of `LatestEventRules` holds for any number.
* Start: two processes; an empty directory, an old database with rows where a
  start goes on, one with old patrol records where it must not, and one a
  start has half migrated.  Each kind of migration meets a table it has to
  change, one it must leave and one that is empty.  A serving process stores one
  new row, in any of three tables.
* Grids: two requests, two maps of one id with different contents, a newer map,
  two costmaps of one content.  Frames: two writers, one image sent again under a
  newer frame, one frame from the future (refused).  A death needs one writer and
  the race a second.
* Rate: an interval of 4 with a tolerance of 1 keeps the code's ratio; 20 ticks
  are five intervals.  E-stop: a repeat, a change of reason, a tie in time, and a
  second target; three rows.  Permit: queue of 2 (10 in the code), five permits:
  it overflows and is emptied.
* Two operators over the four statuses; three passages that meet a gate event's
  id, another's message, and nothing; three users and two requests under way at
  once: the last two administrators can withdraw each other.
* Evacuation: a route of waypoint, spin, waypoint; any number of goals and
  evacuations.  Scenario: three waypoints, each reached at most three times.
* Events: two requests at once are what every race in the code needs; a caller
  may make any number of requests after one another.

* Records: two goals (the end of one merges with the start of the next), one
  waypoint that is reached, left and seen again after a restart, a queue of one
  (a second sample drops the first).  Coming back to a waypoint needs
  `MaxArrivals` 2; a safety run with that and a queue of two (4.2 million
  states) was made once, and the proofs cover every value.

### Fairness

`PatrolControl!LiveSpec` assumes that rclpy.spin runs the callbacks whose
message or answer arrived (`Executor`); a future may fail instead, but none is
made to.  What robots do is not in this
repository and is a *premise* of the property: `AnsweringServers` (servers
decide and end), `RepeatingRobot` (a robot without a token repeats
WAITING_FOR_TOKEN).  `PatrolStop!LiveSpec` assumes that worker loops and
executors run on (`Running`); `stop()` is bounded by `stop_timeout`.
`SeenAgain` (the event keeps being seen, lost and seen again, and one report is
stored) is a premise of `HoldEnds`, because a report that is not stored resumes
nothing.  `PatrolRecords!LiveSpec` assumes that rclpy.spin handles a list that
has arrived (`Hearing`).  `BatteryComes` (battery messages keep coming, time
passes between them, the database takes a row now and then) is a premise of
`RowCatchesUp`: nothing else repeats a row.

## 4. What is proved

With tlapm, for every value of the constants that meets the named ASSUMEs:

* `PatrolControlProofs`.  The inductive invariant says that a taken slot has
  exactly one live call, of its goal and robot; that handles are those of the
  accepted goal; and ties authority, last command and permit together.
  `SlotMatchesCall` alone is not inductive: goal numbers of calls, orders and
  handles must be bounded by the goal counter.  From it: `TypeCorrect`,
  `SlotNeverDrifts`, `WithdrawnPermitSendsDriverAway`, `CommandsFollowPermit`,
  and `NodeImplementsSlot`, the refinement of `MissionSlot` step by step.
  `NoneForgotten` strengthens it: the response callback never raises, so the node
  lets go of a call the robot works on only when its future carries an error.
  From both, with failing futures: `WorkIsSeenOrFailed`, a robot works on the goal
  in the slot or its own future failed, and `OneRobotAtWork`, at most one robot
  works whenever no goal that still runs has a failed future.
* `PatrolStopProofs`.  The inductive invariant: the worker owns the completion it
  stops or holds for; only the current completion is open; somebody awaits the
  current one until it was responded to; the vision node has no call once it
  knows the answer.  That a new stop finds a free future is a pigeonhole
  argument: each other client refers to one future, and three more are in
  use.  From it, for any clients and any resumes: `TypeCorrect`,
  `NobodyIsOrphaned`, `HoldsCanEnd` and `ConfirmedMeansStill`.  `OrderInv` speaks of
  the stop of the vision node for as long as it is not `disturbed`: while the stop
  is outstanding `latest_allowed` is not true, and a stop that is granted, heard of
  or not, is the one the worker holds for.  A resume that was sent earlier may
  still be on its way; handling it disturbs.  From it, for any clients, resumes and
  order of messages: `ReportsAreHeld` (`UndisturbedStopHolds`) and
  `StopReportHolds`, the refinement of `StopReport`, which may let the robot go
  unasked only when disturbed.
* `CctvPermitProofs`: `GateAloneTellsDirection` for the gate camera alone (the
  invariant relates crossing history, last position and the ends seen since the
  last event) and `MasterFollowsLatest` for cam_master alone (queues are
  sorted by stamp, what was accepted is at least every handled stamp, and the
  newest event is accepted or still on its topic).  Then the composed system: PC 4
  seen from the variables of one component runs that component's
  specification (`SystemRunsGate`, `SystemRunsMaster`, `SystemRunsCenter`), so
  what is proved of a component holds in the system.  `OnlyParkedCarsExit`,
  `OnlyStayingCarsPark`: a stay that is not PARKED yet is no longer than the car
  has been in its area, and a car is PARKED if that was said last.
* `DetectionStoreProofs`.  The invariant says what each place in
  `receive_report` has looked up, and that it still holds or that a request under
  way together explains the change: `AnswersStand`, `EventStoredOnce`,
  `SuppressionApart`, `PictureApart`.  `RequestsAreAtomic` is the refinement of
  `ReportIntake`: the step that answers is the abstract request, every other step
  is a stutter.  A refused request is the hard case: it is told some steps after
  the row that holds its id was seen, and rows stay.
* `PatrolRecordsProofs`: `VisitsAreReal`, `RepeatsAgree`, `ResultIsShown`,
  `RecordTypes`.  The invariant numbers the stays at a waypoint: a queued sample
  is of a stay that is not counted yet, or finds the tracker inside with
  nothing in between; two samples of one goal and place are of two stays, in
  order, or the robot stayed.  It speaks of the queue with the robot's next
  sample behind it, so that sending keeps it.

* `MonitorProofs`: `FramesAreLimited` (the frames since any frame are fewer than
  the intervals between it and the next due time), `AdministratorRemains`
  (cardinality: a change that takes one administrator needs two, and a user
  who is created takes none away), `ChangesWereSeen`, `AccessIsKept`,
  `LogEndsWithRow` (with: an adapter that waits for the last state finds one),
  `FrameFits` (what each writer and page has read of the two files stays
  consistent whatever replaces them), `PicturesFollowRows` (a request that may
  write or has written a picture found no row of it, and a picture without a row
  belongs to the request that made it; a costmap comes from the adapter alone,
  so nothing else can remove it), `LogTellsEveryChange` (the permit's log is the
  first of the changes, and each permit in the queue is the next of them or
  repeats the one before; a function from positions of the queue to changes
  says so, and it shifts as the queue does).
* `MonitorStartProofs`: `StartsKeepRecords`, `ServingWhenReady`, `OneSessionKey` and
  `StartTypes`, for any processes whose starts overlap in any way.  The invariant is
  `~overtaken => StartInv`, and `StartInv` has a part about
  the tables (a row has no value outside its table's columns; an old robot table
  only lacks columns; patrol tables are old or current together; an old E-stop
  table still owns all its rows, so nothing is under the legacy name for a move
  to overwrite) and one about each process by its place (what it has passed is
  done).  No transaction of another undoes what a process has passed (`Harmless`).  The key: the file is
  linked once, by whoever comes first, and everybody reads it.
* `PartsProofs`: `PartsRunTheirSpecs` (each behaviour of `MCParts` is one of every
  part's own specification, so what is proved of a part is proved of what TLC
  runs) and `PartTypes`; `RouteIsComplete` (the invariant
  places the waypoint at work and the checkpoint between what was reached and
  what was not) and
  `RobotIsWhereAssumed` (three parts: `DockKnown`, what the worker may conclude
  from the dock status; `TaskKnown`, where the task that runs leads;
  `StandKnown`, when the robot stands).

Every invariant and action property of the passing runs is a theorem.  Only
model-checked is liveness, which is out of the prover's reach: `SlotReleased`,
`WaitingIsServed`, `StopAnswered`, `HoldEnds`, `EveryResultReported`,
`RowCatchesUp`.

## 5. Findings

Six runs end in a violation of what a doc or comment says; `PROJECT.json`
("findings") quotes each.  In short: feedback is bound to robots and not to
goals (`MCPatrolControlLate`), a fire told late is dropped (`MCPatrolControlFire`),
a resume cannot be told from an older one (`MCPatrolStopOvertaken`), a failing
request may unlink a shared picture (`MCDetectionStorePicture`), a report
repeated after a restart may conflict (`MCPatrolRecordsRepeat`), and starts that
overlap lose old E-stop records (`MCPartsOverlap`).  Each passing run beside them
shows what does hold: `PictureKeptApart` for requests that do not overlap,
`UndisturbedStopHolds` until a resume or another stop is handled,
`RecordsKeptInTurn` until a start acts on an old look.

* **Overlapping starts.**  `database.py:70-71` says that old E-stop records are
  kept under `_legacy`.  `_migrate_estop_contract` reads the tables (lines 73-85)
  before its transaction (line 86), and nothing orders the starts of run.py and
  ros_adapter.py; `security.py:59` expects them to come together.  If both have
  looked while the tables are old, the first renames them and creates the new ones;
  the second then drops the `_legacy` tables with the rows (line 89), and drops the
  new ones, which are empty.  If the first serves by then, it serves without its
  tables until the second has created them again; that is why `ServingIsReady`
  says of the tables `~overtaken`.
* **Failing futures.**  No doc speaks of a goal or result future that carries an
  error.  `_on_goal_response` and `_on_patrol_result` finish the goal then, and the
  robot may be driving: start robot1, its goal is accepted and executes, its future
  fails, the slot is free, start robot6, and two missions run.
  `WorkOutsideSlotHasFailed` says that this is the only way to a second mission; that
  at most one robot works (`OneMissionAtWork`) holds where no running goal has failed.

The theorems' premises are the named ASSUMEs on the constants.
`OldDatabaseAssumption` is what releases and starts
that ended anywhere leave: a row's values are in its table's columns, robot
tables only lack columns, and the two patrol tables, which one release made
together, are both old or both current.  It allows any rows, an empty directory
and any mix of old and current tables otherwise.

Behaviour that is known, accepted by the docs or promised nowhere, and so not
stated as a property: a restarted cam_master permits until the next event; an
exit within 2 s of the last event is not told (`LeavesUnsaid`); a clock set back
makes events look old; an operator's own resume leaves the vision node
believing in its stop; a cancel at shutdown may be followed by a grant.

## 6. Reading order

`ControlCore`, `PatrolControl`, `MissionSlot`; `PatrolStop`, `StopReport`;
`Evacuation`, `PatrolScenario`; `GateCam`, `CenterCam`, `CamMaster`, `CctvPermit`;
`DetectionStore`, `ReportIntake`; `PatrolRecords`; `MonitorStart`; `GridStore`, `FrameStore`,
`FrameRate`; `PermitLog`, `EstopLog`, `AccessLog`, `EventHandling`, `Accounts`;
`MCParts`; then the `*Proofs` modules.

## 7. Plan

The modules above are done, in the order of section 1.  What would come next:

1. An abstract ledger of patrols (arrivals and results as they happened at the
   robot) that `PatrolRecords` implements, as `ReportIntake` is for
   `DetectionStore`, and its refinement.
2. Refinements in the small: `EventHandling` as an atomic change of what was
   seen, `AccessLog` as one store that may be cut short.
3. The status history with its sampling and pruning, if anything but the
   dashboard comes to read it.

## 8. Not modelled, and why

* History and dashboard queries (`history_service.py`, `models/history.py`,
  `routes/dashboard.py`, `dashboard_state.py`), and the status history that only
  they read: no step of another part depends on them.
* Conversion of messages (`payloads.py` but for what reaches a store), field
  validation, wording: a record that does not pass changes nothing.
* CSRF tokens, password hashes, HTTP and templates: one request, no shared state.
* Image pipeline, detector, tracker, ray geometry of the vision node: data.
* `turtlebot4_navigator.py` beyond dock and undock: a vendor's wrapper whose
  other functions the patrol does not call, or that are Nav2's (external here).
* Launch files, maps, interface definitions, demo senders, the verifier, tests.

`PROJECT.json` ("components") names the files of each.
