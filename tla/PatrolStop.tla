------------------------------- MODULE PatrolStop -------------------------------
(***************************************************************************)
(* Stopping a patrol for a detection.  Three threads of control:            *)
(*  - the patrol worker (genius_patrol.execute and run_patrol with          *)
(*    Evacuation, move_to_safetyzone.py), which alone moves the robot;      *)
(*  - the event executor (EventCheck, event_check.py), whose callbacks and  *)
(*    coroutines share the completion future with the worker under a lock;  *)
(*  - the vision node (DetectingNode, vision_node_v2.py, with its           *)
(*    VisionPatrolLink), another process.                                   *)
(* A locked block or a callback is one action; on_stop is two, around its   *)
(* await.  Futures are numbers of a pool, reused once nobody refers to them.*)
(***************************************************************************)
EXTENDS Naturals, Sequences, FiniteSets

CONSTANTS
  Events,        \* what the detector can name: one member per class
  NoEvent,
  Vision,        \* the vision node as a client of the stop service
  OtherClients,  \* other clients of the stop service
  HandResumes,   \* does anyone but the vision node publish on the resume topic?
  LastStep,      \* number of steps of the patrol route
  ResumeDepth    \* bound on resume messages on their way

Clients == {Vision} \cup OtherClients
NoFuture == 0

(* Enough futures: one per call, the worker's, the current and the responded. *)
CONSTANT LastFuture
Futures == 1 .. LastFuture

ASSUME EventAssumption == NoEvent \notin Events
ASSUME ClientAssumption == Vision \notin OtherClients
ASSUME RouteAssumption == LastStep \in Nat \ {0}
ASSUME BoundAssumption == LastFuture \in Nat \ {0} /\ ResumeDepth \in Nat \ {0}
ASSUME FutureAssumption ==
  IsFiniteSet(OtherClients) /\ LastFuture >= Cardinality(OtherClients) + 4
ASSUME ModeAssumption == HandResumes \in BOOLEAN

VARIABLES
  (* the patrol worker *)
  pc,          \* where the worker is
  index,       \* the step of the route it works on
  task,        \* the Nav2 task it has started
  mine,        \* the completion pause_and_wait has read
  (* EventCheck *)
  active,      \* _active
  completion,  \* _completion
  responded,   \* _responded
  allowed,     \* latest_allowed
  results,     \* what each future holds
  (* the stop service and the resume topic *)
  call,        \* the call each client has made
  resumes,     \* resume messages on their way
  disturbed,   \* history: has anything but its own report let go, or could it
               \* let go, of the stop the vision node was last granted?
  (* the vision node *)
  candidate,   \* class_name
  held,        \* has the candidate been seen for HOLD_DURATION_SEC?
  reported,    \* reported
  report,      \* the event of the pending ReportDetection call
  busy,        \* VisionPatrolLink.busy
  stopped      \* VisionPatrolLink.stopped

workerVars == <<pc, index, task, mine>>
checkVars  == <<active, completion, responded, allowed, results>>
wireVars   == <<call, resumes, disturbed>>
visionVars == <<candidate, held, reported, report, busy, stopped>>
vars       == <<workerVars, checkVars, wireVars, visionVars>>

WorkerPlaces == {"idle", "preparing", "loop", "moving", "stopping", "holding",
                 "docking", "failing"}
TaskStates == {"none", "running", "succeeded", "failed", "canceled"}
Permissions == {"unknown", "false", "true"}
CallPhases == {"none", "sent", "awaiting", "stopped", "refused"}

TypeOK ==
  /\ pc \in WorkerPlaces /\ index \in 1 .. LastStep + 1 /\ task \in TaskStates
  /\ mine \in {NoFuture} \cup Futures
  /\ active \in BOOLEAN /\ allowed \in Permissions
  /\ completion \in {NoFuture} \cup Futures
  /\ responded \in {NoFuture} \cup Futures
  /\ results \in [Futures -> {"pending", "stopped", "refused"}]
  /\ call \in [Clients -> [phase : CallPhases, future : {NoFuture} \cup Futures]]
  /\ resumes \in Seq({"true", "false"}) /\ Len(resumes) <= ResumeDepth
  /\ candidate \in Events \cup {NoEvent} /\ report \in Events \cup {NoEvent}
  /\ held \in BOOLEAN /\ reported \in BOOLEAN
  /\ busy \in BOOLEAN /\ stopped \in BOOLEAN /\ disturbed \in BOOLEAN

Idle == [phase |-> "none", future |-> NoFuture]

Init ==
  /\ pc = "idle" /\ index = 1 /\ task = "none" /\ mine = NoFuture
  /\ active = FALSE /\ completion = NoFuture /\ responded = NoFuture
  /\ allowed = "unknown" /\ results = [f \in Futures |-> "refused"]
  /\ call = [c \in Clients |-> Idle] /\ resumes = <<>>
  /\ candidate = NoEvent /\ held = FALSE /\ reported = FALSE /\ report = NoEvent
  /\ busy = FALSE /\ stopped = FALSE /\ disturbed = FALSE

--------------------------------------------------------------------------------
(* EventCheck, the parts the worker calls. *)

StopRequested == completion # NoFuture /\ results[completion] = "pending"

(* Mutant: set_active(False) drops the completion unanswered. *)
DeactivateSilently ==
  /\ active' = FALSE
  /\ completion' = NoFuture /\ responded' = NoFuture
  /\ allowed' = "unknown"
  /\ UNCHANGED results

(* set_active(False), with fail for a completion nobody has finished. *)
Deactivate ==
  /\ active' = FALSE
  /\ completion' = NoFuture
  /\ responded' = NoFuture
  /\ allowed' = "unknown"
  /\ results' = IF StopRequested
                THEN [results EXCEPT ![completion] = "refused"] ELSE results

--------------------------------------------------------------------------------
(* The patrol worker. *)

ReceiveGoal ==
  /\ pc = "idle"
  /\ pc' = "preparing"
  /\ UNCHANGED <<index, task, mine, checkVars, wireVars, visionVars>>

(* Docking, undocking and localisation are done: the route begins. *)
BeginRoute ==
  /\ pc = "preparing"
  /\ pc' = "loop"
  /\ index' = 1
  /\ active' = TRUE
  /\ UNCHANGED <<task, mine, completion, responded, allowed, results, wireVars,
                 visionVars>>

(* pause_and_wait, up to evacuation.stop(). *)
PauseFor(f) == pc' = "stopping" /\ mine' = f

(* The handler of execute: fail, set_active(False), then stop() once more. *)
Abort ==
  /\ pc' = "failing"
  /\ mine' = NoFuture
  /\ Deactivate

StartStep ==
  /\ pc = "loop" /\ index <= LastStep
  /\ IF StopRequested
     THEN PauseFor(completion) /\ UNCHANGED <<task, checkVars>>
     ELSE \/ /\ task' = "running"
             /\ pc' = "moving"
             /\ UNCHANGED <<mine, checkVars>>
          \/ /\ Abort      \* Nav2 rejected the goal
             /\ UNCHANGED task
  /\ UNCHANGED <<index, wireVars, visionVars>>

(* wait_for_task: a stop request takes priority over the result. *)
WaitForTask ==
  /\ pc = "moving"
  /\ IF StopRequested
     THEN PauseFor(completion) /\ UNCHANGED <<index, checkVars>>
     ELSE \/ /\ task = "succeeded"
             /\ index' = index + 1
             /\ pc' = "loop"
             /\ UNCHANGED <<mine, checkVars>>
          \/ /\ task \in {"failed", "canceled"}
             /\ Abort
             /\ UNCHANGED index
  /\ UNCHANGED <<task, wireVars, visionVars>>

(* What Evacuation.stop() waits for: the end of the task, not only the        *)
(* acknowledged cancellation; then odometry that stands still.               *)
(* Mutant: the acknowledged cancellation is enough. *)
StandsStillOnAck == TRUE

StandsStill == task # "running"

StopConfirmed ==
  /\ pc = "stopping"
  /\ StandsStill
  /\ results' = [results EXCEPT ![mine] = "stopped"]
  /\ pc' = "holding"
  /\ UNCHANGED <<index, task, mine, active, completion, responded, allowed,
                 wireVars, visionVars>>

(* It has not, within stop_timeout. *)
StopFails ==
  /\ pc = "stopping"
  /\ Abort
  /\ UNCHANGED <<index, task, wireVars, visionVars>>

(* The loop of pause_and_wait, once the robot is held. *)
(* Mutant: the resume message is not asked for. *)
MayResumeUnasked == completion = mine /\ responded = mine

MayResume == completion = mine /\ responded = mine /\ allowed = "true"

ResumeStep ==
  /\ pc = "holding"
  /\ MayResume
  /\ completion' = NoFuture /\ responded' = NoFuture
  /\ pc' = "loop" /\ mine' = NoFuture
  /\ UNCHANGED <<index, task, active, allowed, results, wireVars, visionVars>>

StopAgain ==
  /\ pc = "holding"
  /\ completion # mine
  /\ PauseFor(completion)
  /\ UNCHANGED <<index, task, checkVars, wireVars, visionVars>>

LeaveRoute ==
  /\ pc = "loop" /\ index > LastStep
  /\ pc' = "docking"
  /\ Deactivate
  /\ UNCHANGED <<index, task, mine, wireVars, visionVars>>

(* Docking or preparing failed. *)
Fails ==
  /\ pc \in {"preparing", "docking"}
  /\ Abort
  /\ UNCHANGED <<index, task, wireVars, visionVars>>

(* goal.succeed(), or goal.abort() after the last stop(), confirmed or not. *)
EndGoal ==
  /\ pc \in {"docking", "failing"}
  /\ pc' = "idle"
  /\ Deactivate
  /\ UNCHANGED <<index, task, mine, wireVars, visionVars>>

(* Nav2 finishes the task, or grants the cancellation stop() asked for. *)
TaskEnds ==
  /\ task = "running"
  /\ task' \in {"succeeded", "failed"} \cup
               (IF pc \in {"stopping", "failing"} THEN {"canceled"} ELSE {})
  /\ UNCHANGED <<pc, index, mine, checkVars, wireVars, visionVars>>

WorkerProgress ==
  \/ StartStep \/ WaitForTask \/ StopConfirmed \/ StopFails \/ ResumeStep
  \/ StopAgain \/ LeaveRoute \/ EndGoal

Worker == ReceiveGoal \/ BeginRoute \/ Fails \/ WorkerProgress

--------------------------------------------------------------------------------
(* The event executor. *)

Free(f) ==
  /\ f \notin {completion, responded, mine}
  /\ \A c \in Clients : call[c].future # f

(* Mutant: a resume of an earlier stop still counts. *)
KeepPermission == allowed' = allowed

TakeBackPermission == allowed' = "false"

(* on_stop, up to the await.  Any other client's stop disturbs the vision    *)
(* node's.                                                                   *)
OnStop(c) ==
  /\ call[c].phase = "sent"
  /\ IF ~active
     THEN /\ call' = [call EXCEPT ![c].phase = "refused"]
          /\ UNCHANGED <<completion, allowed, results, disturbed>>
     ELSE /\ TakeBackPermission
          /\ disturbed' = (c # Vision)
          /\ IF StopRequested
             THEN UNCHANGED <<completion, results>>
             ELSE /\ completion' = CHOOSE f \in Futures : Free(f)
                  /\ results' = [results EXCEPT ![completion'] = "pending"]
          /\ call' = [call EXCEPT ![c] = [phase |-> "awaiting", future |-> completion']]
  /\ UNCHANGED <<workerVars, active, responded, resumes, visionVars>>

(* on_stop, after the await. *)
(* Mutant: a second stop does not replace what was responded to. *)
RespondOnce(f) == responded' = IF responded = NoFuture THEN f ELSE responded

Respond(f) == responded' = IF completion = f THEN f ELSE responded

OnStopDone(c) ==
  LET f == call[c].future IN
  /\ call[c].phase = "awaiting"
  /\ results[f] # "pending"
  /\ Respond(f)
  /\ call' = [call EXCEPT ![c] = [phase |-> results[f], future |-> NoFuture]]
  /\ UNCHANGED <<workerVars, active, completion, allowed, results, resumes, disturbed,
                 visionVars>>

(* The vision node's stop was taken, and it has not asked to resume since. *)
Outstanding == stopped \/ call[Vision].phase \in {"awaiting", "stopped"}

(* on_resume cannot tell which stop a message belongs to. *)
OnResume ==
  /\ resumes # <<>>
  /\ disturbed' = (disturbed \/ (Outstanding /\ Head(resumes) = "true"))
  /\ allowed' = Head(resumes)
  /\ resumes' = Tail(resumes)
  /\ UNCHANGED <<workerVars, active, completion, responded, results, call, visionVars>>

--------------------------------------------------------------------------------
(* The vision node.  A frame in which is_known_event recognises an event that *)
(* was reported before is ignored by image_callback, and is no step here.     *)

(* Mutant: the queue is not bounded. *)
PublishUnbounded(b) == resumes' = Append(resumes, b)

Publish(b) ==
  resumes' = IF Len(resumes) < ResumeDepth THEN Append(resumes, b)
             ELSE Append(Tail(resumes), b)

(* VisionPatrolLink.request, when the service may be ready or not. *)
RequestStop ==
  \/ /\ ~busy
     /\ busy' = TRUE
     /\ call' = [call EXCEPT ![Vision].phase = "sent"]
  \/ UNCHANGED <<busy, call>>

(* submit_event; it may return before it calls the service, and the event    *)
(* counts as reported all the same.                                          *)
Submit(e) == reported' = TRUE /\ report' \in {e, NoEvent}

(* image_callback, for a frame whose best detection is e *)
SeeEvent(e) ==
  /\ ~(reported /\ e = candidate)
  /\ candidate' = e
  /\ held' = (held /\ e = candidate)
  /\ RequestStop
  /\ IF stopped /\ report = NoEvent /\ held'
     THEN Submit(e)
     ELSE reported' = FALSE /\ UNCHANGED report
  /\ UNCHANGED <<workerVars, checkVars, resumes, disturbed, stopped>>

(* image_callback, for a frame without detection after MAX_FRAME_GAP_SEC: reset *)
LoseCandidate ==
  /\ candidate # NoEvent
  /\ candidate' = NoEvent /\ held' = FALSE /\ reported' = FALSE
  /\ UNCHANGED <<workerVars, checkVars, wireVars, report, busy, stopped>>

HoldElapses ==
  /\ candidate # NoEvent /\ ~held
  /\ held' = TRUE
  /\ UNCHANGED <<workerVars, checkVars, wireVars, candidate, reported, report, busy,
                 stopped>>

(* VisionPatrolLink._done *)
StopAnswer ==
  /\ call[Vision].phase \in {"stopped", "refused"}
  /\ IF call[Vision].phase = "stopped"
     THEN stopped' = TRUE /\ UNCHANGED busy
     ELSE busy' = FALSE /\ UNCHANGED stopped
  /\ call' = [call EXCEPT ![Vision] = Idle]
  /\ UNCHANGED <<workerVars, checkVars, resumes, disturbed, candidate, held, reported,
                 report>>

(* Mutant: it publishes only while it believes in the stop, which it has     *)
(* forgotten by then.                                                        *)
LinkForgetsFirst == busy' = FALSE /\ stopped' = FALSE /\ UNCHANGED resumes

(* VisionPatrolLink.resume *)
LinkResumes == Publish("true") /\ busy' = FALSE /\ stopped' = FALSE

(* on_submit_response: only STORED resumes; DUPLICATE, REJECTED and a failed *)
(* call leave the robot where it is.                                         *)
ReportStored ==
  /\ report # NoEvent
  /\ report' = NoEvent
  /\ LinkResumes
  /\ UNCHANGED <<workerVars, checkVars, call, disturbed, candidate, held, reported>>

ReportNotStored ==
  /\ report # NoEvent
  /\ report' = NoEvent
  /\ UNCHANGED <<workerVars, checkVars, wireVars, candidate, held, reported, busy,
                 stopped>>

--------------------------------------------------------------------------------
(* Other users of the service and the topic, such as an operator's terminal. *)

OtherStops(c) ==
  /\ call[c].phase = "none"
  /\ call' = [call EXCEPT ![c].phase = "sent"]
  /\ UNCHANGED <<workerVars, checkVars, resumes, disturbed, visionVars>>

OtherHears(c) ==
  /\ call[c].phase \in {"stopped", "refused"}
  /\ call' = [call EXCEPT ![c] = Idle]
  /\ UNCHANGED <<workerVars, checkVars, resumes, disturbed, visionVars>>

OtherResumes(b) ==
  /\ HandResumes
  /\ Publish(b)
  /\ UNCHANGED <<workerVars, checkVars, call, disturbed, visionVars>>

Next ==
  \/ Worker \/ TaskEnds
  \/ \E c \in Clients : OnStop(c) \/ OnStopDone(c)
  \/ OnResume
  \/ \E e \in Events : SeeEvent(e)
  \/ LoseCandidate \/ HoldElapses
  \/ StopAnswer \/ ReportStored \/ ReportNotStored
  \/ \E c \in OtherClients : OtherStops(c) \/ OtherHears(c)
  \/ \E b \in {"true", "false"} : OtherResumes(b)

Spec == Init /\ [][Next]_vars

--------------------------------------------------------------------------------
(***************************************************************************)
(* Fairness.  The worker's loops and both executors keep running; stop() is *)
(* bounded by stop_timeout.  SeenAgain, about the world outside, is a       *)
(* premise of HoldEnds: the event keeps being seen, lost and seen again,    *)
(* reports get through and the monitor stores one of them.                  *)
(***************************************************************************)
Running ==
  /\ WF_vars(WorkerProgress)
  /\ \A c \in Clients : WF_vars(OnStop(c)) /\ WF_vars(OnStopDone(c))
  /\ WF_vars(OnResume)
  /\ WF_vars(StopAnswer)

SeenAgain ==
  /\ SF_vars(HoldElapses)
  /\ \A e \in Events : /\ SF_vars(SeeEvent(e) /\ report' = e)
                       /\ SF_vars(SeeEvent(e) /\ candidate = NoEvent)
  /\ SF_vars(LoseCandidate)
  /\ SF_vars(ReportStored)

LiveSpec == Spec /\ Running

--------------------------------------------------------------------------------
(***************************************************************************)
(* Properties.                                                              *)
(***************************************************************************)

(* Every client that awaits an unfinished stop awaits the completion that   *)
(* the worker will finish: no coroutine of on_stop is orphaned when a stop  *)
(* is followed by another, by a failure or by the end of the patrol.        *)
NoOrphanedWaiter ==
  \A c \in Clients :
    call[c].phase = "awaiting" /\ results[call[c].future] = "pending" =>
      active /\ call[c].future = completion

(* A worker that holds the robot can be let go: the stop it holds for was   *)
(* answered, or the coroutine that will say so is still waiting, or a newer *)
(* stop has taken over (pause_and_wait's condition on _responded).          *)
HoldCanEnd ==
  pc = "holding" /\ completion = mine =>
    responded = mine \/ \E c \in Clients : call[c] = [phase |-> "awaiting", future |-> mine]

(* A stop that has been confirmed and not yet resumed from means that the   *)
(* worker is holding and that Nav2 moves nothing.                           *)
ConfirmedStopHolds ==
  completion # NoFuture /\ results[completion] = "stopped" =>
    pc = "holding" /\ mine = completion /\ task # "running"

Held == pc = "holding" /\ task # "running"

(* While the vision node believes the robot stopped, and while its report   *)
(* is on its way, the robot is held: "정지 완료 후 감지 보고"                  *)
(* (docs/event_check.md:3), VisionPatrolLink's "stop, report, then resume". *)
StoppedMeansHeld == stopped \/ report # NoEvent => Held

(* It is held all that time, for every stop after which no stop of another  *)
(* client was taken and no resume was handled: nothing the patrol does by   *)
(* itself, no failure and no earlier resume lets it go.                     *)
UndisturbedStopHolds == ~disturbed => StoppedMeansHeld

(* Every stop request is answered, whatever the patrol does meanwhile.      *)
StopAnswered ==
  \A c \in Clients :
    call[c].phase \in {"sent", "awaiting"} ~> call[c].phase \notin {"sent", "awaiting"}

(* If the event is seen again and again and one of its reports is stored,   *)
(* the patrol goes on: no answer that is not STORED, no report that was     *)
(* skipped and no lost candidate leaves the robot held for good.            *)
HoldEnds == SeenAgain => (pc = "holding" ~> pc # "holding")

(* The vision node and the patrol together implement StopReport. *)
EventPhase ==
  IF report # NoEvent THEN "reporting"
  ELSE IF stopped THEN "stopped" ELSE IF busy THEN "asked" ELSE "none"

Promise == INSTANCE StopReport
             WITH robot <- (IF pc = "holding" THEN "held" ELSE "free"),
                  event <- EventPhase, disturbed <- disturbed

ImplementsStopReport == Promise!StopReportSpec
================================================================================
