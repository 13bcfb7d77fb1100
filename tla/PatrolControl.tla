----------------------------- MODULE PatrolControl -----------------------------
(***************************************************************************)
(* The Control Server node, patrol_control_node.py: one ControlCore, a      *)
(* Patrol action client per robot, the permit subscription and the token    *)
(* timer.  rclpy.spin runs the callbacks one at a time, so each callback is *)
(* one action; which callback is next is the middleware's choice.  Goal     *)
(* response, feedback and result travel on channels of their own, so a      *)
(* sample can be overtaken by the response or the result of its goal.       *)
(***************************************************************************)
EXTENDS ControlCore, FiniteSets

CONSTANTS
  InitialRobot,  \* initial_robot_id
  AutoStart,     \* auto_start
  Failures,      \* may an action future carry a middleware error?
  MaxGoals,      \* bound on goals sent
  MaxCommands,   \* bound on commands published
  MaxFrames,     \* bound on frames published per robot
  MaxFeedback    \* bound on feedback samples in flight

ASSUME InitialRobotAssumption == InitialRobot \in Robots
ASSUME ModeAssumption == AutoStart \in BOOLEAN /\ Failures \in BOOLEAN
ASSUME BoundAssumption ==
  /\ MaxGoals \in Nat /\ MaxCommands \in Nat
  /\ MaxFrames \in Nat /\ MaxFeedback \in Nat

VARIABLES
  core,           \* the ControlCore record
  autoStartDone,  \* _auto_start_done
  handles,        \* _goal_handles: goal number per robot, 0 for no entry
  calls,          \* action calls alive at the client or at a robot's server
  feedback,       \* feedback samples the node has not handled yet
  published,      \* token in the last DriveToken frame of each robot
  issued,         \* tokens the factory has handed out
  (* History, read only by the properties. *)
  order,          \* last PatrolCommand, with the goal it was published in
  grantedBy,      \* goal whose sample made the current grant, 0 for none
  confirmed       \* fires the node was told of since the operator's last clear

nodeVars == <<core, autoStartDone, handles, issued>>
envVars  == <<calls, feedback, published>>
history  == <<order, grantedBy, confirmed>>
vars     == <<nodeVars, envVars, history>>

(***************************************************************************)
(* A call is the server's side and the client's side of one goal.  The      *)
(* client waits for the response, then for the result.  It lets go of a     *)
(* call that the robot still works on in two ways: "failed" when the future *)
(* it waited for carried an error, and "gone" when the response callback    *)
(* raised.                                                                  *)
(***************************************************************************)
ServerStates == {"requested", "refused", "executing", "ended"}
LetGoStates == {"failed", "gone"}
ClientStates == {"response", "result"} \cup LetGoStates
Calls == [goal : Nat, robot : Robots, server : ServerStates, client : ClientStates]
Samples == [goal : Nat, robot : Robots, state : FeedbackStates,
            event : FireEvents \cup {NoEvent}]
Orders == [goal : Nat, command : {"none", "RESUME_PATROL", "MOVE_TO_SAFE_ZONE"}]

TypeOK ==
  /\ core \in Cores
  /\ autoStartDone \in BOOLEAN
  /\ handles \in [Robots -> Nat]
  /\ calls \subseteq Calls
  /\ feedback \subseteq Samples
  /\ published \in [Robots -> Nat]
  /\ issued \in Nat
  /\ order \in Orders
  /\ grantedBy \in Nat
  /\ confirmed \subseteq FireEvents

Init ==
  /\ core = InitCore
  /\ autoStartDone = FALSE
  /\ handles = [r \in Robots |-> 0]
  /\ calls = {}
  /\ feedback = {}
  /\ published = [r \in Robots |-> NoToken]
  /\ issued = 0
  /\ order = [goal |-> 0, command |-> "none"]
  /\ grantedBy = 0
  /\ confirmed = {}

--------------------------------------------------------------------------------
(***************************************************************************)
(* Starting a patrol: start_patrol, called by an operator API or by         *)
(* _try_auto_start at the end of the permit and timer callbacks.  A server  *)
(* that is not ready, or a refused prepare_goal, leaves everything as is.   *)
(***************************************************************************)
NewCall(c, r) ==
  [goal |-> c.goalSeq + 1, robot |-> r, server |-> "requested", client |-> "response"]

CanStart(c) == CanPrepareGoal(c) /\ c.goalSeq < MaxGoals

StartPatrol(r) ==
  /\ CanStart(core)
  /\ core' = PrepareGoal(core, r)
  /\ calls' = calls \cup {NewCall(core, r)}
  /\ grantedBy' = 0
  /\ UNCHANGED <<autoStartDone, handles, feedback, published, issued, order, confirmed>>

(* The core is c when the callback reaches _try_auto_start. *)
TryAutoStart(c) ==
  \/ /\ AutoStart /\ ~autoStartDone
     /\ CanStart(c)
     /\ core' = PrepareGoal(c, InitialRobot)
     /\ calls' = calls \cup {NewCall(c, InitialRobot)}
     /\ grantedBy' = 0
     /\ autoStartDone' = TRUE
  \/ /\ core' = c
     /\ UNCHANGED <<calls, grantedBy, autoStartDone>>

(* _on_patrol_allowed *)
OnPatrolAllowed(p) ==
  /\ PermitCommands(core, p) => core.commandSeq < MaxCommands
  /\ order' = IF PermitCommands(core, p)
              THEN [goal |-> core.goalSeq, command |-> CommandFor(p)]
              ELSE order
  /\ TryAutoStart(ObservePermit(core, p))
  /\ UNCHANGED <<handles, feedback, published, issued, confirmed>>

(* _publish_token_frames *)
PublishFrames(c) ==
  /\ \A r \in Robots : c.frameSeq[r] < MaxFrames
  /\ published' = [r \in Robots |-> FrameToken(c, r)]

(* _on_token_timer *)
OnTokenTimer ==
  /\ PublishFrames(core)
  /\ TryAutoStart(AdvanceFrames(core))
  /\ UNCHANGED <<handles, feedback, issued, order, confirmed>>

(* cancel_active_patrol *)
CancelActivePatrol ==
  /\ core.active # NoRobot
  /\ handles[core.active] # 0
  /\ PublishFrames(RevokeDrive(core))
  /\ core' = AdvanceFrames(RevokeDrive(core))
  /\ grantedBy' = 0
  /\ UNCHANGED <<autoStartDone, handles, calls, feedback, issued, order, confirmed>>

(* clear_fire_hold, the operator's call *)
OperatorClearsFire ==
  /\ core' = ClearFireHold(core)
  /\ confirmed' = {}
  /\ UNCHANGED <<autoStartDone, handles, issued, envVars, order, grantedBy>>

--------------------------------------------------------------------------------
(* Action callbacks. *)

(* Mutant: only a goal that was accepted is finished. *)
FinishAcceptedOnly(c, r) == IF c.active = r /\ c.accepted THEN FinishGoal(c) ELSE c

FinishCoreGoal(c, r) == IF c.active = r THEN FinishGoal(c) ELSE c

(* The client lets go of call a; the robot may still be working on it. *)
LetGo(a, how) ==
  IF a.server \in {"requested", "executing"}
  THEN (calls \ {a}) \cup {[a EXCEPT !.client = how]}
  ELSE calls \ {a}

(* _on_goal_response, accepted; mark_goal_accepted raises for another robot, *)
(* and then no result is ever asked for.                                     *)
OnGoalAccepted(a) ==
  /\ a.client = "response"
  /\ a.server \in {"executing", "ended"}
  /\ handles' = [handles EXCEPT ![a.robot] = a.goal]
  /\ IF core.active = a.robot
     THEN /\ core' = MarkGoalAccepted(core)
          /\ calls' = (calls \ {a}) \cup {[a EXCEPT !.client = "result"]}
     ELSE core' = core /\ calls' = LetGo(a, "gone")
  /\ UNCHANGED <<autoStartDone, issued, feedback, published, history>>

(* _on_goal_response, rejected or failed *)
OnGoalNotAccepted(a) ==
  /\ a.client = "response"
  /\ a.server = "refused" \/ Failures
  /\ core' = FinishCoreGoal(core, a.robot)
  /\ calls' = LetGo(a, "failed")
  /\ grantedBy' = IF core.active = a.robot THEN 0 ELSE grantedBy
  /\ UNCHANGED <<autoStartDone, handles, issued, feedback, published, order,
                 confirmed>>

(* _on_patrol_result, whatever the result future carries *)
OnPatrolResult(a) ==
  /\ a.client = "result"
  /\ a.server = "ended" \/ Failures
  /\ handles' = [handles EXCEPT ![a.robot] = 0]
  /\ core' = FinishCoreGoal(core, a.robot)
  /\ calls' = LetGo(a, "failed")
  /\ grantedBy' = IF core.active = a.robot THEN 0 ELSE grantedBy
  /\ UNCHANGED <<autoStartDone, issued, feedback, published, order, confirmed>>

(* _on_patrol_feedback: the callback knows the robot, not the goal. *)
OnPatrolFeedback(f) ==
  /\ f \in feedback
  /\ feedback' = feedback \ {f}
  /\ core' = ObserveFeedback(core, f.robot, f, issued + 1)
  /\ IF GrantsToken(core, f.robot, f)
     THEN issued' = issued + 1 /\ grantedBy' = f.goal
     ELSE UNCHANGED <<issued, grantedBy>>
  /\ confirmed' = IF f.state = "fire" THEN confirmed \cup ({f.event} \ {NoEvent})
                  ELSE confirmed
  /\ UNCHANGED <<autoStartDone, handles, calls, published, order>>

--------------------------------------------------------------------------------
(* The robots' Patrol action servers (not in this repository).              *)

ServerMoves(a, from, to) ==
  /\ a.server = from
  /\ calls' = (calls \ {a}) \cup
              (IF a.client \in LetGoStates /\ to \in {"ended", "refused"}
               THEN {} ELSE {[a EXCEPT !.server = to]})
  /\ UNCHANGED <<nodeVars, feedback, published, history>>

ServerDecides(a) ==
  \/ ServerMoves(a, "requested", "executing")
  \/ ServerMoves(a, "requested", "refused")

ServerEnds(a) == ServerMoves(a, "executing", "ended")

SendFeedback(a, s, e) ==
  /\ a.server = "executing"
  /\ e # NoEvent => s = "fire"
  /\ Cardinality(feedback) < MaxFeedback
  /\ feedback' = feedback \cup
       {[goal |-> a.goal, robot |-> a.robot, state |-> s, event |-> e]}
  /\ UNCHANGED <<nodeVars, calls, published, history>>

ServerStep(a) ==
  \/ ServerDecides(a)
  \/ ServerEnds(a)
  \/ \E s \in FeedbackStates, e \in FireEvents \cup {NoEvent} : SendFeedback(a, s, e)

ClientStep(a) ==
  OnGoalAccepted(a) \/ OnGoalNotAccepted(a) \/ OnPatrolResult(a)

Next ==
  \/ \E r \in Robots : StartPatrol(r)
  \/ \E p \in {"denied", "allowed"} : OnPatrolAllowed(p)
  \/ OnTokenTimer
  \/ CancelActivePatrol
  \/ OperatorClearsFire
  \/ \E a \in calls : ClientStep(a) \/ ServerStep(a)
  \/ \E f \in feedback : OnPatrolFeedback(f)

Spec == Init /\ [][Next]_vars

--------------------------------------------------------------------------------
(***************************************************************************)
(* Fairness.  rclpy.spin runs every callback whose message or answer has    *)
(* arrived (Executor), and LiveSpec assumes no more than that: a future may *)
(* fail instead, but none has to.  The robots are external, so what they    *)
(* must do is a premise of each liveness property: AnsweringServers, that a *)
(* server decides on a goal and ends it; RepeatingRobot, that a robot       *)
(* without a token keeps reporting WAITING_FOR_TOKEN, strongly because      *)
(* MaxFeedback can keep it waiting for room.                                *)
(***************************************************************************)
Live == {a \in calls : a.client \notin LetGoStates}

HasAnswer(a) ==
  IF a.client = "response" THEN a.server # "requested" ELSE a.server = "ended"

Executor ==
  /\ WF_vars(\E a \in Live : HasAnswer(a) /\ ClientStep(a))
  /\ WF_vars(\E f \in feedback : OnPatrolFeedback(f))

AnsweringServers ==
  /\ WF_vars(\E a \in Live : ServerDecides(a))
  /\ WF_vars(\E a \in Live : ServerEnds(a))

OwnWaiting == {f \in feedback : f.state = "waiting" /\ f.goal = core.goalSeq}

RepeatingRobot ==
  /\ SF_vars(\E a \in Live : a.client = "result" /\ SendFeedback(a, "waiting", NoEvent))
  /\ WF_vars(\E f \in OwnWaiting : OnPatrolFeedback(f))

LiveSpec == Spec /\ Executor

--------------------------------------------------------------------------------
(***************************************************************************)
(* Properties.                                                              *)
(***************************************************************************)

(* The slot and the action client never drift apart: the slot is taken      *)
(* exactly while one call is waited for, by that call's robot, and it is    *)
(* accepted exactly once the response was.  So no response or result of an  *)
(* earlier goal can accept, release or raise on a later one, although the   *)
(* callbacks carry only the robot (_on_goal_response, _on_patrol_result).   *)
SlotMatchesCall ==
  /\ core.active = NoRobot => Live = {}
  /\ core.active # NoRobot =>
       \E a \in calls : /\ Live = {a}
                        /\ a.goal = core.goalSeq
                        /\ a.robot = core.active
                        /\ core.accepted <=> a.client = "result"

(* The goal handle that cancel_active_patrol would use is the one of the    *)
(* goal in the slot, and a robot outside the slot has none.                 *)
HandleMatchesSlot ==
  \A r \in Robots :
    handles[r] = IF core.active = r /\ core.accepted THEN core.goalSeq ELSE 0

(* Drive authority and a non-empty token go together, and only for a goal   *)
(* its robot has accepted (drive_granted, active_token).                    *)
AuthorityNeedsAcceptedGoal ==
  /\ core.granted <=> core.token # NoToken
  /\ core.granted => core.active # NoRobot /\ core.accepted

(* A robot that still holds authority after the permit was withdrawn has    *)
(* been told to leave: the last PatrolCommand of its goal is                *)
(* MOVE_TO_SAFE_ZONE.  observe_permit keeps the token in that case, so this *)
(* command is all that clears the lane for the vehicle.                     *)
DeniedDriverSentToSafety ==
  core.granted /\ core.allowed = "denied" =>
    order = [goal |-> core.goalSeq, command |-> "MOVE_TO_SAFE_ZONE"]

(* The last command of the goal in the slot says what the permit says.      *)
LastOrderAgreesWithPermit ==
  core.accepted /\ order.goal = core.goalSeq =>
    order.command = CommandFor(core.allowed)

(* At most one robot works on a goal (docs/control_server.md: one active    *)
(* Patrol goal in the whole system).                                        *)
OneMissionAtWork ==
  \A a, b \in calls : a.server = "executing" /\ b.server = "executing" => a = b

(* A robot works on a goal outside the slot only if the node was told of an *)
(* error on that very goal's future: no goal is lost from sight otherwise,  *)
(* so a second mission runs beside at most the failed ones.                 *)
WorkOutsideSlotHasFailed ==
  \A a \in calls : a.server = "executing" =>
    \/ a.client = "failed"
    \/ core.active = a.robot /\ core.goalSeq = a.goal

(* The authority a robot holds answers a WAITING_FOR_TOKEN sample of the    *)
(* goal in the slot: "Apply Feedback only for the accepted active Patrol    *)
(* Goal" (observe_feedback).                                                *)
GrantFromOwnGoal == core.granted => grantedBy = core.goalSeq

(* No new patrol starts between a confirmed fire the node was told of and   *)
(* the operator's clear (docs/control_server.md, rule 7).                   *)
FireStopsNextGoal == [][core'.goalSeq # core.goalSeq => confirmed = {}]_vars

(* With servers that answer, every taken slot is given back, on rejection   *)
(* and on every result, whatever the order of response, samples and result. *)
SlotReleased == AnsweringServers => (core.active # NoRobot ~> core.active = NoRobot)

(* A robot that keeps asking gets a token unless its goal ends or the       *)
(* permit goes; in particular after a grant it missed while the permit was  *)
(* withdrawn.                                                               *)
WaitingIsServed ==
  RepeatingRobot =>
    (core.accepted ~> core.granted \/ ~core.accepted \/ core.allowed # "allowed")

(* The slot, its phases and the permit implement MissionSlot. *)
SlotPhase ==
  IF core.active = NoRobot THEN "idle"
  ELSE IF ~core.accepted THEN "reserved"
  ELSE IF ~core.granted THEN "accepted" ELSE "driving"

Slot == INSTANCE MissionSlot
          WITH holder <- core.active, phase <- SlotPhase, permit <- core.allowed

ImplementsMissionSlot == Slot!SlotSpec
================================================================================
