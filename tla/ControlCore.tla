------------------------------ MODULE ControlCore ------------------------------
(***************************************************************************)
(* The ROS-free state machine of the Control Server, patrol_control's       *)
(* control_core.py.  A ControlCore object is a record; every method is an   *)
(* operator from the record before the call to the record after it, so the  *)
(* node's callbacks (PatrolControl) compose them the way the code does.     *)
(***************************************************************************)
EXTENDS Integers

CONSTANTS
  Robots,      \* robot_ids
  NoRobot,     \* active_robot_id is None
  FireEvents,  \* event ids the robots may report with a confirmed fire
  NoEvent      \* fire_event_id is ''

ASSUME RobotsAssumption == Robots # {} /\ NoRobot \notin Robots
ASSUME EventsAssumption == NoEvent \notin FireEvents

Permits == {"unknown", "denied", "allowed"}   \* None, False, True
NoToken == 0                                  \* active_token is ''

(***************************************************************************)
(* Feedback as far as the core tells samples apart: WAITING_FOR_TOKEN,      *)
(* DETECTION_CONFIRMED with EVENT_FIRE, and every other sample ("progress").*)
(***************************************************************************)
FeedbackStates == {"waiting", "fire", "progress"}

Cores == [allowed    : Permits,
          active     : Robots \cup {NoRobot},
          accepted   : BOOLEAN,
          granted    : BOOLEAN,
          token      : Nat,
          fireHold   : BOOLEAN,
          fireEvent  : FireEvents \cup {NoEvent},
          goalSeq    : Nat,
          commandSeq : Nat,
          frameSeq   : [Robots -> Nat]]

InitCore == [allowed    |-> "unknown",
             active     |-> NoRobot,
             accepted   |-> FALSE,
             granted    |-> FALSE,
             token      |-> NoToken,
             fireHold   |-> FALSE,
             fireEvent  |-> NoEvent,
             goalSeq    |-> 0,
             commandSeq |-> 0,
             frameSeq   |-> [r \in Robots |-> 0]]

(***************************************************************************)
(* Definitions marked "Mutant:" are what a slip in the definition below     *)
(* them would be; no specification uses them, and each breaks a property    *)
(* that the README names.                                                   *)
(***************************************************************************)

(* Mutant: the slot counts as free until its goal is accepted. *)
CanPrepareUntilAccepted(c) == ~c.accepted /\ c.allowed = "allowed" /\ ~c.fireHold

(* prepare_goal raises ControlStateError unless this holds.                 *)
CanPrepareGoal(c) ==
  /\ c.active = NoRobot
  /\ c.allowed = "allowed"
  /\ ~c.fireHold

PrepareGoal(c, r) ==
  [c EXCEPT !.goalSeq = @ + 1, !.active = r, !.accepted = FALSE,
            !.granted = FALSE, !.token = NoToken]

MarkGoalAccepted(c) == [c EXCEPT !.accepted = TRUE]

FinishGoal(c) ==
  [c EXCEPT !.active = NoRobot, !.accepted = FALSE,
            !.granted = FALSE, !.token = NoToken]

RevokeDrive(c) == [c EXCEPT !.granted = FALSE, !.token = NoToken]

(***************************************************************************)
(* observe_feedback(r, f): f is a record with fields state and event; fresh *)
(* is the token the factory returns if this sample grants one.              *)
(***************************************************************************)
(* Mutant: a robot held by a fire is no longer listened to. *)
HeardWithoutFire(c, r) == r = c.active /\ c.accepted /\ ~c.fireHold

Heard(c, r) == r = c.active /\ c.accepted

(* Mutant: authority is granted without asking for the permit. *)
GrantsWithoutPermit(c, r, f) == Heard(c, r) /\ f.state = "waiting" /\ ~c.granted

GrantsToken(c, r, f) ==
  /\ Heard(c, r)
  /\ f.state = "waiting"
  /\ c.allowed = "allowed"
  /\ ~c.granted

HoldsFire(c, r, f) ==
  /\ Heard(c, r)
  /\ f.state = "fire"
  /\ f.event # NoEvent
  /\ ~c.fireHold

ObserveFeedback(c, r, f, fresh) ==
  [c EXCEPT
     !.granted   = @ \/ GrantsToken(c, r, f),
     !.token     = IF GrantsToken(c, r, f) THEN fresh ELSE @,
     !.fireHold  = @ \/ HoldsFire(c, r, f),
     !.fireEvent = IF HoldsFire(c, r, f) THEN f.event ELSE @]

(***************************************************************************)
(* observe_permit(p): an edge of the permit, and the command it makes when  *)
(* an accepted patrol is active.                                            *)
(***************************************************************************)
(* Mutant: only a rising permit makes a command. *)
CommandsOnRise(c, p) ==
  c.allowed # p /\ p = "allowed" /\ c.active # NoRobot /\ c.accepted

PermitCommands(c, p) ==
  c.allowed # p /\ c.active # NoRobot /\ c.accepted

ObservePermit(c, p) ==
  [c EXCEPT !.allowed = p,
            !.commandSeq = IF PermitCommands(c, p) THEN @ + 1 ELSE @]

CommandFor(p) == IF p = "allowed" THEN "RESUME_PATROL" ELSE "MOVE_TO_SAFE_ZONE"

(***************************************************************************)
(* token_frames: one numbered frame per robot, a token only for the holder. *)
(***************************************************************************)
FrameToken(c, r) == IF r = c.active /\ c.granted THEN c.token ELSE NoToken

AdvanceFrames(c) == [c EXCEPT !.frameSeq = [r \in Robots |-> c.frameSeq[r] + 1]]

ClearFireHold(c) == [c EXCEPT !.fireHold = FALSE, !.fireEvent = NoEvent]
================================================================================
