------------------------------- MODULE Evacuation -------------------------------
(***************************************************************************)
(* A patrol goal without an EventCheck: genius_patrol.execute and           *)
(* run_patrol with the Evacuation of move_to_safetyzone.py, which then      *)
(* listens to the command topic itself.  Command 1 sends the robot to the   *)
(* nearest safe zone, command 2 lets it go on with the step it left.  Dock  *)
(* and undock are those of TurtleBot4Navigator.  One thread does it all;    *)
(* callbacks run where it spins, which is between any two actions here.     *)
(* (PatrolStop has the same worker with an EventCheck.)                     *)
(***************************************************************************)
EXTENDS Naturals

CONSTANT LastStep \* steps of the route: waypoint, spin, waypoint, ..., waypoint

ASSUME StepAssumption == LastStep \in Nat /\ LastStep % 2 = 1

VARIABLES
  doing,    \* where run_patrol is
  step,     \* index
  goal,     \* the place the Nav2 task goes to; a spin stays where it is
  taskIs,   \* "none", "running", "succeeded" or "failed"
  stopThen, \* what comes after stop()
  evacState, \* Evacuation.state
  patrolling, \* Evacuation.active
  evacuate, \* Evacuation.evacuate
  resume,   \* Evacuation.resume
  odom,     \* Evacuation.odom
  odomSent, \* odometry on its way
  isDocked, \* TurtleBot4Navigator.is_docked
  dockSent, \* a dock status on its way
  place,    \* where the robot is
  moving,   \* does it move?
  outcome   \* the end of the goal

evacVars == <<doing, step, goal, taskIs, stopThen, evacState, patrolling, evacuate, resume,
              odom, odomSent, isDocked, dockSent, place, moving, outcome>>
flagVars == <<evacState, patrolling, evacuate, resume>>
navVars == <<goal, taskIs>>
odomVars == <<odom, odomSent>>
dockVars == <<isDocked, dockSent>>
robotVars == <<place, moving>>

Way(i) == <<"waypoint", i>>
Zone == <<"zone", 0>>   \* the safe zone that is nearest
Dock == <<"dock", 0>>
Between == <<"between", 0>>
Spots == {Zone, Dock, Between} \cup {Way(i) : i \in 1 .. LastStep}

IsSpin(i) == i % 2 = 0

OnRoute == {"loop", "request", "task", "position", "to zone", "waiting", "back"}
EvacTypeOK ==
  /\ doing \in OnRoute \cup {"idle", "start", "dock", "docked?", "undock", "undocked?",
                             "last dock", "end", "stop", "settle"}
  /\ step \in 1 .. LastStep
  /\ goal \in Spots /\ place \in Spots
  /\ taskIs \in {"none", "running", "succeeded", "failed"}
  /\ stopThen \in {"zone", "wait", "abort"}
  /\ evacState \in {"PATROLLING", "EVACUATING", "WAITING"}
  /\ {patrolling, evacuate, resume, moving} \subseteq BOOLEAN
  /\ {odom, odomSent} \subseteq {"none", "old", "still", "moving"}
  /\ {isDocked, dockSent} \subseteq {"unknown", "docked", "undocked"}
  /\ outcome \in {"none", "succeeded", "aborted", "stop not confirmed"}

(* execute makes a navigator and an Evacuation for each goal. *)
FreshObjects ==
  /\ evacState' = "PATROLLING"
  /\ patrolling' = FALSE /\ evacuate' = FALSE /\ resume' = FALSE
  /\ isDocked' = "unknown" /\ dockSent' = "unknown"
  /\ odom' = "none" /\ odomSent' = "none"
  /\ goal' = Between /\ taskIs' = "none"

EvacInit ==
  /\ doing = "idle" /\ step = 1 /\ stopThen = "abort" /\ outcome = "none"
  /\ goal = Between /\ taskIs = "none"
  /\ evacState = "PATROLLING"
  /\ patrolling = FALSE /\ evacuate = FALSE /\ resume = FALSE
  /\ odom = "none" /\ odomSent = "none"
  /\ isDocked = "unknown" /\ dockSent = "unknown"
  /\ place \in {Dock, Between} /\ moving = FALSE

--------------------------------------------------------------------------------
(* Callbacks and the robot. *)

(* on_command; what the state does not call for is ignored. *)
OnCommand(command) ==
  /\ doing # "idle"
  /\ patrolling
  /\ \/ /\ evacState = "PATROLLING" /\ command = 1
        /\ evacuate' = TRUE /\ UNCHANGED resume
     \/ /\ evacState = "WAITING" /\ command = 2
        /\ resume' = TRUE /\ UNCHANGED evacuate
  /\ UNCHANGED <<doing, step, navVars, stopThen, evacState, patrolling, odomVars, dockVars,
                 robotVars, outcome>>

Measure ==
  /\ doing # "idle"
  /\ odomSent' = IF moving THEN "moving" ELSE "still"
  /\ UNCHANGED <<doing, step, navVars, stopThen, flagVars, odom, dockVars, robotVars, outcome>>

OnOdom ==
  /\ odomSent # "none"
  /\ odom' = odomSent /\ odomSent' = "none"
  /\ UNCHANGED <<doing, step, navVars, stopThen, flagVars, dockVars, robotVars, outcome>>

SendDockStatus ==
  /\ doing # "idle"
  /\ dockSent' = IF place = Dock THEN "docked" ELSE "undocked"
  /\ UNCHANGED <<doing, step, navVars, stopThen, flagVars, odomVars, isDocked, robotVars, outcome>>

(* _dockCallback *)
OnDockStatus ==
  /\ dockSent # "unknown"
  /\ isDocked' = dockSent /\ dockSent' = "unknown"
  /\ UNCHANGED <<doing, step, navVars, stopThen, flagVars, odomVars, robotVars, outcome>>

(* Nav2 ends the task, cancelled or not; then the robot comes to a stand. *)
TaskOver ==
  /\ taskIs = "running"
  /\ \/ taskIs' = "succeeded" /\ place' = goal
     \/ taskIs' = "failed" /\ UNCHANGED place
  /\ UNCHANGED <<doing, step, goal, stopThen, flagVars, odomVars, dockVars, moving, outcome>>

RobotStands ==
  /\ moving /\ taskIs # "running"
  /\ moving' = FALSE
  /\ UNCHANGED <<doing, step, navVars, stopThen, flagVars, odomVars, dockVars, place, outcome>>

--------------------------------------------------------------------------------
(* Helpers of the worker. *)

GoOnWith(next) == doing' = next /\ UNCHANGED <<step, stopThen, outcome>>

(* stop() begins: the cancellation is asked for. *)
StopThen(what) == doing' = "stop" /\ stopThen' = what /\ UNCHANGED <<step, outcome>>

(* The handler of execute: set_active(False), then stop() once more. *)
FailGoal == StopThen("abort") /\ patrolling' = FALSE /\ UNCHANGED <<evacState, evacuate, resume>>

EndGoalAs(how) ==
  /\ doing' = "idle" /\ outcome' = how /\ patrolling' = FALSE
  /\ UNCHANGED <<step, stopThen, evacState, evacuate, resume>>

(* A goal Nav2 has accepted; a spin turns on the spot. *)
DriveTo(spot) ==
  /\ goal' = spot /\ taskIs' = "running"
  /\ moving' = TRUE
  /\ place' = IF spot = place THEN place ELSE Between

(* escape_and_wait, up to its first stop(). *)
Escape ==
  /\ StopThen("zone")
  /\ evacState' = "EVACUATING" /\ evacuate' = FALSE
  /\ UNCHANGED <<patrolling, resume>>

--------------------------------------------------------------------------------
(* execute and run_patrol: to the start of the route. *)

(* Bound: the next goal comes when the robot stands, be it that the goal    *)
(* before could not confirm its stop.                                       *)
ReceivePatrolGoal ==
  /\ doing = "idle" /\ ~moving /\ taskIs # "running"
  /\ doing' = "start" /\ outcome' = "none" /\ step' = 1
  /\ FreshObjects
  /\ UNCHANGED <<stopThen, robotVars>>

(* getDockedStatus: the first status is waited for. *)
SeesDocked == isDocked # "unknown" /\ isDocked = "docked"

LookAtDock(here, next, otherwise) ==
  /\ doing = here
  /\ isDocked # "unknown"
  /\ IF SeesDocked THEN next ELSE otherwise
  /\ UNCHANGED <<navVars, odomVars, dockVars, robotVars>>

StartDocked ==
  LookAtDock("start", GoOnWith("undock") /\ UNCHANGED flagVars,
                      GoOnWith("dock") /\ UNCHANGED flagVars)

(* dock(): rejected, failed or done, and the caller is told nothing. *)
DockRobot ==
  /\ doing \in {"dock", "last dock"}
  /\ GoOnWith(IF doing = "dock" THEN "docked?" ELSE "end")
  /\ (place' = Dock \/ UNCHANGED place)
  /\ UNCHANGED <<navVars, flagVars, odomVars, dockVars, moving>>

DockedAtStart ==
  LookAtDock("docked?", GoOnWith("undock") /\ UNCHANGED flagVars, FailGoal)

(* undock(), likewise. *)
UndockRobot ==
  /\ doing = "undock"
  /\ GoOnWith("undocked?")
  /\ (place' = Between \/ UNCHANGED place)
  /\ UNCHANGED <<navVars, flagVars, odomVars, dockVars, moving>>

(* Mutant: what undock() did is not looked at. *)
BeginPatrolUnseen ==
  /\ doing = "undocked?"
  /\ GoOnWith("loop") /\ patrolling' = TRUE /\ UNCHANGED <<evacState, evacuate, resume>>
  /\ UNCHANGED <<navVars, odomVars, dockVars, robotVars>>

BeginPatrol ==
  LookAtDock("undocked?", FailGoal,
             GoOnWith("loop") /\ patrolling' = TRUE /\ UNCHANGED <<evacState, evacuate, resume>>)

DockedAtEnd == LookAtDock("end", EndGoalAs("succeeded"), FailGoal)

--------------------------------------------------------------------------------
(* run_patrol: the route. *)

(* The tick, and the step is asked for unless the robot must leave. *)
AskForStep ==
  /\ doing = "loop"
  /\ IF evacuate THEN Escape ELSE GoOnWith("request") /\ UNCHANGED flagVars
  /\ UNCHANGED <<navVars, odomVars, dockVars, robotVars>>

StepAccepted ==
  /\ doing = "request"
  /\ GoOnWith("task")
  /\ DriveTo(IF IsSpin(step) THEN place ELSE Way(step))
  /\ UNCHANGED <<flagVars, odomVars, dockVars>>

(* A rejected drive ends the goal; after a rejected spin evacuate is looked *)
(* at first.                                                                *)
StepRejected ==
  /\ doing = "request"
  /\ IF IsSpin(step) /\ evacuate THEN Escape ELSE FailGoal
  /\ UNCHANGED <<navVars, odomVars, dockVars, robotVars>>

NextStep ==
  IF step < LastStep
    THEN /\ doing' = "loop" /\ step' = step + 1
         /\ UNCHANGED <<stopThen, flagVars, outcome>>
    ELSE GoOnWith("last dock") /\ patrolling' = FALSE /\ UNCHANGED <<evacState, evacuate, resume>>

(* wait_for_task: the flag goes before the result. *)
StepOver ==
  /\ doing = "task"
  /\ IF evacuate THEN Escape
     ELSE \/ taskIs = "succeeded" /\ NextStep
          \/ taskIs = "failed" /\ FailGoal
  /\ UNCHANGED <<navVars, odomVars, dockVars, robotVars>>

--------------------------------------------------------------------------------
(* Evacuation.stop *)

(* The task has ended: only odometry measured from here on counts. *)
StopsMoving ==
  /\ doing = "stop" /\ taskIs # "running"
  /\ GoOnWith("settle")
  /\ odom' = "none"
  /\ odomSent' = IF odomSent = "none" THEN "none" ELSE "old"
  /\ UNCHANGED <<navVars, flagVars, dockVars, robotVars>>

Stopped ==
  /\ doing = "settle" /\ odom = "still"
  /\ CASE stopThen = "zone" -> GoOnWith("position") /\ UNCHANGED flagVars
       [] stopThen = "wait" -> /\ GoOnWith("waiting")
                               /\ evacState' = "WAITING" /\ resume' = FALSE
                               /\ UNCHANGED <<patrolling, evacuate>>
       [] stopThen = "abort" -> EndGoalAs("aborted")
  /\ UNCHANGED <<navVars, odomVars, dockVars, robotVars>>

(* Acknowledgement, end of the task or odometry do not come in time. *)
StopTimesOut ==
  /\ doing \in {"stop", "settle"}
  /\ IF stopThen = "abort" THEN EndGoalAs("stop not confirmed") ELSE FailGoal
  /\ UNCHANGED <<navVars, odomVars, dockVars, robotVars>>

--------------------------------------------------------------------------------
(* escape_and_wait, after its first stop(). *)

(* position and navigate: a stale position or a rejected goal raises. *)
LeaveForZone ==
  /\ doing = "position"
  /\ \/ GoOnWith("to zone") /\ DriveTo(Zone) /\ UNCHANGED flagVars
     \/ FailGoal /\ UNCHANGED <<navVars, robotVars>>
  /\ UNCHANGED <<odomVars, dockVars>>

ReachZone ==
  /\ doing = "to zone"
  /\ \/ taskIs = "succeeded" /\ StopThen("wait") /\ UNCHANGED flagVars
     \/ taskIs = "failed" /\ FailGoal
  /\ UNCHANGED <<navVars, odomVars, dockVars, robotVars>>

BackOnPatrol ==
  /\ GoOnWith("loop")
  /\ evacState' = "PATROLLING" /\ resume' = FALSE
  /\ UNCHANGED <<patrolling, evacuate>>

ToldToResume ==
  /\ doing = "waiting" /\ resume
  /\ \/ ~IsSpin(step) /\ BackOnPatrol /\ UNCHANGED <<navVars, robotVars>>
     \/ /\ IsSpin(step)
        /\ GoOnWith("back") /\ DriveTo(Way(step - 1))
        /\ evacState' = "EVACUATING"
        /\ UNCHANGED <<patrolling, evacuate, resume>>
     \/ /\ IsSpin(step)
        /\ StopThen("abort")
        /\ evacState' = "EVACUATING" /\ patrolling' = FALSE
        /\ UNCHANGED <<evacuate, resume, navVars, robotVars>>
  /\ UNCHANGED <<odomVars, dockVars>>

Returned ==
  /\ doing = "back"
  /\ \/ taskIs = "succeeded" /\ BackOnPatrol
     \/ taskIs = "failed" /\ FailGoal
  /\ UNCHANGED <<navVars, odomVars, dockVars, robotVars>>

EvacNext ==
  \/ \E command \in {1, 2} : OnCommand(command)
  \/ Measure \/ OnOdom \/ SendDockStatus \/ OnDockStatus \/ TaskOver \/ RobotStands
  \/ ReceivePatrolGoal \/ StartDocked \/ DockRobot \/ DockedAtStart \/ UndockRobot
  \/ BeginPatrol \/ DockedAtEnd
  \/ AskForStep \/ StepAccepted \/ StepRejected \/ StepOver
  \/ StopsMoving \/ Stopped \/ StopTimesOut
  \/ LeaveForZone \/ ReachZone \/ ToldToResume \/ Returned

EvacSpec == EvacInit /\ [][EvacNext]_evacVars

--------------------------------------------------------------------------------
(***************************************************************************)
(* Properties.                                                              *)
(***************************************************************************)

(* The robot is where the program takes it to be, through evacuations at    *)
(* any step, a second one right after the return, and late odometry and     *)
(* dock statuses: it spins at the waypoint the route has the spin at, it    *)
(* waits standing in the safe zone, it patrols undocked, a stop that was    *)
(* confirmed is one, and a goal that succeeded left it in the dock.         *)
RobotWhereAssumed ==
  /\ doing = "task" /\ IsSpin(step) => place = Way(step - 1)
  /\ evacState = "WAITING" /\ doing = "waiting" => place = Zone
  /\ doing \in {"position", "waiting"} => ~moving /\ taskIs # "running"
  /\ doing \in OnRoute => place # Dock
  /\ outcome = "succeeded" => place = Dock
================================================================================
