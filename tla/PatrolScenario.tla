----------------------------- MODULE PatrolScenario -----------------------------
(***************************************************************************)
(* The scenarios of patrol_amr: start_patrol, resume_patrol and             *)
(* PatrolScenario.run, for one patrol id.  The checkpoint survives the      *)
(* process (CommandStore); each use of it and each drive is one step, and   *)
(* the process may die between any two.  The navigation and who sends the   *)
(* commands are not in the repository.                                      *)
(***************************************************************************)
EXTENDS Naturals

CONSTANTS
  Points,     \* number of waypoints
  MaxReached, \* bound: how often a waypoint is reached
  NoCheckpoint

ASSUME PointAssumption ==
  Points \in Nat \ {0} /\ MaxReached \in Nat \ {0} /\ NoCheckpoint \notin Nat

VARIABLES
  runAt,      \* where the scenario is
  starting,   \* is it START_PATROL (or RESUME_PATROL)?
  point,      \* index
  cancelled,  \* cancel_event
  checkpoint, \* what CommandStore holds
  (* History, read only by the properties; all of it since START_PATROL. *)
  reached,    \* how often the robot came to each waypoint
  givenUp,    \* waypoints the navigation failed to reach
  forgotten,  \* waypoints reached, and the process died before it said so
  patrolDone  \* was the patrol brought to its end?

runVars == <<runAt, starting, point, cancelled, checkpoint, reached, givenUp, forgotten, patrolDone>>
routeHistory == <<reached, givenUp, forgotten, patrolDone>>

Indexes == 0 .. Points - 1

RunTypeOK ==
  /\ runAt \in {"idle", "undock", "next", "drive", "save", "skip", "dwell", "clear", "dock"}
  /\ starting \in BOOLEAN /\ cancelled \in BOOLEAN /\ patrolDone \in BOOLEAN
  /\ point \in 0 .. Points
  /\ checkpoint \in 0 .. Points \cup {NoCheckpoint}
  /\ reached \in [Indexes -> Nat]
  /\ givenUp \cup forgotten \subseteq Indexes

RunInit ==
  /\ runAt = "idle" /\ starting = FALSE /\ point = 0 /\ cancelled = FALSE
  /\ checkpoint = NoCheckpoint
  /\ reached = [p \in Indexes |-> 0]
  /\ givenUp = {} /\ forgotten = {} /\ patrolDone = FALSE

--------------------------------------------------------------------------------
GoesTo(place) == runAt' = place /\ UNCHANGED <<starting, cancelled>>

(* START_PATROL *)
StartPatrol ==
  /\ runAt = "idle"
  /\ runAt' = "undock" /\ starting' = TRUE /\ cancelled' = FALSE
  /\ checkpoint' = NoCheckpoint
  /\ point' = 0
  /\ reached' = [p \in Indexes |-> 0]
  /\ givenUp' = {} /\ forgotten' = {} /\ patrolDone' = FALSE

EnsureUndocked ==
  /\ runAt = "undock"
  /\ GoesTo("next") \/ GoesTo("idle")
  /\ UNCHANGED <<point, checkpoint, routeHistory>>

(* RESUME_PATROL; without a checkpoint it is answered at once. *)
ResumePatrol ==
  /\ runAt = "idle"
  /\ checkpoint # NoCheckpoint
  /\ runAt' = "next" /\ starting' = FALSE /\ cancelled' = FALSE
  /\ point' = checkpoint
  /\ UNCHANGED <<checkpoint, routeHistory>>

CancelPatrol ==
  /\ runAt # "idle"
  /\ cancelled' = TRUE
  /\ UNCHANGED <<runAt, starting, point, checkpoint, routeHistory>>

--------------------------------------------------------------------------------
(* PatrolScenario.run *)

NextPoint ==
  /\ runAt = "next"
  /\ GoesTo(IF point = Points THEN "clear" ELSE IF cancelled THEN "idle" ELSE "drive")
  /\ UNCHANGED <<point, checkpoint, routeHistory>>

(* go_to: the point is reached; the drive is cancelled; or the navigation   *)
(* has given it up, which ends the run at the last point only.              *)
GoTo ==
  /\ runAt = "drive"
  /\ \/ /\ reached[point] < MaxReached
        /\ GoesTo("save")
        /\ reached' = [reached EXCEPT ![point] = @ + 1]
        /\ UNCHANGED givenUp
     \/ cancelled /\ GoesTo("idle") /\ UNCHANGED <<reached, givenUp>>
     \/ /\ GoesTo(IF point = Points - 1 THEN "idle" ELSE "skip")
        /\ givenUp' = IF point = Points - 1 THEN givenUp ELSE givenUp \cup {point}
        /\ UNCHANGED reached
  /\ UNCHANGED <<point, checkpoint, forgotten, patrolDone>>

(* Mutant: the point itself is saved, not the next one. *)
SaveThisPoint == checkpoint' = point

SaveNextPoint == checkpoint' = point + 1

SaveReached ==
  /\ runAt = "save"
  /\ SaveNextPoint
  /\ GoesTo("dwell")
  /\ UNCHANGED <<point, routeHistory>>

SaveSkipped ==
  /\ runAt = "skip"
  /\ SaveNextPoint
  /\ GoesTo("next") /\ point' = point + 1
  /\ UNCHANGED routeHistory

Dwell ==
  /\ runAt = "dwell"
  /\ \/ cancelled /\ GoesTo("idle") /\ UNCHANGED point
     \/ GoesTo("next") /\ point' = point + 1
  /\ UNCHANGED <<checkpoint, routeHistory>>

(* The run has succeeded; START_PATROL goes on to dock. *)
ClearCheckpoint ==
  /\ runAt = "clear"
  /\ checkpoint' = NoCheckpoint
  /\ patrolDone' = TRUE
  /\ GoesTo(IF starting THEN "dock" ELSE "idle")
  /\ UNCHANGED <<point, reached, givenUp, forgotten>>

DockAtEnd ==
  /\ runAt = "dock"
  /\ GoesTo("idle")
  /\ UNCHANGED <<point, checkpoint, routeHistory>>

RunDies ==
  /\ runAt # "idle"
  /\ GoesTo("idle")
  /\ forgotten' = IF runAt = "save" THEN forgotten \cup {point} ELSE forgotten
  /\ UNCHANGED <<point, checkpoint, reached, givenUp, patrolDone>>

RunNext ==
  \/ StartPatrol \/ EnsureUndocked \/ ResumePatrol \/ CancelPatrol
  \/ NextPoint \/ GoTo \/ SaveReached \/ SaveSkipped \/ Dwell \/ ClearCheckpoint \/ DockAtEnd
  \/ RunDies

RunSpec == RunInit /\ [][RunNext]_runVars

--------------------------------------------------------------------------------
(***************************************************************************)
(* Properties.                                                              *)
(***************************************************************************)

(* A patrol leaves out no waypoint but one the navigation gave up, and goes *)
(* to none twice but one that was reached when the process died, however    *)
(* often it is cancelled, dies and is resumed; the last one is never left   *)
(* out.                                                                     *)
RouteComplete ==
  /\ patrolDone => \A p \in Indexes : reached[p] > 0 \/ p \in givenUp
  /\ \A p \in Indexes : reached[p] > 1 => p \in forgotten
  /\ Points - 1 \notin givenUp
================================================================================
