-------------------------------- MODULE MCParts ---------------------------------
(* Small instances of the parts that share no state with another module's:  *)
(* no table, file, topic or object.  A run is one of one of them, so their  *)
(* states add up and do not multiply.                                       *)
EXTENDS MonitorStart, GridStore, FrameStore, FrameRate, EstopLog, PermitLog,
        EventHandling, AccessLog, Accounts, Evacuation, PatrolScenario, CctvPermit, TLC

CONSTANTS web, adapter, top, bottom

VARIABLE part

--------------------------------------------------------------------------------
(* Values of the constants. *)

MCProcesses == {web, adapter}

Table(columns, rows) == [columns |-> columns, rows |-> rows]
OldRow(columns) == [name |-> "old", values |-> columns]
OldTables(T) == [t \in T |-> Table({"kept", "gone"}, {OldRow({"kept", "gone"})})]
OldEmpty(T) == [t \in T |-> Table({"kept", "gone"}, {})]
CurrentTables(T) == [t \in T |-> Table(Current[t], {})]
OldRobots(c) == [t \in RobotTables |-> Table({"kept"} \cup c, {OldRow({"kept"} \cup c)})]

(* An empty directory; every table old and with rows, where a start goes on *)
(* then; old patrol records, which end every start; old tables beside those *)
(* an earlier start made.                                                   *)
MCOldDatabases == {
  OldEmpty({}),
  OldEmpty(PatrolTables) @@ OldRobots({})
    @@ OldTables((SchemaTables \ (PatrolTables \cup RobotTables)) \cup ChunkTables),
  OldTables({"patrol_runs"}) @@ OldEmpty({"patrol_visits"})
    @@ CurrentTables(SchemaTables \ PatrolTables),
  OldEmpty(EstopTables) @@ OldRobots(PoseColumns)
    @@ CurrentTables(SchemaTables \ (EstopTables \cup RobotTables \cup PatrolTables)) }

Grid(kind, id, content, at) == [kind |-> kind, id |-> id, content |-> content, at |-> at]
MCGrids == {Grid("map", 1, 1, 1), Grid("map", 1, 2, 2), Grid("map", 3, 3, 9),
            Grid("costmap", 1, 1, 1), Grid("costmap", 2, 1, 2)}

Frame(id, picture, at) == [id |-> id, image |-> picture, at |-> at]
MCFrames == {Frame(1, 1, 1), Frame(2, 2, 2), Frame(2, 1, 3), Frame(3, 3, 9)}

Estop(target, active, reason, at) ==
  [target |-> target, active |-> active, reason |-> reason, at |-> at]
MCEstops == {Estop("all", TRUE, 1, 1), Estop("all", TRUE, 2, 2), Estop("all", FALSE, 2, 2),
             Estop("robot1", TRUE, 1, 2)}

CameraState(id, camera, state, at) == [id |-> id, camera |-> camera, state |-> state, at |-> at]
MCCameraStates == {CameraState(1, "gate_cam", "ENTERING", 1), CameraState(2, "gate_cam", "EXITED", 2),
                   CameraState(2, "gate_cam", "EXITED", 3), CameraState(3, "center_cam", "PARKED", 2)}
APassage(id, message, direction) ==
  [id |-> id, message |-> message, direction |-> direction, at |-> 1]
MCPassages == {APassage(1, 1, "ENTRY"), APassage(4, 2, "EXIT"), APassage(4, 4, "EXIT")}

MCOperators == {"operator1", "operator2"}
MCUsers == {"user1", "user2", "user3"}
MCRoles == {"ADMIN", "VIEWER"}
MCBrowsers == {"browser1", "browser2"}

(* Left of the gate camera's lines, between them and right of them. *)
MCXs == {0, 2, 4}
MCNoX == -1
MCRois == {top, bottom}

--------------------------------------------------------------------------------
partVars == <<startVars, gridVars, frameVars, rateVars, estopVars, permitVars, eventVars,
              accessVars, accountVars, evacVars, runVars, cctvVars, part>>

(* A part that is not at work stays as it began. *)
TypeOK ==
  /\ part = 1 => StartTypeOK
  /\ part = 2 => GridTypeOK
  /\ part = 3 => FrameTypeOK
  /\ part = 4 => RateTypeOK
  /\ part = 5 => EstopTypeOK
  /\ part = 6 => PermitTypeOK
  /\ part = 7 => EventTypeOK
  /\ part = 8 => AccessTypeOK
  /\ part = 9 => AccountTypeOK
  /\ part = 10 => EvacTypeOK
  /\ part = 11 => RunTypeOK
  /\ part = 12 => CctvTypeOK

(* Where a part is not at work any initial state of it will do. *)
Init ==
  /\ part \in 1 .. 12
  /\ GridInit /\ FrameInit /\ RateInit /\ EstopInit /\ PermitInit /\ EventInit
  /\ AccessInit /\ AccountInit /\ RunInit /\ CctvInit
  /\ StartInit /\ (part # 1 => DOMAIN db = {})
  /\ EvacInit /\ (part # 10 => place = Dock)

Next ==
  /\ UNCHANGED part
  /\ IF part = 1 THEN StartNext ELSE UNCHANGED startVars
  /\ IF part = 2 THEN GridNext ELSE UNCHANGED gridVars
  /\ IF part = 3 THEN FrameNext ELSE UNCHANGED frameVars
  /\ IF part = 4 THEN RateNext ELSE UNCHANGED rateVars
  /\ IF part = 5 THEN EstopNext ELSE UNCHANGED estopVars
  /\ IF part = 6 THEN PermitNext ELSE UNCHANGED permitVars
  /\ IF part = 7 THEN EventNext ELSE UNCHANGED eventVars
  /\ IF part = 8 THEN AccessNext ELSE UNCHANGED accessVars
  /\ IF part = 9 THEN AccountNext ELSE UNCHANGED accountVars
  /\ IF part = 10 THEN EvacNext ELSE UNCHANGED evacVars
  /\ IF part = 11 THEN RunNext ELSE UNCHANGED runVars
  /\ IF part = 12 THEN CctvNext ELSE UNCHANGED cctvVars

Spec == Init /\ [][Next]_partVars
================================================================================
