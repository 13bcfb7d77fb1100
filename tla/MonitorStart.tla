----------------------------- MODULE MonitorStart ------------------------------
(***************************************************************************)
(* The start of a process of the System Monitor: create_app opens the       *)
(* database, brings tables an older release left to the current schema      *)
(* (database.init_db) and reads the session key (security.init_app).        *)
(* run.py and ros_adapter.py both do so, on the same database and key file. *)
(* Each migration looks at the tables first and changes them in a later     *)
(* transaction: two steps, between which another start may change them too. *)
(* A transaction is one step.  A process may stop or die at any step; so    *)
(* does a start whose database call raises.                                 *)
(***************************************************************************)
EXTENDS Functions

CONSTANTS
  Processes,    \* the web server and the ROS adapter
  NoKey,        \* there is no session.key
  OldDatabases, \* the databases a start may find
  OldRows,      \* the names of the rows in them
  NewRows       \* what a serving process may store, each once

ASSUME NoKeyAssumption == NoKey \notin Processes

PatrolTables == {"patrol_runs", "patrol_visits"}
EstopTables == {"estop_latest", "estop_history"}
AccessTables == {"vehicle_access_logs"}
RobotTables == {"robot_latest_status", "robot_status_history"}
EventTables == {"events", "event_evidence"}
ChunkTables == {"evidence_chunks", "evidence_ingestions", "detection_event_messages"}

SchemaTables ==
  PatrolTables \cup EstopTables \cup AccessTables \cup RobotTables \cup EventTables

LegacyName == [estop_latest |-> "estop_latest_legacy",
               estop_history |-> "estop_history_legacy"]

PoseColumns == {"pose_valid", "last_valid_pose_at"}
SafetyColumns == {"safety_state", "motion_stopped"}

(* The columns of the current tables, as far as the migrations tell them    *)
(* apart: "kept" are those the older release had too, and its others are    *)
(* the column "gone".                                                       *)
Columns ==
  {"kept", "gone", "content_hash", "reason_code", "target_robot_id"}
    \cup PoseColumns \cup SafetyColumns
NewColumns(t) ==
  {c \in PoseColumns \cup SafetyColumns : t \in RobotTables}
    \cup {c \in {"content_hash"} : t = "events"}
    \cup {c \in {"reason_code"} : t \in PatrolTables}
    \cup {c \in {"target_robot_id"} : t \in EstopTables}
Current == [t \in SchemaTables |-> {"kept"} \cup NewColumns(t)]

Rows == [name : OldRows \cup NewRows, values : SUBSET Columns]
Tables == [columns : SUBSET Columns, rows : SUBSET Rows]

(* What earlier releases and starts leave: rows with values in the columns  *)
(* of their table, robot tables that only lack columns, and patrol tables   *)
(* that are both of the present release or both of an older one.            *)
ASSUME OldDatabaseAssumption ==
  \A d \in OldDatabases :
    /\ \A t \in DOMAIN d : d[t] \in Tables
    /\ \A t \in DOMAIN d : \A r \in d[t].rows : r.values \subseteq d[t].columns
    /\ \A t \in RobotTables \cap DOMAIN d :
         {"kept"} \subseteq d[t].columns /\ d[t].columns \subseteq Current[t]
    /\ \A t, u \in PatrolTables \cap DOMAIN d :
         d[t].columns = Current[t] => d[u].columns = Current[u]

VARIABLES
  db,       \* table name -> its columns and its rows
  keyFile,  \* session.key, named by the process that made it
  startAt,  \* where each process is
  looked,   \* the columns it saw when it last looked at the tables
  heldKey,  \* the SECRET_KEY it works with
  (* History, read only by the properties. *)
  written,  \* every row ever stored, with its table
  overtaken \* did a start change tables that were not as it had seen them?

startVars == <<db, keyFile, startAt, looked, heldKey, written, overtaken>>

Migrating == {"patrol", "patrol count", "patrol drop", "estop", "estop move",
              "schema", "access", "access move", "pose", "pose add", "safety",
              "events", "events rebuild"}
StartSteps == {"down", "key", "key link", "key read", "serving"} \cup Migrating

StartTypeOK ==
  /\ \A t \in DOMAIN db : db[t] \in Tables
  /\ keyFile \in Processes \cup {NoKey}
  /\ startAt \in [Processes -> StartSteps]
  /\ heldKey \in [Processes -> Processes \cup {NoKey}]
  /\ overtaken \in BOOLEAN

StartInit ==
  /\ db \in OldDatabases
  /\ keyFile = NoKey
  /\ startAt = [p \in Processes |-> "down"]
  /\ looked = [p \in Processes |-> <<>>]
  /\ heldKey = [p \in Processes |-> NoKey]
  /\ written = UNION {{<<t, r>> : r \in db[t].rows} : t \in DOMAIN db}
  /\ overtaken = FALSE

--------------------------------------------------------------------------------
(* Helpers. *)

At(p, step) == startAt[p] = step
GoOn(p, step) == startAt' = [startAt EXCEPT ![p] = step]

(* PRAGMA table_info of each table in T that is there *)
Look(T) == [t \in T \cap DOMAIN db |-> db[t].columns]
StaleIn(seen) == {t \in DOMAIN seen \cap SchemaTables : seen[t] # Current[t]}
Without(T) == Restrict(db, DOMAIN db \ T)

(* INSERT ... SELECT columns: the other values of the rows stay behind. *)
CopyRows(rows, columns) == {[r EXCEPT !.values = @ \cap columns] : r \in rows}

(* A step that looks at T, and goes on to "move" only if there is work. *)
LookAt(p, T, move, next) ==
  /\ looked' = [looked EXCEPT ![p] = Look(T)]
  /\ GoOn(p, IF StaleIn(Look(T)) # {} THEN move ELSE next)
  /\ UNCHANGED <<db, keyFile, heldKey, written, overtaken>>

(* The transaction of a migration: it commits "to" and the start goes on.   *)
Commit(p, to, next) ==
  /\ db' = to
  /\ GoOn(p, next)
  /\ UNCHANGED <<keyFile, looked, heldKey, written>>

(* It does not look at the tables T again, whatever they look like by now.  *)
CommitAsSeen(p, T, to, next) ==
  /\ Commit(p, to, next)
  /\ overtaken' = (overtaken \/ looked[p] # Look(T))

(* The start ends: an error, a kill or an ordinary stop. *)
EndProcess(p) ==
  /\ startAt' = [startAt EXCEPT ![p] = "down"]
  /\ heldKey' = [heldKey EXCEPT ![p] = NoKey]
  /\ UNCHANGED <<db, keyFile, looked, written, overtaken>>

--------------------------------------------------------------------------------
(* create_app *)
StartProcess(p) ==
  /\ At(p, "down")
  /\ GoOn(p, "patrol")
  /\ UNCHANGED <<db, keyFile, looked, heldKey, written, overtaken>>

LookAtPatrol(p) ==
  At(p, "patrol") /\ LookAt(p, PatrolTables, "patrol count", "estop")

(* Old patrol tables with rows, or a table that is no longer there, end the *)
(* start.                                                                   *)
CountPatrolRows(p) ==
  /\ At(p, "patrol count")
  /\ IF \A t \in StaleIn(looked[p]) : t \in DOMAIN db /\ db[t].rows = {}
       THEN GoOn(p, "patrol drop") /\ UNCHANGED <<db, keyFile, looked, heldKey, written, overtaken>>
       ELSE EndProcess(p)

(* Both tables are dropped, the stale one and the other. *)
DropPatrolTables(p) ==
  /\ At(p, "patrol drop")
  /\ CommitAsSeen(p, PatrolTables, Without(PatrolTables), "estop")

LookAtEstop(p) ==
  At(p, "estop") /\ LookAt(p, EstopTables, "estop move", "schema")

(* Under its legacy name if it has rows; a legacy table of that name goes.  *)
Moved(T) ==
  LET withRows == {t \in T : db[t].rows # {}} IN
  [n \in (DOMAIN db \ (T \cup {LegacyName[t] : t \in T}))
         \cup {LegacyName[t] : t \in withRows} |->
     IF \E t \in withRows : LegacyName[t] = n
       THEN db[CHOOSE t \in withRows : LegacyName[t] = n]
       ELSE db[n]]

MoveEstopTables(p) ==
  /\ At(p, "estop move")
  /\ IF StaleIn(looked[p]) \subseteq DOMAIN db
       THEN CommitAsSeen(p, EstopTables, Moved(StaleIn(looked[p])), "schema")
       ELSE EndProcess(p)

(* schema.sql: CREATE TABLE IF NOT EXISTS *)
CreateSchema(p) ==
  /\ At(p, "schema")
  /\ Commit(p, [t \in DOMAIN db \cup SchemaTables |->
                  IF t \in DOMAIN db THEN db[t] ELSE [columns |-> Current[t], rows |-> {}]],
            "access")
  /\ UNCHANGED overtaken

LookAtAccess(p) ==
  At(p, "access") /\ LookAt(p, AccessTables, "access move", "pose")

(* Renamed, made again, copied and the renamed one dropped, whatever the    *)
(* table looks like by now: a current one comes out as it went in.          *)
MoveAccess(p) ==
  /\ At(p, "access move")
  /\ IF AccessTables \subseteq DOMAIN db
       THEN Commit(p, [t \in DOMAIN db |->
                         IF t \in AccessTables
                           THEN [columns |-> Current[t],
                                 rows |-> CopyRows(db[t].rows, Current[t])]
                           ELSE db[t]],
                   "pose")
            /\ UNCHANGED overtaken
       ELSE EndProcess(p)

(* Mutant: a table with the pose columns is taken for a current one. *)
LookAtPoseOnly(p) ==
  /\ At(p, "pose")
  /\ looked' = [looked EXCEPT ![p] = Look(RobotTables)]
  /\ GoOn(p, IF \A t \in DOMAIN Look(RobotTables) : PoseColumns \subseteq Look(RobotTables)[t]
               THEN "events" ELSE "pose add")
  /\ UNCHANGED <<db, keyFile, heldKey, written, overtaken>>

(* The pose migration asks only for its own two columns. *)
LookAtPose(p) ==
  /\ At(p, "pose")
  /\ looked' = [looked EXCEPT ![p] = Look(RobotTables)]
  /\ GoOn(p, IF \A t \in DOMAIN Look(RobotTables) : PoseColumns \subseteq Look(RobotTables)[t]
               THEN "safety" ELSE "pose add")
  /\ UNCHANGED <<db, keyFile, heldKey, written, overtaken>>

(* ALTER TABLE ADD COLUMN: the rows take the default value. *)
WithColumns(t, columns) ==
  [columns |-> db[t].columns \cup columns,
   rows |-> {[r EXCEPT !.values = @ \cup columns] : r \in db[t].rows}]

(* A column that another start has added meanwhile is an error. *)
AddPose(p) ==
  /\ At(p, "pose add")
  /\ IF \A t \in RobotTables : db[t].columns \cap (PoseColumns \ looked[p][t]) = {}
       THEN Commit(p, [t \in DOMAIN db |->
                         IF t \in RobotTables THEN WithColumns(t, PoseColumns \ looked[p][t])
                                              ELSE db[t]],
                   "safety")
            /\ UNCHANGED overtaken
       ELSE EndProcess(p)

(* The columns are read inside the transaction. *)
AddSafety(p) ==
  /\ At(p, "safety")
  /\ Commit(p, [t \in DOMAIN db |->
                  IF t \in RobotTables THEN WithColumns(t, SafetyColumns \ db[t].columns)
                                       ELSE db[t]],
            "events")
  /\ UNCHANGED overtaken

LookAtEvents(p) ==
  /\ At(p, "events")
  /\ LET seen == Look(EventTables \cup ChunkTables) IN
     /\ looked' = [looked EXCEPT ![p] = seen]
     /\ GoOn(p, IF StaleIn(seen) # {} \/ DOMAIN seen \cap ChunkTables # {}
                  THEN "events rebuild" ELSE "key")
  /\ UNCHANGED <<db, keyFile, heldKey, written, overtaken>>

(* Mutant: the new table replaces the old one before the rows are copied. *)
RebuiltEmpty(t, seen) == [columns |-> Current[t], rows |-> {}]

(* The columns that were in the table when it was looked at are copied. *)
Rebuilt(t, seen) ==
  [columns |-> Current[t], rows |-> CopyRows(db[t].rows, Current[t] \cap seen)]

RebuildEvents(p) ==
  /\ At(p, "events rebuild")
  /\ LET seen == looked[p] IN
     IF DOMAIN seen \cap ChunkTables \subseteq DOMAIN db
       THEN CommitAsSeen(p, EventTables \cup ChunkTables,
                         [t \in DOMAIN Without(ChunkTables \cap DOMAIN seen) |->
                            IF t \in StaleIn(seen) THEN Rebuilt(t, seen[t]) ELSE db[t]],
                         "key")
       ELSE EndProcess(p)

--------------------------------------------------------------------------------
(* security.init_app *)
LookForKey(p) ==
  /\ At(p, "key")
  /\ GoOn(p, IF keyFile = NoKey THEN "key link" ELSE "key read")
  /\ UNCHANGED <<db, keyFile, looked, heldKey, written, overtaken>>

(* os.link of the finished file; FileExistsError leaves the other's key. *)
LinkKey(p) ==
  /\ At(p, "key link")
  /\ keyFile' = IF keyFile = NoKey THEN p ELSE keyFile
  /\ GoOn(p, "key read")
  /\ UNCHANGED <<db, looked, heldKey, written, overtaken>>

ReadKey(p) ==
  /\ At(p, "key read")
  /\ heldKey' = [heldKey EXCEPT ![p] = keyFile]
  /\ GoOn(p, "serving")
  /\ UNCHANGED <<db, keyFile, looked, written, overtaken>>

(* A serving process stores row n of the current release in table t. *)
StoreRow(p, t, n) ==
  /\ At(p, "serving")
  /\ n \notin {w[2].name : w \in written}
  /\ t \in DOMAIN db /\ Current[t] \subseteq db[t].columns
  /\ LET row == [name |-> n, values |-> Current[t]] IN
     /\ db' = [db EXCEPT ![t].rows = @ \cup {row}]
     /\ written' = written \cup {<<t, row>>}
  /\ UNCHANGED <<keyFile, startAt, looked, heldKey, overtaken>>

(* An event, an E-stop and the report of a patrol. *)
InsertEvent(p, n) == StoreRow(p, "events", n)
InsertEstop(p, n) == StoreRow(p, "estop_history", n)
InsertRun(p, n) == StoreRow(p, "patrol_runs", n)

Migrate(p) ==
  \/ LookAtPatrol(p) \/ CountPatrolRows(p) \/ DropPatrolTables(p)
  \/ LookAtEstop(p) \/ MoveEstopTables(p)
  \/ CreateSchema(p)
  \/ LookAtAccess(p) \/ MoveAccess(p)
  \/ LookAtPose(p) \/ AddPose(p)
  \/ AddSafety(p)
  \/ LookAtEvents(p) \/ RebuildEvents(p)

StartNext ==
  \E p \in Processes :
    \/ StartProcess(p)
    \/ Migrate(p)
    \/ LookForKey(p) \/ LinkKey(p) \/ ReadKey(p)
    \/ \E n \in NewRows : InsertEvent(p, n) \/ InsertEstop(p, n) \/ InsertRun(p, n)
    \/ startAt[p] # "down" /\ EndProcess(p)

StartSpec == StartInit /\ [][StartNext]_startVars

--------------------------------------------------------------------------------
(***************************************************************************)
(* Properties.                                                              *)
(***************************************************************************)

(* Where a row of table t is to be found. *)
Places(t) == {t} \cup (IF t \in EstopTables THEN {LegacyName[t]} ELSE {})

(* Row r of table t is in table n, with all that t has columns for. *)
IsIn(n, t, r) ==
  \E s \in db[n].rows : s.name = r.name /\ r.values \cap Current[t] \subseteq s.values

Kept(t, r) == \E n \in Places(t) \cap DOMAIN db : IsIn(n, t, r)

(* An old E-stop row is under the legacy name, an old patrol row stops      *)
(* every start, the others move along: no row is lost, nor a value that a   *)
(* column of the current release holds ("records are not deleted",          *)
(* _migrate_estop_contract's docstring).                                    *)
RecordsKept == \A w \in written : w[1] \in SchemaTables => Kept(w[1], w[2])

(* That is so wherever a start fails or is killed, however often it is      *)
(* tried again and whatever the other process does meanwhile, as long as no *)
(* start has changed the patrol, E-stop or event tables on a look that      *)
(* another start had made old by then.                                      *)
RecordsKeptInTurn == ~overtaken => RecordsKept

(* A process that serves has the key in the file, the one the other signs   *)
(* sessions with too, also when both start on an empty directory and race   *)
(* for the file; and, as long as no start has acted on an old look, every   *)
(* table with the columns it uses, whatever the other starts, fails at and  *)
(* dies in.                                                                 *)
ServingIsReady ==
  \A p \in Processes : At(p, "serving") =>
    /\ keyFile # NoKey /\ heldKey[p] = keyFile
    /\ ~overtaken => \A t \in SchemaTables : t \in DOMAIN db /\ db[t].columns = Current[t]
================================================================================
