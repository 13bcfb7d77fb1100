--------------------------- MODULE MonitorStartProofs ---------------------------
(***************************************************************************)
(* What is proved of the start of the System Monitor, for any processes,    *)
(* rows and old databases, and for any order of the steps of their starts:  *)
(* every process serves with the key in the file; and as long as no start   *)
(* has changed tables that another had changed since it looked              *)
(* (overtaken), no start loses a record and a process serves only with the  *)
(* current schema.                                                          *)
(***************************************************************************)
EXTENDS MonitorStart, TLAPS

(***************************************************************************)
(* The inductive invariant.  What a table must be like at any time:         *)
(***************************************************************************)
IsCurrent(T) == \A t \in T \cap DOMAIN db : db[t].columns = Current[t]

(* Every value of a row has a column, or a copy of the columns loses it. *)
RowsFit == \A t \in DOMAIN db : \A r \in db[t].rows : r.values \subseteq db[t].columns

(* Adding columns makes a robot table a current one. *)
RobotsFit ==
  \A t \in RobotTables \cap DOMAIN db :
    {"kept"} \subseteq db[t].columns /\ db[t].columns \subseteq Current[t]

(* The patrol tables are dropped together, so none may be old beside a      *)
(* current one.                                                             *)
PatrolTogether ==
  \A t, u \in PatrolTables \cap DOMAIN db :
    db[t].columns = Current[t] => db[u].columns = Current[u]

(* An old E-stop table was never moved: all its rows are in it, and none is *)
(* under the legacy name, where moving it would wipe it out.                *)
OldEstopOwnsRows ==
  \A t \in EstopTables \cap DOMAIN db :
    db[t].columns # Current[t] =>
      \A w \in written : w[1] = t => IsIn(t, t, w[2])

DataInv ==
  /\ \A t \in DOMAIN db : db[t] \in Tables
  /\ RowsFit /\ RobotsFit /\ PatrolTogether /\ OldEstopOwnsRows
  /\ RecordsKept

(***************************************************************************)
(* What is true of a process by where it is: what it saw needs the step it   *)
(* is about to take, what it has passed is done, and after the migrations   *)
(* everything is.  Whether it still is as it saw it, the step itself shows. *)
(***************************************************************************)
AfterPatrol == Migrating \ {"patrol", "patrol count", "patrol drop"}
AfterEstop == AfterPatrol \ {"estop", "estop move"}
AfterSchema == AfterEstop \ {"schema"}
AfterAccess == AfterSchema \ {"access", "access move"}
AfterPose == AfterAccess \ {"pose", "pose add"}
AfterSafety == AfterPose \ {"safety"}
Migrated == {"key", "key link", "key read", "serving"}

AllThere == SchemaTables \subseteq DOMAIN db
PoseThere == \A t \in RobotTables : PoseColumns \subseteq db[t].columns
DbCurrent == AllThere /\ IsCurrent(SchemaTables)

SawRight(p) ==
  /\ startAt[p] \in {"patrol count", "patrol drop", "estop move"} => StaleIn(looked[p]) # {}
  /\ At(p, "patrol drop") =>
       \A t \in PatrolTables \cap DOMAIN db :
         t \in StaleIn(looked[p]) /\ db[t].columns # Current[t] => db[t].rows = {}
  /\ At(p, "pose add") => \A t \in RobotTables : looked[p][t] \subseteq db[t].columns

CameFar(p) ==
  /\ startAt[p] \in AfterPatrol => IsCurrent(PatrolTables)
  /\ startAt[p] \in AfterEstop => IsCurrent(EstopTables)
  /\ startAt[p] \in AfterSchema => AllThere
  /\ startAt[p] \in AfterAccess => IsCurrent(AccessTables)
  /\ startAt[p] \in AfterPose => PoseThere
  /\ startAt[p] \in AfterSafety => IsCurrent(RobotTables)
  /\ startAt[p] \in Migrated => DbCurrent

KeyRead(p) ==
  /\ startAt[p] \in {"key read", "serving"} => keyFile # NoKey
  /\ At(p, "serving") => heldKey[p] = keyFile

ProcessTypes ==
  /\ keyFile \in Processes \cup {NoKey}
  /\ startAt \in [Processes -> StartSteps]
  /\ DOMAIN looked = Processes
  /\ heldKey \in [Processes -> Processes \cup {NoKey}]

ProcessInv == \A p \in Processes : SawRight(p) /\ CameFar(p)

StartInv == DataInv /\ ProcessTypes /\ ProcessInv
KeyInv == ProcessTypes /\ \A p \in Processes : KeyRead(p)
--------------------------------------------------------------------------------
(* The tables a process can tell apart. *)
LEMMA TableNames ==
  /\ SchemaTables = PatrolTables \cup EstopTables \cup AccessTables \cup RobotTables
                       \cup EventTables
  /\ PatrolTables \cap (EstopTables \cup AccessTables \cup RobotTables \cup EventTables) = {}
  /\ EstopTables \cap (AccessTables \cup RobotTables \cup EventTables) = {}
  /\ AccessTables \cap (RobotTables \cup EventTables) = {}
  /\ RobotTables \cap EventTables = {}
  /\ ChunkTables \cap SchemaTables = {}
BY DEF SchemaTables, PatrolTables, EstopTables, AccessTables, RobotTables, EventTables,
       ChunkTables

(* The names the migration of the E-stop tables gives belong to no table of  *)
(* the schema, and to one of the old ones each.                              *)
LEMMA LegacyNames ==
  /\ \A t \in EstopTables : LegacyName[t] \notin SchemaTables \cup ChunkTables
  /\ \A t, u \in EstopTables : LegacyName[t] = LegacyName[u] => t = u
BY DEF LegacyName, SchemaTables, PatrolTables, EstopTables, AccessTables, RobotTables,
       EventTables, ChunkTables

(* The columns of the current schema. *)
LEMMA CurrentColumns ==
  /\ \A t \in SchemaTables : Current[t] \subseteq Columns
  /\ \A t \in RobotTables : Current[t] = {"kept"} \cup PoseColumns \cup SafetyColumns
<1>1. \A t \in SchemaTables : Current[t] = {"kept"} \cup NewColumns(t)
  BY DEF Current
<1>2. ASSUME NEW t \in RobotTables PROVE NewColumns(t) = PoseColumns \cup SafetyColumns
  BY DEF NewColumns, EstopTables, PatrolTables, RobotTables
<1>3. \A t \in SchemaTables : NewColumns(t) \subseteq Columns
  BY DEF NewColumns, Columns
<1>4. QED
  BY <1>1, <1>2, <1>3, TableNames DEF Columns

(* What Look shows, and when nothing in it is old. *)
LEMMA LookShows ==
  ASSUME NEW T \in SUBSET (SchemaTables \cup ChunkTables)
  PROVE  /\ DOMAIN Look(T) = T \cap DOMAIN db
         /\ \A t \in T \cap DOMAIN db : Look(T)[t] = db[t].columns
         /\ StaleIn(Look(T)) =
              {t \in T \cap DOMAIN db : t \in SchemaTables /\ db[t].columns # Current[t]}
<1>1. DOMAIN Look(T) = T \cap DOMAIN db
  BY DEF Look
<1>2. \A t \in T \cap DOMAIN db : Look(T)[t] = db[t].columns
  BY DEF Look
<1>3. QED
  BY <1>1, <1>2 DEF StaleIn

(* A look finds nothing to do just when the tables are current.              *)
LEMMA NothingStale ==
  ASSUME NEW T \in SUBSET SchemaTables
  PROVE  StaleIn(Look(T)) = {} <=> IsCurrent(T)
BY LookShows DEF IsCurrent

--------------------------------------------------------------------------------
(* A step that leaves the tables alone keeps the invariant if it does so for *)
(* the process that takes it.                                                *)
LEMMA QuietStep ==
  ASSUME StartInv, NEW p \in Processes, NEW s \in StartSteps,
         db' = db, written' = written, ProcessTypes',
         startAt' = [startAt EXCEPT ![p] = s],
         \A q \in Processes \ {p} : looked'[q] = looked[q],
         SawRight(p)', CameFar(p)'
  PROVE  StartInv'
<1>1. DataInv'
  BY DEF StartInv, DataInv, RowsFit, RobotsFit, PatrolTogether, OldEstopOwnsRows, RecordsKept,
         Kept, IsIn
<1>2. /\ startAt'[p] = s
      /\ \A q \in Processes \ {p} : startAt'[q] = startAt[q]
  BY DEF StartInv, ProcessTypes
<1>3. ASSUME NEW q \in Processes PROVE SawRight(q)' /\ CameFar(q)'
  <2>1. CASE q = p
    BY <2>1
  <2>2. CASE q # p
    <3>1. startAt'[q] = startAt[q] /\ looked'[q] = looked[q]
      BY <1>2, <2>2
    <3>2. SawRight(q) /\ CameFar(q)
      BY DEF StartInv, ProcessInv
    <3>3. SawRight(q)'
      <4>1. StaleIn(looked[q])' = StaleIn(looked[q])
        BY <3>1 DEF StaleIn
      <4>2. QED
        BY <3>1, <3>2, <4>1 DEF SawRight, At
    <3>4. CameFar(q)'
      BY <3>1, <3>2 DEF CameFar, IsCurrent, AllThere, PoseThere, DbCurrent
    <3>5. QED
      BY <3>3, <3>4
  <2>3. QED
    BY <2>1, <2>2
<1>4. QED
  BY <1>1, <1>3 DEF StartInv, ProcessInv

(* What a transaction may not do to the other processes, wherever they are:  *)
(* make a current table an old one, lose a table once the patrol and E-stop  *)
(* tables are current, take a column from a robot table, or put rows into an *)
(* old patrol table.                                                         *)
Harmless ==
  /\ \A t \in SchemaTables \cap DOMAIN db' :
       (t \in DOMAIN db => db[t].columns = Current[t]) => db'[t].columns = Current[t]
  /\ AllThere /\ IsCurrent(PatrolTables) /\ IsCurrent(EstopTables) => AllThere'
  /\ AllThere => \A t \in RobotTables : db[t].columns \subseteq db'[t].columns
  /\ \A t \in PatrolTables \cap DOMAIN db' :
       db'[t].columns # Current[t] => t \in DOMAIN db /\ db'[t] = db[t]

LEMMA CommitStep ==
  ASSUME StartInv, NEW p \in Processes,
         NEW s \in {"estop", "schema", "access", "pose", "safety", "events", "key"},
         NEW to, Commit(p, to, s),
         DataInv', CameFar(p)', Harmless
  PROVE  StartInv'
<1>1. /\ startAt' = [startAt EXCEPT ![p] = s]
      /\ keyFile' = keyFile /\ looked' = looked /\ heldKey' = heldKey
  BY DEF Commit, GoOn
<1>2. s \in StartSteps
  BY DEF StartSteps, Migrating
<1>3. /\ startAt'[p] = s /\ startAt' \in [Processes -> StartSteps]
      /\ \A q \in Processes \ {p} : startAt'[q] = startAt[q]
  BY <1>1, <1>2 DEF StartInv, ProcessTypes
<1>4. ProcessTypes'
  BY <1>1, <1>3 DEF StartInv, ProcessTypes
<1>5. SawRight(p)'
  BY <1>3 DEF SawRight, At
<1>6. \A T \in SUBSET SchemaTables : IsCurrent(T) => IsCurrent(T)'
  BY DEF Harmless, IsCurrent
<1>7. ASSUME NEW q \in Processes \ {p} PROVE SawRight(q)' /\ CameFar(q)'
  <2>1. startAt'[q] = startAt[q] /\ looked'[q] = looked[q] /\ SawRight(q) /\ CameFar(q)
    BY <1>1, <1>3 DEF StartInv, ProcessInv
  <2>2. startAt[q] \in AfterSchema =>
          AllThere /\ IsCurrent(PatrolTables) /\ IsCurrent(EstopTables)
    BY <2>1 DEF CameFar, AfterPatrol, AfterEstop, AfterSchema, Migrating
  <2>3. startAt[q] \in Migrated => DbCurrent /\ DbCurrent'
    <3>1. DbCurrent => IsCurrent(PatrolTables) /\ IsCurrent(EstopTables)
      BY TableNames DEF DbCurrent, IsCurrent
    <3>2. DbCurrent => DbCurrent'
      BY <1>6, <3>1 DEF DbCurrent, Harmless
    <3>3. QED
      BY <2>1, <3>2 DEF CameFar
  <2>4. CameFar(q)'
    <3>1. startAt[q] \in AfterSchema => AllThere'
      BY <2>2 DEF Harmless
    <3>2. startAt[q] \in AfterPose => PoseThere'
      BY <2>1, <2>2 DEF CameFar, PoseThere, Harmless, AfterSchema, AfterAccess, AfterPose
    <3>3. /\ startAt[q] \in AfterPatrol => IsCurrent(PatrolTables)'
          /\ startAt[q] \in AfterEstop => IsCurrent(EstopTables)'
          /\ startAt[q] \in AfterAccess => IsCurrent(AccessTables)'
          /\ startAt[q] \in AfterSafety => IsCurrent(RobotTables)'
      BY <1>6, <2>1, TableNames DEF CameFar
    <3>4. QED
      BY <2>1, <2>3, <3>1, <3>2, <3>3 DEF CameFar
  <2>5. SawRight(q)'
    <3>1. StaleIn(looked[q])' = StaleIn(looked[q])
      BY <2>1 DEF StaleIn
    <3>2. ASSUME startAt[q] = "patrol drop", NEW t \in PatrolTables \cap DOMAIN db',
                 t \in StaleIn(looked[q]), db'[t].columns # Current[t]
          PROVE  db'[t].rows = {}
      BY <2>1, <3>2 DEF SawRight, At, Harmless
    <3>3. ASSUME startAt[q] = "pose add", NEW t \in RobotTables
          PROVE  looked[q][t] \subseteq db'[t].columns
      <4>1. AllThere
        BY <2>2, <3>3 DEF AfterPatrol, AfterEstop, AfterSchema, Migrating
      <4>2. db[t].columns \subseteq db'[t].columns
        BY <4>1 DEF Harmless
      <4>3. QED
        BY <2>1, <3>3, <4>2 DEF SawRight, At
    <3>4. QED
      BY <2>1, <3>1, <3>2, <3>3 DEF SawRight, At
  <2>6. QED
    BY <2>4, <2>5
<1>8. QED
  BY <1>4, <1>5, <1>7 DEF StartInv, ProcessInv

(* No record is lost when every row of a table of the schema moves along in  *)
(* it and the tables set aside stay as they are.                             *)
LEMMA RowsMoveAlong ==
  ASSUME RecordsKept, written' = written,
         \A t \in SchemaTables \cap DOMAIN db :
           /\ t \in DOMAIN db'
           /\ \A s \in db[t].rows :
                \E u \in db'[t].rows :
                  u.name = s.name /\ s.values \cap Current[t] \subseteq u.values,
         \A n \in DOMAIN db \ (SchemaTables \cup ChunkTables) :
           n \in DOMAIN db' /\ db'[n] = db[n]
  PROVE  RecordsKept'
<1> SUFFICES ASSUME NEW w \in written, w[1] \in SchemaTables
             PROVE  Kept(w[1], w[2])'
  BY DEF RecordsKept
<1> DEFINE t == w[1]
<1>1. PICK n \in Places(t) \cap DOMAIN db : IsIn(n, t, w[2])
  BY DEF RecordsKept, Kept
<1>2. PICK s \in db[n].rows : s.name = w[2].name /\ w[2].values \cap Current[t] \subseteq s.values
  BY <1>1 DEF IsIn
<1>3. CASE n = t
  <2>1. t \in DOMAIN db'
    BY <1>1, <1>3
  <2>2. PICK u \in db'[t].rows : u.name = s.name /\ s.values \cap Current[t] \subseteq u.values
    BY <1>1, <1>2, <1>3
  <2>3. w[2].values \cap Current[t] \subseteq u.values
    BY <1>2, <2>2
  <2>4. IsIn(t, t, w[2])'
    BY <1>2, <2>2, <2>3 DEF IsIn
  <2>5. QED
    BY <2>1, <2>4 DEF Kept, Places
<1>4. CASE n # t
  <2>1. t \in EstopTables /\ n = LegacyName[t]
    BY <1>1, <1>4 DEF Places
  <2>2. n \in DOMAIN db' /\ db'[n] = db[n]
    BY <1>1, <2>1, LegacyNames
  <2>3. QED
    BY <1>1, <2>2 DEF Kept, IsIn
<1>5. QED
  BY <1>3, <1>4

--------------------------------------------------------------------------------
(* The transactions, one by one.                                             *)

(* Patrol tables go together and empty: no row is in them.                   *)
LEMMA DropStep ==
  ASSUME StartInv, NEW p \in Processes, DropPatrolTables(p), ~overtaken'
  PROVE  StartInv'
<1>1. /\ At(p, "patrol drop") /\ Commit(p, Without(PatrolTables), "estop")
      /\ looked[p] = Look(PatrolTables)
  BY Zenon DEF DropPatrolTables, CommitAsSeen
<1>2. /\ DOMAIN db' = DOMAIN db \ PatrolTables
      /\ \A t \in DOMAIN db' : db'[t] = db[t]
      /\ written' = written /\ startAt' = [startAt EXCEPT ![p] = "estop"]
  BY <1>1 DEF Commit, Without, Restrict, GoOn
<1>3. /\ StaleIn(Look(PatrolTables)) # {}
      /\ \A t \in PatrolTables \cap DOMAIN db : db[t].rows = {}
  <2>1. /\ StaleIn(looked[p]) # {}
        /\ \A t \in PatrolTables \cap DOMAIN db :
             t \in StaleIn(looked[p]) /\ db[t].columns # Current[t] => db[t].rows = {}
    BY <1>1 DEF StartInv, ProcessInv, SawRight, At
  <2>2. StaleIn(looked[p]) =
          {t \in PatrolTables \cap DOMAIN db : t \in SchemaTables /\ db[t].columns # Current[t]}
    BY <1>1, LookShows, TableNames
  <2>3. PICK u \in PatrolTables \cap DOMAIN db : db[u].columns # Current[u]
    BY <2>1, <2>2
  <2>4. \A t \in PatrolTables \cap DOMAIN db : db[t].columns # Current[t]
    BY <2>3 DEF StartInv, DataInv, PatrolTogether
  <2>5. QED
    BY <1>1, <2>1, <2>2, <2>4, TableNames
<1>4. ~IsCurrent(PatrolTables)
  BY <1>3, NothingStale, TableNames
<1>5. RecordsKept'
  <2>1. SUFFICES ASSUME NEW w \in written, w[1] \in SchemaTables
                 PROVE  Kept(w[1], w[2])'
    BY <1>2 DEF RecordsKept
  <2>2. PICK n \in Places(w[1]) \cap DOMAIN db : IsIn(n, w[1], w[2])
    BY <2>1 DEF StartInv, DataInv, RecordsKept, Kept
  <2>3. n \notin PatrolTables
    BY <1>3, <2>2 DEF IsIn
  <2>4. n \in DOMAIN db' /\ db'[n] = db[n]
    BY <1>2, <2>2, <2>3
  <2>5. QED
    BY <2>2, <2>4 DEF Kept, IsIn
<1>6. DataInv'
  BY <1>2, <1>5 DEF StartInv, DataInv, RowsFit, RobotsFit, PatrolTogether, OldEstopOwnsRows, IsIn
<1>7. CameFar(p)'
  <2>1. startAt'[p] = "estop"
    BY <1>2 DEF StartInv, ProcessTypes
  <2>2. IsCurrent(PatrolTables)'
    BY <1>2 DEF IsCurrent
  <2>3. QED
    BY <2>1, <2>2 DEF CameFar, AfterEstop, AfterSchema, AfterAccess, AfterPose, AfterSafety,
                      AfterPatrol, Migrating, Migrated
<1>8. Harmless
  <2>1. AllThere => \A t \in RobotTables : t \in DOMAIN db'
    BY <1>2, TableNames DEF AllThere
  <2>2. QED
    BY <1>2, <1>4, <2>1 DEF Harmless
<1>9. QED
  BY <1>1, <1>6, <1>7, <1>8, CommitStep

(* Where a table is after the old E-stop tables were moved. *)
LEMMA MovedTables ==
  ASSUME NEW T \in SUBSET (EstopTables \cap DOMAIN db)
  PROVE  LET W == {t \in T : db[t].rows # {}} IN
         /\ DOMAIN Moved(T) = (DOMAIN db \ (T \cup {LegacyName[t] : t \in T}))
                                \cup {LegacyName[t] : t \in W}
         /\ \A t \in W : Moved(T)[LegacyName[t]] = db[t]
         /\ \A n \in DOMAIN db \ (T \cup {LegacyName[t] : t \in T}) : Moved(T)[n] = db[n]
<1> DEFINE W == {t \in T : db[t].rows # {}}
           Names == (DOMAIN db \ (T \cup {LegacyName[t] : t \in T}))
                      \cup {LegacyName[t] : t \in W}
<1>1. Moved(T) = [n \in Names |->
                    IF \E t \in W : LegacyName[t] = n
                      THEN db[CHOOSE t \in W : LegacyName[t] = n]
                      ELSE db[n]]
  BY DEF Moved
<1>2. ASSUME NEW t \in W PROVE Moved(T)[LegacyName[t]] = db[t]
  <2>1. LegacyName[t] \in Names
    OBVIOUS
  <2>2. (CHOOSE u \in W : LegacyName[u] = LegacyName[t]) = t
    BY LegacyNames
  <2>3. QED
    BY <1>1, <2>1, <2>2
<1>3. ASSUME NEW n \in DOMAIN db \ (T \cup {LegacyName[t] : t \in T})
      PROVE  Moved(T)[n] = db[n]
  BY <1>1
<1>4. QED
  BY <1>1, <1>2, <1>3

(* An old E-stop table still owns its rows, so none of them is under the legacy*)
(* name that is wiped out, and they go there together.                       *)
LEMMA MoveEstopCommit ==
  ASSUME StartInv, NEW p \in Processes, At(p, "estop move"),
         NEW T, T = StaleIn(looked[p]), Commit(p, Moved(T), "schema"),
         looked[p] = Look(EstopTables)
  PROVE  StartInv'
<1> DEFINE W == {t \in T : db[t].rows # {}}
           Set == {LegacyName[t] : t \in T}
<1>1. /\ T = {t \in EstopTables \cap DOMAIN db : db[t].columns # Current[t]}
      /\ T # {}
  <2>1. StaleIn(looked[p]) # {}
    BY DEF StartInv, ProcessInv, SawRight, At
  <2>2. EstopTables \subseteq SchemaTables
    BY TableNames
  <2>3. StaleIn(Look(EstopTables)) =
          {t \in EstopTables \cap DOMAIN db : t \in SchemaTables /\ db[t].columns # Current[t]}
    BY <2>2, LookShows
  <2>4. QED
    BY <2>1, <2>2, <2>3
<1>2. db' = Moved(T) /\ written' = written /\ startAt' = [startAt EXCEPT ![p] = "schema"]
  BY DEF Commit, GoOn
<1>3. /\ DOMAIN db' = (DOMAIN db \ (T \cup Set)) \cup {LegacyName[t] : t \in W}
      /\ \A t \in W : db'[LegacyName[t]] = db[t]
      /\ \A n \in DOMAIN db \ (T \cup Set) : db'[n] = db[n]
  BY <1>1, <1>2, MovedTables
<1> HIDE DEF Set
<1>4. Set \cap SchemaTables = {} /\ {LegacyName[t] : t \in W} \subseteq Set
  <2>1. \A t \in T : LegacyName[t] \notin SchemaTables
    BY <1>1, LegacyNames
  <2>2. QED
    BY <2>1 DEF Set
<1>5. /\ SchemaTables \cap DOMAIN db' = (SchemaTables \cap DOMAIN db) \ T
      /\ \A t \in SchemaTables \cap DOMAIN db' : db'[t] = db[t]
  BY <1>3, <1>4
<1>6. \A n \in DOMAIN db' : \E m \in DOMAIN db : db'[n] = db[m]
  BY <1>1, <1>3
<1>7. ~IsCurrent(EstopTables)
  BY <1>1 DEF IsCurrent
<1>8. IsCurrent(EstopTables)' /\ T \subseteq EstopTables
  BY <1>1, <1>5, TableNames DEF IsCurrent
<1>9. RecordsKept'
  <2>1. SUFFICES ASSUME NEW w \in written, w[1] \in SchemaTables
                 PROVE  Kept(w[1], w[2])'
    BY <1>2 DEF RecordsKept
  <2>2. CASE w[1] \in T
    <3>1. IsIn(w[1], w[1], w[2])
      BY <1>1, <2>1, <2>2 DEF StartInv, DataInv, OldEstopOwnsRows
    <3>2. w[1] \in W
      BY <2>2, <3>1 DEF IsIn
    <3>3. LegacyName[w[1]] \in DOMAIN db' /\ db'[LegacyName[w[1]]] = db[w[1]]
      BY <1>3, <3>2
    <3>4. LegacyName[w[1]] \in Places(w[1])
      BY <1>8, <2>2 DEF Places
    <3>5. IsIn(LegacyName[w[1]], w[1], w[2])'
      BY <3>1, <3>3 DEF IsIn
    <3>6. QED
      BY <3>3, <3>4, <3>5 DEF Kept
  <2>3. CASE w[1] \notin T
    <3>1. PICK n \in Places(w[1]) \cap DOMAIN db : IsIn(n, w[1], w[2])
      BY <2>1 DEF StartInv, DataInv, RecordsKept, Kept
    <3>2. n = w[1] \/ (w[1] \in EstopTables /\ n = LegacyName[w[1]])
      BY <3>1 DEF Places
    <3>3. n \notin T \cup Set
      <4>1. CASE n = w[1]
        BY <1>4, <2>1, <2>3, <4>1
      <4>2. CASE w[1] \in EstopTables /\ n = LegacyName[w[1]]
        <5>1. \A t \in T : LegacyName[t] # n
          BY <1>8, <2>3, <4>2, LegacyNames
        <5>2. n \notin T
          BY <1>8, <4>2, LegacyNames, TableNames
        <5>3. QED
          BY <5>1, <5>2 DEF Set
      <4>3. QED
        BY <3>2, <4>1, <4>2
    <3>4. n \in DOMAIN db' /\ db'[n] = db[n]
      BY <1>3, <3>1, <3>3
    <3>5. QED
      BY <3>1, <3>4 DEF Kept, IsIn
  <2>4. QED
    BY <2>2, <2>3
<1>10. DataInv'
  <2>1. (\A t \in DOMAIN db : db[t] \in Tables)' /\ RowsFit'
    BY <1>6 DEF StartInv, DataInv, RowsFit
  <2>2. RobotsFit' /\ PatrolTogether'
    <3>1. /\ \A t \in RobotTables \cap DOMAIN db' : t \in DOMAIN db /\ db'[t] = db[t]
          /\ \A t \in PatrolTables \cap DOMAIN db' : t \in DOMAIN db /\ db'[t] = db[t]
      BY <1>5, TableNames
    <3>2. QED
      BY <3>1 DEF StartInv, DataInv, RobotsFit, PatrolTogether
  <2>3. OldEstopOwnsRows'
    BY <1>8 DEF OldEstopOwnsRows, IsCurrent
  <2>4. QED
    BY <1>9, <2>1, <2>2, <2>3 DEF DataInv
<1>11. CameFar(p)'
  <2>1. startAt'[p] = "schema"
    BY <1>2 DEF StartInv, ProcessTypes
  <2>2. IsCurrent(PatrolTables)
    BY DEF StartInv, ProcessInv, CameFar, At, AfterPatrol, Migrating
  <2>3. IsCurrent(PatrolTables)'
    BY <1>5, <2>2, TableNames DEF IsCurrent
  <2>4. QED
    BY <1>8, <2>1, <2>3 DEF CameFar, AfterEstop, AfterSchema, AfterAccess, AfterPose,
                            AfterSafety, Migrating, Migrated
<1>12. Harmless
  <2>1. AllThere => \A t \in RobotTables : db'[t] = db[t]
    BY <1>5, <1>8, TableNames DEF AllThere
  <2>2. \A t \in PatrolTables \cap DOMAIN db' : t \in DOMAIN db /\ db'[t] = db[t]
    BY <1>5, TableNames
  <2>3. QED
    BY <1>5, <1>7, <2>1, <2>2 DEF Harmless
<1>13. QED
  BY <1>10, <1>11, <1>12, CommitStep

(* The schema adds the missing tables, current and empty.                    *)
LEMMA CreateStep ==
  ASSUME StartInv, NEW p \in Processes, CreateSchema(p)
  PROVE  StartInv'
<1>1. /\ startAt[p] = "schema" /\ startAt' = [startAt EXCEPT ![p] = "access"]
      /\ written' = written
      /\ Commit(p, [t \in DOMAIN db \cup SchemaTables |->
                     IF t \in DOMAIN db THEN db[t] ELSE [columns |-> Current[t], rows |-> {}]],
                "access")
  BY DEF CreateSchema, Commit, GoOn, At
<1>2. /\ DOMAIN db' = DOMAIN db \cup SchemaTables
      /\ \A t \in DOMAIN db : db'[t] = db[t]
      /\ \A t \in SchemaTables \ DOMAIN db : db'[t] = [columns |-> Current[t], rows |-> {}]
  BY <1>1 DEF Commit
<1>3. \A t \in SchemaTables \ DOMAIN db : db'[t].columns = Current[t] /\ db'[t].rows = {}
  BY <1>2
<1>4. AllThere' /\ \A T \in SUBSET SchemaTables : IsCurrent(T) => IsCurrent(T)'
  <2>1. AllThere'
    BY <1>2 DEF AllThere
  <2>2. ASSUME NEW T \in SUBSET SchemaTables, IsCurrent(T), NEW t \in T
        PROVE  db'[t].columns = Current[t]
    BY <1>2, <1>3, <2>2 DEF IsCurrent
  <2>3. QED
    BY <2>1, <2>2 DEF IsCurrent
<1>5. IsCurrent(PatrolTables) /\ IsCurrent(EstopTables)
  BY <1>1 DEF StartInv, ProcessInv, CameFar, AfterPatrol, AfterEstop, Migrating
<1>6. IsCurrent(PatrolTables)' /\ IsCurrent(EstopTables)'
  BY <1>4, <1>5, TableNames
<1>7. Harmless
  <2>1. AllThere => \A t \in RobotTables : db'[t] = db[t]
    BY <1>2, TableNames DEF AllThere
  <2>2. \A t \in SchemaTables :
          db'[t].columns = Current[t] \/ (t \in DOMAIN db /\ db'[t] = db[t])
    BY <1>2, <1>3
  <2>3. QED
    BY <1>4, <2>1, <2>2, TableNames DEF Harmless
<1>8. DataInv'
  <2>1. \A t \in SchemaTables \ DOMAIN db : db'[t] \in Tables
    BY <1>2, CurrentColumns DEF Tables
  <2>2. (\A t \in DOMAIN db : db[t] \in Tables)'
    BY <1>2, <2>1 DEF StartInv, DataInv
  <2>3. RowsFit'
    BY <1>2, <1>3 DEF StartInv, DataInv, RowsFit
  <2>4. RobotsFit'
    BY <1>2, <1>3, CurrentColumns, TableNames DEF StartInv, DataInv, RobotsFit
  <2>5. PatrolTogether'
    BY <1>6 DEF IsCurrent, PatrolTogether
  <2>6. OldEstopOwnsRows'
    BY <1>6 DEF IsCurrent, OldEstopOwnsRows
  <2>7. RecordsKept'
    <3>1. \A t \in SchemaTables \cap DOMAIN db :
            /\ t \in DOMAIN db'
            /\ \A r \in db[t].rows :
                 \E u \in db'[t].rows :
                   u.name = r.name /\ r.values \cap Current[t] \subseteq u.values
      BY <1>2
    <3>2. QED
      BY <1>1, <1>2, <3>1, RowsMoveAlong DEF StartInv, DataInv
  <2>8. QED
    BY <2>2, <2>3, <2>4, <2>5, <2>6, <2>7 DEF DataInv
<1>9. CameFar(p)'
  <2>1. startAt'[p] = "access"
    BY <1>1 DEF StartInv, ProcessTypes
  <2>2. QED
    BY <1>4, <1>6, <2>1 DEF CameFar, AfterAccess, AfterPose, AfterSafety, AfterSchema,
                            AfterEstop, AfterPatrol, Migrating, Migrated
<1>10. QED
  BY <1>1, <1>7, <1>8, <1>9, CommitStep

(***************************************************************************)
(* The migrations from here on change tables in place: every table of the   *)
(* schema stays, a row's values stay where there is a column for them, and  *)
(* columns only change towards the current ones.                            *)
(***************************************************************************)
LEMMA InPlaceStep ==
  ASSUME StartInv, AllThere, written' = written,
         IsCurrent(PatrolTables), IsCurrent(EstopTables),
         NEW Changing \in SUBSET SchemaTables,
         Changing \cap (PatrolTables \cup EstopTables) = {},
         \A n \in DOMAIN db' : n \in DOMAIN db,
         \A n \in DOMAIN db \ ChunkTables : n \in DOMAIN db',
         \A n \in DOMAIN db' \ Changing : db'[n] = db[n],
         \A t \in Changing :
           /\ db'[t] \in Tables
           /\ \A r \in db'[t].rows : r.values \subseteq db'[t].columns
           /\ t \in RobotTables =>
                /\ {"kept"} \subseteq db'[t].columns /\ db'[t].columns \subseteq Current[t]
                /\ db[t].columns \subseteq db'[t].columns
           /\ db[t].columns = Current[t] => db'[t].columns = Current[t]
           /\ \A r \in db[t].rows :
                \E u \in db'[t].rows :
                  u.name = r.name /\ r.values \cap Current[t] \subseteq u.values
  PROVE  /\ DataInv' /\ AllThere' /\ Harmless
         /\ IsCurrent(PatrolTables)' /\ IsCurrent(EstopTables)'
<1>1. AllThere'
  BY TableNames DEF AllThere
<1>2. IsCurrent(PatrolTables)' /\ IsCurrent(EstopTables)'
  BY TableNames DEF IsCurrent
<1>3. (\A t \in DOMAIN db : db[t] \in Tables)' /\ RowsFit'
  BY DEF StartInv, DataInv, RowsFit
<1>4. RobotsFit'
  BY DEF StartInv, DataInv, RobotsFit
<1>5. PatrolTogether' /\ OldEstopOwnsRows'
  BY <1>2 DEF IsCurrent, PatrolTogether, OldEstopOwnsRows
<1>6. RecordsKept'
  <2>1. \A t \in SchemaTables \cap DOMAIN db :
          /\ t \in DOMAIN db'
          /\ \A r \in db[t].rows :
               \E u \in db'[t].rows :
                 u.name = r.name /\ r.values \cap Current[t] \subseteq u.values
    BY TableNames
  <2>2. \A n \in DOMAIN db \ (SchemaTables \cup ChunkTables) :
          n \in DOMAIN db' /\ db'[n] = db[n]
    OBVIOUS
  <2>3. QED
    BY <2>1, <2>2, RowsMoveAlong DEF StartInv, DataInv
<1>7. Harmless
  <2>1. \A t \in SchemaTables : t \in DOMAIN db /\ t \in DOMAIN db'
    BY <1>1 DEF AllThere
  <2>2. \A t \in SchemaTables : db[t].columns = Current[t] => db'[t].columns = Current[t]
    BY <2>1
  <2>3. \A t \in RobotTables : db[t].columns \subseteq db'[t].columns
    BY <2>1, TableNames
  <2>4. \A t \in PatrolTables : db'[t] = db[t]
    BY <2>1, TableNames
  <2>5. QED
    BY <1>1, <2>1, <2>2, <2>3, <2>4, TableNames DEF Harmless
<1>8. QED
  BY <1>1, <1>2, <1>3, <1>4, <1>5, <1>6, <1>7 DEF DataInv

(* A table of the access log is current, with every value there is room for. *)
LEMMA AccessCommit ==
  ASSUME StartInv, NEW p \in Processes, MoveAccess(p), AccessTables \subseteq DOMAIN db
  PROVE  StartInv'
<1>1. /\ startAt[p] = "access move" /\ startAt' = [startAt EXCEPT ![p] = "pose"]
      /\ written' = written
      /\ Commit(p, [t \in DOMAIN db |->
                     IF t \in AccessTables
                       THEN [columns |-> Current[t], rows |-> CopyRows(db[t].rows, Current[t])]
                       ELSE db[t]], "pose")
  BY DEF MoveAccess, Commit, GoOn, At
<1>2. /\ DOMAIN db' = DOMAIN db
      /\ \A n \in DOMAIN db \ AccessTables : db'[n] = db[n]
      /\ \A t \in AccessTables :
           db'[t] = [columns |-> Current[t], rows |-> CopyRows(db[t].rows, Current[t])]
  BY <1>1 DEF Commit
<1>3. AllThere /\ IsCurrent(PatrolTables) /\ IsCurrent(EstopTables)
  BY <1>1 DEF StartInv, ProcessInv, CameFar, AfterPatrol, AfterEstop, AfterSchema, Migrating
<1>4. ASSUME NEW t \in AccessTables
      PROVE  /\ db'[t] \in Tables /\ db'[t].columns = Current[t]
             /\ \A r \in db'[t].rows : r.values \subseteq db'[t].columns
             /\ \A r \in db[t].rows :
                  \E u \in db'[t].rows :
                    u.name = r.name /\ r.values \cap Current[t] \subseteq u.values
  <2> DEFINE R == CopyRows(db[t].rows, Current[t])
  <2>0. db'[t] = [columns |-> Current[t], rows |-> R]
    BY <1>2
  <2>1. /\ db'[t].columns = Current[t] /\ db'[t].rows = R
        /\ R = {[r EXCEPT !.values = @ \cap Current[t]] : r \in db[t].rows}
    BY <2>0 DEF CopyRows
  <2> HIDE DEF R
  <2>2. \A r \in db[t].rows : r \in Rows
    BY DEF StartInv, DataInv, Tables
  <2>3. ASSUME NEW r \in db[t].rows
        PROVE  LET u == [r EXCEPT !.values = @ \cap Current[t]] IN
               u \in Rows /\ u.name = r.name /\ u.values = r.values \cap Current[t]
    BY <2>2 DEF Rows
  <2>4. db'[t] \in Tables
    <3>1. Current[t] \subseteq Columns
      BY CurrentColumns, TableNames
    <3>2. R \subseteq Rows
      BY <2>1, <2>3
    <3>3. QED
      BY <2>0, <3>1, <3>2 DEF Tables
  <2>5. ASSUME NEW v \in db'[t].rows PROVE v.values \subseteq db'[t].columns
    <3>1. PICK r \in db[t].rows : v = [r EXCEPT !.values = @ \cap Current[t]]
      BY <2>1
    <3>2. v.values = r.values \cap Current[t]
      BY <2>3, <3>1
    <3>3. QED
      BY <2>1, <3>2
  <2>6. ASSUME NEW r \in db[t].rows
        PROVE  \E u \in db'[t].rows :
                 u.name = r.name /\ r.values \cap Current[t] \subseteq u.values
    <3> DEFINE u == [r EXCEPT !.values = @ \cap Current[t]]
    <3>1. u \in db'[t].rows
      BY <2>1
    <3>2. u.name = r.name /\ u.values = r.values \cap Current[t]
      BY <2>3
    <3> HIDE DEF u
    <3>3. QED
      BY <3>1, <3>2
  <2>7. QED
    BY <2>1, <2>4, <2>5, <2>6
<1>5. AccessTables \in SUBSET SchemaTables /\ AccessTables \cap RobotTables = {}
      /\ AccessTables \cap (PatrolTables \cup EstopTables) = {}
  BY TableNames
<1>6. DataInv' /\ AllThere' /\ IsCurrent(PatrolTables)' /\ IsCurrent(EstopTables)' /\ Harmless
  <2>1. /\ \A n \in DOMAIN db' : n \in DOMAIN db
        /\ \A n \in DOMAIN db \ ChunkTables : n \in DOMAIN db'
        /\ \A n \in DOMAIN db' \ AccessTables : db'[n] = db[n]
        /\ \A t \in AccessTables : t \notin RobotTables
    BY <1>2, <1>5
  <2>2. QED
    BY <1>1, <1>3, <1>4, <1>5, <2>1, InPlaceStep
<1>7. IsCurrent(AccessTables)'
  BY <1>4 DEF IsCurrent
<1>8. CameFar(p)'
  <2>1. startAt'[p] = "pose"
    BY <1>1 DEF StartInv, ProcessTypes
  <2>2. QED
    BY <1>6, <1>7, <2>1 DEF CameFar, AfterPose, AfterSafety, AfterAccess, AfterSchema,
                            AfterEstop, AfterPatrol, Migrating, Migrated
<1>9. QED
  BY <1>1, <1>6, <1>8, CommitStep

(* Adding columns to a robot table gives its rows their values in them. *)
LEMMA WithColumnsTable ==
  ASSUME StartInv, NEW t \in RobotTables \cap DOMAIN db,
         NEW c \in SUBSET (PoseColumns \cup SafetyColumns)
  PROVE  /\ WithColumns(t, c) \in Tables
         /\ WithColumns(t, c).columns = db[t].columns \cup c
         /\ {"kept"} \subseteq WithColumns(t, c).columns
         /\ WithColumns(t, c).columns \subseteq Current[t]
         /\ \A r \in WithColumns(t, c).rows : r.values \subseteq WithColumns(t, c).columns
         /\ \A r \in db[t].rows :
              \E u \in WithColumns(t, c).rows :
                u.name = r.name /\ r.values \cap Current[t] \subseteq u.values
<1> DEFINE R == {[r EXCEPT !.values = @ \cup c] : r \in db[t].rows}
<1>1. WithColumns(t, c) = [columns |-> db[t].columns \cup c, rows |-> R]
  BY DEF WithColumns
<1>2. db[t] \in Tables /\ \A r \in db[t].rows : r \in Rows /\ r.values \subseteq db[t].columns
  BY DEF StartInv, DataInv, Tables, RowsFit
<1>3. /\ {"kept"} \subseteq db[t].columns /\ db[t].columns \subseteq Current[t]
      /\ c \subseteq Current[t] /\ Current[t] \subseteq Columns
  BY CurrentColumns, TableNames DEF StartInv, DataInv, RobotsFit
<1>4. ASSUME NEW r \in db[t].rows
      PROVE  LET u == [r EXCEPT !.values = @ \cup c] IN
             /\ u \in Rows /\ u.name = r.name /\ u.values = r.values \cup c
  BY <1>2, <1>3 DEF Rows
<1>5. R \subseteq Rows /\ \A r \in R : r.values \subseteq db[t].columns \cup c
  BY <1>2, <1>4
<1>6. ASSUME NEW r \in db[t].rows
      PROVE  \E u \in R : u.name = r.name /\ r.values \cap Current[t] \subseteq u.values
  <2> DEFINE u == [r EXCEPT !.values = @ \cup c]
  <2>1. u \in R
    OBVIOUS
  <2>2. u.name = r.name /\ u.values = r.values \cup c
    BY <1>4
  <2> HIDE DEF u
  <2>3. QED
    BY <2>1, <2>2
<1> HIDE DEF R
<1>7. WithColumns(t, c) \in Tables
  BY <1>1, <1>3, <1>5 DEF Tables
<1>8. QED
  BY <1>1, <1>3, <1>5, <1>6, <1>7

(* A transaction that adds columns to the robot tables, and those only. *)
LEMMA AddStep ==
  ASSUME StartInv, AllThere, IsCurrent(PatrolTables), IsCurrent(EstopTables),
         IsCurrent(AccessTables), written' = written,
         NEW c, \A t \in RobotTables : c[t] \in SUBSET (PoseColumns \cup SafetyColumns),
         DOMAIN db' = DOMAIN db,
         \A n \in DOMAIN db \ RobotTables : db'[n] = db[n],
         \A t \in RobotTables : db'[t] = WithColumns(t, c[t])
  PROVE  /\ DataInv' /\ AllThere'
         /\ IsCurrent(PatrolTables)' /\ IsCurrent(EstopTables)' /\ IsCurrent(AccessTables)'
         /\ \A t \in RobotTables : db'[t].columns = db[t].columns \cup c[t]
         /\ Harmless
<1>1. RobotTables \in SUBSET SchemaTables /\ RobotTables \cap (PatrolTables \cup EstopTables) = {}
      /\ RobotTables \cap AccessTables = {}
  BY TableNames
<1>2. \A t \in RobotTables : t \in RobotTables \cap DOMAIN db
  BY <1>1 DEF AllThere
<1>3. \A t \in RobotTables :
        /\ db'[t] \in Tables
        /\ db'[t].columns = db[t].columns \cup c[t]
        /\ {"kept"} \subseteq db'[t].columns /\ db'[t].columns \subseteq Current[t]
        /\ \A r \in db'[t].rows : r.values \subseteq db'[t].columns
        /\ \A r \in db[t].rows :
             \E u \in db'[t].rows :
               u.name = r.name /\ r.values \cap Current[t] \subseteq u.values
  BY <1>2, WithColumnsTable
<1>4. DataInv' /\ AllThere' /\ IsCurrent(PatrolTables)' /\ IsCurrent(EstopTables)' /\ Harmless
  <2>1. /\ \A n \in DOMAIN db' : n \in DOMAIN db
        /\ \A n \in DOMAIN db \ ChunkTables : n \in DOMAIN db'
        /\ \A n \in DOMAIN db' \ RobotTables : db'[n] = db[n]
    OBVIOUS
  <2>2. \A t \in RobotTables :
          /\ db[t].columns \subseteq db'[t].columns
          /\ db[t].columns = Current[t] => db'[t].columns = Current[t]
    <3>1. ASSUME NEW t \in RobotTables PROVE db[t].columns \subseteq db'[t].columns
      BY <1>3
    <3>2. ASSUME NEW t \in RobotTables, db[t].columns = Current[t]
          PROVE  db'[t].columns = Current[t]
      <4>1. db'[t].columns \subseteq Current[t]
        BY <1>3
      <4>2. QED
        BY <3>1, <3>2, <4>1
    <3>3. QED
      BY <3>1, <3>2
  <2>3. /\ RobotTables \in SUBSET SchemaTables
        /\ RobotTables \cap (PatrolTables \cup EstopTables) = {}
    BY <1>1
  <2>4. \A t \in RobotTables :
          /\ db'[t] \in Tables
          /\ \A r \in db'[t].rows : r.values \subseteq db'[t].columns
          /\ t \in RobotTables =>
               /\ {"kept"} \subseteq db'[t].columns /\ db'[t].columns \subseteq Current[t]
               /\ db[t].columns \subseteq db'[t].columns
          /\ db[t].columns = Current[t] => db'[t].columns = Current[t]
          /\ \A r \in db[t].rows :
               \E u \in db'[t].rows :
                 u.name = r.name /\ r.values \cap Current[t] \subseteq u.values
    BY <1>3, <2>2
  <2>5. QED
    BY <2>1, <2>3, <2>4, InPlaceStep
<1>5. IsCurrent(AccessTables)'
  BY <1>1 DEF IsCurrent
<1>6. QED
  BY <1>3, <1>4, <1>5

(* What was looked at is still there: all the missing pose columns are added. *)
LEMMA AddPoseCommit ==
  ASSUME StartInv, NEW p \in Processes, At(p, "pose add"),
         Commit(p, [t \in DOMAIN db |->
                      IF t \in RobotTables THEN WithColumns(t, PoseColumns \ looked[p][t])
                                           ELSE db[t]], "safety")
  PROVE  StartInv'
<1> DEFINE c == [t \in RobotTables |-> PoseColumns \ looked[p][t]]
<1>1. /\ startAt[p] = "pose add" /\ startAt' = [startAt EXCEPT ![p] = "safety"]
      /\ written' = written
  BY DEF Commit, GoOn, At
<1>2. /\ AllThere /\ IsCurrent(PatrolTables) /\ IsCurrent(EstopTables)
      /\ IsCurrent(AccessTables)
      /\ \A t \in RobotTables : looked[p][t] \subseteq db[t].columns
  BY <1>1 DEF StartInv, ProcessInv, CameFar, SawRight, At, AfterPatrol, AfterEstop, AfterSchema,
              AfterAccess, Migrating
<1>3. /\ DOMAIN db' = DOMAIN db
      /\ \A n \in DOMAIN db \ RobotTables : db'[n] = db[n]
      /\ \A t \in RobotTables : c[t] = PoseColumns \ looked[p][t]
      /\ \A t \in RobotTables : db'[t] = WithColumns(t, c[t])
  <2>1. RobotTables \subseteq DOMAIN db
    BY <1>2, TableNames DEF AllThere
  <2>2. QED
    BY <2>1 DEF Commit
<1> HIDE DEF c
<1>4. \A t \in RobotTables : c[t] \in SUBSET (PoseColumns \cup SafetyColumns)
  BY <1>3
<1>5. /\ DataInv' /\ AllThere'
      /\ IsCurrent(PatrolTables)' /\ IsCurrent(EstopTables)' /\ IsCurrent(AccessTables)'
      /\ \A t \in RobotTables : db'[t].columns = db[t].columns \cup c[t]
      /\ Harmless
  BY <1>1, <1>2, <1>3, <1>4, AddStep
<1>6. PoseThere'
  BY <1>2, <1>3, <1>5 DEF PoseThere
<1>7. CameFar(p)'
  <2>1. startAt'[p] = "safety"
    BY <1>1 DEF StartInv, ProcessTypes
  <2>2. QED
    BY <1>5, <1>6, <2>1 DEF CameFar, AfterSafety, AfterPose, AfterAccess, AfterSchema,
                            AfterEstop, AfterPatrol, Migrating, Migrated
<1>8. QED
  BY <1>5, <1>7, CommitStep

(* With the safety columns a robot table that has the pose columns is current.*)
LEMMA AddSafetyStep ==
  ASSUME StartInv, NEW p \in Processes, AddSafety(p)
  PROVE  StartInv'
<1> DEFINE c == [t \in RobotTables |-> SafetyColumns \ db[t].columns]
<1>1. /\ startAt[p] = "safety" /\ startAt' = [startAt EXCEPT ![p] = "events"]
      /\ written' = written
      /\ Commit(p, [t \in DOMAIN db |->
                     IF t \in RobotTables THEN WithColumns(t, SafetyColumns \ db[t].columns)
                                          ELSE db[t]], "events")
  BY DEF AddSafety, Commit, GoOn, At
<1>2. /\ AllThere /\ IsCurrent(PatrolTables) /\ IsCurrent(EstopTables)
      /\ IsCurrent(AccessTables) /\ PoseThere
  BY <1>1 DEF StartInv, ProcessInv, CameFar, AfterPatrol, AfterEstop, AfterSchema,
              AfterAccess, AfterPose, Migrating
<1>3. /\ DOMAIN db' = DOMAIN db
      /\ \A n \in DOMAIN db \ RobotTables : db'[n] = db[n]
      /\ \A t \in RobotTables : c[t] = SafetyColumns \ db[t].columns
      /\ \A t \in RobotTables : db'[t] = WithColumns(t, c[t])
  <2>1. RobotTables \subseteq DOMAIN db
    BY <1>2, TableNames DEF AllThere
  <2>2. QED
    BY <1>1, <2>1 DEF Commit
<1> HIDE DEF c
<1>4. \A t \in RobotTables : c[t] \in SUBSET (PoseColumns \cup SafetyColumns)
  BY <1>3
<1>5. /\ DataInv' /\ AllThere'
      /\ IsCurrent(PatrolTables)' /\ IsCurrent(EstopTables)' /\ IsCurrent(AccessTables)'
      /\ \A t \in RobotTables : db'[t].columns = db[t].columns \cup c[t]
      /\ Harmless
  BY <1>1, <1>2, <1>3, <1>4, AddStep
<1>6. PoseThere' /\ IsCurrent(RobotTables)'
  <2>1. ASSUME NEW t \in RobotTables
        PROVE  PoseColumns \subseteq db'[t].columns /\ db'[t].columns = Current[t]
    <3>1. /\ {"kept"} \subseteq db[t].columns /\ db[t].columns \subseteq Current[t]
          /\ PoseColumns \subseteq db[t].columns
          /\ Current[t] = {"kept"} \cup PoseColumns \cup SafetyColumns
      BY <1>2, CurrentColumns, TableNames
      DEF StartInv, DataInv, RobotsFit, AllThere, PoseThere
    <3>2. db'[t].columns = db[t].columns \cup (SafetyColumns \ db[t].columns)
      BY <1>3, <1>5
    <3>3. QED
      BY <3>1, <3>2
  <2>2. QED
    BY <2>1 DEF PoseThere, IsCurrent
<1>7. CameFar(p)'
  <2>1. startAt'[p] = "events"
    BY <1>1 DEF StartInv, ProcessTypes
  <2>2. QED
    BY <1>5, <1>6, <2>1 DEF CameFar, Migrating, Migrated
<1>8. QED
  BY <1>1, <1>5, <1>7, CommitStep

(* The columns an old table of events had are copied, all that its rows have. *)
LEMMA RebuiltTable ==
  ASSUME StartInv, NEW t \in SchemaTables \cap DOMAIN db
  PROVE  LET new == Rebuilt(t, db[t].columns) IN
         /\ new \in Tables /\ new.columns = Current[t]
         /\ \A r \in new.rows : r.values \subseteq new.columns
         /\ \A r \in db[t].rows :
              \E u \in new.rows : u.name = r.name /\ r.values \cap Current[t] \subseteq u.values
<1> DEFINE c == Current[t] \cap db[t].columns
           R == CopyRows(db[t].rows, c)
           new == Rebuilt(t, db[t].columns)
<1>1. new = [columns |-> Current[t], rows |-> R]
  BY DEF Rebuilt
<1>2. R = {[r EXCEPT !.values = @ \cap c] : r \in db[t].rows}
  BY DEF CopyRows
<1>3. \A r \in db[t].rows : r \in Rows /\ r.values \subseteq db[t].columns
  BY DEF StartInv, DataInv, Tables, RowsFit
<1>4. c \subseteq Current[t] /\ Current[t] \subseteq Columns
      /\ \A r \in db[t].rows : r.values \cap Current[t] \subseteq c
  BY <1>3, CurrentColumns
<1> HIDE DEF c, R, new
<1>5. ASSUME NEW r \in db[t].rows
      PROVE  LET u == [r EXCEPT !.values = @ \cap c] IN
             /\ u \in Rows /\ u.name = r.name /\ u.values = r.values \cap c
  BY <1>3 DEF Rows
<1>6. ASSUME NEW v \in R PROVE v \in Rows /\ v.values \subseteq Current[t]
  <2>1. PICK r \in db[t].rows : v = [r EXCEPT !.values = @ \cap c]
    BY <1>2
  <2>2. v \in Rows /\ v.values = r.values \cap c
    BY <1>5, <2>1
  <2>3. QED
    BY <1>4, <2>2
<1>7. ASSUME NEW r \in db[t].rows
      PROVE  \E u \in R : u.name = r.name /\ r.values \cap Current[t] \subseteq u.values
  <2> DEFINE u == [r EXCEPT !.values = @ \cap c]
  <2>1. u \in R
    BY <1>2
  <2>2. u.name = r.name /\ u.values = r.values \cap c
    BY <1>5
  <2> HIDE DEF u
  <2>3. r.values \cap Current[t] \subseteq u.values
    BY <1>4, <2>2
  <2>4. QED
    BY <2>1, <2>2, <2>3
<1>8. new \in Tables
  BY <1>1, <1>4, <1>6 DEF Tables
<1>9. QED
  BY <1>1, <1>6, <1>7, <1>8 DEF new

(* The tables of events are made anew with every value there is a column for,*)
(* and those of the chunks go.                                               *)
LEMMA RebuildCommit ==
  ASSUME StartInv, NEW p \in Processes, At(p, "events rebuild"),
         NEW seen, seen = looked[p], seen = Look(EventTables \cup ChunkTables),
         Commit(p, [t \in DOMAIN Without(ChunkTables \cap DOMAIN seen) |->
                      IF t \in StaleIn(seen) THEN Rebuilt(t, seen[t]) ELSE db[t]], "key")
  PROVE  StartInv'
<1> DEFINE T == EventTables \cup ChunkTables
           S == {t \in EventTables : db[t].columns # Current[t]}
<1>1. /\ startAt[p] = "events rebuild" /\ startAt' = [startAt EXCEPT ![p] = "key"]
      /\ written' = written
  BY DEF Commit, GoOn, At
<1>2. /\ AllThere /\ IsCurrent(PatrolTables) /\ IsCurrent(EstopTables)
      /\ IsCurrent(AccessTables) /\ IsCurrent(RobotTables) /\ seen = Look(T)
  BY <1>1 DEF StartInv, ProcessInv, CameFar, SawRight, At, AfterPatrol, AfterEstop, AfterSchema,
              AfterAccess, AfterPose, AfterSafety, Migrating
<1>3. EventTables \subseteq SchemaTables /\ EventTables \subseteq DOMAIN db
      /\ T \in SUBSET (SchemaTables \cup ChunkTables)
      /\ ChunkTables \cap SchemaTables = {}
  BY <1>2, TableNames DEF AllThere
<1>4. /\ DOMAIN seen = T \cap DOMAIN db
      /\ \A t \in T \cap DOMAIN db : seen[t] = db[t].columns
      /\ StaleIn(seen) =
            {t \in T \cap DOMAIN db : t \in SchemaTables /\ db[t].columns # Current[t]}
  <2> HIDE DEF T
  <2>1. /\ DOMAIN Look(T) = T \cap DOMAIN db
        /\ \A t \in T \cap DOMAIN db : Look(T)[t] = db[t].columns
        /\ StaleIn(Look(T)) =
             {t \in T \cap DOMAIN db : t \in SchemaTables /\ db[t].columns # Current[t]}
    BY <1>3, LookShows
  <2>2. QED
    BY <1>2, <2>1
<1>5. StaleIn(seen) = S /\ ChunkTables \cap DOMAIN seen = ChunkTables \cap DOMAIN db
  BY <1>3, <1>4
<1>6. /\ DOMAIN db' = DOMAIN db \ ChunkTables
      /\ \A n \in DOMAIN db' \ S : db'[n] = db[n]
      /\ \A t \in S : db'[t] = Rebuilt(t, db[t].columns)
  <2>1. /\ DOMAIN Without(ChunkTables \cap DOMAIN seen) = DOMAIN db \ ChunkTables
    BY <1>5 DEF Without, Restrict
  <2>2. db' = [t \in DOMAIN db \ ChunkTables |->
                 IF t \in S THEN Rebuilt(t, seen[t]) ELSE db[t]]
    BY <1>5, <2>1 DEF Commit
  <2>3. \A t \in S : t \in DOMAIN db \ ChunkTables /\ seen[t] = db[t].columns
    BY <1>3, <1>4
  <2>4. QED
    BY <2>2, <2>3
<1>7. S \in SUBSET SchemaTables /\ S \cap (PatrolTables \cup EstopTables) = {}
      /\ S \cap RobotTables = {} /\ S \cap AccessTables = {}
  BY TableNames
<1>8. \A t \in S :
        /\ db'[t] \in Tables /\ db'[t].columns = Current[t]
        /\ \A r \in db'[t].rows : r.values \subseteq db'[t].columns
        /\ \A r \in db[t].rows :
             \E u \in db'[t].rows :
               u.name = r.name /\ r.values \cap Current[t] \subseteq u.values
  <2>1. \A t \in S : t \in SchemaTables \cap DOMAIN db
    BY <1>3
  <2>2. QED
    BY <1>6, <2>1, RebuiltTable
<1>9. DataInv' /\ AllThere' /\ IsCurrent(PatrolTables)' /\ IsCurrent(EstopTables)' /\ Harmless
  <2>1. /\ \A n \in DOMAIN db' : n \in DOMAIN db
        /\ \A n \in DOMAIN db \ ChunkTables : n \in DOMAIN db'
        /\ \A t \in S : t \notin RobotTables
    BY <1>6, <1>7
  <2> HIDE DEF S
  <2>2. QED
    BY <1>1, <1>2, <1>6, <1>7, <1>8, <2>1, InPlaceStep
<1>10. IsCurrent(SchemaTables)'
  <2>1. SUFFICES ASSUME NEW t \in SchemaTables, t \in DOMAIN db'
                 PROVE  db'[t].columns = Current[t]
    BY DEF IsCurrent
  <2>2. CASE t \in S
    BY <1>8, <2>2
  <2>3. CASE t \notin S
    <3>1. t \in DOMAIN db /\ db'[t] = db[t]
      BY <1>6, <2>1, <2>3
    <3>2. CASE t \in EventTables
      BY <2>3, <3>1, <3>2
    <3>3. CASE t \notin EventTables
      BY <1>2, <2>1, <3>1, <3>3, TableNames DEF IsCurrent
    <3>4. QED
      BY <3>2, <3>3
  <2>4. QED
    BY <2>2, <2>3
<1>11. DbCurrent'
  BY <1>9, <1>10 DEF DbCurrent
<1>12. CameFar(p)'
  <2>1. startAt'[p] = "key"
    BY <1>1 DEF StartInv, ProcessTypes
  <2>2. QED
    BY <1>11, <2>1 DEF CameFar, AfterSafety, AfterPose, AfterAccess, AfterSchema,
                       AfterEstop, AfterPatrol, Migrating
<1>13. QED
  BY <1>9, <1>12, CommitStep

--------------------------------------------------------------------------------
(* The steps that leave the tables alone. *)

(* A process that ends is nowhere, and owes nothing. *)
LEMMA EndStep ==
  ASSUME StartInv, NEW p \in Processes, EndProcess(p)
  PROVE  StartInv'
<1>1. /\ startAt' = [startAt EXCEPT ![p] = "down"] /\ db' = db /\ written' = written
      /\ looked' = looked /\ keyFile' = keyFile
      /\ heldKey' = [heldKey EXCEPT ![p] = NoKey]
  BY DEF EndProcess
<1>2. "down" \in StartSteps /\ "down" \notin Migrating
  BY DEF StartSteps, Migrating
<1>3. ProcessTypes' /\ startAt'[p] = "down"
  BY <1>1, <1>2 DEF StartInv, ProcessTypes
<1>4. SawRight(p)' /\ CameFar(p)'
  BY <1>3 DEF SawRight, CameFar, At, AfterPatrol, AfterEstop, AfterSchema, AfterAccess, AfterPose,
              AfterSafety, Migrating, Migrated
<1>5. QED
  BY <1>1, <1>2, <1>3, <1>4, QuietStep

(* A step of a process that looks, counts or reads, from a place in the      *)
(* migrations or at their end.                                               *)
LEMMA ReadStep ==
  ASSUME StartInv, NEW p \in Processes, NEW s \in StartSteps,
         startAt' = [startAt EXCEPT ![p] = s],
         db' = db, written' = written, DOMAIN looked' = Processes,
         \A q \in Processes \ {p} : looked'[q] = looked[q],
         keyFile' \in Processes \cup {NoKey},
         heldKey' \in [Processes -> Processes \cup {NoKey}],
         startAt'[p] = s => SawRight(p)' /\ CameFar(p)'
  PROVE  StartInv'
<1>1. ProcessTypes' /\ startAt'[p] = s
  BY DEF StartInv, ProcessTypes
<1>2. QED
  BY <1>1, QuietStep

(* A look keeps the invariant if what is seen is so.                         *)
LEMMA LookStep ==
  ASSUME StartInv, NEW p \in Processes, startAt[p] \in Migrating,
         NEW T, NEW s \in Migrating \cup {"key"},
         looked' = [looked EXCEPT ![p] = Look(T)],
         startAt' = [startAt EXCEPT ![p] = s],
         UNCHANGED <<db, keyFile, heldKey, written>>,
         startAt'[p] = s /\ looked'[p] = Look(T)' => SawRight(p)' /\ CameFar(p)'
  PROVE  StartInv'
<1>1. /\ DOMAIN looked' = Processes /\ looked'[p] = Look(T) /\ Look(T)' = Look(T)
      /\ \A q \in Processes \ {p} : looked'[q] = looked[q]
  BY DEF StartInv, ProcessTypes, Look
<1>2. s \in StartSteps
  BY DEF StartSteps
<1>3. /\ keyFile' \in Processes \cup {NoKey}
      /\ heldKey' \in [Processes -> Processes \cup {NoKey}]
  BY DEF StartInv, ProcessTypes
<1>4. QED
  BY <1>1, <1>2, <1>3, ReadStep

(* Where nothing is written, what was current is. *)
LEMMA SameTables ==
  ASSUME db' = db
  PROVE  /\ \A T : IsCurrent(T)' = IsCurrent(T)
         /\ AllThere' = AllThere /\ PoseThere' = PoseThere /\ DbCurrent' = DbCurrent
BY DEF IsCurrent, AllThere, PoseThere, DbCurrent

(* What a look at the patrol tables tells.                                   *)
LEMMA LookAtPatrolStep ==
  ASSUME StartInv, NEW p \in Processes, LookAtPatrol(p)
  PROVE  StartInv'
<1> DEFINE s == IF StaleIn(Look(PatrolTables)) # {} THEN "patrol count" ELSE "estop"
<1>1. /\ startAt[p] \in Migrating
      /\ looked' = [looked EXCEPT ![p] = Look(PatrolTables)]
      /\ startAt' = [startAt EXCEPT ![p] = s]
      /\ UNCHANGED <<db, keyFile, heldKey, written>>
  BY DEF LookAtPatrol, LookAt, GoOn, At, Migrating
<1>2. s \in Migrating \cup {"key"}
  BY DEF Migrating
<1>3. ASSUME startAt'[p] = s, looked'[p] = Look(PatrolTables)'
      PROVE  SawRight(p)' /\ CameFar(p)'
  <2>1. Look(PatrolTables)' = Look(PatrolTables) /\ IsCurrent(PatrolTables)' = IsCurrent(PatrolTables)
    BY <1>1, SameTables DEF Look
  <2>2. CASE StaleIn(Look(PatrolTables)) # {}
    <3>1. startAt'[p] = "patrol count"
      BY <1>3, <2>2
    <3>2. StaleIn(looked[p])' = StaleIn(Look(PatrolTables))
      BY <1>3, <2>1 DEF StaleIn
    <3>3. SawRight(p)'
      BY <2>2, <3>1, <3>2 DEF SawRight, At
    <3>4. CameFar(p)'
      BY <3>1 DEF CameFar, AfterPatrol, AfterEstop, AfterSchema, AfterAccess, AfterPose,
                  AfterSafety, Migrating, Migrated
    <3>5. QED
      BY <3>3, <3>4
  <2>3. CASE StaleIn(Look(PatrolTables)) = {}
    <3>1. startAt'[p] = "estop"
      BY <1>3, <2>3
    <3>2. IsCurrent(PatrolTables)'
      BY <2>1, <2>3, NothingStale, TableNames
    <3>3. SawRight(p)'
      BY <3>1 DEF SawRight, At
    <3>4. CameFar(p)'
      BY <3>1, <3>2 DEF CameFar, AfterEstop, AfterPatrol, AfterSchema, AfterAccess, AfterPose,
                        AfterSafety, Migrating, Migrated
    <3>5. QED
      BY <3>3, <3>4
  <2>4. QED
    BY <2>2, <2>3
<1> HIDE DEF s
<1>4. QED
  BY <1>1, <1>2, <1>3, LookStep

(* Only empty tables are dropped; the others end the start.                  *)
LEMMA CountStep ==
  ASSUME StartInv, NEW p \in Processes, CountPatrolRows(p)
  PROVE  StartInv'
<1>1. CASE EndProcess(p)
  BY <1>1, EndStep
<1>2. CASE /\ \A t \in StaleIn(looked[p]) : t \in DOMAIN db /\ db[t].rows = {}
           /\ GoOn(p, "patrol drop")
           /\ UNCHANGED <<db, keyFile, looked, heldKey, written>>
  <2>1. /\ startAt[p] = "patrol count" /\ startAt' = [startAt EXCEPT ![p] = "patrol drop"]
        /\ StaleIn(looked[p]) # {}
    BY <1>2 DEF CountPatrolRows, GoOn, At, StartInv, ProcessInv, SawRight
  <2>4. ASSUME startAt'[p] = "patrol drop" PROVE SawRight(p)' /\ CameFar(p)'
    <3>1. /\ StaleIn(looked[p])' = StaleIn(looked[p])
          /\ \A t \in StaleIn(looked[p]) : db'[t].rows = {}
      BY <1>2 DEF StaleIn
    <3>2. SawRight(p)'
      BY <2>1, <2>4, <3>1 DEF SawRight, At
    <3>3. CameFar(p)'
      BY <2>4 DEF CameFar, AfterPatrol, AfterEstop, AfterSchema, AfterAccess, AfterPose,
                  AfterSafety, Migrating, Migrated
    <3>4. QED
      BY <3>2, <3>3
  <2>5. "patrol drop" \in StartSteps /\ startAt[p] \in Migrating
    BY <2>1 DEF StartSteps, Migrating
  <2>6. /\ DOMAIN looked' = Processes /\ keyFile' \in Processes \cup {NoKey}
        /\ heldKey' \in [Processes -> Processes \cup {NoKey}]
        /\ looked' = looked /\ db' = db /\ written' = written
    BY <1>2 DEF StartInv, ProcessTypes
  <2>7. QED
    BY <2>1, <2>4, <2>5, <2>6, ReadStep
<1>3. QED
  BY <1>1, <1>2 DEF CountPatrolRows

(* What a look at the E-stop tables tells.                                   *)
LEMMA LookAtEstopStep ==
  ASSUME StartInv, NEW p \in Processes, LookAtEstop(p)
  PROVE  StartInv'
<1> DEFINE s == IF StaleIn(Look(EstopTables)) # {} THEN "estop move" ELSE "schema"
<1>1. /\ startAt[p] \in Migrating
      /\ looked' = [looked EXCEPT ![p] = Look(EstopTables)]
      /\ startAt' = [startAt EXCEPT ![p] = s]
      /\ UNCHANGED <<db, keyFile, heldKey, written>>
  BY DEF LookAtEstop, LookAt, GoOn, At, Migrating
<1>2. s \in Migrating \cup {"key"}
  BY DEF Migrating
<1>3. IsCurrent(PatrolTables)
  BY DEF LookAtEstop, At, StartInv, ProcessInv, CameFar, AfterPatrol, Migrating
<1>4. ASSUME startAt'[p] = s, looked'[p] = Look(EstopTables)'
      PROVE  SawRight(p)' /\ CameFar(p)'
  <2>1. /\ Look(EstopTables)' = Look(EstopTables) /\ IsCurrent(PatrolTables)'
        /\ IsCurrent(EstopTables)' = IsCurrent(EstopTables)
    BY <1>1, <1>3, SameTables DEF Look
  <2>2. CASE StaleIn(Look(EstopTables)) # {}
    <3>1. startAt'[p] = "estop move"
      BY <1>4, <2>2
    <3>2. StaleIn(looked[p])' = StaleIn(Look(EstopTables))
      BY <1>4, <2>1 DEF StaleIn
    <3>3. SawRight(p)'
      BY <2>2, <3>1, <3>2 DEF SawRight, At
    <3>4. CameFar(p)'
      BY <2>1, <3>1 DEF CameFar, AfterPatrol, AfterEstop, AfterSchema, AfterAccess, AfterPose,
                        AfterSafety, Migrating, Migrated
    <3>5. QED
      BY <3>3, <3>4
  <2>3. CASE StaleIn(Look(EstopTables)) = {}
    <3>1. startAt'[p] = "schema"
      BY <1>4, <2>3
    <3>2. IsCurrent(EstopTables)'
      BY <2>1, <2>3, NothingStale, TableNames
    <3>3. SawRight(p)'
      BY <3>1 DEF SawRight, At
    <3>4. CameFar(p)'
      BY <2>1, <3>1, <3>2 DEF CameFar, AfterEstop, AfterPatrol, AfterSchema, AfterAccess,
                              AfterPose, AfterSafety, Migrating, Migrated
    <3>5. QED
      BY <3>3, <3>4
  <2>4. QED
    BY <2>2, <2>3
<1> HIDE DEF s
<1>5. QED
  BY <1>1, <1>2, <1>4, LookStep

(* What a look at the access log tells.                                      *)
LEMMA LookAtAccessStep ==
  ASSUME StartInv, NEW p \in Processes, LookAtAccess(p)
  PROVE  StartInv'
<1> DEFINE s == IF StaleIn(Look(AccessTables)) # {} THEN "access move" ELSE "pose"
<1>1. /\ startAt[p] \in Migrating
      /\ looked' = [looked EXCEPT ![p] = Look(AccessTables)]
      /\ startAt' = [startAt EXCEPT ![p] = s]
      /\ UNCHANGED <<db, keyFile, heldKey, written>>
  BY DEF LookAtAccess, LookAt, GoOn, At, Migrating
<1>2. s \in Migrating \cup {"key"}
  BY DEF Migrating
<1>3. IsCurrent(PatrolTables) /\ IsCurrent(EstopTables) /\ AllThere
  BY DEF LookAtAccess, At, StartInv, ProcessInv, CameFar, AfterPatrol, AfterEstop, AfterSchema,
         Migrating
<1>4. ASSUME startAt'[p] = s PROVE SawRight(p)' /\ CameFar(p)'
  <2>1. /\ IsCurrent(PatrolTables)' /\ IsCurrent(EstopTables)' /\ AllThere'
        /\ IsCurrent(AccessTables)' = IsCurrent(AccessTables)
    BY <1>1, <1>3, SameTables
  <2>2. s = "pose" => IsCurrent(AccessTables)'
    BY <2>1, NothingStale, TableNames
  <2>3. s \in {"access move", "pose"}
    OBVIOUS
  <2> HIDE DEF s
  <2>4. SawRight(p)'
    BY <1>4, <2>3 DEF SawRight, At
  <2>5. CameFar(p)'
    BY <1>4, <2>1, <2>2, <2>3 DEF CameFar, AfterEstop, AfterPatrol, AfterSchema, AfterAccess,
                                  AfterPose, AfterSafety, Migrating, Migrated
  <2>6. QED
    BY <2>4, <2>5
<1> HIDE DEF s
<1>5. QED
  BY <1>1, <1>2, <1>4, LookStep

(* What a look at the pose columns tells.                                    *)
LEMMA LookAtPoseStep ==
  ASSUME StartInv, NEW p \in Processes, LookAtPose(p)
  PROVE  StartInv'
<1> DEFINE seen == Look(RobotTables)
           s == IF \A t \in DOMAIN seen : PoseColumns \subseteq seen[t] THEN "safety" ELSE "pose add"
<1>1. /\ startAt[p] = "pose" /\ startAt[p] \in Migrating
      /\ looked' = [looked EXCEPT ![p] = Look(RobotTables)]
      /\ startAt' = [startAt EXCEPT ![p] = s]
      /\ UNCHANGED <<db, keyFile, heldKey, written>>
  BY DEF LookAtPose, GoOn, At, Migrating
<1>2. s \in Migrating \cup {"key"}
  BY DEF Migrating
<1>3. /\ IsCurrent(PatrolTables) /\ IsCurrent(EstopTables) /\ AllThere
      /\ IsCurrent(AccessTables)
  BY <1>1 DEF StartInv, ProcessInv, CameFar, AfterPatrol, AfterEstop, AfterSchema, AfterAccess,
              Migrating
<1>4. /\ \A t \in RobotTables : seen[t] = db[t].columns
      /\ s = "safety" => PoseThere
  <2>1. RobotTables \subseteq SchemaTables /\ RobotTables \subseteq DOMAIN db
    BY <1>3, TableNames DEF AllThere
  <2>2. DOMAIN seen = RobotTables /\ \A t \in RobotTables : seen[t] = db[t].columns
    BY <2>1, LookShows
  <2> HIDE DEF seen
  <2>3. QED
    BY <2>2 DEF PoseThere
<1>5. ASSUME startAt'[p] = s, looked'[p] = Look(RobotTables)'
      PROVE  SawRight(p)' /\ CameFar(p)'
  <2>1. /\ IsCurrent(PatrolTables)' /\ IsCurrent(EstopTables)' /\ AllThere'
        /\ IsCurrent(AccessTables)' /\ PoseThere' = PoseThere
    BY <1>1, <1>3, SameTables
  <2>2. s \in {"safety", "pose add"}
    OBVIOUS
  <2> HIDE DEF s
  <2>3. \A t \in RobotTables : looked'[p][t] \subseteq db'[t].columns
    <3>1. looked'[p] = seen /\ db' = db
      BY <1>1, <1>5 DEF Look
    <3> HIDE DEF seen
    <3>2. QED
      BY <1>4, <3>1
  <2>4. SawRight(p)'
    BY <1>5, <2>2, <2>3 DEF SawRight, At
  <2>5. CameFar(p)'
    BY <1>4, <1>5, <2>1, <2>2 DEF CameFar, AfterEstop, AfterPatrol, AfterSchema, AfterAccess,
                                  AfterPose, AfterSafety, Migrating, Migrated
  <2>6. QED
    BY <2>4, <2>5
<1> HIDE DEF s, seen
<1>6. QED
  BY <1>1, <1>2, <1>5, LookStep

(* After the last look every table is current, or the events are made anew.  *)
LEMMA LookAtEventsStep ==
  ASSUME StartInv, NEW p \in Processes, LookAtEvents(p)
  PROVE  StartInv'
<1> DEFINE T == EventTables \cup ChunkTables
           s == IF StaleIn(Look(T)) # {} \/ DOMAIN Look(T) \cap ChunkTables # {}
                  THEN "events rebuild" ELSE "key"
<1>1. /\ startAt[p] = "events" /\ startAt[p] \in Migrating
      /\ looked' = [looked EXCEPT ![p] = Look(T)]
      /\ startAt' = [startAt EXCEPT ![p] = s]
      /\ UNCHANGED <<db, keyFile, heldKey, written>>
  BY DEF LookAtEvents, GoOn, At, Migrating
<1>2. s \in Migrating \cup {"key"}
  BY DEF Migrating
<1>3. /\ IsCurrent(PatrolTables) /\ IsCurrent(EstopTables) /\ AllThere
      /\ IsCurrent(AccessTables) /\ PoseThere /\ IsCurrent(RobotTables)
  BY <1>1 DEF StartInv, ProcessInv, CameFar, AfterPatrol, AfterEstop, AfterSchema, AfterAccess,
              AfterPose, AfterSafety, Migrating
<1>4. s = "key" => DbCurrent
  <2>1. T \in SUBSET (SchemaTables \cup ChunkTables) /\ EventTables \subseteq SchemaTables
    BY TableNames
  <2>2. SUFFICES ASSUME StaleIn(Look(T)) = {} PROVE DbCurrent
    OBVIOUS
  <2> HIDE DEF T
  <2>3. StaleIn(Look(T)) =
          {t \in T \cap DOMAIN db : t \in SchemaTables /\ db[t].columns # Current[t]}
    BY <2>1, LookShows
  <2>4. IsCurrent(EventTables)
    BY <2>1, <2>2, <2>3 DEF IsCurrent, T
  <2>5. QED
    BY <1>3, <2>4, TableNames DEF DbCurrent, IsCurrent
<1>5. ASSUME startAt'[p] = s, looked'[p] = Look(T)'
      PROVE  SawRight(p)' /\ CameFar(p)'
  <2>1. /\ IsCurrent(PatrolTables)' /\ IsCurrent(EstopTables)' /\ AllThere'
        /\ IsCurrent(AccessTables)' /\ PoseThere' /\ IsCurrent(RobotTables)'
        /\ DbCurrent' = DbCurrent
    BY <1>1, <1>3, SameTables
  <2>2. s \in {"events rebuild", "key"}
    OBVIOUS
  <2> HIDE DEF s
  <2>3. SawRight(p)'
    BY <1>5, <2>2 DEF SawRight, At
  <2>4. CameFar(p)'
    BY <1>4, <1>5, <2>1, <2>2 DEF CameFar, AfterEstop, AfterPatrol, AfterSchema, AfterAccess,
                                  AfterPose, AfterSafety, Migrating, Migrated
  <2>5. QED
    BY <2>3, <2>4
<1> HIDE DEF s, T
<1>6. QED
  BY <1>1, <1>2, <1>5, LookStep

(* A process may start at any time. *)
LEMMA StartStep ==
  ASSUME StartInv, NEW p \in Processes, StartProcess(p)
  PROVE  StartInv'
<1>1. /\ startAt' = [startAt EXCEPT ![p] = "patrol"]
      /\ UNCHANGED <<db, keyFile, looked, heldKey, written>>
  BY DEF StartProcess, GoOn
<1>2. "patrol" \in StartSteps
  BY DEF StartSteps, Migrating
<1>3. ASSUME startAt'[p] = "patrol" PROVE SawRight(p)' /\ CameFar(p)'
  <2>1. SawRight(p)'
    BY <1>3 DEF SawRight, At
  <2>2. CameFar(p)'
    BY <1>3 DEF CameFar, AfterEstop, AfterPatrol, AfterSchema, AfterAccess, AfterPose,
                AfterSafety, Migrated
  <2>3. QED
    BY <2>1, <2>2
<1>4. /\ DOMAIN looked' = Processes /\ keyFile' \in Processes \cup {NoKey}
      /\ heldKey' \in [Processes -> Processes \cup {NoKey}]
  BY <1>1 DEF StartInv, ProcessTypes
<1>5. QED
  BY <1>1, <1>2, <1>3, <1>4, ReadStep

(* The key is looked for, made and read after the migrations. *)
LEMMA KeySteps ==
  ASSUME StartInv, NEW p \in Processes, LookForKey(p) \/ LinkKey(p) \/ ReadKey(p)
  PROVE  StartInv'
<1>1. PICK s \in Migrated : startAt' = [startAt EXCEPT ![p] = s]
  BY DEF LookForKey, LinkKey, ReadKey, GoOn, Migrated
<1>2. startAt[p] \in Migrated /\ db' = db /\ written' = written /\ looked' = looked
  BY DEF LookForKey, LinkKey, ReadKey, At, Migrated
<1>3. DbCurrent
  BY <1>2 DEF StartInv, ProcessInv, CameFar
<1>4. s \in StartSteps /\ s \notin Migrating
  BY DEF Migrated, StartSteps, Migrating
<1>5. ASSUME startAt'[p] = s PROVE SawRight(p)' /\ CameFar(p)'
  <2>1. SawRight(p)'
    BY <1>5 DEF SawRight, At, Migrated
  <2>2. DbCurrent'
    BY <1>2, <1>3, SameTables
  <2>3. CameFar(p)'
    BY <1>4, <1>5, <2>2 DEF CameFar, AfterEstop, AfterPatrol, AfterSchema, AfterAccess, AfterPose,
                            AfterSafety
  <2>4. QED
    BY <2>1, <2>3
<1>6. /\ DOMAIN looked' = Processes /\ keyFile' \in Processes \cup {NoKey}
      /\ heldKey' \in [Processes -> Processes \cup {NoKey}]
  <2>1. /\ DOMAIN looked = Processes /\ keyFile \in Processes \cup {NoKey}
        /\ heldKey \in [Processes -> Processes \cup {NoKey}]
    BY DEF StartInv, ProcessTypes
  <2>2. keyFile' \in {keyFile, p} /\ heldKey' \in {heldKey, [heldKey EXCEPT ![p] = keyFile]}
    BY DEF LookForKey, LinkKey, ReadKey
  <2>3. QED
    BY <1>2, <2>1, <2>2
<1>7. QED
  BY <1>1, <1>2, <1>4, <1>5, <1>6, ReadStep

(* A row that is stored fits its table, and while a process serves nobody    *)
(* is about to drop or to move that table.                                   *)
LEMMA StoreStep ==
  ASSUME StartInv, NEW p \in Processes, NEW t \in {"events", "estop_history", "patrol_runs"},
         NEW n \in NewRows, StoreRow(p, t, n)
  PROVE  StartInv'
<1> DEFINE row == [name |-> n, values |-> Current[t]]
<1>1. /\ startAt[p] = "serving" /\ t \in DOMAIN db
      /\ db' = [db EXCEPT ![t].rows = @ \cup {row}]
      /\ written' = written \cup {<<t, row>>}
      /\ UNCHANGED <<keyFile, startAt, looked, heldKey>>
  BY DEF StoreRow, At
<1>2. DbCurrent
  BY <1>1 DEF StartInv, ProcessInv, CameFar, Migrated
<1>3. t \in SchemaTables
  BY DEF SchemaTables, EventTables, EstopTables, PatrolTables
<1>4. db[t].columns = Current[t] /\ db[t] \in Tables /\ Current[t] \subseteq Columns
  BY <1>1, <1>2, <1>3, CurrentColumns DEF DbCurrent, IsCurrent, StartInv, DataInv
<1>5. row \in Rows /\ row.name = n /\ row.values = Current[t]
  BY <1>4 DEF Rows
<1> HIDE DEF row
<1>6. /\ DOMAIN db' = DOMAIN db
      /\ \A m \in DOMAIN db \ {t} : db'[m] = db[m]
      /\ db'[t].columns = db[t].columns /\ db'[t].rows = db[t].rows \cup {row}
      /\ db'[t] \in Tables
  BY <1>1, <1>4, <1>5 DEF Tables
<1>7. \A m \in DOMAIN db :
        db'[m].columns = db[m].columns /\ db[m].rows \subseteq db'[m].rows
  BY <1>6
<1>8. /\ \A T : IsCurrent(T)' = IsCurrent(T) /\ Look(T)' = Look(T)
      /\ AllThere' = AllThere /\ DbCurrent'
  <2>1. \A T : IsCurrent(T)' = IsCurrent(T)
    BY <1>6, <1>7 DEF IsCurrent
  <2>2. \A T : Look(T)' = Look(T)
    BY <1>6, <1>7 DEF Look
  <2>3. AllThere' = AllThere
    BY <1>6 DEF AllThere
  <2>4. QED
    BY <1>2, <2>1, <2>2, <2>3 DEF DbCurrent
<1>9. DataInv'
  <2>1. (\A m \in DOMAIN db : db[m] \in Tables)'
    BY <1>6 DEF StartInv, DataInv
  <2>2. RowsFit'
    BY <1>4, <1>5, <1>6, <1>7 DEF StartInv, DataInv, RowsFit
  <2>3. RobotsFit' /\ PatrolTogether'
    BY <1>6, <1>7 DEF StartInv, DataInv, RobotsFit, PatrolTogether
  <2>4. OldEstopOwnsRows'
    BY <1>8, TableNames DEF DbCurrent, IsCurrent, OldEstopOwnsRows
  <2>5. RecordsKept'
    <3>1. SUFFICES ASSUME NEW w \in written', w[1] \in SchemaTables
                   PROVE  Kept(w[1], w[2])'
      BY DEF RecordsKept
    <3>2. CASE w \in written
      <4>1. PICK m \in Places(w[1]) \cap DOMAIN db : IsIn(m, w[1], w[2])
        BY <3>1, <3>2 DEF StartInv, DataInv, RecordsKept, Kept
      <4>2. IsIn(m, w[1], w[2])'
        BY <1>7, <4>1 DEF IsIn
      <4>3. QED
        BY <1>6, <4>1, <4>2 DEF Kept
    <3>3. CASE w = <<t, row>>
      <4>1. w[1] = t /\ w[2] = row
        BY <3>3
      <4>2. IsIn(t, t, row)'
        BY <1>6 DEF IsIn
      <4>3. t \in Places(t) /\ t \in DOMAIN db'
        BY <1>1, <1>6 DEF Places
      <4>4. QED
        BY <4>1, <4>2, <4>3 DEF Kept
    <3>4. QED
      BY <1>1, <3>2, <3>3
  <2>6. QED
    BY <2>1, <2>2, <2>3, <2>4, <2>5 DEF DataInv
<1>10. ASSUME NEW q \in Processes PROVE SawRight(q)' /\ CameFar(q)'
  <2>1. startAt'[q] = startAt[q] /\ looked'[q] = looked[q] /\ SawRight(q) /\ CameFar(q)
    BY <1>1 DEF StartInv, ProcessInv
  <2>2. \A m \in PatrolTables \cap DOMAIN db' : db'[m].columns = Current[m]
    BY <1>8, TableNames DEF DbCurrent, IsCurrent
  <2>3. SawRight(q)'
    <3>1. StaleIn(looked[q])' = StaleIn(looked[q])
      BY <2>1 DEF StaleIn
    <3>2. At(q, "pose add") => \A m \in RobotTables : m \in DOMAIN db
      BY <1>2, TableNames DEF DbCurrent, AllThere
    <3>3. QED
      BY <1>7, <2>1, <2>2, <3>1, <3>2 DEF SawRight, At
  <2>4. PoseThere => PoseThere'
    BY <1>2, <1>7, TableNames DEF PoseThere, DbCurrent, AllThere
  <2>5. CameFar(q)'
    BY <1>8, <2>1, <2>4 DEF CameFar
  <2>6. QED
    BY <2>3, <2>5
<1>11. ProcessTypes'
  BY <1>1 DEF StartInv, ProcessTypes
<1>12. QED
  BY <1>9, <1>10, <1>11 DEF StartInv, ProcessInv

--------------------------------------------------------------------------------
(* Every step of a start, and of a process that serves, keeps the invariant, *)
(* if it does not act on an old look.                                        *)
LEMMA StartInvStep ==
  ASSUME StartInv, [StartNext]_startVars, ~overtaken'
  PROVE  StartInv'
<1>1. ASSUME NEW p \in Processes, Migrate(p) PROVE StartInv'
  <2>1. CASE MoveEstopTables(p)
    <3>1. CASE EndProcess(p)
      BY <3>1, EndStep
    <3>2. CASE CommitAsSeen(p, EstopTables, Moved(StaleIn(looked[p])), "schema")
      <4>1. looked[p] = Look(EstopTables) /\ Commit(p, Moved(StaleIn(looked[p])), "schema")
        BY <3>2, Zenon DEF CommitAsSeen
      <4>2. At(p, "estop move")
        BY <2>1 DEF MoveEstopTables
      <4>3. QED
        BY <4>1, <4>2, MoveEstopCommit
    <3>3. QED
      BY <2>1, <3>1, <3>2 DEF MoveEstopTables
  <2>2. CASE MoveAccess(p)
    BY <2>2, EndStep, AccessCommit DEF MoveAccess
  <2>3. CASE AddPose(p)
    BY <2>3, EndStep, AddPoseCommit DEF AddPose
  <2>4. CASE RebuildEvents(p)
    <3> DEFINE seen == looked[p]
               to == [t \in DOMAIN Without(ChunkTables \cap DOMAIN seen) |->
                        IF t \in StaleIn(seen) THEN Rebuilt(t, seen[t]) ELSE db[t]]
    <3>1. CASE EndProcess(p)
      BY <3>1, EndStep
    <3>2. CASE CommitAsSeen(p, EventTables \cup ChunkTables, to, "key")
      <4>1. seen = Look(EventTables \cup ChunkTables) /\ Commit(p, to, "key")
        BY <3>2, Zenon DEF CommitAsSeen
      <4>2. At(p, "events rebuild")
        BY <2>4 DEF RebuildEvents
      <4>3. QED
        BY <4>1, <4>2, RebuildCommit
    <3>3. QED
      BY <2>4, <3>1, <3>2 DEF RebuildEvents
  <2>5. QED
    BY <1>1, <2>1, <2>2, <2>3, <2>4, LookAtPatrolStep, CountStep, DropStep, LookAtEstopStep,
       CreateStep, LookAtAccessStep, LookAtPoseStep, AddSafetyStep, LookAtEventsStep DEF Migrate
<1>2. CASE UNCHANGED startVars
  <2>1. /\ db' = db /\ keyFile' = keyFile /\ startAt' = startAt /\ looked' = looked
        /\ heldKey' = heldKey /\ written' = written
    BY <1>2 DEF startVars
  <2>2. DataInv'
    BY <2>1 DEF StartInv, DataInv, RowsFit, RobotsFit, PatrolTogether, OldEstopOwnsRows,
                RecordsKept, Kept, IsIn
  <2>3. ProcessTypes'
    BY <2>1 DEF StartInv, ProcessTypes
  <2>4. ASSUME NEW q \in Processes PROVE SawRight(q)' /\ CameFar(q)'
    <3>1. SawRight(q) /\ CameFar(q)
      BY DEF StartInv, ProcessInv
    <3>2. StaleIn(looked[q])' = StaleIn(looked[q])
      BY <2>1 DEF StaleIn
    <3>3. SawRight(q)'
      BY <2>1, <3>1, <3>2 DEF SawRight, At
    <3>4. CameFar(q)'
      BY <2>1, <3>1 DEF CameFar, At, IsCurrent, AllThere, PoseThere, DbCurrent
    <3>5. QED
      BY <3>3, <3>4
  <2>5. QED
    BY <2>2, <2>3, <2>4 DEF StartInv, ProcessInv
<1>3. ASSUME NEW p \in Processes, NEW n \in NewRows,
             InsertEvent(p, n) \/ InsertEstop(p, n) \/ InsertRun(p, n)
      PROVE  StartInv'
  BY <1>3, StoreStep DEF InsertEvent, InsertEstop, InsertRun
<1>4. QED
  BY <1>1, <1>2, <1>3, StartStep, KeySteps, EndStep DEF StartNext

(* An old database as it may be found satisfies the invariant.               *)
LEMMA StartInvInit == StartInit => StartInv
<1> SUFFICES ASSUME StartInit PROVE StartInv
  OBVIOUS
<1>1. /\ \A t \in DOMAIN db : db[t] \in Tables
      /\ RowsFit /\ RobotsFit /\ PatrolTogether
  BY OldDatabaseAssumption DEF StartInit, RowsFit, RobotsFit, PatrolTogether
<1>2. ASSUME NEW w \in written
      PROVE  w[1] \in DOMAIN db /\ IsIn(w[1], w[1], w[2])
  <2>1. PICK t \in DOMAIN db : \E r \in db[t].rows : w = <<t, r>>
    BY DEF StartInit
  <2>2. PICK r \in db[t].rows : w = <<t, r>>
    BY <2>1
  <2>3. w[1] = t /\ w[2] = r
    BY <2>2
  <2>4. QED
    BY <2>3 DEF IsIn
<1>3. OldEstopOwnsRows /\ RecordsKept
  BY <1>2 DEF OldEstopOwnsRows, RecordsKept, Kept, Places
<1>4. /\ \A p \in Processes : startAt[p] = "down"
      /\ ProcessTypes
  BY DEF StartInit, ProcessTypes, StartSteps
<1>5. ProcessInv
  BY <1>4 DEF ProcessInv, SawRight, CameFar, At, AfterPatrol, AfterEstop, AfterSchema,
              AfterAccess, AfterPose, AfterSafety, Migrating, Migrated
<1>6. QED
  BY <1>1, <1>3, <1>4, <1>5 DEF StartInv, DataInv

(* The key needs no order of the starts: whoever serves holds the key of the *)
(* file, and the file never changes once it is there.                        *)
LEMMA KeyInvStep ==
  ASSUME KeyInv, [StartNext]_startVars
  PROVE  KeyInv'
<1>1. ASSUME NEW p \in Processes, NEW s \in StartSteps \ {"key read", "serving"},
             startAt' = [startAt EXCEPT ![p] = s], keyFile' = keyFile,
             heldKey' \in {heldKey, [heldKey EXCEPT ![p] = NoKey]},
             DOMAIN looked' = Processes
      PROVE  KeyInv'
  <2>1. ProcessTypes'
    BY <1>1 DEF KeyInv, ProcessTypes
  <2>2. /\ startAt'[p] = s
        /\ \A q \in Processes \ {p} : startAt'[q] = startAt[q] /\ heldKey'[q] = heldKey[q]
    BY <1>1 DEF KeyInv, ProcessTypes
  <2>3. QED
    BY <1>1, <2>1, <2>2 DEF KeyInv, KeyRead, At
<1>2. DOMAIN looked = Processes
  BY DEF KeyInv, ProcessTypes
<1>3. ASSUME NEW p \in Processes, EndProcess(p) PROVE KeyInv'
  <2>1. "down" \in StartSteps \ {"key read", "serving"}
    BY DEF StartSteps
  <2>2. QED
    BY <1>1, <1>2, <1>3, <2>1 DEF EndProcess
<1>4. ASSUME NEW p \in Processes, NEW s \in Migrating \cup {"key"},
             startAt' = [startAt EXCEPT ![p] = s], keyFile' = keyFile, heldKey' = heldKey,
             DOMAIN looked' = DOMAIN looked
      PROVE  KeyInv'
  <2>1. s \in StartSteps \ {"key read", "serving"}
    BY DEF StartSteps, Migrating
  <2>2. QED
    BY <1>1, <1>2, <1>4, <2>1
<1>5. ASSUME NEW p \in Processes, Migrate(p) PROVE KeyInv'
  <2>1. CASE EndProcess(p)
    BY <1>3, <2>1
  <2>2. CASE ~EndProcess(p)
    <3>1. /\ keyFile' = keyFile /\ heldKey' = heldKey /\ DOMAIN looked' = DOMAIN looked
          /\ \E s \in Migrating \cup {"key"} : startAt' = [startAt EXCEPT ![p] = s]
      BY <1>5, <2>2 DEF Migrate, LookAtPatrol, CountPatrolRows, DropPatrolTables, LookAtEstop,
         MoveEstopTables, CreateSchema, LookAtAccess, MoveAccess, LookAtPose, AddPose, AddSafety,
         LookAtEvents, RebuildEvents, LookAt, CommitAsSeen, Commit, GoOn, Migrating
    <3>2. QED
      BY <1>4, <3>1
  <2>3. QED
    BY <2>1, <2>2
<1>6. ASSUME NEW p \in Processes, StartProcess(p) PROVE KeyInv'
  <2>1. "patrol" \in Migrating
    BY DEF Migrating
  <2>2. QED
    BY <1>4, <1>6, <2>1 DEF StartProcess, GoOn
<1>7. ASSUME NEW p \in Processes, LookForKey(p) PROVE KeyInv'
  <2>1. CASE keyFile = NoKey
    <3>1. "key link" \in StartSteps \ {"key read", "serving"}
      BY DEF StartSteps
    <3>2. startAt' = [startAt EXCEPT ![p] = "key link"]
      BY <1>7, <2>1 DEF LookForKey, GoOn
    <3>3. QED
      BY <1>1, <1>2, <1>7, <3>1, <3>2 DEF LookForKey
  <2>2. CASE keyFile # NoKey
    <3>1. /\ startAt' = [startAt EXCEPT ![p] = "key read"] /\ keyFile' = keyFile
          /\ heldKey' = heldKey /\ looked' = looked
      BY <1>7, <2>2 DEF LookForKey, GoOn
    <3>2. "key read" \in StartSteps
      BY DEF StartSteps
    <3>3. QED
      BY <2>2, <3>1, <3>2 DEF KeyInv, ProcessTypes, KeyRead, At
  <2>3. QED
    BY <2>1, <2>2
<1>8. ASSUME NEW p \in Processes, LinkKey(p) PROVE KeyInv'
  <2>1. /\ startAt' = [startAt EXCEPT ![p] = "key read"]
        /\ keyFile' = IF keyFile = NoKey THEN p ELSE keyFile
        /\ heldKey' = heldKey /\ looked' = looked
    BY <1>8 DEF LinkKey, GoOn
  <2>2. "key read" \in StartSteps
    BY DEF StartSteps
  <2>3. keyFile' # NoKey /\ keyFile' \in Processes /\ (keyFile # NoKey => keyFile' = keyFile)
    BY <2>1, NoKeyAssumption DEF KeyInv, ProcessTypes
  <2>4. /\ startAt'[p] = "key read" /\ ProcessTypes'
        /\ \A q \in Processes \ {p} : startAt'[q] = startAt[q]
    BY <2>1, <2>2, <2>3 DEF KeyInv, ProcessTypes
  <2>5. QED
    BY <2>1, <2>3, <2>4 DEF KeyInv, KeyRead, At
<1>9. ASSUME NEW p \in Processes, ReadKey(p) PROVE KeyInv'
  <2>1. /\ startAt' = [startAt EXCEPT ![p] = "serving"] /\ keyFile' = keyFile
        /\ heldKey' = [heldKey EXCEPT ![p] = keyFile] /\ looked' = looked
        /\ startAt[p] = "key read"
    BY <1>9 DEF ReadKey, GoOn, At
  <2>2. "serving" \in StartSteps
    BY DEF StartSteps
  <2>3. /\ startAt'[p] = "serving" /\ heldKey'[p] = keyFile /\ ProcessTypes'
        /\ \A q \in Processes \ {p} : startAt'[q] = startAt[q] /\ heldKey'[q] = heldKey[q]
    BY <2>1, <2>2 DEF KeyInv, ProcessTypes
  <2>4. keyFile # NoKey
    BY <2>1 DEF KeyInv, KeyRead
  <2>5. QED
    BY <2>1, <2>3, <2>4 DEF KeyInv, KeyRead, At
<1>10. ASSUME UNCHANGED <<keyFile, startAt, looked, heldKey>> PROVE KeyInv'
  BY <1>10 DEF KeyInv, ProcessTypes, KeyRead, At
<1>11. ASSUME NEW p \in Processes, NEW n,
              InsertEvent(p, n) \/ InsertEstop(p, n) \/ InsertRun(p, n)
       PROVE  KeyInv'
  BY <1>10, <1>11 DEF InsertEvent, InsertEstop, InsertRun, StoreRow
<1>12. CASE UNCHANGED startVars
  BY <1>10, <1>12 DEF startVars
<1>13. QED
  BY <1>3, <1>5, <1>6, <1>7, <1>8, <1>9, <1>11, <1>12 DEF StartNext

(* No key, and nobody who holds one.                                         *)
LEMMA KeyInvInit == StartInit => KeyInv
BY DEF StartInit, KeyInv, ProcessTypes, KeyRead, At, StartSteps

(* Once a start has acted on an old look, that stays so. *)
LEMMA OvertakenStays ==
  ASSUME [StartNext]_startVars, overtaken
  PROVE  overtaken'
<1>1. ASSUME NEW p \in Processes, Migrate(p) PROVE overtaken'
  BY <1>1, Zenon
  DEF Migrate, LookAtPatrol, CountPatrolRows, DropPatrolTables, LookAtEstop, MoveEstopTables,
      CreateSchema, LookAtAccess, MoveAccess, LookAtPose, AddPose, AddSafety, LookAtEvents,
      RebuildEvents, LookAt, CommitAsSeen, EndProcess
<1>2. ASSUME NEW p \in Processes,
             \/ StartProcess(p) \/ LookForKey(p) \/ LinkKey(p) \/ ReadKey(p) \/ EndProcess(p)
             \/ \E n \in NewRows : InsertEvent(p, n) \/ InsertEstop(p, n) \/ InsertRun(p, n)
      PROVE  overtaken'
  BY <1>2, Zenon DEF StartProcess, LookForKey, LinkKey, ReadKey, EndProcess, InsertEvent, InsertEstop,
                     InsertRun, StoreRow
<1>3. CASE UNCHANGED startVars
  BY <1>3, Zenon DEF startVars
<1>4. QED
  BY <1>1, <1>2, <1>3, Zenon DEF StartNext

(* What is proved of the tables holds until a start acts on an old look. *)
InTurnInv == ~overtaken => StartInv

LEMMA InTurn == StartSpec => []InTurnInv
<1>1. StartInit => InTurnInv
  BY StartInvInit DEF InTurnInv
<1>2. InTurnInv /\ [StartNext]_startVars => InTurnInv'
  BY StartInvStep, OvertakenStays, Zenon DEF InTurnInv
<1>3. QED
  BY <1>1, <1>2, PTL DEF StartSpec

(* No record is lost, wherever a start fails, however often it is tried     *)
(* again, whatever the other process does meanwhile and whatever older      *)
(* release left the database, as long as no start changes tables that were  *)
(* not as it had seen them (database.py).                                   *)
THEOREM StartsKeepRecords == StartSpec => []RecordsKeptInTurn
<1>1. InTurnInv => RecordsKeptInTurn
  BY Zenon DEF InTurnInv, StartInv, DataInv, RecordsKeptInTurn
<1>2. QED
  BY <1>1, InTurn, PTL

(* Processes that start together and race for the key file serve with one    *)
(* key, in any order of their steps.                                         *)
THEOREM OneSessionKey == StartSpec => []KeyInv
<1>1. KeyInv /\ [StartNext]_startVars => KeyInv'
  BY KeyInvStep
<1>2. QED
  BY <1>1, KeyInvInit, PTL DEF StartSpec

(* A process serves only with the key in the file and, as long as no start   *)
(* has acted on an old look, with every table of the current schema.         *)
THEOREM ServingWhenReady == StartSpec => []ServingIsReady
<1>1. InTurnInv /\ KeyInv => ServingIsReady
  <2> SUFFICES ASSUME InTurnInv, KeyInv, NEW p \in Processes, At(p, "serving")
               PROVE  /\ keyFile # NoKey /\ heldKey[p] = keyFile
                      /\ ~overtaken =>
                           \A t \in SchemaTables : t \in DOMAIN db /\ db[t].columns = Current[t]
    BY Zenon DEF ServingIsReady
  <2>1. ASSUME ~overtaken PROVE DbCurrent
    <3>1. StartInv
      BY <2>1, Zenon DEF InTurnInv
    <3>2. QED
      BY <3>1 DEF StartInv, ProcessInv, CameFar, At, Migrated
  <2>2. keyFile # NoKey /\ heldKey[p] = keyFile
    BY DEF KeyInv, KeyRead, At
  <2>3. DbCurrent => \A t \in SchemaTables : t \in DOMAIN db /\ db[t].columns = Current[t]
    BY DEF DbCurrent, AllThere, IsCurrent
  <2>4. QED
    BY <2>1, <2>2, <2>3, Zenon
<1>2. QED
  BY <1>1, InTurn, OneSessionKey, PTL

(***************************************************************************)
(* The types do not depend on what a start saw.                             *)
(***************************************************************************)
TablesTyped == \A t \in DOMAIN db : db[t] \in Tables

(* A copy of rows of a table is rows. *)
LEMMA CopyRowsTyped ==
  ASSUME NEW rows \in SUBSET Rows, NEW c
  PROVE  CopyRows(rows, c) \in SUBSET Rows
<1>1. ASSUME NEW r \in Rows PROVE [r EXCEPT !.values = @ \cap c] \in Rows
  BY DEF Rows
<1>2. QED
  BY <1>1 DEF CopyRows

(* So is what a column is added to. *)
LEMMA WithColumnsTyped ==
  ASSUME NEW t, db[t] \in Tables, NEW c \in SUBSET Columns
  PROVE  WithColumns(t, c) \in Tables
<1>1. ASSUME NEW r \in Rows PROVE [r EXCEPT !.values = @ \cup c] \in Rows
  BY DEF Rows
<1>2. db[t].columns \subseteq Columns /\ db[t].rows \subseteq Rows
  BY DEF Tables
<1>3. {[r EXCEPT !.values = @ \cup c] : r \in db[t].rows} \subseteq Rows
  BY <1>1, <1>2
<1>4. QED
  BY <1>2, <1>3 DEF WithColumns, Tables

(* Every transaction of a migration commits tables. *)
LEMMA MigrateTyped ==
  ASSUME TablesTyped, NEW p \in Processes, Migrate(p)
  PROVE  TablesTyped'
<1>1. CASE db' = db
  BY <1>1 DEF TablesTyped
<1>2. CASE DropPatrolTables(p)
  <2>1. db' = Without(PatrolTables)
    BY <1>2 DEF DropPatrolTables, CommitAsSeen, Commit
  <2>2. QED
    BY <2>1 DEF TablesTyped, Without, Restrict
<1>3. CASE MoveEstopTables(p) /\ db' # db
  <2> DEFINE T == StaleIn(looked[p])
             W == {t \in T : db[t].rows # {}}
             Names == (DOMAIN db \ (T \cup {LegacyName[t] : t \in T}))
                        \cup {LegacyName[t] : t \in W}
  <2>1. T \subseteq DOMAIN db /\ db' = Moved(T)
    BY <1>3 DEF MoveEstopTables, CommitAsSeen, Commit, EndProcess
  <2> HIDE DEF T
  <2>2. db' = [n \in Names |->
                 IF \E t \in W : LegacyName[t] = n
                   THEN db[CHOOSE t \in W : LegacyName[t] = n]
                   ELSE db[n]]
    BY <2>1 DEF Moved
  <2>3. ASSUME NEW n \in Names PROVE db'[n] \in Tables
    <3>1. CASE \E t \in W : LegacyName[t] = n
      <4>1. PICK u \in W : u = (CHOOSE t \in W : LegacyName[t] = n)
        BY <3>1
      <4>2. db'[n] = db[u] /\ u \in DOMAIN db
        BY <2>1, <2>2, <3>1, <4>1
      <4>3. QED
        BY <4>2 DEF TablesTyped
    <3>2. CASE ~\E t \in W : LegacyName[t] = n
      BY <2>2, <3>2 DEF TablesTyped
    <3>3. QED
      BY <3>1, <3>2
  <2>4. QED
    BY <2>2, <2>3 DEF TablesTyped
<1>4. CASE CreateSchema(p)
  <2>1. /\ DOMAIN db' = DOMAIN db \cup SchemaTables
        /\ \A t \in DOMAIN db : db'[t] = db[t]
        /\ \A t \in SchemaTables \ DOMAIN db : db'[t] = [columns |-> Current[t], rows |-> {}]
    BY <1>4 DEF CreateSchema, Commit
  <2>2. \A t \in SchemaTables \ DOMAIN db : db'[t] \in Tables
    BY <2>1, CurrentColumns DEF Tables
  <2>3. QED
    BY <2>1, <2>2 DEF TablesTyped
<1>5. CASE MoveAccess(p) /\ db' # db
  <2>1. db' = [t \in DOMAIN db |->
                 IF t \in AccessTables
                   THEN [columns |-> Current[t], rows |-> CopyRows(db[t].rows, Current[t])]
                   ELSE db[t]]
    BY <1>5 DEF MoveAccess, Commit, EndProcess
  <2>2. ASSUME NEW t \in DOMAIN db, t \in AccessTables
        PROVE  [columns |-> Current[t], rows |-> CopyRows(db[t].rows, Current[t])] \in Tables
    <3>1. Current[t] \subseteq Columns
      BY <2>2, CurrentColumns, TableNames
    <3>2. db[t].rows \in SUBSET Rows
      BY DEF TablesTyped, Tables
    <3>3. CopyRows(db[t].rows, Current[t]) \in SUBSET Rows
      BY <3>2, CopyRowsTyped
    <3>4. QED
      BY <3>1, <3>3 DEF Tables
  <2>3. QED
    BY <2>1, <2>2 DEF TablesTyped
<1>6. CASE (AddPose(p) /\ db' # db) \/ AddSafety(p)
  <2>1. PICK c : /\ \A t \in RobotTables : c[t] \in SUBSET Columns
                 /\ db' = [t \in DOMAIN db |->
                             IF t \in RobotTables THEN WithColumns(t, c[t]) ELSE db[t]]
    <3>1. CASE AddPose(p) /\ db' # db
      <4> DEFINE c == [t \in RobotTables |-> PoseColumns \ looked[p][t]]
      <4>1. db' = [t \in DOMAIN db |->
                     IF t \in RobotTables THEN WithColumns(t, PoseColumns \ looked[p][t])
                                          ELSE db[t]]
        BY <3>1 DEF AddPose, Commit, EndProcess
      <4>2. \A t \in RobotTables : c[t] = PoseColumns \ looked[p][t] /\ c[t] \in SUBSET Columns
        BY DEF Columns
      <4> HIDE DEF c
      <4>3. QED
        BY <4>1, <4>2
    <3>2. CASE AddSafety(p)
      <4> DEFINE c == [t \in RobotTables |-> SafetyColumns \ db[t].columns]
      <4>1. db' = [t \in DOMAIN db |->
                     IF t \in RobotTables THEN WithColumns(t, SafetyColumns \ db[t].columns)
                                          ELSE db[t]]
        BY <3>2 DEF AddSafety, Commit
      <4>2. \A t \in RobotTables : c[t] = SafetyColumns \ db[t].columns /\ c[t] \in SUBSET Columns
        BY DEF Columns
      <4> HIDE DEF c
      <4>3. QED
        BY <4>1, <4>2
    <3>3. QED
      BY <1>6, <3>1, <3>2
  <2>2. \A t \in RobotTables \cap DOMAIN db : WithColumns(t, c[t]) \in Tables
    BY <2>1, WithColumnsTyped DEF TablesTyped
  <2>3. QED
    BY <2>1, <2>2 DEF TablesTyped
<1>7. CASE RebuildEvents(p) /\ db' # db
  <2> DEFINE seen == looked[p]
             D == DOMAIN Without(ChunkTables \cap DOMAIN seen)
  <2>1. db' = [t \in D |-> IF t \in StaleIn(seen) THEN Rebuilt(t, seen[t]) ELSE db[t]]
    BY <1>7 DEF RebuildEvents, CommitAsSeen, Commit, EndProcess
  <2>2. D \subseteq DOMAIN db
    BY DEF Without, Restrict
  <2>3. ASSUME NEW t \in DOMAIN db, t \in SchemaTables PROVE Rebuilt(t, seen[t]) \in Tables
    <3>1. Current[t] \subseteq Columns
      BY <2>3, CurrentColumns
    <3>2. db[t].rows \in SUBSET Rows
      BY DEF TablesTyped, Tables
    <3>3. CopyRows(db[t].rows, Current[t] \cap seen[t]) \in SUBSET Rows
      BY <3>2, CopyRowsTyped
    <3>4. QED
      BY <3>1, <3>3 DEF Rebuilt, Tables
  <2>4. StaleIn(seen) \subseteq SchemaTables
    BY DEF StaleIn
  <2> HIDE DEF seen, D
  <2>5. QED
    BY <2>1, <2>2, <2>3, <2>4 DEF TablesTyped
<1>8. QED
  BY <1>1, <1>2, <1>3, <1>4, <1>5, <1>6, <1>7
  DEF Migrate, LookAtPatrol, CountPatrolRows, LookAtEstop, LookAtAccess, LookAtPose, LookAtEvents,
      LookAt, EndProcess

(* Every reachable state of a start has its types, in any order of the steps *)
(* of the starts.                                                            *)
THEOREM StartTypes == StartSpec => []StartTypeOK
<1>1. StartInit => TablesTyped /\ overtaken \in BOOLEAN
  BY OldDatabaseAssumption DEF StartInit, TablesTyped
<1>2. TablesTyped /\ [StartNext]_startVars => TablesTyped'
  <2> SUFFICES ASSUME TablesTyped, [StartNext]_startVars PROVE TablesTyped'
    OBVIOUS
  <2>1. ASSUME NEW p \in Processes, NEW t, NEW n \in NewRows, StoreRow(p, t, n), t \in SchemaTables
        PROVE  TablesTyped'
    <3> DEFINE row == [name |-> n, values |-> Current[t]]
    <3>1. t \in DOMAIN db /\ db' = [db EXCEPT ![t].rows = @ \cup {row}]
      BY <2>1 DEF StoreRow
    <3>2. row \in Rows
      BY <2>1, CurrentColumns DEF Rows
    <3> HIDE DEF row
    <3>3. DOMAIN db' = DOMAIN db /\ \A m \in DOMAIN db \ {t} : db'[m] = db[m]
      BY <3>1
    <3>4. db'[t] \in Tables
      BY <3>1, <3>2 DEF TablesTyped, Tables
    <3>5. QED
      BY <3>3, <3>4 DEF TablesTyped
  <2>2. "events" \in SchemaTables /\ "estop_history" \in SchemaTables
        /\ "patrol_runs" \in SchemaTables
    BY DEF SchemaTables, EventTables, EstopTables, PatrolTables
  <2>3. ASSUME NEW p \in Processes, NEW n \in NewRows,
               InsertEvent(p, n) \/ InsertEstop(p, n) \/ InsertRun(p, n)
        PROVE  TablesTyped'
    BY <2>1, <2>2, <2>3 DEF InsertEvent, InsertEstop, InsertRun
  <2>4. ASSUME db' = db PROVE TablesTyped'
    BY <2>4 DEF TablesTyped
  <2>5. ASSUME NEW p \in Processes,
               StartProcess(p) \/ LookForKey(p) \/ LinkKey(p) \/ ReadKey(p) \/ EndProcess(p)
        PROVE  TablesTyped'
    BY <2>4, <2>5 DEF StartProcess, LookForKey, LinkKey, ReadKey, EndProcess
  <2>6. CASE UNCHANGED startVars
    BY <2>4, <2>6 DEF startVars
  <2>7. QED
    BY <2>3, <2>5, <2>6, MigrateTyped DEF StartNext
<1>3. overtaken \in BOOLEAN /\ [StartNext]_startVars => (overtaken \in BOOLEAN)'
  BY Zenon
  DEF StartNext, Migrate, LookAtPatrol, CountPatrolRows, DropPatrolTables, LookAtEstop,
      MoveEstopTables, CreateSchema, LookAtAccess, MoveAccess, LookAtPose, AddPose, AddSafety,
      LookAtEvents, RebuildEvents, LookAt, CommitAsSeen, EndProcess, StartProcess, LookForKey,
      LinkKey, ReadKey, InsertEvent, InsertEstop, InsertRun, StoreRow, startVars
<1>4. TablesTyped /\ overtaken \in BOOLEAN /\ KeyInv => StartTypeOK
  BY Zenon DEF KeyInv, ProcessTypes, TablesTyped, StartTypeOK
<1>5. QED
  BY <1>1, <1>2, <1>3, <1>4, OneSessionKey, PTL DEF StartSpec
================================================================================
