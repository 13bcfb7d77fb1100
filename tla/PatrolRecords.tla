----------------------------- MODULE PatrolRecords -----------------------------
(***************************************************************************)
(* The System Monitor's record of patrols: the ROS adapter's tracker        *)
(* (ros/patrol_action.py) turns Patrol feedback, goal status and battery    *)
(* messages of a robot into status rows, visits and reports, and the store  *)
(* functions of patrol_service, models/patrol.py and models/robot.py keep   *)
(* them.  rclpy.spin runs one callback at a time and nobody else writes     *)
(* these tables, so a callback is one step; each of its stores is a         *)
(* transaction of its own and may raise.  Feedback is VOLATILE with a       *)
(* bounded queue; the status topic keeps its last message for whoever comes *)
(* late.  Robots share nothing here, so there is one; goals are numbered in *)
(* the order in which they were accepted.                                   *)
(***************************************************************************)
EXTENDS Integers, Sequences, FiniteSets

CONSTANTS
  Waypoints,
  Away,        \* the robot is at no waypoint; also an empty last_waypoint
  Results,     \* how a goal may end
  Depth,       \* depth of the feedback queue
  MaxGoals,    \* bound on goals
  MaxArrivals  \* bound on arrivals at one waypoint in one goal

ASSUME PlaceAssumption == Away \notin Waypoints
ASSUME ResultAssumption == Results \subseteq {"SUCCEEDED", "FAILED", "CANCELED"}
ASSUME BoundAssumption == Depth \in Nat \ {0} /\ MaxGoals \in Nat /\ MaxArrivals \in Nat

Goals == 1 .. MaxGoals

(* FINISHED_MISSION_STATES *)
Finished(r) == IF r = "SUCCEEDED" THEN "COMPLETED" ELSE r

Missions == {"IDLE", "PATROLLING", "WAYPOINT_REACHED"} \cup {Finished(r) : r \in Results}

VARIABLES
  (* the robot and its Patrol action server *)
  server,       \* status of each goal so far
  place,        \* where the robot is
  arrivals,     \* how often it has come to each waypoint in each goal
  (* on the way to the adapter *)
  samples,      \* feedback
  heard,        \* number of the status list handled last
  (* the tracker *)
  mission,      \* state["mission"]
  latest,       \* state["latest_goal"], 0 for None
  acceptedAt,   \* state["latest_goal_accepted_at"], as a goal number
  progress,     \* the record of each goal
  recent,       \* is last_emitted_at less than BATTERY_MIN_INTERVAL_SECONDS ago?
  (* the tables *)
  row,          \* mission_status in robot_latest_status, "none" for no row
  later,        \* has the clock moved since the observed_at of that row?
  visits,       \* patrol_visits
  runs,         \* patrol_runs
  (* History, read only by the properties. *)
  contested,    \* goals whose repeated report was told to conflict
  unstored,     \* goals whose report raised
  late          \* was a sample handled after the result of the newest goal?

robotVars   == <<server, place, arrivals>>
wireVars    == <<samples, heard>>
trackerVars == <<mission, latest, acceptedAt, progress, recent>>
tableVars   == <<row, later, visits, runs>>
history     == <<contested, unstored, late>>
vars        == <<robotVars, wireVars, trackerVars, tableVars, history>>

Places  == Waypoints \cup {Away}
(* stay is history: which of the arrivals at that place it was sent from. *)
Samples == [goal : Goals, at : Places, stay : 0 .. MaxArrivals]
Visits  == [goal : Goals, waypoint : Waypoints, occurrence : 0 .. MaxArrivals]
Runs    == [goal : Goals, result : Results, visits : Nat]
Records == [reached : BOOLEAN, last : Places, counts : [Waypoints -> 0 .. MaxArrivals],
            finished : BOOLEAN]

TypeOK ==
  /\ server \in Seq({"EXECUTING"} \cup Results) /\ Len(server) <= MaxGoals
  /\ place \in Places /\ arrivals \in [Goals -> [Waypoints -> 0 .. MaxArrivals]]
  /\ samples \in Seq(Samples) /\ Len(samples) <= Depth /\ heard \in 0 .. 2 * MaxGoals
  /\ mission \in Missions /\ latest \in 0 .. MaxGoals /\ acceptedAt \in 0 .. MaxGoals
  /\ progress \in [Goals -> Records] /\ recent \in BOOLEAN
  /\ row \in Missions \cup {"none"} /\ later \in BOOLEAN
  /\ visits \subseteq Visits /\ runs \subseteq Runs
  /\ contested \subseteq Goals /\ unstored \subseteq Goals /\ late \in BOOLEAN

NewRecord == [reached |-> FALSE, last |-> Away, counts |-> [w \in Waypoints |-> 0],
              finished |-> FALSE]

Init ==
  /\ server = <<>> /\ place = Away
  /\ arrivals = [g \in Goals |-> [w \in Waypoints |-> 0]]
  /\ samples = <<>> /\ heard = 0
  /\ mission = "IDLE" /\ latest = 0 /\ acceptedAt = 0 /\ recent = FALSE
  /\ progress = [g \in Goals |-> NewRecord]
  /\ row = "none" /\ later = TRUE /\ visits = {} /\ runs = {}
  /\ contested = {} /\ unstored = {} /\ late = FALSE

--------------------------------------------------------------------------------
(* The robot (not in this component). *)

Newest == Len(server)
Executing == Newest > 0 /\ server[Newest] = "EXECUTING"

(* A status list goes out when a goal starts (2g - 1) and when it ends (2g). *)
Published == IF Executing THEN 2 * Newest - 1 ELSE 2 * Newest

StartGoal ==
  /\ ~Executing /\ Newest < MaxGoals
  /\ server' = Append(server, "EXECUTING")
  /\ place' = Away
  /\ UNCHANGED <<arrivals, wireVars, trackerVars, tableVars, history>>

EndGoal ==
  /\ Executing
  /\ \E r \in Results : server' = [server EXCEPT ![Newest] = r]
  /\ UNCHANGED <<place, arrivals, wireVars, trackerVars, tableVars, history>>

Arrive(w) ==
  /\ Executing /\ place # w /\ arrivals[Newest][w] < MaxArrivals
  /\ place' = w /\ arrivals' = [arrivals EXCEPT ![Newest][w] = @ + 1]
  /\ UNCHANGED <<server, wireVars, trackerVars, tableVars, history>>

Leave ==
  /\ Executing /\ place # Away
  /\ place' = Away
  /\ UNCHANGED <<server, arrivals, wireVars, trackerVars, tableVars, history>>

(* A full queue forgets its oldest sample. *)
SendFeedback ==
  LET s == [goal |-> Newest, at |-> place,
            stay |-> IF place = Away THEN 0 ELSE arrivals[Newest][place]] IN
  /\ Executing
  /\ samples' = IF Len(samples) < Depth THEN Append(samples, s)
                ELSE Append(Tail(samples), s)
  /\ UNCHANGED <<robotVars, heard, trackerVars, tableVars, history>>

RobotStep ==
  StartGoal \/ EndGoal \/ (\E w \in Waypoints : Arrive(w)) \/ Leave \/ SendFeedback

(* Time passes: a little, or the interval of battery rows. *)
Tick ==
  /\ later' = TRUE
  /\ recent' \in {recent, FALSE}
  /\ UNCHANGED <<robotVars, wireVars, mission, latest, acceptedAt, progress, row, visits,
                 runs, history>>

--------------------------------------------------------------------------------
(***************************************************************************)
(* The stores, one transaction each; ok is whether the database raises.     *)
(***************************************************************************)

(* _status, then store_status: a row that is not newer than the stored one is *)
(* stale.  Its history table is not modelled: nothing here reads it.          *)
StoreStatus(m, ok) ==
  /\ recent' = TRUE
  /\ IF ok /\ later
     THEN row' = m /\ later' = FALSE
     ELSE UNCHANGED <<row, later>>

StatusNotEmitted == UNCHANGED <<recent, row, later>>

(* Visits and runs refer to a row of robots, which the first status makes. *)
Registered(r) == r # "none"

(* store_visit.  An id comes again only after a restart, with another         *)
(* arrived_at, so it is told to conflict and changes nothing.                 *)
StoreVisit(v, ok) ==
  visits' = IF ok /\ Registered(row') THEN visits \cup {v} ELSE visits

VisitsOf(g) == {v \in visits : v.goal = g}

(* receive_action_result: the visits are counted when the report is stored. *)
ReportOf(g) == [goal |-> g, result |-> server[g], visits |-> Cardinality(VisitsOf(g))]

Reported(g) == \E r \in runs : r.goal = g

(* Mutant: the time of the report is compared as well. *)
SameReportAndTime(old, new) == FALSE

SameReport(old, new) == old = new

(* store_report for the goals of gs, where the database raises for bad. *)
StoreReports(gs, bad) ==
  LET inserted == {g \in gs \ bad : ~Reported(g) /\ Registered(row)} IN
  /\ runs' = runs \cup {ReportOf(g) : g \in inserted}
  /\ contested' = contested \cup
       {g \in gs \ bad : \E r \in runs : r.goal = g /\ ~SameReport(r, ReportOf(g))}
  /\ unstored' = unstored \cup {g \in gs : g \in bad \/ ~(g \in inserted \/ Reported(g))}

--------------------------------------------------------------------------------
(* The callbacks of the adapter, _receive_* with the tracker's on_*. *)

StateOf(s) == IF s.at = Away THEN "PATROLLING" ELSE "WAYPOINT_REACHED"

(* Mutant: every sample at a waypoint is a visit. *)
EnteredAgain(p, at) == at # Away

Entered(p, at) == at # Away /\ (~p.reached \/ p.last # at)

Note(p, at) ==
  IF Entered(p, at)
  THEN [p EXCEPT !.reached = TRUE, !.last = at, !.counts[at] = @ + 1]
  ELSE [p EXCEPT !.reached = at # Away]

(* _receive_patrol_feedback, on_feedback *)
OnFeedback(statusOk, visitOk) ==
  LET s == Head(samples)
      p == progress[s.goal]
  IN
  /\ samples # <<>>
  /\ samples' = Tail(samples)
  /\ mission' = StateOf(s) /\ latest' = s.goal
  /\ progress' = [progress EXCEPT ![s.goal] = Note(p, s.at)]
  /\ StoreStatus(StateOf(s), statusOk)
  /\ IF Entered(p, s.at)
     THEN StoreVisit([goal |-> s.goal, waypoint |-> s.at,
                      occurrence |-> p.counts[s.at]], visitOk)
     ELSE UNCHANGED visits
  /\ late' = (late \/ progress[Newest].finished)
  /\ UNCHANGED <<robotVars, heard, acceptedAt, runs, contested, unstored>>

(* The goals of list k, and those that had ended when it was made. *)
Listed(k) == 1 .. (k + 1) \div 2
Ended(k)  == 1 .. k \div 2

(* Mutant: an equal accepted_at does not win the mission back. *)
LaterAccepted(g) == g > acceptedAt

NewestAccepted(g) == g >= acceptedAt

LatestOf(k) == LET g == (k + 1) \div 2 IN IF NewestAccepted(g) THEN g ELSE latest

(* Mutant: only the latest goal is looked at. *)
FinishedLatest(k) == {g \in Ended(k) \cap {LatestOf(k)} : ~progress[g].finished}

NewlyFinished(k) == {g \in Ended(k) : ~progress[g].finished}

(* _receive_patrol_status, on_goal_status, for a list that is newer than the  *)
(* last one; the topic keeps one, so lists may be missed.  Goals are listed   *)
(* as they were accepted: the status row of the latest comes after all        *)
(* reports.                                                                   *)
OnGoalStatus(k, bad, statusOk) ==
  /\ heard' = k
  /\ latest' = LatestOf(k)
  /\ acceptedAt' = LET g == (k + 1) \div 2 IN IF NewestAccepted(g) THEN g ELSE acceptedAt
  /\ progress' = [g \in Goals |-> IF g \in NewlyFinished(k)
                                  THEN [progress[g] EXCEPT !.finished = TRUE]
                                  ELSE progress[g]]
  /\ StoreReports(NewlyFinished(k), bad)
  /\ IF LatestOf(k) \in NewlyFinished(k)
     THEN LET m == Finished(server[LatestOf(k)]) IN
          mission' = m /\ StoreStatus(m, statusOk)
     ELSE UNCHANGED mission /\ StatusNotEmitted
  /\ late' = (late /\ Newest \notin NewlyFinished(k))
  /\ UNCHANGED <<robotVars, samples, visits>>

StatusArrives ==
  \E k \in heard + 1 .. Published : \E bad \in SUBSET NewlyFinished(k), statusOk \in BOOLEAN :
    OnGoalStatus(k, bad, statusOk)

(* _receive_battery, on_battery *)
(* Mutant: a battery that stays the same makes no row. *)
EmitsOnChange(changed) == changed

EmitsBattery(changed) == changed \/ ~recent

OnBattery(changed, statusOk) ==
  /\ IF EmitsBattery(changed) THEN StoreStatus(mission, statusOk) ELSE StatusNotEmitted
  /\ UNCHANGED <<robotVars, wireVars, mission, latest, acceptedAt, progress, visits, runs,
                 history>>

(* The adapter is started anew: the queue is lost, the status list is not.    *)
(* A death between two stores of a callback is a store that raises first.     *)
Restart ==
  /\ samples' = <<>> /\ heard' = IF Newest = 0 THEN 0 ELSE Published - 1
  /\ mission' = "IDLE" /\ latest' = 0 /\ acceptedAt' = 0 /\ recent' = FALSE
  /\ progress' = [g \in Goals |-> NewRecord]
  /\ later' = TRUE /\ late' = FALSE
  /\ UNCHANGED <<robotVars, row, visits, runs, contested, unstored>>

Next ==
  \/ RobotStep \/ Tick \/ Restart
  \/ \E statusOk, visitOk \in BOOLEAN : OnFeedback(statusOk, visitOk)
  \/ StatusArrives
  \/ \E changed, statusOk \in BOOLEAN : OnBattery(changed, statusOk)

Spec == Init /\ [][Next]_vars

--------------------------------------------------------------------------------
(***************************************************************************)
(* Fairness: rclpy.spin handles a status list that has arrived (Hearing).   *)
(* BatteryComes is a premise: battery messages keep coming, with time       *)
(* between them, and the database takes a row now and then.                 *)
(***************************************************************************)
Hearing == WF_vars(StatusArrives)

BatteryComes ==
  /\ SF_vars(OnBattery(FALSE, TRUE))
  /\ SF_vars(Tick /\ ~recent')

LiveSpec == Spec /\ Hearing

--------------------------------------------------------------------------------
(***************************************************************************)
(* Properties.                                                              *)
(***************************************************************************)

(* No visit is invented or counted twice, whatever samples are repeated or    *)
(* lost and however often the adapter restarts during a stay: the n-th visit  *)
(* row of a waypoint means that the robot came there n times (stable_uuid and *)
(* the entry rule of on_feedback).                                            *)
NoVisitInvented == \A v \in visits : v.occurrence < arrivals[v.goal][v.waypoint]

(* A report that is made again after a restart agrees with the stored one,    *)
(* unless a visit of its goal was stored after it (receive_action_result      *)
(* counts the visits anew, store_report compares the counts).                 *)
RepeatedReportAgrees ==
  \A g \in contested : \E r \in runs : r.goal = g /\ r.visits < Cardinality(VisitsOf(g))

(* What the docstring of receive_action_result says: a report that comes      *)
(* again after a restart has the same values and is taken as a duplicate.     *)
(* Violated: a late sample adds a visit between the two.                      *)
RepeatedReportIsDuplicate == contested = {}

(* Once the result of the newest goal was handled the mission says so, until  *)
(* feedback comes after it; late feedback of an older goal in between does    *)
(* not hide the result (on_goal_status and on_feedback share latest_goal).    *)
MissionShowsResult ==
  Newest > 0 /\ progress[Newest].finished /\ ~late => mission = Finished(server[Newest])

(* Every goal that ends is reported, also when the next one started before    *)
(* the adapter heard of it, unless its report raised, be it because no status *)
(* row of the robot was ever stored.                                          *)
EveryResultReported ==
  \A g \in Goals :
    g <= Newest /\ server[g] # "EXECUTING" ~> Reported(g) \/ g \in unstored

(* Unless the mission keeps changing, the row agrees with it again and again: *)
(* one that was not stored, because its row was stale or the database raised, *)
(* is stored with a later battery row (on_battery, store_status).             *)
RowCatchesUp == BatteryComes => []<>(row = mission) \/ []<><<mission' # mission>>_mission
================================================================================
