------------------------------ MODULE PartsProofs -------------------------------
(***************************************************************************)
(* What is proved of the robot's programs that do not use EventCheck (the   *)
(* scenarios of patrol_amr and the worker that listens for commands itself) *)
(* and of all the small parts together: MCParts runs every part by the      *)
(* specification the theorems are about, so each of them holds of its runs. *)
(***************************************************************************)
EXTENDS MCParts, MonitorProofs, MonitorStartProofs, CctvPermitProofs

--------------------------------------------------------------------------------
(* PatrolScenario.  The checkpoint is the point the run is at (the next one   *)
(* once it was saved), so whatever ends a run, a resumed one goes on there.   *)
(* Up to the checkpoint all is done; from it on nothing is, but for the point *)
(* that was reached and not saved yet.                                        *)
Done(p) == reached[p] > 0 \/ p \in givenUp
Untouched(p) == reached[p] = 0 \/ p \in forgotten
Mark == IF checkpoint = NoCheckpoint THEN 0 ELSE checkpoint
AtWork == runAt \in {"undock", "next", "drive", "save", "skip", "dwell", "clear"}

PointFits ==
  /\ runAt \in {"drive", "save", "skip", "dwell"} => point \in Indexes
  /\ runAt \in {"save", "dwell"} => reached[point] > 0
  /\ runAt = "skip" => point \in givenUp
  /\ runAt = "clear" => point = Points

MarkFits ==
  /\ AtWork => Mark = IF runAt = "dwell" THEN point + 1 ELSE point
  /\ checkpoint # NoCheckpoint \/ AtWork =>
       \A p \in Indexes :
         /\ p < Mark => Done(p)
         /\ p >= Mark => Untouched(p) \/ (runAt = "save" /\ p = point)

RunInv == RunTypeOK /\ RouteComplete /\ PointFits /\ MarkFits

LEMMA RunInvInit == RunInit => RunInv
<1> SUFFICES ASSUME RunInit PROVE RunInv
  OBVIOUS
<1>1. reached \in [Indexes -> Nat] /\ \A p \in Indexes : reached[p] = 0
  BY DEF RunInit
<1>2. RunTypeOK
  <2>1. point \in 0 .. Points
    BY PointAssumption DEF RunInit
  <2>2. QED
    BY <1>1, <2>1 DEF RunInit, RunTypeOK
<1>3. RouteComplete
  BY <1>1 DEF RunInit, RouteComplete
<1>4. PointFits /\ MarkFits
  BY DEF RunInit, PointFits, MarkFits, AtWork
<1>5. QED
  BY <1>2, <1>3, <1>4 DEF RunInv

LEMMA RunInvStep == RunInv /\ [RunNext]_runVars => RunInv'
<1> SUFFICES ASSUME RunInv, [RunNext]_runVars PROVE RunInv'
  OBVIOUS
<1> USE PointAssumption DEF RunInv, RunTypeOK, RouteComplete, PointFits, MarkFits, AtWork, Mark,
        Done, Untouched, Indexes, GoesTo, routeHistory
<1>1. CASE StartPatrol
  <2>1. reached' \in [Indexes -> Nat] /\ \A p \in Indexes : reached'[p] = 0
    BY <1>1 DEF StartPatrol
  <2>2. RunTypeOK'
    <3>1. point' \in 0 .. Points
      BY <1>1 DEF StartPatrol
    <3>2. QED
      BY <1>1, <2>1, <3>1 DEF StartPatrol
  <2>3. RouteComplete' /\ PointFits' /\ MarkFits'
    BY <1>1, <2>1 DEF StartPatrol
  <2>4. QED
    BY <2>2, <2>3
<1>2. CASE EnsureUndocked
  BY <1>2 DEF EnsureUndocked
<1>3. CASE ResumePatrol
  BY <1>3 DEF ResumePatrol
<1>4. CASE CancelPatrol
  BY <1>4 DEF CancelPatrol
<1>5. CASE NextPoint
  BY <1>5 DEF NextPoint
<1>6. CASE GoTo
  <2>1. point \in Indexes /\ point' = point /\ UNCHANGED <<checkpoint, forgotten, patrolDone>>
    BY <1>6 DEF GoTo
  <2>2. ASSUME runAt' = "save", reached' = [reached EXCEPT ![point] = @ + 1], UNCHANGED givenUp
        PROVE  RunInv'
    <3>1. /\ reached' \in [Indexes -> Nat] /\ reached'[point] = reached[point] + 1
          /\ \A p \in Indexes \ {point} : reached'[p] = reached[p]
      BY <2>1, <2>2
    <3>2. RunTypeOK' /\ PointFits'
      BY <1>6, <2>1, <2>2, <3>1 DEF GoTo
    <3>3. RouteComplete'
      BY <1>6, <2>1, <2>2, <3>1 DEF GoTo
    <3>4. MarkFits'
      BY <1>6, <2>1, <2>2, <3>1 DEF GoTo
    <3>5. QED
      BY <3>2, <3>3, <3>4
  <2>3. CASE UNCHANGED <<reached, givenUp>> /\ runAt' = "idle"
    BY <1>6, <2>1, <2>3 DEF GoTo
  <2>4. CASE UNCHANGED reached /\ runAt' = "skip" /\ point # Points - 1
             /\ givenUp' = givenUp \cup {point}
    BY <1>6, <2>1, <2>4 DEF GoTo
  <2>5. QED
    BY <1>6, <2>2, <2>3, <2>4 DEF GoTo
<1>7. CASE SaveReached
  BY <1>7 DEF SaveReached, SaveNextPoint
<1>8. CASE SaveSkipped
  BY <1>8 DEF SaveSkipped, SaveNextPoint
<1>9. CASE Dwell
  BY <1>9 DEF Dwell
<1>10. CASE ClearCheckpoint
  BY <1>10 DEF ClearCheckpoint
<1>11. CASE DockAtEnd
  BY <1>11 DEF DockAtEnd
<1>12. CASE RunDies
  BY <1>12 DEF RunDies
<1>13. CASE UNCHANGED runVars
  BY <1>13 DEF runVars
<1>14. QED
  BY <1>1, <1>2, <1>3, <1>4, <1>5, <1>6, <1>7, <1>8, <1>9, <1>10, <1>11, <1>12,
     <1>13 DEF RunNext

(* The types of a run of the scenario.                                       *)
LEMMA RunTypes == RunSpec => []RunTypeOK
<1>1. RunInv => RunTypeOK
  BY DEF RunInv
<1>2. QED
  BY <1>1, RunInvInit, RunInvStep, PTL DEF RunSpec

(* A patrol leaves out no waypoint that was not given up, and repeats none    *)
(* but one a death made it forget, for any number of waypoints, resumptions   *)
(* and deaths.                                                                *)
THEOREM RouteIsComplete == RunSpec => []RouteComplete
<1>1. RunInv => RouteComplete
  BY DEF RunInv
<1>2. QED
  BY <1>1, RunInvInit, RunInvStep, PTL DEF RunSpec

--------------------------------------------------------------------------------
(* Evacuation.  Where the robot is follows from where the worker is: what     *)
(* the dock says, what a finished task says, and what odometry says after a   *)
(* task can be late, but never wrong where the worker relies on it.           *)
BeforeRoute == {"start", "dock", "docked?", "undock", "undocked?"}
Stopping == doing \in {"stop", "settle"}
Leaving == Stopping /\ stopThen \in {"zone", "wait"}

(* The dock: a status that names a place was true and is.                     *)
DockKnown ==
  /\ doing = "undock" => isDocked = "docked"
  /\ doing \in {"start", "dock", "docked?", "undock"} =>
       /\ isDocked = "docked" => place = Dock /\ dockSent # "undocked"
       /\ dockSent = "docked" => place = Dock
  /\ doing = "undocked?" =>
       /\ isDocked = "undocked" => place # Dock /\ dockSent # "docked"
       /\ dockSent = "undocked" => place # Dock
  /\ doing \in OnRoute \cup {"last dock"} \/ Leaving =>
       place # Dock /\ isDocked = "undocked" /\ dockSent # "docked"
  /\ doing = "end" /\ (isDocked = "docked" \/ dockSent = "docked") => place = Dock

(* The tasks: where they go, and that none runs where the worker stands.      *)
TaskKnown ==
  /\ goal # Dock
  /\ doing \in BeforeRoute \cup {"loop", "request", "position", "waiting", "last dock", "end"}
       \/ doing = "settle" \/ (Stopping /\ stopThen = "wait") \/ outcome = "succeeded"
     => taskIs # "running"
  /\ doing = "task" => goal = IF IsSpin(step) THEN Way(step - 1) ELSE Way(step)
  /\ doing = "to zone" => goal = Zone
  /\ doing = "back" => goal = Way(step - 1) /\ IsSpin(step)
  /\ doing \in {"task", "to zone", "back"} /\ taskIs = "succeeded" => place = goal

StandKnown ==
  /\ doing \in BeforeRoute => step = 1
  /\ doing \in {"loop", "request", "task"} /\ IsSpin(step) => place = Way(step - 1)
  /\ doing = "settle" /\ (odom = "still" \/ odomSent = "still") => ~moving
  /\ doing \in {"position", "waiting"} => ~moving
  /\ doing = "waiting" \/ (Stopping /\ stopThen = "wait") => place = Zone
  /\ outcome = "succeeded" => doing = "idle" /\ place = Dock

EvacInv == EvacTypeOK /\ DockKnown /\ TaskKnown /\ StandKnown

LEMMA SpotsDiffer ==
  /\ Dock \in Spots /\ Zone \in Spots /\ Between \in Spots
  /\ Zone # Dock /\ Between # Dock /\ Between # Zone
  /\ \A i : Way(i) # Dock
  /\ \A i \in 1 .. LastStep : Way(i) \in Spots
BY DEF Dock, Zone, Between, Way, Spots

LEMMA SpinBetweenWays ==
  /\ ~IsSpin(1)
  /\ \A i \in Nat : IsSpin(i + 1) => ~IsSpin(i)
BY DEF IsSpin

LEMMA StepOne == 1 \in 1 .. LastStep
<1>1. LastStep # 0
  BY StepAssumption
<1>2. QED
  BY <1>1, StepAssumption

LEMMA StepInRange ==
  ASSUME EvacTypeOK
  PROVE  /\ LastStep \in Nat /\ step \in Nat /\ 1 <= step /\ step <= LastStep
         /\ IsSpin(step) => Way(step - 1) \in Spots
         /\ IsSpin(step + 1) => ~IsSpin(step)
<1>1. LastStep \in Nat /\ step \in Nat /\ 1 <= step /\ step <= LastStep
  <2>1. LastStep \in Nat
    BY StepAssumption
  <2>2. step \in 1 .. LastStep
    BY DEF EvacTypeOK
  <2>3. QED
    BY <2>1, <2>2
<1>2. ASSUME IsSpin(step) PROVE Way(step - 1) \in Spots
  <2>1. step # 1
    BY <1>2, SpinBetweenWays
  <2>2. QED
    BY <1>1, <2>1, SpotsDiffer
<1>3. QED
  BY <1>1, <1>2, SpinBetweenWays

LEMMA EvacInvInit == EvacInit => EvacInv
<1> SUFFICES ASSUME EvacInit PROVE EvacInv
  OBVIOUS
<1>1. EvacTypeOK
  BY StepOne, SpotsDiffer DEF EvacInit, EvacTypeOK
<1>2. DockKnown
  BY DEF EvacInit, DockKnown, OnRoute, Leaving, Stopping
<1>3. TaskKnown /\ StandKnown
  BY SpotsDiffer DEF EvacInit, TaskKnown, StandKnown, BeforeRoute, Stopping
<1>4. QED
  BY <1>1, <1>2, <1>3 DEF EvacInv

LEMMA EvacInvStep == EvacInv /\ [EvacNext]_evacVars => EvacInv'
<1> SUFFICES ASSUME EvacInv, [EvacNext]_evacVars PROVE EvacInv'
  OBVIOUS
<1> USE SpotsDiffer
    DEF flagVars, navVars, odomVars, dockVars, robotVars, GoOnWith, StopThen, FailGoal, Escape
<1>1. ASSUME NEW command \in {1, 2}, OnCommand(command) PROVE EvacInv'
  <2>1. EvacTypeOK'
    BY <1>1 DEF OnCommand, EvacInv, EvacTypeOK, OnRoute
  <2>2. DockKnown'
    BY <1>1 DEF OnCommand, EvacInv, DockKnown, TaskKnown, OnRoute, Leaving, Stopping
  <2>3. TaskKnown'
    BY <1>1 DEF OnCommand, EvacInv, EvacTypeOK, TaskKnown, StandKnown, BeforeRoute, Stopping
  <2>4. StandKnown'
    BY <1>1, SpinBetweenWays DEF OnCommand, EvacInv, EvacTypeOK, TaskKnown, DockKnown,
       StandKnown, BeforeRoute, Stopping
  <2>5. QED
    BY <2>1, <2>2, <2>3, <2>4 DEF EvacInv
<1>2. CASE Measure
  <2>1. EvacTypeOK'
    BY <1>2 DEF Measure, EvacInv, EvacTypeOK, OnRoute
  <2>2. DockKnown'
    BY <1>2 DEF Measure, EvacInv, DockKnown, TaskKnown, OnRoute, Leaving, Stopping
  <2>3. TaskKnown'
    BY <1>2 DEF Measure, EvacInv, EvacTypeOK, TaskKnown, StandKnown, BeforeRoute, Stopping
  <2>4. StandKnown'
    BY <1>2, SpinBetweenWays DEF Measure, EvacInv, EvacTypeOK, TaskKnown, DockKnown,
       StandKnown, BeforeRoute, Stopping
  <2>5. QED
    BY <2>1, <2>2, <2>3, <2>4 DEF EvacInv
<1>3. CASE OnOdom
  <2>1. EvacTypeOK'
    BY <1>3 DEF OnOdom, EvacInv, EvacTypeOK, OnRoute
  <2>2. DockKnown'
    BY <1>3 DEF OnOdom, EvacInv, DockKnown, TaskKnown, OnRoute, Leaving, Stopping
  <2>3. TaskKnown'
    BY <1>3 DEF OnOdom, EvacInv, EvacTypeOK, TaskKnown, StandKnown, BeforeRoute, Stopping
  <2>4. StandKnown'
    BY <1>3, SpinBetweenWays DEF OnOdom, EvacInv, EvacTypeOK, TaskKnown, DockKnown, StandKnown,
       BeforeRoute, Stopping
  <2>5. QED
    BY <2>1, <2>2, <2>3, <2>4 DEF EvacInv
<1>4. CASE SendDockStatus
  <2>1. EvacTypeOK'
    BY <1>4 DEF SendDockStatus, EvacInv, EvacTypeOK, OnRoute
  <2>2. DockKnown'
    BY <1>4 DEF SendDockStatus, EvacInv, DockKnown, TaskKnown, OnRoute, Leaving, Stopping
  <2>3. TaskKnown'
    BY <1>4 DEF SendDockStatus, EvacInv, EvacTypeOK, TaskKnown, StandKnown, BeforeRoute,
       Stopping
  <2>4. StandKnown'
    BY <1>4, SpinBetweenWays DEF SendDockStatus, EvacInv, EvacTypeOK, TaskKnown, DockKnown,
       StandKnown, BeforeRoute, Stopping
  <2>5. QED
    BY <2>1, <2>2, <2>3, <2>4 DEF EvacInv
<1>5. CASE OnDockStatus
  <2>1. EvacTypeOK'
    BY <1>5 DEF OnDockStatus, EvacInv, EvacTypeOK, OnRoute
  <2>2. DockKnown'
    BY <1>5 DEF OnDockStatus, EvacInv, EvacTypeOK, DockKnown, TaskKnown, OnRoute, Leaving,
       Stopping
  <2>3. TaskKnown'
    BY <1>5 DEF OnDockStatus, EvacInv, EvacTypeOK, TaskKnown, StandKnown, BeforeRoute, Stopping
  <2>4. StandKnown'
    BY <1>5, SpinBetweenWays DEF OnDockStatus, EvacInv, EvacTypeOK, TaskKnown, DockKnown,
       StandKnown, BeforeRoute, Stopping
  <2>5. QED
    BY <2>1, <2>2, <2>3, <2>4 DEF EvacInv
<1>6. CASE TaskOver
  <2>1. EvacTypeOK'
    BY <1>6 DEF TaskOver, EvacInv, EvacTypeOK, OnRoute
  <2>2. DockKnown'
    BY <1>6 DEF TaskOver, EvacInv, DockKnown, TaskKnown, BeforeRoute, OnRoute, Leaving, Stopping
  <2>3. TaskKnown'
    BY <1>6 DEF TaskOver, EvacInv, EvacTypeOK, TaskKnown, StandKnown, BeforeRoute, Stopping
  <2>4. StandKnown'
    BY <1>6, SpinBetweenWays DEF TaskOver, EvacInv, EvacTypeOK, TaskKnown, DockKnown,
       StandKnown, BeforeRoute, Stopping
  <2>5. QED
    BY <2>1, <2>2, <2>3, <2>4 DEF EvacInv
<1>7. CASE RobotStands
  <2>1. EvacTypeOK'
    BY <1>7 DEF RobotStands, EvacInv, EvacTypeOK, OnRoute
  <2>2. DockKnown'
    BY <1>7 DEF RobotStands, EvacInv, DockKnown, TaskKnown, OnRoute, Leaving, Stopping
  <2>3. TaskKnown'
    BY <1>7 DEF RobotStands, EvacInv, EvacTypeOK, TaskKnown, StandKnown, BeforeRoute, Stopping
  <2>4. StandKnown'
    BY <1>7, SpinBetweenWays DEF RobotStands, EvacInv, EvacTypeOK, TaskKnown, DockKnown,
       StandKnown, BeforeRoute, Stopping
  <2>5. QED
    BY <2>1, <2>2, <2>3, <2>4 DEF EvacInv
<1>8. CASE ReceivePatrolGoal
  <2>1. EvacTypeOK'
    BY <1>8, StepOne, StepAssumption DEF ReceivePatrolGoal, FreshObjects, EvacInv, EvacTypeOK,
       OnRoute
  <2>2. DockKnown'
    BY <1>8 DEF ReceivePatrolGoal, FreshObjects, EvacInv, DockKnown, TaskKnown, OnRoute,
       Leaving, Stopping
  <2>3. TaskKnown'
    BY <1>8 DEF ReceivePatrolGoal, FreshObjects, EvacInv, EvacTypeOK, TaskKnown, StandKnown,
       BeforeRoute, Stopping
  <2>4. StandKnown'
    BY <1>8, SpinBetweenWays DEF ReceivePatrolGoal, FreshObjects, EvacInv, EvacTypeOK,
       TaskKnown, DockKnown, StandKnown, BeforeRoute, Stopping
  <2>5. QED
    BY <2>1, <2>2, <2>3, <2>4 DEF EvacInv
<1>9. CASE StartDocked
  <2>1. EvacTypeOK'
    BY <1>9 DEF StartDocked, LookAtDock, SeesDocked, EvacInv, EvacTypeOK, OnRoute
  <2>2. DockKnown'
    BY <1>9 DEF StartDocked, LookAtDock, SeesDocked, EvacInv, DockKnown, TaskKnown, OnRoute,
       Leaving, Stopping
  <2>3. TaskKnown'
    BY <1>9 DEF StartDocked, LookAtDock, SeesDocked, EvacInv, EvacTypeOK, TaskKnown,
       StandKnown, BeforeRoute, Stopping
  <2>4. StandKnown'
    BY <1>9, SpinBetweenWays DEF StartDocked, LookAtDock, SeesDocked, EvacInv, EvacTypeOK,
       TaskKnown, DockKnown, StandKnown, BeforeRoute, Stopping
  <2>5. QED
    BY <2>1, <2>2, <2>3, <2>4 DEF EvacInv
<1>10. CASE DockRobot
  <2>1. EvacTypeOK'
    BY <1>10 DEF DockRobot, EvacInv, EvacTypeOK, OnRoute
  <2>2. DockKnown'
    BY <1>10 DEF DockRobot, EvacInv, DockKnown, TaskKnown, OnRoute, Leaving, Stopping
  <2>3. TaskKnown'
    BY <1>10 DEF DockRobot, EvacInv, EvacTypeOK, TaskKnown, StandKnown, BeforeRoute, Stopping
  <2>4. StandKnown'
    BY <1>10, SpinBetweenWays DEF DockRobot, EvacInv, EvacTypeOK, TaskKnown, DockKnown,
       StandKnown, BeforeRoute, Stopping
  <2>5. QED
    BY <2>1, <2>2, <2>3, <2>4 DEF EvacInv
<1>11. CASE DockedAtStart
  <2>1. EvacTypeOK'
    BY <1>11 DEF DockedAtStart, LookAtDock, SeesDocked, EvacInv, EvacTypeOK, OnRoute
  <2>2. DockKnown'
    BY <1>11 DEF DockedAtStart, LookAtDock, SeesDocked, EvacInv, DockKnown, TaskKnown, OnRoute,
       Leaving, Stopping
  <2>3. TaskKnown'
    BY <1>11 DEF DockedAtStart, LookAtDock, SeesDocked, EvacInv, EvacTypeOK, TaskKnown,
       StandKnown, BeforeRoute, Stopping
  <2>4. StandKnown'
    BY <1>11, SpinBetweenWays DEF DockedAtStart, LookAtDock, SeesDocked, EvacInv, EvacTypeOK,
       TaskKnown, DockKnown, StandKnown, BeforeRoute, Stopping
  <2>5. QED
    BY <2>1, <2>2, <2>3, <2>4 DEF EvacInv
<1>12. CASE UndockRobot
  <2>1. EvacTypeOK'
    BY <1>12 DEF UndockRobot, EvacInv, EvacTypeOK, OnRoute
  <2>2. DockKnown'
    BY <1>12 DEF UndockRobot, EvacInv, DockKnown, TaskKnown, OnRoute, Leaving, Stopping
  <2>3. TaskKnown'
    BY <1>12 DEF UndockRobot, EvacInv, EvacTypeOK, TaskKnown, StandKnown, BeforeRoute, Stopping
  <2>4. StandKnown'
    BY <1>12, SpinBetweenWays DEF UndockRobot, EvacInv, EvacTypeOK, TaskKnown, DockKnown,
       StandKnown, BeforeRoute, Stopping
  <2>5. QED
    BY <2>1, <2>2, <2>3, <2>4 DEF EvacInv
<1>13. CASE BeginPatrol
  <2>1. EvacTypeOK'
    BY <1>13 DEF BeginPatrol, LookAtDock, SeesDocked, EvacInv, EvacTypeOK, OnRoute
  <2>2. DockKnown'
    BY <1>13 DEF BeginPatrol, LookAtDock, SeesDocked, EvacInv, EvacTypeOK, DockKnown,
       TaskKnown, OnRoute, Leaving, Stopping
  <2>3. TaskKnown'
    BY <1>13 DEF BeginPatrol, LookAtDock, SeesDocked, EvacInv, EvacTypeOK, TaskKnown,
       StandKnown, BeforeRoute, Stopping
  <2>4. StandKnown'
    BY <1>13, SpinBetweenWays DEF BeginPatrol, LookAtDock, SeesDocked, EvacInv, EvacTypeOK,
       TaskKnown, DockKnown, StandKnown, BeforeRoute, Stopping
  <2>5. QED
    BY <2>1, <2>2, <2>3, <2>4 DEF EvacInv
<1>14. CASE DockedAtEnd
  <2>1. EvacTypeOK'
    BY <1>14 DEF DockedAtEnd, LookAtDock, SeesDocked, EndGoalAs, EvacInv, EvacTypeOK, OnRoute
  <2>2. DockKnown'
    BY <1>14 DEF DockedAtEnd, LookAtDock, SeesDocked, EndGoalAs, EvacInv, DockKnown, TaskKnown,
       OnRoute, Leaving, Stopping
  <2>3. TaskKnown'
    BY <1>14 DEF DockedAtEnd, LookAtDock, SeesDocked, EndGoalAs, EvacInv, EvacTypeOK,
       TaskKnown, StandKnown, BeforeRoute, Stopping
  <2>4. StandKnown'
    BY <1>14, SpinBetweenWays DEF DockedAtEnd, LookAtDock, SeesDocked, EndGoalAs, EvacInv,
       EvacTypeOK, TaskKnown, DockKnown, StandKnown, BeforeRoute, Stopping
  <2>5. QED
    BY <2>1, <2>2, <2>3, <2>4 DEF EvacInv
<1>15. CASE AskForStep
  <2>1. EvacTypeOK'
    BY <1>15 DEF AskForStep, EvacInv, EvacTypeOK, OnRoute
  <2>2. DockKnown'
    BY <1>15 DEF AskForStep, EvacInv, DockKnown, TaskKnown, OnRoute, Leaving, Stopping
  <2>3. TaskKnown'
    BY <1>15 DEF AskForStep, EvacInv, EvacTypeOK, TaskKnown, StandKnown, BeforeRoute, Stopping
  <2>4. StandKnown'
    BY <1>15, SpinBetweenWays DEF AskForStep, EvacInv, EvacTypeOK, TaskKnown, DockKnown,
       StandKnown, BeforeRoute, Stopping
  <2>5. QED
    BY <2>1, <2>2, <2>3, <2>4 DEF EvacInv
<1>16. CASE StepAccepted
  <2>1. EvacTypeOK'
    BY <1>16, StepInRange DEF StepAccepted, DriveTo, EvacInv, EvacTypeOK, OnRoute
  <2>2. DockKnown'
    BY <1>16 DEF StepAccepted, DriveTo, EvacInv, DockKnown, TaskKnown, OnRoute, Leaving,
       Stopping
  <2>3. TaskKnown'
    BY <1>16 DEF StepAccepted, DriveTo, EvacInv, EvacTypeOK, TaskKnown, StandKnown,
       BeforeRoute, Stopping
  <2>4. StandKnown'
    BY <1>16, SpinBetweenWays DEF StepAccepted, DriveTo, EvacInv, EvacTypeOK, TaskKnown,
       DockKnown, StandKnown, BeforeRoute, Stopping
  <2>5. QED
    BY <2>1, <2>2, <2>3, <2>4 DEF EvacInv
<1>17. CASE StepRejected
  <2>1. EvacTypeOK'
    BY <1>17 DEF StepRejected, EvacInv, EvacTypeOK, OnRoute
  <2>2. DockKnown'
    BY <1>17 DEF StepRejected, EvacInv, DockKnown, TaskKnown, OnRoute, Leaving, Stopping
  <2>3. TaskKnown'
    BY <1>17 DEF StepRejected, EvacInv, EvacTypeOK, TaskKnown, StandKnown, BeforeRoute, Stopping
  <2>4. StandKnown'
    BY <1>17, SpinBetweenWays DEF StepRejected, EvacInv, EvacTypeOK, TaskKnown, DockKnown,
       StandKnown, BeforeRoute, Stopping
  <2>5. QED
    BY <2>1, <2>2, <2>3, <2>4 DEF EvacInv
<1>18. CASE StepOver
  <2> USE DEF EvacInv, EvacTypeOK, DockKnown, TaskKnown, StandKnown, BeforeRoute, OnRoute, Leaving,
              Stopping
  <2>1. /\ doing = "task"
        /\ UNCHANGED <<goal, taskIs, odom, odomSent, isDocked, dockSent, place, moving>>
    BY <1>18 DEF StepOver
  <2>2. CASE evacuate
    BY <1>18, <2>2 DEF StepOver
  <2>3. CASE taskIs = "failed" /\ ~evacuate
    BY <1>18, <2>3 DEF StepOver
  <2>4. CASE taskIs = "succeeded" /\ ~evacuate /\ step < LastStep
    <3>1. /\ doing' = "loop" /\ step' = step + 1
          /\ UNCHANGED <<stopThen, outcome, evacState, patrolling, evacuate, resume>>
      BY <1>18, <2>4 DEF StepOver, NextStep
    <3>2. LastStep \in Nat /\ step \in Nat /\ 1 <= step
      BY StepInRange
    <3>3. step' \in 1 .. LastStep /\ step' - 1 = step
      <4> HIDE DEF EvacInv
      <4>1. QED
        BY <2>4, <3>1, <3>2
    <3>4. ASSUME IsSpin(step') PROVE place = Way(step' - 1)
      <4>1. ~IsSpin(step)
        BY <3>1, <3>4, StepInRange
      <4>2. QED
        BY <2>1, <2>4, <3>3, <4>1
    <3>5. QED
      BY <2>1, <2>4, <3>1, <3>3, <3>4
  <2>5. CASE taskIs = "succeeded" /\ ~evacuate /\ ~(step < LastStep)
    BY <1>18, <2>5 DEF StepOver, NextStep
  <2>6. QED
    BY <1>18, <2>2, <2>3, <2>4, <2>5 DEF StepOver
<1>19. CASE StopsMoving
  <2>1. EvacTypeOK'
    BY <1>19 DEF StopsMoving, EvacInv, EvacTypeOK, OnRoute
  <2>2. DockKnown'
    BY <1>19 DEF StopsMoving, EvacInv, DockKnown, TaskKnown, OnRoute, Leaving, Stopping
  <2>3. TaskKnown'
    BY <1>19 DEF StopsMoving, EvacInv, EvacTypeOK, TaskKnown, StandKnown, BeforeRoute, Stopping
  <2>4. StandKnown'
    BY <1>19, SpinBetweenWays DEF StopsMoving, EvacInv, EvacTypeOK, TaskKnown, DockKnown,
       StandKnown, BeforeRoute, Stopping
  <2>5. QED
    BY <2>1, <2>2, <2>3, <2>4 DEF EvacInv
<1>20. CASE Stopped
  <2>1. EvacTypeOK'
    BY <1>20 DEF Stopped, EndGoalAs, EvacInv, EvacTypeOK, OnRoute
  <2>2. DockKnown'
    BY <1>20 DEF Stopped, EndGoalAs, EvacInv, EvacTypeOK, DockKnown, TaskKnown, OnRoute,
       Leaving, Stopping
  <2>3. TaskKnown'
    BY <1>20 DEF Stopped, EndGoalAs, EvacInv, EvacTypeOK, TaskKnown, StandKnown, BeforeRoute,
       Stopping
  <2>4. StandKnown'
    BY <1>20, SpinBetweenWays DEF Stopped, EndGoalAs, EvacInv, EvacTypeOK, TaskKnown,
       DockKnown, StandKnown, BeforeRoute, Stopping
  <2>5. QED
    BY <2>1, <2>2, <2>3, <2>4 DEF EvacInv
<1>21. CASE StopTimesOut
  <2>1. EvacTypeOK'
    BY <1>21 DEF StopTimesOut, EndGoalAs, EvacInv, EvacTypeOK, OnRoute
  <2>2. DockKnown'
    BY <1>21 DEF StopTimesOut, EndGoalAs, EvacInv, DockKnown, TaskKnown, OnRoute, Leaving,
       Stopping
  <2>3. TaskKnown'
    BY <1>21 DEF StopTimesOut, EndGoalAs, EvacInv, EvacTypeOK, TaskKnown, StandKnown,
       BeforeRoute, Stopping
  <2>4. StandKnown'
    BY <1>21, SpinBetweenWays DEF StopTimesOut, EndGoalAs, EvacInv, EvacTypeOK, TaskKnown,
       DockKnown, StandKnown, BeforeRoute, Stopping
  <2>5. QED
    BY <2>1, <2>2, <2>3, <2>4 DEF EvacInv
<1>22. CASE LeaveForZone
  <2>1. EvacTypeOK'
    BY <1>22 DEF LeaveForZone, DriveTo, EvacInv, EvacTypeOK, OnRoute
  <2>2. DockKnown'
    BY <1>22 DEF LeaveForZone, DriveTo, EvacInv, DockKnown, TaskKnown, OnRoute, Leaving,
       Stopping
  <2>3. TaskKnown'
    BY <1>22 DEF LeaveForZone, DriveTo, EvacInv, EvacTypeOK, TaskKnown, StandKnown,
       BeforeRoute, Stopping
  <2>4. StandKnown'
    BY <1>22, SpinBetweenWays DEF LeaveForZone, DriveTo, EvacInv, EvacTypeOK, TaskKnown,
       DockKnown, StandKnown, BeforeRoute, Stopping
  <2>5. QED
    BY <2>1, <2>2, <2>3, <2>4 DEF EvacInv
<1>23. CASE ReachZone
  <2>1. EvacTypeOK'
    BY <1>23 DEF ReachZone, EvacInv, EvacTypeOK, OnRoute
  <2>2. DockKnown'
    BY <1>23 DEF ReachZone, EvacInv, DockKnown, TaskKnown, OnRoute, Leaving, Stopping
  <2>3. TaskKnown'
    BY <1>23 DEF ReachZone, EvacInv, EvacTypeOK, TaskKnown, StandKnown, BeforeRoute, Stopping
  <2>4. StandKnown'
    BY <1>23, SpinBetweenWays DEF ReachZone, EvacInv, EvacTypeOK, TaskKnown, DockKnown,
       StandKnown, BeforeRoute, Stopping
  <2>5. QED
    BY <2>1, <2>2, <2>3, <2>4 DEF EvacInv
<1>24. CASE ToldToResume
  <2>1. EvacTypeOK'
    BY <1>24, StepInRange DEF ToldToResume, DriveTo, BackOnPatrol, EvacInv, EvacTypeOK, OnRoute
  <2>2. DockKnown'
    BY <1>24 DEF ToldToResume, DriveTo, BackOnPatrol, EvacInv, DockKnown, TaskKnown, OnRoute,
       Leaving, Stopping
  <2>3. TaskKnown'
    BY <1>24 DEF ToldToResume, DriveTo, BackOnPatrol, EvacInv, EvacTypeOK, TaskKnown,
       StandKnown, BeforeRoute, Stopping
  <2>4. StandKnown'
    BY <1>24, SpinBetweenWays DEF ToldToResume, DriveTo, BackOnPatrol, EvacInv, EvacTypeOK,
       TaskKnown, DockKnown, StandKnown, BeforeRoute, Stopping
  <2>5. QED
    BY <2>1, <2>2, <2>3, <2>4 DEF EvacInv
<1>25. CASE Returned
  <2>1. EvacTypeOK'
    BY <1>25 DEF Returned, BackOnPatrol, EvacInv, EvacTypeOK, OnRoute
  <2>2. DockKnown'
    BY <1>25 DEF Returned, BackOnPatrol, EvacInv, DockKnown, TaskKnown, OnRoute, Leaving,
       Stopping
  <2>3. TaskKnown'
    BY <1>25 DEF Returned, BackOnPatrol, EvacInv, EvacTypeOK, TaskKnown, StandKnown,
       BeforeRoute, Stopping
  <2>4. StandKnown'
    BY <1>25, SpinBetweenWays DEF Returned, BackOnPatrol, EvacInv, EvacTypeOK, TaskKnown,
       DockKnown, StandKnown, BeforeRoute, Stopping
  <2>5. QED
    BY <2>1, <2>2, <2>3, <2>4 DEF EvacInv
<1>26. CASE UNCHANGED evacVars
  <2>1. EvacTypeOK'
    BY <1>26 DEF evacVars, EvacInv, EvacTypeOK, OnRoute
  <2>2. DockKnown'
    BY <1>26 DEF evacVars, EvacInv, DockKnown, TaskKnown, OnRoute, Leaving, Stopping
  <2>3. TaskKnown'
    BY <1>26 DEF evacVars, EvacInv, EvacTypeOK, TaskKnown, StandKnown, BeforeRoute, Stopping
  <2>4. StandKnown'
    BY <1>26, SpinBetweenWays DEF evacVars, EvacInv, EvacTypeOK, TaskKnown, DockKnown,
       StandKnown, BeforeRoute, Stopping
  <2>5. QED
    BY <2>1, <2>2, <2>3, <2>4 DEF EvacInv
<1>27. QED
  BY <1>1, <1>2, <1>3, <1>4, <1>5, <1>6, <1>7, <1>8, <1>9, <1>10, <1>11, <1>12, <1>13, <1>14,
     <1>15, <1>16, <1>17, <1>18, <1>19, <1>20, <1>21, <1>22, <1>23, <1>24, <1>25,
     <1>26 DEF EvacNext

(* The types of the worker.                                                  *)
LEMMA EvacTypes == EvacSpec => []EvacTypeOK
<1>1. EvacInv => EvacTypeOK
  BY DEF EvacInv
<1>2. QED
  BY <1>1, EvacInvInit, EvacInvStep, PTL DEF EvacSpec

(* For a route of any length: the robot is where the worker takes it to be,   *)
(* through evacuations, failures, goals and late statuses.                    *)
THEOREM RobotIsWhereAssumed == EvacSpec => []RobotWhereAssumed
<1>1. EvacInv => RobotWhereAssumed
  BY DEF EvacInv, DockKnown, TaskKnown, StandKnown, OnRoute, RobotWhereAssumed
<1>2. QED
  BY <1>1, EvacInvInit, EvacInvStep, PTL DEF EvacSpec

--------------------------------------------------------------------------------
(* MCParts.  Whichever part is at work, each takes a step of its own or none.  *)
LEMMA PartsInit ==
  Init => /\ StartInit /\ GridInit /\ FrameInit /\ RateInit /\ EstopInit /\ PermitInit
          /\ EventInit /\ AccessInit /\ AccountInit /\ EvacInit /\ RunInit /\ CctvInit
BY DEF Init

(* A step of the parts is a step of one of them and none of the others.      *)
LEMMA PartsStep ==
  [Next]_partVars =>
    /\ [StartNext]_startVars /\ [GridNext]_gridVars /\ [FrameNext]_frameVars
    /\ [RateNext]_rateVars /\ [EstopNext]_estopVars /\ [PermitNext]_permitVars
    /\ [EventNext]_eventVars /\ [AccessNext]_accessVars /\ [AccountNext]_accountVars
    /\ [EvacNext]_evacVars /\ [RunNext]_runVars /\ [CctvNext]_cctvVars
<1>1. CASE Next
  BY <1>1 DEF Next
<1>2. CASE UNCHANGED partVars
  BY <1>2 DEF partVars
<1>3. QED
  BY <1>1, <1>2

(* So a run of the parts is a run of each of them, and what is proved of a     *)
(* part alone is proved of the specification the run checks.                   *)
THEOREM PartsRunTheirSpecs ==
  Spec => /\ StartSpec /\ GridSpec /\ FrameSpec /\ RateSpec /\ EstopSpec /\ PermitSpec
          /\ EventSpec /\ AccessSpec /\ AccountSpec /\ EvacSpec /\ RunSpec /\ CctvSpec
<1>1. QED
  BY PartsInit, PartsStep, PTL
     DEF Spec, StartSpec, GridSpec, FrameSpec, RateSpec, EstopSpec, PermitSpec, EventSpec,
         AccessSpec, AccountSpec, EvacSpec, RunSpec, CctvSpec

(* Every part keeps its types, for any values of the constants.                *)
THEOREM PartTypes == Spec => []TypeOK
<1>1. /\ StartTypeOK /\ GridTypeOK /\ FrameTypeOK /\ RateTypeOK /\ EstopTypeOK /\ PermitTypeOK
      /\ EventTypeOK /\ AccessTypeOK /\ AccountTypeOK /\ EvacTypeOK /\ RunTypeOK /\ CctvTypeOK
      => TypeOK
  BY DEF TypeOK
<1>2. StartSpec => []StartTypeOK
  BY StartTypes
<1>3. QED
  BY <1>1, <1>2, PartsRunTheirSpecs, GridTypes, FrameTypes, RateTypes, EstopTypes, PermitTypes,
     EventTypes, AccessTypes, AccountTypes, EvacTypes, RunTypes, CctvTypes, PTL
================================================================================
