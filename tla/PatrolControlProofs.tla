-------------------------- MODULE PatrolControlProofs --------------------------
(***************************************************************************)
(* Proofs about the Control Server node for any set of robots and events    *)
(* and any bounds: type correctness, the slot invariant, the command a      *)
(* robot with authority has last heard, one robot at work besides those     *)
(* whose action future failed, and the refinement of MissionSlot.           *)
(***************************************************************************)
EXTENDS PatrolControl, TLAPS

(* What each ControlCore method returns is again a core. *)
LEMMA CoreMethodTypes ==
  ASSUME NEW c \in Cores, NEW r \in Robots
  PROVE  /\ PrepareGoal(c, r) \in Cores
         /\ MarkGoalAccepted(c) \in Cores
         /\ FinishCoreGoal(c, r) \in Cores
         /\ RevokeDrive(c) \in Cores
         /\ AdvanceFrames(c) \in Cores
         /\ ClearFireHold(c) \in Cores
<1>0. c.goalSeq + 1 \in Nat /\ [q \in Robots |-> c.frameSeq[q] + 1] \in [Robots -> Nat]
  BY DEF Cores
<1>1. PrepareGoal(c, r) \in Cores
  BY <1>0 DEF Cores, PrepareGoal, NoToken
<1>2. MarkGoalAccepted(c) \in Cores
  BY DEF Cores, MarkGoalAccepted
<1>3. FinishCoreGoal(c, r) \in Cores
  BY DEF Cores, FinishCoreGoal, FinishGoal, NoToken
<1>4. RevokeDrive(c) \in Cores
  BY DEF Cores, RevokeDrive, NoToken
<1>5. AdvanceFrames(c) \in Cores
  <2>1. ASSUME NEW fs \in [Robots -> Nat]
        PROVE  [c EXCEPT !.frameSeq = fs] \in Cores
    BY DEF Cores
  <2>2. QED
    BY <1>0, <2>1 DEF AdvanceFrames
<1>6. ClearFireHold(c) \in Cores
  BY DEF Cores, ClearFireHold
<1>7. QED
  BY <1>1, <1>2, <1>3, <1>4, <1>5, <1>6

(* observe_permit returns a core. *)
LEMMA ObservePermitType ==
  ASSUME NEW c \in Cores, NEW p \in {"denied", "allowed"}
  PROVE  ObservePermit(c, p) \in Cores
<1>1. ASSUME NEW n \in Nat
      PROVE  [c EXCEPT !.allowed = p, !.commandSeq = n] \in Cores
  BY DEF Cores, Permits
<1>2. c.commandSeq \in Nat /\ c.commandSeq + 1 \in Nat
  BY DEF Cores
<1>3. QED
  BY <1>1, <1>2 DEF ObservePermit

(* observe_feedback returns a core, whatever the sample and the new token. *)
LEMMA ObserveFeedbackType ==
  ASSUME NEW c \in Cores, NEW f \in Samples, NEW t \in Nat
  PROVE  ObserveFeedback(c, f.robot, f, t) \in Cores
<1>1. ASSUME NEW g \in BOOLEAN, NEW k \in Nat, NEW h \in BOOLEAN,
             NEW e \in FireEvents \cup {NoEvent}
      PROVE  [c EXCEPT !.granted = g, !.token = k, !.fireHold = h, !.fireEvent = e]
               \in Cores
  BY DEF Cores
<1>2. /\ (c.granted \/ GrantsToken(c, f.robot, f)) \in BOOLEAN
      /\ (c.fireHold \/ HoldsFire(c, f.robot, f)) \in BOOLEAN
      /\ (IF GrantsToken(c, f.robot, f) THEN t ELSE c.token) \in Nat
      /\ (IF HoldsFire(c, f.robot, f) THEN f.event ELSE c.fireEvent)
            \in FireEvents \cup {NoEvent}
  BY DEF Cores, Samples, GrantsToken, HoldsFire, Heard
<1>3. QED
  BY <1>1, <1>2 DEF ObserveFeedback

(* A frame carries a token or the empty token. *)
LEMMA FrameTokenType ==
  ASSUME NEW c \in Cores, NEW r \in Robots
  PROVE  FrameToken(c, r) \in Nat
  BY DEF Cores, FrameToken, NoToken

(* Starting a patrol from a core, or not, keeps the types. *)
LEMMA TryAutoStartTypes ==
  ASSUME TypeOK, NEW c \in Cores, TryAutoStart(c)
  PROVE  /\ core' \in Cores
         /\ calls' \subseteq Calls
         /\ grantedBy' \in Nat
         /\ autoStartDone' \in BOOLEAN
<1>1. PrepareGoal(c, InitialRobot) \in Cores
  BY InitialRobotAssumption, CoreMethodTypes
<1>2. NewCall(c, InitialRobot) \in Calls
  BY InitialRobotAssumption DEF NewCall, Calls, Cores, ServerStates, ClientStates, LetGoStates
<1>3. CASE /\ core' = PrepareGoal(c, InitialRobot)
           /\ calls' = calls \cup {NewCall(c, InitialRobot)}
           /\ grantedBy' = 0
           /\ autoStartDone' = TRUE
  BY <1>1, <1>2, <1>3 DEF TypeOK
<1>4. CASE core' = c /\ UNCHANGED <<calls, grantedBy, autoStartDone>>
  BY <1>4 DEF TypeOK
<1>5. QED
  BY <1>3, <1>4 DEF TryAutoStart

(* Forgetting a call leaves a set of calls. *)
LEMMA LetGoType ==
  ASSUME calls \subseteq Calls, NEW a \in calls, NEW how \in LetGoStates
  PROVE  LetGo(a, how) \subseteq Calls
  BY DEF LetGo, Calls, ClientStates

(* Every callback and every step of a robot keeps the types. *)
LEMMA TypeStep == TypeOK /\ [Next]_vars => TypeOK'
<1> SUFFICES ASSUME TypeOK, [Next]_vars
             PROVE  TypeOK'
  OBVIOUS
<1>1. ASSUME NEW r \in Robots, StartPatrol(r)
      PROVE  TypeOK'
  <2>1. PrepareGoal(core, r) \in Cores
    BY CoreMethodTypes DEF TypeOK
  <2>2. NewCall(core, r) \in Calls
    BY DEF TypeOK, NewCall, Calls, Cores, ServerStates, ClientStates, LetGoStates
  <2>3. QED
    BY <1>1, <2>1, <2>2 DEF StartPatrol, TypeOK
<1>2. ASSUME NEW p \in {"denied", "allowed"}, OnPatrolAllowed(p)
      PROVE  TypeOK'
  <2>1. ObservePermit(core, p) \in Cores
    BY ObservePermitType DEF TypeOK
  <2>2. order' \in Orders
    BY <1>2 DEF OnPatrolAllowed, TypeOK, Orders, Cores, CommandFor
  <2>3. QED
    BY <1>2, <2>1, <2>2, TryAutoStartTypes DEF OnPatrolAllowed, TypeOK
<1>3. CASE OnTokenTimer
  <2>1. AdvanceFrames(core) \in Cores
    BY RobotsAssumption, CoreMethodTypes DEF TypeOK
  <2>2. published' \in [Robots -> Nat]
    BY <1>3, FrameTokenType DEF OnTokenTimer, PublishFrames, TypeOK
  <2>3. QED
    BY <1>3, <2>1, <2>2, TryAutoStartTypes DEF OnTokenTimer, TypeOK
<1>4. CASE CancelActivePatrol
  <2>1. RevokeDrive(core) \in Cores
    BY RobotsAssumption, CoreMethodTypes DEF TypeOK
  <2>2. AdvanceFrames(RevokeDrive(core)) \in Cores
    BY <2>1, RobotsAssumption, CoreMethodTypes
  <2>3. published' \in [Robots -> Nat]
    BY <1>4, <2>1, FrameTokenType DEF CancelActivePatrol, PublishFrames
  <2>4. core.active \in Robots
    BY <1>4 DEF CancelActivePatrol, TypeOK, Cores
  <2>5. QED
    BY <1>4, <2>2, <2>3, <2>4 DEF CancelActivePatrol, TypeOK
<1>5. CASE OperatorClearsFire
  BY <1>5, RobotsAssumption, CoreMethodTypes DEF OperatorClearsFire, TypeOK, envVars
<1>6. ASSUME NEW a \in calls, ClientStep(a)
      PROVE  TypeOK'
  <2>1. a \in Calls /\ a.robot \in Robots /\ a.goal \in Nat
    BY DEF TypeOK, Calls
  <2>2. FinishCoreGoal(core, a.robot) \in Cores /\ MarkGoalAccepted(core) \in Cores
    BY <2>1, CoreMethodTypes DEF TypeOK
  <2>3. LetGo(a, "failed") \subseteq Calls /\ LetGo(a, "gone") \subseteq Calls
    BY LetGoType DEF TypeOK, LetGoStates
  <2>4. CASE OnGoalAccepted(a)
    <3>1. [a EXCEPT !.client = "result"] \in Calls
      BY <2>1 DEF Calls, ClientStates, LetGoStates
    <3>2. QED
      BY <2>4, <2>1, <2>2, <2>3, <3>1 DEF OnGoalAccepted, TypeOK, history
  <2>5. CASE OnGoalNotAccepted(a)
    BY <2>5, <2>1, <2>2, <2>3 DEF OnGoalNotAccepted, TypeOK
  <2>6. CASE OnPatrolResult(a)
    BY <2>6, <2>1, <2>2, <2>3 DEF OnPatrolResult, TypeOK
  <2>7. QED
    BY <1>6, <2>4, <2>5, <2>6 DEF ClientStep
<1>7. ASSUME NEW a \in calls, ServerStep(a)
      PROVE  TypeOK'
  <2>1. a \in Calls
    BY DEF TypeOK
  <2>2. ASSUME NEW from, NEW to \in ServerStates, ServerMoves(a, from, to)
        PROVE  TypeOK'
    <3>1. [a EXCEPT !.server = to] \in Calls
      BY <2>1, <2>2 DEF Calls
    <3>2. QED
      BY <2>2, <3>1 DEF ServerMoves, TypeOK, nodeVars, history
  <2>3. ASSUME NEW s \in FeedbackStates, NEW e \in FireEvents \cup {NoEvent},
               SendFeedback(a, s, e)
        PROVE  TypeOK'
    BY <2>1, <2>3 DEF SendFeedback, TypeOK, Calls, Samples, nodeVars, history
  <2>4. QED
    BY <1>7, <2>2, <2>3 DEF ServerStep, ServerDecides, ServerEnds, ServerStates
<1>8. ASSUME NEW f \in feedback, OnPatrolFeedback(f)
      PROVE  TypeOK'
  <2>1. f \in Samples
    BY DEF TypeOK
  <2>2. ObserveFeedback(core, f.robot, f, issued + 1) \in Cores
    BY <2>1, ObserveFeedbackType DEF TypeOK
  <2>3. issued' \in Nat /\ grantedBy' \in Nat
    BY <1>8, <2>1 DEF OnPatrolFeedback, TypeOK, Samples
  <2>4. confirmed' \subseteq FireEvents
    BY <1>8, <2>1 DEF OnPatrolFeedback, TypeOK, Samples
  <2>5. QED
    BY <1>8, <2>2, <2>3, <2>4 DEF OnPatrolFeedback, TypeOK
<1>9. CASE UNCHANGED vars
  BY <1>9 DEF vars, nodeVars, envVars, history, TypeOK
<1>10. QED
  BY <1>1, <1>2, <1>3, <1>4, <1>5, <1>6, <1>7, <1>8, <1>9 DEF Next

(* A node that has just been constructed has its types. *)
LEMMA TypeInit == Init => TypeOK
<1> SUFFICES ASSUME Init PROVE TypeOK
  OBVIOUS
<1>1. [r \in Robots |-> 0] \in [Robots -> Nat]
  OBVIOUS
<1>2. core \in Cores
  BY <1>1 DEF Init, InitCore, Cores, Permits, NoToken
<1>3. order \in Orders
  BY DEF Init, Orders
<1>4. QED
  BY <1>2, <1>3 DEF Init, TypeOK, NoToken

(* Every reachable state of the node has its types. *)
THEOREM TypeCorrect == Spec => []TypeOK
  BY TypeInit, TypeStep, PTL DEF Spec
--------------------------------------------------------------------------------
(***************************************************************************)
(* The fields each ControlCore method writes, and the ones the invariants   *)
(* read afterwards.                                                         *)
(***************************************************************************)
LEMMA PrepareGoalEffect ==
  ASSUME NEW c \in Cores, NEW r \in Robots
  PROVE  LET d == PrepareGoal(c, r)
         IN  /\ d.active = r /\ ~d.accepted /\ ~d.granted /\ d.token = NoToken
             /\ d.goalSeq = c.goalSeq + 1 /\ d.allowed = c.allowed
  BY DEF PrepareGoal, Cores

(* mark_goal_accepted touches neither robot, authority, number nor permit. *)
LEMMA MarkGoalAcceptedEffect ==
  ASSUME NEW c \in Cores
  PROVE  LET d == MarkGoalAccepted(c)
         IN  /\ d.accepted
             /\ d.active = c.active /\ d.granted = c.granted /\ d.token = c.token
             /\ d.goalSeq = c.goalSeq /\ d.allowed = c.allowed
  BY DEF MarkGoalAccepted, Cores

(* finish_goal empties the slot and keeps the number and the permit. *)
LEMMA FinishGoalEffect ==
  ASSUME NEW c \in Cores
  PROVE  LET d == FinishGoal(c)
         IN  /\ d.active = NoRobot /\ ~d.accepted /\ ~d.granted /\ d.token = NoToken
             /\ d.goalSeq = c.goalSeq /\ d.allowed = c.allowed
  BY DEF FinishGoal, Cores

(* revoke_drive takes the authority only. *)
LEMMA RevokeDriveEffect ==
  ASSUME NEW c \in Cores
  PROVE  LET d == RevokeDrive(c)
         IN  /\ ~d.granted /\ d.token = NoToken
             /\ d.active = c.active /\ d.accepted = c.accepted
             /\ d.goalSeq = c.goalSeq /\ d.allowed = c.allowed
  BY DEF RevokeDrive, Cores

(* token_frames counts frames and changes nothing else. *)
LEMMA AdvanceFramesEffect ==
  ASSUME NEW c \in Cores
  PROVE  LET d == AdvanceFrames(c)
         IN  /\ d.active = c.active /\ d.accepted = c.accepted
             /\ d.granted = c.granted /\ d.token = c.token
             /\ d.goalSeq = c.goalSeq /\ d.allowed = c.allowed
  BY DEF AdvanceFrames, Cores

(* clear_fire_hold leaves slot, authority, number and permit alone. *)
LEMMA ClearFireHoldEffect ==
  ASSUME NEW c \in Cores
  PROVE  LET d == ClearFireHold(c)
         IN  /\ d.active = c.active /\ d.accepted = c.accepted
             /\ d.granted = c.granted /\ d.token = c.token
             /\ d.goalSeq = c.goalSeq /\ d.allowed = c.allowed
  BY DEF ClearFireHold, Cores

(* observe_permit sets the permit and leaves slot and authority alone. *)
LEMMA ObservePermitEffect ==
  ASSUME NEW c \in Cores, NEW p \in {"denied", "allowed"}
  PROVE  LET d == ObservePermit(c, p)
         IN  /\ d.allowed = p
             /\ d.active = c.active /\ d.accepted = c.accepted
             /\ d.granted = c.granted /\ d.token = c.token
             /\ d.goalSeq = c.goalSeq
  BY DEF ObservePermit, Cores

(* observe_feedback grants at most, and never moves the slot. *)
LEMMA ObserveFeedbackEffect ==
  ASSUME NEW c \in Cores, NEW f \in Samples, NEW t \in Nat
  PROVE  LET d == ObserveFeedback(c, f.robot, f, t)
         IN  /\ d.active = c.active /\ d.accepted = c.accepted
             /\ d.goalSeq = c.goalSeq /\ d.allowed = c.allowed
             /\ GrantsToken(c, f.robot, f) =>
                  /\ d.granted /\ d.token = t
                  /\ c.active = f.robot /\ c.accepted /\ c.allowed = "allowed"
             /\ ~GrantsToken(c, f.robot, f) =>
                  d.granted = c.granted /\ d.token = c.token
<1>1. /\ c.granted \in BOOLEAN
      /\ GrantsToken(c, f.robot, f) \in BOOLEAN
  BY DEF Cores, GrantsToken, Heard
<1>2. QED
  BY <1>1 DEF ObserveFeedback, Cores, GrantsToken, Heard
--------------------------------------------------------------------------------
(***************************************************************************)
(* The inductive invariant.  SlotMatchesCall and HandleMatchesSlot need one *)
(* another; AuthorityNeedsAcceptedGoal is about the core alone; the last    *)
(* command can only be compared with the permit because it is never from a  *)
(* goal that is still reserved (OrderIsPast), and because a permit has been *)
(* heard before any goal (PermitHeard).                                     *)
(***************************************************************************)
OrderIsPast ==
  /\ order.goal <= core.goalSeq
  /\ core.active # NoRobot /\ ~core.accepted => order.goal < core.goalSeq

PermitHeard == core.active # NoRobot => core.allowed # "unknown"

AcceptedHasRobot == core.accepted => core.active # NoRobot

CoreInv == AuthorityNeedsAcceptedGoal /\ PermitHeard /\ AcceptedHasRobot
OrderInv == OrderIsPast /\ LastOrderAgreesWithPermit /\ DeniedDriverSentToSafety
IInv == TypeOK /\ SlotMatchesCall /\ HandleMatchesSlot /\ CoreInv /\ OrderInv

(* The invariant holds of a node that has just been constructed. *)
LEMMA IInvInit == Init => IInv
<1> SUFFICES ASSUME Init PROVE IInv
  OBVIOUS
<1>1. TypeOK
  BY TypeInit
<1>2. /\ core.active = NoRobot /\ ~core.granted /\ ~core.accepted
      /\ core.token = NoToken /\ core.goalSeq = 0
  BY DEF Init, InitCore
<1>3. SlotMatchesCall /\ HandleMatchesSlot
  BY <1>2 DEF Init, SlotMatchesCall, HandleMatchesSlot, Live
<1>4. CoreInv
  BY <1>2 DEF CoreInv, AuthorityNeedsAcceptedGoal, PermitHeard, AcceptedHasRobot
<1>5. OrderInv
  BY <1>2 DEF Init, OrderInv, OrderIsPast, LastOrderAgreesWithPermit,
              DeniedDriverSentToSafety
<1>6. QED
  BY <1>1, <1>3, <1>4, <1>5 DEF IInv

(* The call a callback of the client is about is the one in the slot. *)
LEMMA LiveCall ==
  ASSUME IInv, NEW a \in calls, a.client \notin LetGoStates
  PROVE  /\ Live = {a}
         /\ core.active = a.robot /\ a.robot \in Robots
         /\ a.goal = core.goalSeq
         /\ core.accepted <=> a.client = "result"
<1>1. a \in Live /\ a \in Calls
  BY DEF Live, IInv, TypeOK
<1>2. core.active # NoRobot
  BY <1>1 DEF IInv, SlotMatchesCall
<1>3. PICK b \in calls : /\ Live = {b}
                         /\ b.goal = core.goalSeq
                         /\ b.robot = core.active
                         /\ core.accepted <=> b.client = "result"
  BY <1>2 DEF IInv, SlotMatchesCall
<1>4. b = a
  BY <1>1, <1>3
<1>5. QED
  BY <1>1, <1>3, <1>4 DEF Calls

(* A step of the core that touches neither slot nor authority, and leaves   *)
(* calls, handles and orders alone, keeps the invariant.                    *)
LEMMA QuietCoreStep ==
  ASSUME IInv, TypeOK',
         calls' = calls, handles' = handles, order' = order,
         core'.active = core.active, core'.accepted = core.accepted,
         core'.granted = core.granted, core'.token = core.token,
         core'.goalSeq = core.goalSeq, core'.allowed = core.allowed
  PROVE  IInv'
  BY DEF IInv, SlotMatchesCall, HandleMatchesSlot, CoreInv, OrderInv,
         AuthorityNeedsAcceptedGoal, PermitHeard, AcceptedHasRobot, OrderIsPast,
         LastOrderAgreesWithPermit, DeniedDriverSentToSafety, Live

(* Entering the slot: core c is the core before prepare_goal. *)
LEMMA EnterSlot ==
  ASSUME IInv, TypeOK', NEW c \in Cores, NEW r \in Robots,
         c.active = NoRobot, core.active = NoRobot,
         c.goalSeq = core.goalSeq, c.allowed = "allowed",
         core' = PrepareGoal(c, r),
         calls' = calls \cup {NewCall(c, r)},
         handles' = handles, order' = order
  PROVE  IInv'
<1>1. /\ core'.active = r /\ r # NoRobot /\ ~core'.accepted /\ ~core'.granted
      /\ core'.token = NoToken /\ core'.goalSeq = core.goalSeq + 1
      /\ core'.allowed = "allowed"
  BY PrepareGoalEffect, RobotsAssumption
<1>2. Live = {}
  BY DEF IInv, SlotMatchesCall
<1>3. Live' = {NewCall(c, r)}
  BY <1>2 DEF Live, NewCall, LetGoStates
<1>4. SlotMatchesCall'
  <2>1. /\ NewCall(c, r) \in calls'
        /\ NewCall(c, r).goal = core'.goalSeq
        /\ NewCall(c, r).robot = core'.active
        /\ NewCall(c, r).client = "response"
    BY <1>1 DEF NewCall
  <2>2. QED
    BY <1>1, <1>3, <2>1 DEF SlotMatchesCall
<1>5. \A q \in Robots : handles[q] = 0
  BY RobotsAssumption DEF IInv, HandleMatchesSlot
<1>6. HandleMatchesSlot'
  BY <1>1, <1>5 DEF HandleMatchesSlot
<1>7. CoreInv'
  BY <1>1 DEF CoreInv, AuthorityNeedsAcceptedGoal, PermitHeard, AcceptedHasRobot
<1>8. core.goalSeq \in Nat /\ order.goal \in Nat
  BY DEF IInv, TypeOK, Cores, Orders
<1>9. OrderInv'
  BY <1>1, <1>8 DEF IInv, OrderInv, OrderIsPast, LastOrderAgreesWithPermit,
                    DeniedDriverSentToSafety
<1>10. QED
  BY <1>4, <1>6, <1>7, <1>9 DEF IInv

(* Leaving the slot: the client lets go of the call it waited for. *)
LEMMA LeaveSlot ==
  ASSUME IInv, TypeOK', NEW a \in calls, a.client \notin LetGoStates,
         core' = FinishCoreGoal(core, a.robot),
         calls' = LetGo(a, "failed"),
         handles' = [handles EXCEPT ![a.robot] = 0],
         order' = order
  PROVE  IInv'
<1>1. /\ Live = {a} /\ core.active = a.robot /\ a.robot \in Robots
      /\ core \in Cores /\ a \in Calls
  BY LiveCall DEF IInv, TypeOK
<1>2. /\ core'.active = NoRobot /\ ~core'.accepted /\ ~core'.granted
      /\ core'.token = NoToken /\ core'.goalSeq = core.goalSeq
      /\ core'.allowed = core.allowed
  BY <1>1, FinishGoalEffect DEF FinishCoreGoal
<1>3. [a EXCEPT !.client = "failed"].client = "failed"
  BY <1>1 DEF Calls
<1>4. Live' = {}
  BY <1>1, <1>3 DEF Live, LetGo, LetGoStates
<1>5. SlotMatchesCall'
  BY <1>2, <1>4 DEF SlotMatchesCall
<1>6. HandleMatchesSlot'
  BY <1>1, <1>2, RobotsAssumption DEF IInv, HandleMatchesSlot, TypeOK
<1>7. CoreInv' /\ OrderInv'
  BY <1>1, <1>2 DEF IInv, CoreInv, AuthorityNeedsAcceptedGoal, PermitHeard, AcceptedHasRobot, OrderInv,
              OrderIsPast, LastOrderAgreesWithPermit, DeniedDriverSentToSafety
<1>8. QED
  BY <1>5, <1>6, <1>7 DEF IInv

(* _try_auto_start keeps the invariant, from whatever core the callback made. *)
LEMMA TryAutoStartStep ==
  ASSUME IInv, TypeOK', NEW c \in Cores, TryAutoStart(c),
         handles' = handles, order' = order,
         c.active = core.active, c.accepted = core.accepted,
         c.granted = core.granted, c.token = core.token,
         c.goalSeq = core.goalSeq, c.allowed = core.allowed
  PROVE  IInv'
<1>1. CASE CanStart(c) /\ core' = PrepareGoal(c, InitialRobot)
                       /\ calls' = calls \cup {NewCall(c, InitialRobot)}
  BY <1>1, EnterSlot, InitialRobotAssumption DEF CanStart, CanPrepareGoal
<1>2. CASE core' = c /\ calls' = calls
  BY <1>2, QuietCoreStep
<1>3. QED
  BY <1>1, <1>2 DEF TryAutoStart

(* A permit edge while nobody is in the slot may start a patrol at once;    *)
(* with an accepted goal in the slot it makes the command.                  *)
LEMMA PermitStep ==
  ASSUME IInv, TypeOK', NEW p \in {"denied", "allowed"}, OnPatrolAllowed(p)
  PROVE  IInv'
<1> DEFINE c == ObservePermit(core, p)
<1>1. core \in Cores /\ c \in Cores
  BY ObservePermitType DEF IInv, TypeOK
<1>2. /\ c.allowed = p
      /\ c.active = core.active /\ c.accepted = core.accepted
      /\ c.granted = core.granted /\ c.token = core.token
      /\ c.goalSeq = core.goalSeq
  BY <1>1, ObservePermitEffect
<1>3. /\ handles' = handles
      /\ order' = IF PermitCommands(core, p)
                  THEN [goal |-> core.goalSeq, command |-> CommandFor(p)]
                  ELSE order
      /\ TryAutoStart(c)
  BY DEF OnPatrolAllowed
<1> HIDE DEF c
<1>4. CASE CanStart(c) /\ core' = PrepareGoal(c, InitialRobot)
                       /\ calls' = calls \cup {NewCall(c, InitialRobot)}
  <2>1. core.active = NoRobot /\ c.allowed = "allowed"
    BY <1>2, <1>4 DEF CanStart, CanPrepareGoal
  <2>2. order' = order
    BY <1>3, <2>1 DEF PermitCommands
  <2>3. QED
    BY <1>1, <1>2, <1>3, <1>4, <2>1, <2>2, EnterSlot, InitialRobotAssumption
<1>5. CASE core' = c /\ calls' = calls
  <2>1. SlotMatchesCall' /\ HandleMatchesSlot'
    BY <1>2, <1>3, <1>5 DEF IInv, SlotMatchesCall, HandleMatchesSlot, Live
  <2>2. CoreInv'
    BY <1>2, <1>5 DEF IInv, CoreInv, AuthorityNeedsAcceptedGoal, PermitHeard, AcceptedHasRobot
  <2>3. OrderInv'
    <3>1. CASE PermitCommands(core, p)
      <4>1. order'.goal = core.goalSeq /\ order'.command = CommandFor(p)
            /\ order' = [goal |-> core.goalSeq, command |-> CommandFor(p)]
        BY <1>3, <3>1
      <4>2. core.goalSeq \in Nat
        BY <1>1 DEF Cores
      <4>3. core.accepted
        BY <3>1 DEF PermitCommands
      <4>4. /\ order'.goal = core'.goalSeq /\ core'.goalSeq \in Nat
            /\ core'.accepted /\ core'.allowed = p
            /\ order'.command = CommandFor(p)
        <5>1. core'.goalSeq = core.goalSeq /\ core'.accepted = core.accepted
              /\ core'.allowed = p
          BY <1>2, <1>5
        <5>2. QED
          BY <4>1, <4>2, <4>3, <5>1
      <4>5. OrderIsPast'
        BY <4>4 DEF OrderIsPast
      <4>6. LastOrderAgreesWithPermit'
        BY <4>4 DEF LastOrderAgreesWithPermit
      <4>7. p = "denied" => CommandFor(p) = "MOVE_TO_SAFE_ZONE"
        BY DEF CommandFor
      <4>8. DeniedDriverSentToSafety'
        BY <1>2, <1>5, <4>1, <4>7 DEF DeniedDriverSentToSafety
      <4>9. QED
        BY <4>5, <4>6, <4>8 DEF OrderInv
    <3>2. CASE ~PermitCommands(core, p)
      <4>1. core.allowed = p \/ core.active = NoRobot \/ ~core.accepted
        BY <3>2 DEF PermitCommands
      <4>2. order' = order
        BY <1>3, <3>2
      <4>3. core.accepted => core.active # NoRobot
        BY DEF IInv, CoreInv, AcceptedHasRobot
      <4>4. QED
        BY <1>2, <1>5, <4>1, <4>2, <4>3 DEF IInv, OrderInv, OrderIsPast,
           LastOrderAgreesWithPermit, DeniedDriverSentToSafety, CoreInv,
           AuthorityNeedsAcceptedGoal
    <3>3. QED
      BY <3>1, <3>2
  <2>4. QED
    BY <2>1, <2>2, <2>3 DEF IInv
<1>6. QED
  BY <1>3, <1>4, <1>5 DEF TryAutoStart

(* An accepted response: the slot is accepted and the handle stored.       *)
LEMMA AcceptStep ==
  ASSUME IInv, TypeOK', NEW a \in calls, OnGoalAccepted(a)
  PROVE  IInv'
<1>1. a.client = "response"
  BY DEF OnGoalAccepted
<1>2. /\ Live = {a} /\ core.active = a.robot /\ a.robot \in Robots
      /\ a.goal = core.goalSeq /\ ~core.accepted
      /\ core \in Cores /\ a \in Calls
  BY <1>1, LiveCall DEF IInv, TypeOK, LetGoStates
<1> DEFINE b == [a EXCEPT !.client = "result"]
<1>3. b.client = "result" /\ b.goal = a.goal /\ b.robot = a.robot
  BY <1>2 DEF Calls
<1>4. /\ core' = MarkGoalAccepted(core)
      /\ calls' = (calls \ {a}) \cup {b}
      /\ handles' = [handles EXCEPT ![a.robot] = a.goal]
      /\ order' = order
  BY <1>2 DEF OnGoalAccepted, history
<1>5. /\ core'.accepted
      /\ core'.active = core.active /\ core'.granted = core.granted
      /\ core'.token = core.token /\ core'.goalSeq = core.goalSeq
      /\ core'.allowed = core.allowed
  BY <1>2, <1>4, MarkGoalAcceptedEffect
<1> HIDE DEF b
<1>6. Live' = {b}
  BY <1>2, <1>3, <1>4 DEF Live, LetGoStates
<1>7. SlotMatchesCall'
  BY <1>2, <1>3, <1>4, <1>5, <1>6, RobotsAssumption DEF SlotMatchesCall
<1>8. HandleMatchesSlot'
  BY <1>2, <1>4, <1>5 DEF IInv, HandleMatchesSlot, TypeOK
<1>9. CoreInv'
  BY <1>2, <1>5, RobotsAssumption
  DEF IInv, CoreInv, AuthorityNeedsAcceptedGoal, PermitHeard, AcceptedHasRobot
<1>10. order.goal < core.goalSeq
  BY <1>2, RobotsAssumption DEF IInv, OrderInv, OrderIsPast
<1>11. core.goalSeq \in Nat /\ order.goal \in Nat /\ ~core.granted
  BY <1>2 DEF IInv, TypeOK, Cores, Orders, CoreInv, AuthorityNeedsAcceptedGoal
<1>12. OrderInv'
  BY <1>4, <1>5, <1>10, <1>11 DEF OrderInv, OrderIsPast,
     LastOrderAgreesWithPermit, DeniedDriverSentToSafety
<1>13. QED
  BY <1>7, <1>8, <1>9, <1>12 DEF IInv

(* Every callback of the action client keeps the invariant.                *)
LEMMA ClientSteps ==
  ASSUME IInv, TypeOK', NEW a \in calls, ClientStep(a)
  PROVE  IInv'
<1>1. CASE OnGoalAccepted(a)
  BY <1>1, AcceptStep
<1>2. CASE OnGoalNotAccepted(a)
  <2>1. a.client = "response"
    BY <1>2 DEF OnGoalNotAccepted
  <2>2. handles[a.robot] = 0 /\ a.robot \in Robots
    BY <2>1, LiveCall DEF IInv, HandleMatchesSlot, LetGoStates
  <2>3. handles' = [handles EXCEPT ![a.robot] = 0]
    BY <1>2, <2>2 DEF OnGoalNotAccepted, IInv, TypeOK
  <2>4. QED
    BY <1>2, <2>1, <2>3, LeaveSlot DEF OnGoalNotAccepted, LetGoStates
<1>3. CASE OnPatrolResult(a)
  BY <1>3, LeaveSlot DEF OnPatrolResult, LetGoStates
<1>4. QED
  BY <1>1, <1>2, <1>3 DEF ClientStep

(* The robots' servers never change which call the client waits for. *)
LEMMA ServerSteps ==
  ASSUME IInv, TypeOK', NEW a \in calls, ServerStep(a)
  PROVE  IInv'
<1>1. a \in Calls
  BY DEF IInv, TypeOK
<1>2. ASSUME NEW from, NEW to, ServerMoves(a, from, to)
      PROVE  IInv'
  <2> DEFINE b == [a EXCEPT !.server = to]
  <2>1. b.client = a.client /\ b.goal = a.goal /\ b.robot = a.robot
    BY <1>1 DEF Calls
  <2>2. /\ core' = core /\ handles' = handles /\ order' = order
        /\ calls' = (calls \ {a}) \cup
             (IF a.client \in LetGoStates /\ to \in {"ended", "refused"} THEN {} ELSE {b})
    BY <1>2 DEF ServerMoves, nodeVars, history
  <2> HIDE DEF b
  <2>3. CASE a.client \in LetGoStates
    <3>1. Live' = Live
      BY <2>1, <2>2, <2>3 DEF Live
    <3>2. SlotMatchesCall'
      BY <2>2, <3>1 DEF IInv, SlotMatchesCall, Live
    <3>3. QED
      BY <2>2, <3>2 DEF IInv, HandleMatchesSlot, CoreInv, OrderInv,
         AuthorityNeedsAcceptedGoal, PermitHeard, AcceptedHasRobot, OrderIsPast,
         LastOrderAgreesWithPermit, DeniedDriverSentToSafety
  <2>4. CASE a.client \notin LetGoStates
    <3>1. /\ Live = {a} /\ core.active = a.robot /\ a.robot \in Robots
          /\ a.goal = core.goalSeq
          /\ core.accepted <=> a.client = "result"
      BY <2>4, LiveCall
    <3>2. Live' = {b} /\ b \in calls'
      BY <2>1, <2>2, <2>4, <3>1 DEF Live
    <3>3. SlotMatchesCall'
      BY <2>1, <2>2, <3>1, <3>2, RobotsAssumption DEF SlotMatchesCall
    <3>4. QED
      BY <2>2, <3>3 DEF IInv, HandleMatchesSlot, CoreInv, OrderInv,
         AuthorityNeedsAcceptedGoal, PermitHeard, AcceptedHasRobot, OrderIsPast,
         LastOrderAgreesWithPermit, DeniedDriverSentToSafety
  <2>5. QED
    BY <2>3, <2>4
<1>3. ASSUME NEW s, NEW e, SendFeedback(a, s, e)
      PROVE  IInv'
  BY <1>3, QuietCoreStep DEF SendFeedback, nodeVars, history
<1>4. QED
  BY <1>2, <1>3 DEF ServerStep, ServerDecides, ServerEnds

(* Every step of the node and of its robots keeps the invariant.           *)
LEMMA IInvStep == IInv /\ [Next]_vars => IInv'
<1> SUFFICES ASSUME IInv, [Next]_vars
             PROVE  IInv'
  OBVIOUS
<1>0. TypeOK /\ TypeOK' /\ core \in Cores
  BY TypeStep DEF IInv, TypeOK
<1>1. ASSUME NEW r \in Robots, StartPatrol(r)
      PROVE  IInv'
  BY <1>0, <1>1, EnterSlot DEF StartPatrol, CanStart, CanPrepareGoal
<1>2. ASSUME NEW p \in {"denied", "allowed"}, OnPatrolAllowed(p)
      PROVE  IInv'
  BY <1>0, <1>2, PermitStep
<1>3. CASE OnTokenTimer
  <2>1. AdvanceFrames(core) \in Cores
    BY <1>0, RobotsAssumption, CoreMethodTypes
  <2>2. QED
    BY <1>0, <1>3, <2>1, AdvanceFramesEffect, TryAutoStartStep DEF OnTokenTimer
<1>4. CASE CancelActivePatrol
  <2> DEFINE d == RevokeDrive(core)
  <2>1. d \in Cores
    BY <1>0, RobotsAssumption, CoreMethodTypes
  <2>2. /\ ~d.granted /\ d.token = NoToken
        /\ d.active = core.active /\ d.accepted = core.accepted
        /\ d.goalSeq = core.goalSeq /\ d.allowed = core.allowed
    BY <1>0, RevokeDriveEffect
  <2>3. core' = AdvanceFrames(d)
    BY <1>4 DEF CancelActivePatrol
  <2> HIDE DEF d
  <2>4. /\ ~core'.granted /\ core'.token = NoToken
        /\ core'.active = core.active /\ core'.accepted = core.accepted
        /\ core'.goalSeq = core.goalSeq /\ core'.allowed = core.allowed
    BY <2>1, <2>2, <2>3, AdvanceFramesEffect
  <2>5. calls' = calls /\ handles' = handles /\ order' = order
    BY <1>4 DEF CancelActivePatrol
  <2>6. SlotMatchesCall' /\ HandleMatchesSlot'
    BY <2>4, <2>5 DEF IInv, SlotMatchesCall, HandleMatchesSlot, Live
  <2>7. CoreInv' /\ OrderInv'
    BY <2>4, <2>5 DEF IInv, CoreInv, OrderInv, AuthorityNeedsAcceptedGoal,
       PermitHeard, AcceptedHasRobot, OrderIsPast, LastOrderAgreesWithPermit,
       DeniedDriverSentToSafety
  <2>8. QED
    BY <1>0, <2>6, <2>7 DEF IInv
<1>5. CASE OperatorClearsFire
  BY <1>0, <1>5, ClearFireHoldEffect, QuietCoreStep DEF OperatorClearsFire, envVars
<1>6. ASSUME NEW a \in calls, ClientStep(a)
      PROVE  IInv'
  BY <1>0, <1>6, ClientSteps
<1>7. ASSUME NEW a \in calls, ServerStep(a)
      PROVE  IInv'
  BY <1>0, <1>7, ServerSteps
<1>8. ASSUME NEW f \in feedback, OnPatrolFeedback(f)
      PROVE  IInv'
  <2>1. f \in Samples /\ issued + 1 \in Nat /\ issued + 1 # NoToken
    BY <1>0 DEF TypeOK, NoToken
  <2>2. /\ core' = ObserveFeedback(core, f.robot, f, issued + 1)
        /\ calls' = calls /\ handles' = handles /\ order' = order
    BY <1>8 DEF OnPatrolFeedback
  <2>3. CASE ~GrantsToken(core, f.robot, f)
    BY <1>0, <2>1, <2>2, <2>3, ObserveFeedbackEffect, QuietCoreStep
  <2>4. CASE GrantsToken(core, f.robot, f)
    <3>1. /\ core'.granted /\ core'.token # NoToken
          /\ core'.active = core.active /\ core'.accepted = core.accepted
          /\ core'.goalSeq = core.goalSeq /\ core'.allowed = core.allowed
          /\ core.accepted /\ core.allowed = "allowed"
      BY <1>0, <2>1, <2>2, <2>4, ObserveFeedbackEffect
    <3>2. SlotMatchesCall' /\ HandleMatchesSlot'
      BY <2>2, <3>1 DEF IInv, SlotMatchesCall, HandleMatchesSlot, Live
    <3>3. CoreInv' /\ OrderInv'
      BY <2>2, <3>1 DEF IInv, CoreInv, OrderInv, AuthorityNeedsAcceptedGoal,
         PermitHeard, AcceptedHasRobot, OrderIsPast, LastOrderAgreesWithPermit,
         DeniedDriverSentToSafety
    <3>4. QED
      BY <1>0, <3>2, <3>3 DEF IInv
  <2>5. QED
    BY <2>3, <2>4
<1>9. CASE UNCHANGED vars
  BY <1>0, <1>9, QuietCoreStep DEF vars, nodeVars, envVars, history
<1>10. QED
  BY <1>1, <1>2, <1>3, <1>4, <1>5, <1>6, <1>7, <1>8, <1>9 DEF Next

(* The inductive invariant holds in every reachable state of the node.     *)
THEOREM InvariantHolds == Spec => []IInv
  BY IInvInit, IInvStep, PTL DEF Spec

(* The slot, the outstanding action call and the goal handle stay together, *)
(* so no callback of an earlier goal acts on a later one.                   *)
THEOREM SlotNeverDrifts == Spec => [](SlotMatchesCall /\ HandleMatchesSlot)
<1>1. IInv => SlotMatchesCall /\ HandleMatchesSlot
  BY DEF IInv
<1>2. QED
  BY <1>1, InvariantHolds, PTL

(* Drive authority needs an accepted goal, and whoever keeps it after the   *)
(* permit was withdrawn has MOVE_TO_SAFE_ZONE as its last command.          *)
THEOREM WithdrawnPermitSendsDriverAway ==
  Spec => [](AuthorityNeedsAcceptedGoal /\ DeniedDriverSentToSafety)
<1>1. IInv => AuthorityNeedsAcceptedGoal /\ DeniedDriverSentToSafety
  BY DEF IInv, CoreInv, OrderInv
<1>2. QED
  BY <1>1, InvariantHolds, PTL

(* The last command of the goal in the slot agrees with the permit.         *)
THEOREM CommandsFollowPermit == Spec => []LastOrderAgreesWithPermit
<1>1. IInv => LastOrderAgreesWithPermit
  BY DEF IInv, OrderInv
<1>2. QED
  BY <1>1, InvariantHolds, PTL

--------------------------------------------------------------------------------
(***************************************************************************)
(* One robot at work.  A call leaves the slot with its result, its refusal  *)
(* or an error on its future; the response callback never raises, since     *)
(* the slot is its call's.                                                  *)
(***************************************************************************)
NoneForgotten == \A a \in calls : a.client # "gone"

(* No call is let go of by a callback that raised.                          *)
LEMMA NoneForgottenStep ==
  ASSUME IInv, NoneForgotten, [Next]_vars
  PROVE  NoneForgotten'
<1> USE DEF NoneForgotten
<1>1. ASSUME NEW c, NEW r, calls' = calls \cup {NewCall(c, r)}
      PROVE  NoneForgotten'
  BY <1>1 DEF NewCall
<1>2. ASSUME NEW c, TryAutoStart(c)
      PROVE  NoneForgotten'
  BY <1>1, <1>2 DEF TryAutoStart
<1>3. ASSUME NEW r \in Robots, StartPatrol(r)
      PROVE  NoneForgotten'
  BY <1>1, <1>3 DEF StartPatrol
<1>4. ASSUME NEW p \in {"denied", "allowed"}, OnPatrolAllowed(p)
      PROVE  NoneForgotten'
  BY <1>2, <1>4 DEF OnPatrolAllowed
<1>5. CASE OnTokenTimer
  BY <1>2, <1>5 DEF OnTokenTimer
<1>6. ASSUME NEW a \in calls, ClientStep(a)
      PROVE  NoneForgotten'
  <2>1. a \in Calls
    BY DEF IInv, TypeOK
  <2>2. CASE OnGoalAccepted(a)
    <3>1. core.active = a.robot
      BY <2>2, LiveCall DEF OnGoalAccepted, LetGoStates
    <3>2. calls' = (calls \ {a}) \cup {[a EXCEPT !.client = "result"]}
      BY <2>2, <3>1 DEF OnGoalAccepted
    <3>3. [a EXCEPT !.client = "result"].client # "gone"
      BY <2>1 DEF Calls
    <3>4. QED
      BY <3>2, <3>3
  <2>3. CASE OnGoalNotAccepted(a) \/ OnPatrolResult(a)
    <3>1. calls' = LetGo(a, "failed")
      BY <2>3 DEF OnGoalNotAccepted, OnPatrolResult
    <3>2. [a EXCEPT !.client = "failed"].client # "gone"
      BY <2>1 DEF Calls
    <3>3. QED
      BY <3>1, <3>2 DEF LetGo
  <2>4. QED
    BY <1>6, <2>2, <2>3 DEF ClientStep
<1>7. ASSUME NEW a \in calls, ServerStep(a)
      PROVE  NoneForgotten'
  <2>1. a \in Calls
    BY DEF IInv, TypeOK
  <2>2. ASSUME NEW from, NEW to, ServerMoves(a, from, to)
        PROVE  NoneForgotten'
    <3>1. [a EXCEPT !.server = to].client = a.client
      BY <2>1 DEF Calls
    <3>2. QED
      BY <2>2, <3>1 DEF ServerMoves
  <2>3. ASSUME NEW s, NEW e, SendFeedback(a, s, e)
        PROVE  NoneForgotten'
    BY <2>3 DEF SendFeedback
  <2>4. QED
    BY <1>7, <2>2, <2>3 DEF ServerStep, ServerDecides, ServerEnds
<1>8. CASE CancelActivePatrol \/ OperatorClearsFire \/ UNCHANGED vars
  BY <1>8 DEF CancelActivePatrol, OperatorClearsFire, envVars, vars
<1>9. ASSUME NEW f \in feedback, OnPatrolFeedback(f)
      PROVE  NoneForgotten'
  BY <1>9 DEF OnPatrolFeedback
<1>10. QED
  BY <1>3, <1>4, <1>5, <1>6, <1>7, <1>8, <1>9 DEF Next

(* No response callback raises, in any run.                                *)
LEMMA NoneForgottenHolds == Spec => []NoneForgotten
<1>1. Init => NoneForgotten
  BY DEF Init, NoneForgotten
<1>2. IInv /\ NoneForgotten /\ [Next]_vars => NoneForgotten'
  BY NoneForgottenStep
<1>3. QED
  BY <1>1, <1>2, InvariantHolds, PTL DEF Spec

(* Every robot at work is the one in the slot, on the goal of the slot,     *)
(* unless the node was told of an error on that goal's own future.          *)
THEOREM WorkIsSeenOrFailed == Spec => []WorkOutsideSlotHasFailed
<1>1. IInv /\ NoneForgotten => WorkOutsideSlotHasFailed
  <2> SUFFICES ASSUME IInv, NoneForgotten, NEW a \in calls, a.client # "failed"
               PROVE  core.active = a.robot /\ core.goalSeq = a.goal
    BY DEF WorkOutsideSlotHasFailed
  <2>1. a.client \notin LetGoStates
    BY DEF NoneForgotten, LetGoStates
  <2>2. QED
    BY <2>1, LiveCall
<1>2. QED
  BY <1>1, NoneForgottenHolds, InvariantHolds, PTL

(* Two robots are at work at once only if the future of one of their goals  *)
(* failed, whatever is started, withdrawn and repeated.                     *)
THEOREM OneRobotAtWork ==
  Spec => []((\A a \in calls : a.client # "failed") => OneMissionAtWork)
<1>1. IInv /\ NoneForgotten => ((\A a \in calls : a.client # "failed") => OneMissionAtWork)
  <2> SUFFICES ASSUME IInv, NoneForgotten, \A a \in calls : a.client # "failed",
                      NEW a \in calls, NEW b \in calls
               PROVE  a = b
    BY DEF OneMissionAtWork
  <2>1. a.client \notin LetGoStates /\ b.client \notin LetGoStates
    BY DEF NoneForgotten, LetGoStates
  <2>2. Live = {a} /\ Live = {b}
    BY <2>1, LiveCall
  <2>3. QED
    BY <2>2
<1>2. QED
  BY <1>1, NoneForgottenHolds, InvariantHolds, PTL

--------------------------------------------------------------------------------
(* Every step of the node is a step of MissionSlot, or changes nothing there. *)

(* Starting a patrol reserves the slot, or nothing happens to it.          *)
LEMMA AutoStartRefines ==
  ASSUME NEW c \in Cores, core \in Cores, TryAutoStart(c), c.active = core.active,
         c.accepted = core.accepted, c.granted = core.granted,
         core'.active # core.active \/ core' # c
  PROVE  Slot!Reserve(InitialRobot)
<1>1. core' = PrepareGoal(c, InitialRobot) /\ CanPrepareGoal(c)
  BY DEF TryAutoStart, CanStart
<1>2. /\ core'.active = InitialRobot /\ ~core'.accepted /\ ~core'.granted
      /\ core'.allowed = "allowed"
  BY <1>1, PrepareGoalEffect, InitialRobotAssumption DEF CanPrepareGoal
<1>3. core.active = NoRobot
  BY <1>1 DEF CanPrepareGoal
<1>4. QED
  BY <1>2, <1>3, RobotsAssumption, InitialRobotAssumption DEF Slot!Reserve, SlotPhase

(* Each step of the node is a step of the slot or leaves it as it is.      *)
LEMMA SlotStep ==
  ASSUME IInv, [Next]_vars
  PROVE  [Slot!SlotNext]_(Slot!slotVars)
<1> USE DEF Slot!slotVars
<1>0. TypeOK /\ core \in Cores
  BY DEF IInv, TypeOK
<1>1. ASSUME NEW r \in Robots, StartPatrol(r)
      PROVE  Slot!Reserve(r)
  BY <1>0, <1>1, PrepareGoalEffect, RobotsAssumption
  DEF StartPatrol, CanStart, CanPrepareGoal, Slot!Reserve, SlotPhase
<1>2. ASSUME NEW p \in {"denied", "allowed"}, OnPatrolAllowed(p)
      PROVE  Slot!Reserve(InitialRobot) \/ Slot!ChangePermit(p)
  <2> DEFINE c == ObservePermit(core, p)
  <2>1. /\ c \in Cores /\ c.allowed = p
        /\ c.active = core.active /\ c.accepted = core.accepted
        /\ c.granted = core.granted
    BY <1>0, ObservePermitType, ObservePermitEffect
  <2>2. TryAutoStart(c)
    BY <1>2 DEF OnPatrolAllowed
  <2> HIDE DEF c
  <2>3. CASE core' = c
    BY <2>1, <2>3 DEF Slot!ChangePermit, SlotPhase
  <2>4. CASE core' # c
    BY <1>0, <2>1, <2>2, <2>4, AutoStartRefines
  <2>5. QED
    BY <2>3, <2>4
<1>3. CASE OnTokenTimer
  <2> DEFINE c == AdvanceFrames(core)
  <2>1. /\ c \in Cores /\ c.allowed = core.allowed
        /\ c.active = core.active /\ c.accepted = core.accepted
        /\ c.granted = core.granted
    BY <1>0, RobotsAssumption, CoreMethodTypes, AdvanceFramesEffect
  <2>2. TryAutoStart(c)
    BY <1>3 DEF OnTokenTimer
  <2> HIDE DEF c
  <2>3. CASE core' = c
    BY <2>1, <2>3 DEF SlotPhase
  <2>4. CASE core' # c
    <3>1. Slot!Reserve(InitialRobot)
      BY <1>0, <2>1, <2>2, <2>4, AutoStartRefines
    <3>2. QED
      BY <3>1, InitialRobotAssumption DEF Slot!SlotNext
  <2>5. QED
    BY <2>3, <2>4
<1>4. CASE CancelActivePatrol
  <2>1. RevokeDrive(core) \in Cores
    BY <1>0, RobotsAssumption, CoreMethodTypes
  <2>2. /\ ~core'.granted /\ core'.active = core.active
        /\ core'.accepted = core.accepted /\ core'.allowed = core.allowed
    BY <1>0, <1>4, <2>1, RevokeDriveEffect, AdvanceFramesEffect DEF CancelActivePatrol
  <2>3. core.granted => core.active # NoRobot /\ core.accepted
    BY DEF IInv, CoreInv, AuthorityNeedsAcceptedGoal
  <2>4. CASE core.granted
    BY <2>2, <2>3, <2>4 DEF Slot!SlotNext, Slot!Revoke, SlotPhase
  <2>5. CASE ~core.granted
    BY <2>2, <2>5 DEF SlotPhase
  <2>6. QED
    BY <2>4, <2>5
<1>5. CASE OperatorClearsFire
  BY <1>0, <1>5, ClearFireHoldEffect DEF OperatorClearsFire, SlotPhase
<1>6. ASSUME NEW a \in calls, ClientStep(a)
      PROVE  Slot!Accept \/ Slot!Release
  <2>1. CASE OnGoalAccepted(a)
    <3>1. /\ core.active = a.robot /\ a.robot # NoRobot /\ ~core.accepted
      BY <2>1, LiveCall, RobotsAssumption DEF OnGoalAccepted, LetGoStates
    <3>2. ~core.granted
      BY <3>1 DEF IInv, CoreInv, AuthorityNeedsAcceptedGoal
    <3>3. /\ core'.accepted /\ core'.active = core.active
          /\ core'.granted = core.granted /\ core'.allowed = core.allowed
      BY <1>0, <2>1, <3>1, MarkGoalAcceptedEffect DEF OnGoalAccepted
    <3>4. QED
      BY <3>1, <3>2, <3>3 DEF Slot!Accept, SlotPhase
  <2>2. CASE OnGoalNotAccepted(a) \/ OnPatrolResult(a)
    <3>1. core.active = a.robot /\ a.robot # NoRobot
      BY <2>2, LiveCall, RobotsAssumption
      DEF OnGoalNotAccepted, OnPatrolResult, LetGoStates
    <3>2. core' = FinishGoal(core)
      BY <2>2, <3>1 DEF OnGoalNotAccepted, OnPatrolResult, FinishCoreGoal
    <3>3. core'.active = NoRobot /\ core'.allowed = core.allowed
      BY <1>0, <3>2, FinishGoalEffect
    <3>4. QED
      BY <3>1, <3>3 DEF Slot!Release, SlotPhase
  <2>3. QED
    BY <1>6, <2>1, <2>2 DEF ClientStep
<1>7. ASSUME NEW a \in calls, ServerStep(a)
      PROVE  core' = core
  BY <1>7 DEF ServerStep, ServerDecides, ServerEnds, ServerMoves, SendFeedback, nodeVars
<1>8. ASSUME NEW f \in feedback, OnPatrolFeedback(f)
      PROVE  Slot!Grant \/ UNCHANGED Slot!slotVars
  <2>1. f \in Samples /\ issued + 1 \in Nat
    BY <1>0 DEF TypeOK
  <2>2. core' = ObserveFeedback(core, f.robot, f, issued + 1)
    BY <1>8 DEF OnPatrolFeedback
  <2>3. CASE GrantsToken(core, f.robot, f)
    <3>1. /\ core.active # NoRobot /\ core.accepted /\ ~core.granted
          /\ core.allowed = "allowed"
      BY <2>3 DEF GrantsToken, Heard, IInv, CoreInv, AcceptedHasRobot
    <3>2. /\ core'.granted /\ core'.active = core.active
          /\ core'.accepted = core.accepted /\ core'.allowed = core.allowed
      BY <1>0, <2>1, <2>2, <2>3, ObserveFeedbackEffect
    <3>3. QED
      BY <3>1, <3>2 DEF Slot!Grant, SlotPhase
  <2>4. CASE ~GrantsToken(core, f.robot, f)
    <3>1. /\ core'.granted = core.granted /\ core'.active = core.active
          /\ core'.accepted = core.accepted /\ core'.allowed = core.allowed
      BY <1>0, <2>1, <2>2, <2>4, ObserveFeedbackEffect
    <3>2. QED
      BY <3>1 DEF SlotPhase
  <2>5. QED
    BY <2>3, <2>4
<1>9. CASE UNCHANGED vars
  BY <1>9 DEF vars, nodeVars, SlotPhase
<1>10. core' = core => UNCHANGED Slot!slotVars
  BY DEF SlotPhase
<1>11. QED
  BY <1>1, <1>2, <1>3, <1>4, <1>5, <1>6, <1>7, <1>8, <1>9, <1>10,
     InitialRobotAssumption DEF Next, Slot!SlotNext

(* The node implements the slot that the Control Server promises: one robot *)
(* at a time, authority only after acceptance and with the permit given.    *)
THEOREM NodeImplementsSlot == Spec => ImplementsMissionSlot
<1>1. Init => Slot!SlotInit
  BY DEF Init, InitCore, Slot!SlotInit, SlotPhase
<1>2. QED
  BY <1>1, SlotStep, InvariantHolds, PTL DEF Spec, ImplementsMissionSlot, Slot!SlotSpec
================================================================================
