----------------------------- MODULE MonitorProofs -----------------------------
(***************************************************************************)
(* What is proved of the small parts of the System Monitor: the limit on    *)
(* camera frames and their files, the pictures of maps and costmaps, the    *)
(* accounts, the handling of an event, the passages of the gate, and the    *)
(* logs of the E-stop and of the patrol permit.                             *)
(***************************************************************************)
EXTENDS FrameRate, FrameStore, GridStore, Accounts, EventHandling, AccessLog, EstopLog,
        PermitLog, FiniteSetTheorems, TLAPS

--------------------------------------------------------------------------------
(* FrameRate.  The schedule runs ahead of the frames counted: each frame     *)
(* moves it on by at least an interval, and it is never further ahead of the *)
(* present than an interval and what a frame may come early.                 *)
RateInv ==
  /\ RateTypeOK
  /\ due # NoTime => due <= now + Interval + Early
  /\ window # NoTime => due # NoTime /\ Interval * since < due - window

LEMMA NextDueFits ==
  ASSUME RateInv, ~TooEarly
  PROVE  /\ NextDue \in Int
         /\ now < NextDue /\ NextDue <= now + Interval + Early
         /\ due # NoTime => due + Interval <= NextDue
<1>1. CASE due = NoTime
  BY <1>1, RateAssumption DEF RateInv, RateTypeOK, NextDue
<1>2. CASE due # NoTime
  BY <1>2, RateAssumption DEF RateInv, RateTypeOK, NextDue, TooEarly
<1>3. QED
  BY <1>1, <1>2

LEMMA RateInvStep == RateInv /\ [RateNext]_rateVars => RateInv'
<1> SUFFICES ASSUME RateInv, [RateNext]_rateVars PROVE RateInv'
  OBVIOUS
<1>1. CASE TakeFrame
  <2>1. /\ due' = NextDue /\ now' = now /\ ~TooEarly
        /\ \/ window = NoTime /\ window' = now /\ since' = 0
           \/ window' = window /\ since' = IF window = NoTime THEN 0 ELSE since + 1
    BY <1>1 DEF TakeFrame
  <2>2. /\ due' \in Int /\ due' # NoTime
        /\ now < due' /\ due' <= now + Interval + Early
        /\ due # NoTime => due + Interval <= due'
    BY <2>1, NextDueFits, RateAssumption
  <2>3. RateTypeOK'
    BY <2>1, <2>2 DEF RateInv, RateTypeOK
  <2>4. ASSUME window' # NoTime PROVE Interval * since' < due' - window'
    <3>1. CASE window = NoTime
      BY <3>1, <2>1, <2>2, <2>4, RateAssumption DEF RateInv, RateTypeOK
    <3>2. CASE window # NoTime
      <4>1. window' = window /\ since' = since + 1
        BY <3>2, <2>1
      <4>2. Interval * (since + 1) = Interval * since + Interval /\ Interval * since \in Int
        BY RateAssumption DEF RateInv, RateTypeOK
      <4>3. Interval * since < due - window /\ due \in Int /\ window \in Int /\ due + Interval <= due'
        BY <3>2, <2>2 DEF RateInv, RateTypeOK
      <4>4. QED
        BY <4>1, <4>2, <4>3, <2>2, RateAssumption
    <3>3. QED
      BY <3>1, <3>2
  <2>5. QED
    BY <2>1, <2>2, <2>3, <2>4 DEF RateInv
<1>2. CASE Tick
  BY <1>2, RateAssumption DEF RateInv, RateTypeOK, Tick
<1>3. CASE RateAdapterStarts
  BY <1>3 DEF RateInv, RateTypeOK, RateAdapterStarts
<1>4. CASE UNCHANGED rateVars
  BY <1>4 DEF RateInv, RateTypeOK, rateVars
<1>5. QED
  BY <1>1, <1>2, <1>3, <1>4 DEF RateNext

(* A started adapter satisfies it.                                           *)
LEMMA RateInvInit == RateInit => RateInv
BY DEF RateInit, RateInv, RateTypeOK

(* The types of the schedule.                                                *)
LEMMA RateTypes == RateSpec => []RateTypeOK
<1>1. RateInv => RateTypeOK
  BY DEF RateInv
<1>2. QED
  BY <1>1, RateInvInit, RateInvStep, PTL DEF RateSpec

(* The adapter takes no more frames of a camera than one per interval and    *)
(* one, from any frame on, for any interval and tolerance.                   *)
THEOREM FramesAreLimited == RateSpec => []RateBounded
<1>1. RateInit => RateInv
  BY RateInvInit
<1>2. RateInv => RateBounded
  <2> SUFFICES ASSUME RateInv, window # NoTime
               PROVE  Interval * since < now - window + Interval + Early
    BY DEF RateBounded
  <2>1. Interval * since \in Int
    BY RateAssumption DEF RateInv, RateTypeOK
  <2>2. QED
    BY <2>1, RateAssumption DEF RateInv, RateTypeOK
<1>3. QED
  BY <1>1, <1>2, RateInvStep, PTL DEF RateSpec

--------------------------------------------------------------------------------
(* Accounts *)
LEMMA WithTypes ==
  ASSUME NEW u \in Users, NEW role \in Roles, NEW active \in BOOLEAN, AccountTypeOK
  PROVE  /\ DOMAIN With(u, role, active) \subseteq Users
         /\ \A v \in DOMAIN With(u, role, active) :
              With(u, role, active)[v] \in [role : Roles, active : BOOLEAN]
BY DEF With, AccountTypeOK

LEMMA AccountTypesStep == AccountTypeOK /\ [AccountNext]_accountVars => AccountTypeOK'
<1> SUFFICES ASSUME AccountTypeOK, [AccountNext]_accountVars PROVE AccountTypeOK'
  OBVIOUS
<1>1. ASSUME NEW u \in Users, CreateAdmin(u) PROVE AccountTypeOK'
  BY <1>1, WithTypes, AccountAssumption DEF CreateAdmin, InsertUser, AccountTypeOK
<1>2. ASSUME NEW b \in Browsers, NEW u \in Users, NEW role \in Roles, CreateUser(b, u, role)
      PROVE  AccountTypeOK'
  BY <1>2, WithTypes DEF CreateUser, InsertUser, AccountTypeOK
<1>3. ASSUME NEW b \in Browsers, NEW u \in Users, Login(b, u) PROVE AccountTypeOK'
  BY <1>3 DEF Login, AccountTypeOK
<1>4. ASSUME NEW b \in Browsers, EndSession(b) PROVE AccountTypeOK'
  BY <1>4 DEF EndSession, AccountTypeOK
<1>5. ASSUME NEW b \in Browsers, NEW r \in Requests, LetThrough(b, r) PROVE AccountTypeOK'
  BY <1>5 DEF LetThrough, AccountTypeOK
<1>6. ASSUME NEW b \in Browsers, UpdateAccess(b) PROVE AccountTypeOK'
  <2>1. underWay[b] \in Requests
    BY <1>6 DEF UpdateAccess, AccountTypeOK
  <2>2. /\ underWay[b].user \in Users /\ underWay[b].role \in Roles
        /\ underWay[b].active \in BOOLEAN
    BY <2>1 DEF Requests
  <2>3. QED
    BY <1>6, <2>2, WithTypes DEF UpdateAccess, AccountTypeOK
<1>7. CASE UNCHANGED accountVars
  BY <1>7 DEF accountVars, AccountTypeOK
<1>8. QED
  BY <1>1, <1>2, <1>3, <1>4, <1>5, <1>6, <1>7 DEF AccountNext

(* A new account and a refused or harmless change leave every administrator. *)
LEMMA InsertKeepsAdmins ==
  ASSUME NEW u, NEW role, InsertUser(u, role)
  PROVE  Admins \subseteq Admins'
BY DEF InsertUser, With, Admins

(* A change takes at most the administrator it is about.                     *)
LEMMA UpdateKeepsOthers ==
  ASSUME NEW r, account' = With(r.user, r.role, r.active)
  PROVE  /\ Admins \ {r.user} \subseteq Admins'
         /\ r.role = "ADMIN" /\ r.active => Admins \subseteq Admins'
BY DEF With, Admins

(* The types of accounts, sessions and requests.                             *)
LEMMA AccountTypes == AccountSpec => []AccountTypeOK
<1>1. AccountInit => AccountTypeOK
  BY AccountAssumption DEF AccountInit, AccountTypeOK
<1>2. QED
  BY <1>1, AccountTypesStep, PTL DEF AccountSpec

(* There is an active administrator for good once there is one, for any      *)
(* number of users and of requests under way.                                *)
THEOREM AdministratorRemains == AccountSpec => AdminRemains
<1>1. AccountInit => AccountTypeOK
  BY AccountAssumption DEF AccountInit, AccountTypeOK
<1>2. AccountTypeOK /\ [AccountNext]_accountVars => [Admins # {} => Admins' # {}]_accountVars
  <2> SUFFICES ASSUME AccountTypeOK, AccountNext, Admins # {} PROVE Admins' # {}
    OBVIOUS
  <2>1. CASE account' = account
    BY <2>1 DEF Admins
  <2>2. ASSUME NEW u, NEW role, InsertUser(u, role) PROVE Admins' # {}
    BY <2>2, InsertKeepsAdmins
  <2>3. ASSUME NEW b \in Browsers, UpdateAccess(b), account' # account PROVE Admins' # {}
    <3> DEFINE r == underWay[b]
    <3>1. MayUpdate(r) /\ account' = With(r.user, r.role, r.active)
      BY <2>3 DEF UpdateAccess
    <3>2. CASE ~TakesAdmin(r)
      BY <3>1, <3>2, UpdateKeepsOthers DEF TakesAdmin
    <3>3. CASE TakesAdmin(r)
      <4>1. IsFiniteSet(Admins)
        BY FS_Subset, AccountAssumption DEF Admins, AccountTypeOK
      <4>2. Cardinality(Admins) > 1
        BY <3>1, <3>3 DEF MayUpdate
      <4>3. Admins # {r.user}
        <5>1. Cardinality({r.user}) = 1
          BY FS_Singleton, Zenon
        <5>2. QED
          BY <4>2, <5>1
      <4>4. r.user \in Admins
        BY <3>3 DEF TakesAdmin
      <4>5. QED
        BY <3>1, <4>3, <4>4, UpdateKeepsOthers
    <3>4. QED
      BY <3>2, <3>3
  <2>4. QED
    BY <2>1, <2>2, <2>3 DEF AccountNext, CreateAdmin, CreateUser, Login, EndSession, LetThrough
<1>3. QED
  BY <1>1, <1>2, AccountTypesStep, PTL DEF AccountSpec, AdminRemains

--------------------------------------------------------------------------------
(* EventHandling *)
EventInv == EventTypeOK /\ ActedOnWhatWasSeen

LEMMA LastIsPresent ==
  ASSUME EventInv
  PROVE  eventLog # <<>> => Len(eventLog) \in Nat \ {0} /\ eventLog[Len(eventLog)].to = eventStatus
BY DEF EventInv, EventTypeOK, ActedOnWhatWasSeen, Last

LEMMA EventInvStep == EventInv /\ [EventNext]_eventVars => EventInv'
<1> SUFFICES ASSUME EventInv, [EventNext]_eventVars PROVE EventInv'
  OBVIOUS
<1>1. ASSUME NEW o \in Operators, ShowEvent(o) PROVE EventInv'
  BY <1>1 DEF ShowEvent, EventInv, EventTypeOK, ActedOnWhatWasSeen
<1>2. ASSUME NEW o \in Operators, ChangeStatus(o) PROVE EventInv'
  <2> DEFINE to == NextStatus[page[o]]
             change == [from |-> eventStatus, to |-> to, seen |-> page[o], by |-> o]
             Change == [from : Statuses, to : Statuses, seen : Statuses, by : Operators]
  <2>1. page' \in [Operators -> Statuses \cup {NotShown}]
    BY <1>2 DEF ChangeStatus, EventInv, EventTypeOK
  <2>2. page[o] \in DOMAIN NextStatus /\ page[o] \in Statuses /\ to \in Statuses
    BY <1>2 DEF ChangeStatus, NextStatus, Statuses
  <2>3. CASE ~Allowed(to)
    BY <1>2, <2>1, <2>3 DEF ChangeStatus, EventInv, EventTypeOK, ActedOnWhatWasSeen
  <2>4. CASE Allowed(to)
    <3>1. eventStatus' = to /\ eventLog' = Append(eventLog, change)
      BY <1>2, <2>4 DEF ChangeStatus
    <3>2. page[o] = eventStatus
      BY <2>2, <2>4 DEF Allowed, NextStatus
    <3>3. eventLog \in Seq(Change) /\ change \in Change
      BY <2>2 DEF EventInv, EventTypeOK
    <3>4. /\ eventLog' \in Seq(Change) /\ Len(eventLog') = Len(eventLog) + 1
          /\ eventLog'[Len(eventLog')] = change
          /\ \A i \in 1 .. Len(eventLog) : eventLog'[i] = eventLog[i]
          /\ Len(eventLog) \in Nat /\ eventLog' # <<>>
      BY <3>1, <3>3
    <3>5. change.from = IF Len(eventLog') = 1 THEN "NEW" ELSE eventLog'[Len(eventLog') - 1].to
      BY <3>4, LastIsPresent DEF EventInv, ActedOnWhatWasSeen
    <3>6. \A i \in 1 .. Len(eventLog') :
            /\ eventLog'[i].seen = eventLog'[i].from
            /\ eventLog'[i].from = IF i = 1 THEN "NEW" ELSE eventLog'[i - 1].to
      BY <3>2, <3>4, <3>5 DEF EventInv, ActedOnWhatWasSeen
    <3>7. Last(eventLog') = change
      BY <3>4 DEF Last
    <3>8. QED
      BY <2>1, <2>2, <3>1, <3>3, <3>4, <3>6, <3>7 DEF EventInv, EventTypeOK, ActedOnWhatWasSeen
  <2>5. QED
    BY <2>3, <2>4
<1>3. CASE UNCHANGED eventVars
  BY <1>3 DEF eventVars, EventInv, EventTypeOK, ActedOnWhatWasSeen
<1>4. QED
  BY <1>1, <1>2, <1>3 DEF EventNext

(* A new event satisfies it.                                                 *)
LEMMA EventInvInit == EventInit => EventInv
BY DEF EventInit, EventInv, EventTypeOK, ActedOnWhatWasSeen, Statuses

(* The types of an event, its log and its pages.                             *)
LEMMA EventTypes == EventSpec => []EventTypeOK
<1>1. EventInv => EventTypeOK
  BY DEF EventInv
<1>2. QED
  BY <1>1, EventInvInit, EventInvStep, PTL DEF EventSpec

(* For any number of operators, an event changes only from the status its    *)
(* operator saw, and the log is the whole chain.                             *)
THEOREM ChangesWereSeen == EventSpec => []ActedOnWhatWasSeen
<1>1. EventInit => EventInv
  BY EventInvInit
<1>2. EventInv => ActedOnWhatWasSeen
  BY DEF EventInv
<1>3. QED
  BY <1>1, <1>2, EventInvStep, PTL DEF EventSpec

--------------------------------------------------------------------------------
(* AccessLog *)
LEMMA StoredPassage ==
  ASSUME NEW p, accesses' = IF SameAccess(p) = {} THEN accesses \cup {p} ELSE accesses
  PROVE  /\ SameAccess(p)' # {}
         /\ accesses \subseteq accesses'
         /\ \A a, b \in accesses' :
              \/ a \in accesses /\ b \in accesses
              \/ a = b
              \/ ~(a.id = b.id \/ a.message = b.message)
<1>1. CASE SameAccess(p) = {}
  <2>1. accesses' = accesses \cup {p}
    BY <1>1
  <2>2. \A a \in accesses : a.id # p.id /\ a.message # p.message
    BY <1>1 DEF SameAccess
  <2>3. p \in SameAccess(p)'
    BY <2>1 DEF SameAccess
  <2>4. QED
    BY <2>1, <2>2, <2>3
<1>2. CASE SameAccess(p) # {}
  BY <1>2 DEF SameAccess
<1>3. QED
  BY <1>1, <1>2

(* Only a CameraState is ever in hand. *)
AccessInv == cctvEvents \subseteq CameraStates /\ AccessFollowsEvent

LEMMA AccessInvStep == AccessInv /\ [AccessNext]_accessVars => AccessInv'
<1> SUFFICES ASSUME AccessInv, [AccessNext]_accessVars PROVE AccessInv'
  OBVIOUS
<1>1. ASSUME NEW c \in CameraStates, ReceiveCameraState(c) PROVE AccessInv'
  <2>1. /\ inHand = NoState /\ cctvEvents' = cctvEvents \cup {c} /\ accesses' = accesses
        /\ inHand' = IF AtGate(c) THEN c ELSE NoState
        /\ cutShort' = cutShort \ {c}
    BY <1>1 DEF ReceiveCameraState, HandOver
  <2>2. ASSUME NEW d \in cctvEvents', AtGate(d)
        PROVE  d = inHand' \/ SameAccess(PassageOf(d)) # {} \/ d \in cutShort'
    <3>1. CASE d = c
      BY <2>1, <2>2, <3>1
    <3>2. CASE d # c
      <4>1. d \in cctvEvents
        BY <2>1, <3>2
      <4>2. CASE d = NoState
        BY <2>1, <2>2, <4>1, <4>2, NoStateAssumption DEF AccessInv, AccessFollowsEvent
      <4>3. CASE d # NoState
        BY <2>1, <2>2, <3>2, <4>1, <4>3 DEF AccessInv, AccessFollowsEvent
      <4>4. QED
        BY <4>2, <4>3
    <3>3. QED
      BY <3>1, <3>2
  <2>3. QED
    BY <2>1, <2>2 DEF AccessInv, AccessFollowsEvent, SameAccess
<1>2. CASE StorePassage
  BY <1>2, StoredPassage DEF StorePassage, AccessInv, AccessFollowsEvent, SameAccess
<1>3. CASE PassageCutShort
  BY <1>3 DEF PassageCutShort, AccessInv, AccessFollowsEvent, SameAccess
<1>4. ASSUME NEW p \in Passages, ReceivePassage(p) PROVE AccessInv'
  BY <1>4, StoredPassage DEF ReceivePassage, AccessInv, AccessFollowsEvent, SameAccess
<1>5. CASE UNCHANGED accessVars
  BY <1>5 DEF accessVars, AccessInv, AccessFollowsEvent, SameAccess
<1>6. QED
  BY <1>1, <1>2, <1>3, <1>4, <1>5 DEF AccessNext

(* For any states and passages: a gate event in the table has its passage,   *)
(* or lost its id to another, or was cut short and has not come again.       *)
THEOREM AccessIsKept == AccessSpec => []AccessFollowsEvent
<1>1. AccessInit => AccessInv
  BY DEF AccessInit, AccessInv, AccessFollowsEvent
<1>2. AccessInv => AccessFollowsEvent
  BY DEF AccessInv
<1>3. QED
  BY <1>1, <1>2, AccessInvStep, PTL DEF AccessSpec

(* What is in hand is of the gate: only such an event goes on to a passage.  *)
AccessFits == AccessTypeOK /\ (inHand # NoState => AtGate(inHand))

(* The types of events and passages.                                         *)
LEMMA AccessTypes == AccessSpec => []AccessTypeOK
<1>1. AccessInit => AccessFits
  BY DEF AccessInit, AccessFits, AccessTypeOK
<1>2. AccessFits /\ [AccessNext]_accessVars => AccessFits'
  <2> SUFFICES ASSUME AccessFits, [AccessNext]_accessVars PROVE AccessFits'
    OBVIOUS
  <2>1. ASSUME NEW c \in CameraStates, ReceiveCameraState(c) PROVE AccessFits'
    BY <2>1, NoStateAssumption
       DEF ReceiveCameraState, HandOver, AccessFits, AccessTypeOK, AtGate
  <2>2. CASE StorePassage
    <3>1. PassageOf(inHand) \in {PassageOf(c) : c \in {c \in CameraStates : AtGate(c)}}
      BY <2>2 DEF StorePassage, AccessFits, AccessTypeOK
    <3> DEFINE p == PassageOf(inHand)
    <3> HIDE DEF p
    <3>2. accesses' \subseteq accesses \cup {p}
      BY <2>2 DEF StorePassage, p
    <3>3. QED
      BY <2>2, <3>1, <3>2 DEF StorePassage, AccessFits, AccessTypeOK, p
  <2>3. CASE PassageCutShort
    BY <2>3 DEF PassageCutShort, AccessFits, AccessTypeOK
  <2>4. ASSUME NEW p \in Passages, ReceivePassage(p) PROVE AccessFits'
    <3>1. accesses' \subseteq accesses \cup {p}
      BY <2>4 DEF ReceivePassage
    <3>2. QED
      BY <2>4, <3>1 DEF ReceivePassage, AccessFits, AccessTypeOK, AtGate
  <2>5. CASE UNCHANGED accessVars
    BY <2>5 DEF accessVars, AccessFits, AccessTypeOK, AtGate
  <2>6. QED
    BY <2>1, <2>2, <2>3, <2>4, <2>5 DEF AccessNext
<1>3. AccessFits => AccessTypeOK
  BY DEF AccessFits
<1>4. QED
  BY <1>1, <1>2, <1>3, PTL DEF AccessSpec

--------------------------------------------------------------------------------
(* EstopLog.  Every target for itself: its log ends with its row.            *)
EstopInv ==
  /\ EstopTypeOK /\ EstopLogTellsLatest
  /\ estopWaits => estopTopic # NoEstop

LEMMA EstopStored ==
  ASSUME EstopInv, NEW e \in Estops, ~StaleEstop(e), StoreEstop(e)
  PROVE  estopLatest' \in [Targets -> Estops \cup {NoEstop}]
         /\ estopLog' \in [Targets -> Seq(Estops)] /\ EstopLogTellsLatest'
<1> DEFINE t == e.target
           log == estopLog[t]
           state(x) == <<x.active, x.reason>>
<1>1. t \in Targets /\ log \in Seq(Estops) /\ e # NoEstop
  BY EstopAssumption DEF Targets, EstopInv, EstopTypeOK
<1>2. /\ estopLatest' = [estopLatest EXCEPT ![t] = e]
      /\ estopLog' = IF EstopChanged(e) THEN [estopLog EXCEPT ![t] = Append(@, e)] ELSE estopLog
  BY DEF StoreEstop
<1>3. /\ estopLatest' \in [Targets -> Estops \cup {NoEstop}]
      /\ estopLog' \in [Targets -> Seq(Estops)]
      /\ estopLatest'[t] = e
      /\ \A u \in Targets \ {t} : estopLatest'[u] = estopLatest[u] /\ estopLog'[u] = estopLog[u]
  BY <1>1, <1>2 DEF EstopInv, EstopTypeOK
<1>4. /\ log = <<>> <=> estopLatest[t] = NoEstop
      /\ log # <<>> => state(Last(log)) = state(estopLatest[t]) /\ Last(log).at <= estopLatest[t].at
      /\ \A i \in 1 .. Len(log) - 1 :
           state(log[i]) # state(log[i + 1]) /\ log[i].at <= log[i + 1].at
  BY <1>1 DEF EstopInv, EstopLogTellsLatest
<1>5. estopLatest[t] # NoEstop =>
        /\ estopLatest[t] \in Estops /\ estopLatest[t].at <= e.at
        /\ estopLatest[t].at \in Nat /\ e.at \in Nat
  BY <1>1, EstopAssumption DEF StaleEstop, EstopInv, EstopTypeOK
<1> DEFINE Tells(l, x) ==
             /\ l = <<>> <=> x = NoEstop
             /\ l # <<>> => state(Last(l)) = state(x) /\ Last(l).at <= x.at
             /\ \A i \in 1 .. Len(l) - 1 : state(l[i]) # state(l[i + 1]) /\ l[i].at <= l[i + 1].at
<1>6. Tells(estopLog'[t], e)
  <2>1. CASE ~EstopChanged(e)
    <3>1. estopLatest[t] # NoEstop /\ state(estopLatest[t]) = state(e) /\ log # <<>>
      BY <2>1, <1>4 DEF EstopChanged
    <3>2. Last(log) \in Estops
      BY <3>1, <1>1 DEF Last
    <3>3. Last(log).at \in Nat
      BY <3>2, EstopAssumption
    <3>4. estopLog'[t] = log
      BY <2>1, <1>2
    <3>5. state(Last(log)) = state(e) /\ Last(log).at <= e.at
      BY <3>1, <3>3, <1>4, <1>5
    <3>6. \A i \in 1 .. Len(log) - 1 : state(log[i]) # state(log[i + 1]) /\ log[i].at <= log[i + 1].at
      BY <1>4
    <3>7. log # <<>> /\ e # NoEstop
      BY <3>1, <1>1
    <3>8. Tells(log, e)
      BY <3>5, <3>6, <3>7
    <3>9. QED
      BY <3>4, <3>8
  <2>2. CASE EstopChanged(e)
    <3> DEFINE new == Append(log, e)
    <3>1. estopLog'[t] = new
      BY <2>2, <1>1, <1>2 DEF EstopInv, EstopTypeOK
    <3>2. /\ Len(new) = Len(log) + 1 /\ Len(log) \in Nat /\ new # <<>>
          /\ new[Len(log) + 1] = e /\ Last(new) = e
          /\ \A i \in 1 .. Len(log) : new[i] = log[i]
      BY <1>1 DEF Last
    <3>3. ASSUME log # <<>>
          PROVE  state(log[Len(log)]) # state(e) /\ log[Len(log)].at <= e.at
      <4>1. estopLatest[t] # NoEstop /\ state(Last(log)) # state(e)
        BY <3>3, <2>2, <1>4 DEF EstopChanged
      <4>2. Last(log) = log[Len(log)] /\ Last(log) \in Estops
        BY <3>3, <1>1 DEF Last
      <4>3. Last(log).at \in Nat
        BY <4>2, EstopAssumption
      <4>4. QED
        BY <4>1, <4>2, <4>3, <3>3, <1>4, <1>5
    <3>4. ASSUME NEW i \in 1 .. Len(new) - 1
          PROVE  state(new[i]) # state(new[i + 1]) /\ new[i].at <= new[i + 1].at
      <4>1. CASE i = Len(log)
        <5>1. log # <<>>
          BY <4>1, <1>1
        <5>2. QED
          BY <4>1, <5>1, <3>2, <3>3
      <4>2. CASE i # Len(log)
        <5>1. i \in 1 .. Len(log) - 1 /\ new[i] = log[i] /\ new[i + 1] = log[i + 1]
          BY <4>2, <3>2
        <5>2. QED
          BY <5>1, <1>4
      <4>3. QED
        BY <4>1, <4>2
    <3>5. e.at <= e.at
      BY EstopAssumption
    <3>6. QED
      BY <3>1, <3>2, <3>4, <3>5, <1>1
  <2>3. QED
    BY <2>1, <2>2
<1>7. ASSUME NEW u \in Targets PROVE Tells(estopLog'[u], estopLatest'[u])
  <2>1. CASE u = t
    BY <2>1, <1>3, <1>6
  <2>2. CASE u # t
    <3>1. Tells(estopLog[u], estopLatest[u])
      BY DEF EstopInv, EstopLogTellsLatest
    <3>2. QED
      BY <2>2, <3>1, <1>3
  <2>3. QED
    BY <2>1, <2>2
<1>8. QED
  BY <1>3, <1>7 DEF EstopLogTellsLatest

LEMMA EstopInvStep == EstopInv /\ [EstopNext]_estopVars => EstopInv'
<1> SUFFICES ASSUME EstopInv, [EstopNext]_estopVars PROVE EstopInv'
  OBVIOUS
<1>1. ASSUME UNCHANGED <<estopLatest, estopLog>>, estopTopic' \in Estops \cup {NoEstop},
             estopWaits' \in BOOLEAN, estopWaits' => estopTopic' # NoEstop
      PROVE  EstopInv'
  BY <1>1 DEF EstopInv, EstopTypeOK, EstopLogTellsLatest
<1>2. ASSUME NEW e \in Estops, SendEstop(e) PROVE EstopInv'
  BY <1>1, <1>2, EstopAssumption DEF SendEstop
<1>3. CASE ReceiveEstop
  <2>1. estopTopic \in Estops /\ estopTopic' = estopTopic /\ ~estopWaits'
    BY <1>3 DEF ReceiveEstop, EstopInv, EstopTypeOK
  <2>2. CASE UNCHANGED <<estopLatest, estopLog>>
    BY <1>1, <1>3, <2>1, <2>2 DEF ReceiveEstop
  <2>3. CASE ~StaleEstop(estopTopic) /\ StoreEstop(estopTopic)
    BY <1>3, <2>1, <2>3, EstopStored DEF ReceiveEstop, EstopInv, EstopTypeOK
  <2>4. QED
    BY <1>3, <2>2, <2>3 DEF ReceiveEstop
<1>4. CASE EstopAdapterStarts
  BY <1>1, <1>4 DEF EstopAdapterStarts, EstopInv, EstopTypeOK
<1>5. CASE UNCHANGED estopVars
  BY <1>1, <1>5 DEF estopVars, EstopInv, EstopTypeOK
<1>6. QED
  BY <1>2, <1>3, <1>4, <1>5 DEF EstopNext

(* Empty tables satisfy it.                                                  *)
LEMMA EstopInvInit == EstopInit => EstopInv
<1> SUFFICES ASSUME EstopInit PROVE EstopInv
  OBVIOUS
<1>1. EstopTypeOK
  <2>1. <<>> \in Seq(Estops)
    OBVIOUS
  <2>2. estopLog \in [Targets -> Seq(Estops)]
    BY <2>1 DEF EstopInit
  <2>3. QED
    BY <2>2 DEF EstopInit, EstopTypeOK
<1>2. ASSUME NEW t \in Targets PROVE estopLog[t] = <<>> /\ estopLatest[t] = NoEstop
  BY DEF EstopInit
<1>3. EstopLogTellsLatest
  BY <1>2 DEF EstopLogTellsLatest
<1>4. QED
  BY <1>1, <1>3 DEF EstopInv, EstopInit

(* The types of rows and logs.                                               *)
LEMMA EstopTypes == EstopSpec => []EstopTypeOK
<1>1. EstopInv => EstopTypeOK
  BY DEF EstopInv
<1>2. QED
  BY <1>1, EstopInvInit, EstopInvStep, PTL DEF EstopSpec

(* For any targets, states and times: the row and the log of a target tell   *)
(* one story.                                                                *)
THEOREM LogEndsWithRow == EstopSpec => []EstopLogTellsLatest
<1>1. EstopInv => EstopLogTellsLatest
  BY DEF EstopInv
<1>2. QED
  BY <1>1, EstopInvInit, EstopInvStep, PTL DEF EstopSpec

--------------------------------------------------------------------------------
(* The frame of a camera.  Who writes holds the lock, and its frame is newer  *)
(* than the metadata as long as it does; only between the two files, or after *)
(* an end there, do they differ, and then the image is the newer one.         *)
Writers == {s \in FrameSenders : frameAt[s] \in {"image", "metadata"}}

FilesFit ==
  /\ ~torn /\ (\A s \in Writers : frameAt[s] = "image") => image = metadata
  /\ metadata # NoFrame => image # NoFrame /\ image.at >= metadata.at
  /\ shownMeta # NoFrame => metadata # NoFrame /\ metadata.at >= shownMeta.at

WritersFit ==
  \A s \in FrameSenders :
    /\ frameAt[s] # "idle" => frameIn[s] \in Frames
    /\ s \in Writers => lock = s
    /\ s \in Writers /\ metadata # NoFrame => frameIn[s].at > metadata.at
    /\ frameAt[s] = "metadata" => image = frameIn[s]

PagesFit == \A p \in shown : p[2].at >= p[1].at

FrameInv == FrameTypeOK /\ FilesFit /\ WritersFit /\ PagesFit /\ (lock # NoSender => lock \in Writers)

LEMMA FrameInvInit == FrameInit => FrameInv
BY NoFrameAssumption DEF FrameInit, FrameInv, FrameTypeOK, FilesFit, WritersFit, PagesFit, Writers

LEMMA FrameInvFits == FrameInv => FrameFitsMetadata
<1> SUFFICES ASSUME FrameInv PROVE FrameFitsMetadata
  OBVIOUS
<1>1. ASSUME lock = NoSender PROVE Writers = {}
  BY <1>1, NoFrameAssumption DEF FrameInv, WritersFit, Writers
<1>2. QED
  BY <1>1 DEF FrameInv, FilesFit, PagesFit, FrameFitsMetadata

(* A request that ends, well or not, leaves the others their files.           *)
LEMMA FrameEnds ==
  ASSUME FrameInv, NEW s \in FrameSenders, frameAt[s] # "idle", FrameWriteFails(s)
  PROVE  FrameInv'
<1>1. /\ image' = image /\ metadata' = metadata /\ shownMeta' = shownMeta /\ shown' = shown
      /\ frameAt' = [frameAt EXCEPT ![s] = "idle"]
      /\ frameIn' = [frameIn EXCEPT ![s] = NoFrame]
      /\ lock' = IF lock = s THEN NoSender ELSE lock
      /\ torn' = (torn \/ frameAt[s] = "metadata")
  BY DEF FrameWriteFails, EndFrame, frameFiles
<1>2. Writers' = Writers \ {s}
  BY <1>1 DEF FrameInv, FrameTypeOK, Writers
<1>3. FrameTypeOK'
  BY <1>1 DEF FrameInv, FrameTypeOK
<1>4. FilesFit'
  <2>1. ASSUME ~torn', \A q \in Writers' : frameAt'[q] = "image"
        PROVE  ~torn /\ \A q \in Writers : frameAt[q] = "image"
    <3>1. ~torn /\ frameAt[s] # "metadata"
      BY <1>1, <2>1
    <3>2. ASSUME NEW q \in Writers PROVE frameAt[q] = "image"
      <4>1. CASE q = s
        BY <3>1, <4>1 DEF Writers
      <4>2. CASE q # s
        BY <1>1, <1>2, <2>1, <4>2 DEF Writers, FrameInv, FrameTypeOK
      <4>3. QED
        BY <4>1, <4>2
    <3>3. QED
      BY <3>1, <3>2
  <2>2. QED
    BY <1>1, <2>1 DEF FilesFit, FrameInv
<1>5. WritersFit'
  BY <1>1, <1>2 DEF FrameInv, FrameTypeOK, WritersFit, Writers
<1>6. lock' # NoSender => lock' \in Writers'
  BY <1>1, <1>2 DEF FrameInv
<1>7. QED
  BY <1>1, <1>3, <1>4, <1>5, <1>6 DEF FrameInv, PagesFit

LEMMA FrameReceived ==
  ASSUME FrameInv, NEW s \in FrameSenders, NEW f \in Frames, ReceiveFrame(s, f)
  PROVE  FrameInv'
<1>1. /\ image' = image /\ metadata' = metadata /\ shownMeta' = shownMeta /\ shown' = shown
      /\ torn' = torn /\ lock' = lock
      /\ frameAt[s] = "idle"
      /\ frameAt' = [frameAt EXCEPT ![s] = "lock"]
      /\ frameIn' = [frameIn EXCEPT ![s] = f]
  BY DEF ReceiveFrame, frameFiles
<1>2. Writers' = Writers
  BY <1>1 DEF FrameInv, FrameTypeOK, Writers
<1>3. s \notin Writers
  BY <1>1 DEF Writers
<1>4. FrameTypeOK'
  BY <1>1 DEF FrameInv, FrameTypeOK
<1>5. FilesFit'
  BY <1>1, <1>2, <1>3 DEF FrameInv, FrameTypeOK, FilesFit, Writers
<1>6. WritersFit'
  BY <1>1, <1>2, <1>3 DEF FrameInv, FrameTypeOK, WritersFit
<1>7. QED
  BY <1>1, <1>2, <1>4, <1>5, <1>6 DEF FrameInv, PagesFit

LEMMA FrameLooked ==
  ASSUME FrameInv, NEW s \in FrameSenders, LockAndLook(s)
  PROVE  FrameInv'
<1>1. /\ image' = image /\ metadata' = metadata /\ shownMeta' = shownMeta /\ shown' = shown
      /\ torn' = torn
      /\ frameAt[s] = "lock" /\ lock = NoSender
  BY DEF LockAndLook, frameFiles
<1>2. Writers = {}
  BY <1>1, NoFrameAssumption DEF FrameInv, WritersFit, Writers
<1>3. CASE NewerFrame(frameIn[s])
  <2>1. /\ lock' = s /\ frameIn' = frameIn
        /\ frameAt' = [frameAt EXCEPT ![s] = "image"]
    BY <1>3 DEF LockAndLook
  <2>2. Writers' = {s} /\ frameAt'[s] = "image"
    BY <1>2, <2>1 DEF FrameInv, FrameTypeOK, Writers
  <2>3. FrameTypeOK'
    BY <1>1, <2>1 DEF FrameInv, FrameTypeOK
  <2>4. FilesFit'
    BY <1>1, <1>2, <2>2 DEF FrameInv, FilesFit
  <2>5. WritersFit'
    BY <1>1, <1>2, <1>3, <2>1, <2>2
       DEF FrameInv, FrameTypeOK, WritersFit, NewerFrame, Writers
  <2>6. QED
    BY <1>1, <2>1, <2>2, <2>3, <2>4, <2>5 DEF FrameInv, PagesFit
<1>4. CASE ~NewerFrame(frameIn[s])
  <2>1. EndFrame(s)
    BY <1>4 DEF LockAndLook
  <2>2. torn' = (torn \/ frameAt[s] = "metadata")
    BY <1>1 DEF FrameInv, FrameTypeOK
  <2>3. FrameWriteFails(s)
    BY <1>1, <2>1, <2>2 DEF FrameWriteFails, frameFiles
  <2>4. QED
    BY <1>1, <2>3, FrameEnds
<1>5. QED
  BY <1>3, <1>4

LEMMA ImageReplaced ==
  ASSUME FrameInv, NEW s \in FrameSenders, ReplaceImage(s), ~FrameWriteFails(s)
  PROVE  FrameInv'
<1>1. /\ image' = frameIn[s] /\ metadata' = metadata /\ shownMeta' = shownMeta
      /\ shown' = shown /\ torn' = torn /\ lock' = lock /\ frameIn' = frameIn
      /\ frameAt[s] = "image"
      /\ frameAt' = [frameAt EXCEPT ![s] = "metadata"]
  BY DEF ReplaceImage
<1>2. s \in Writers /\ lock = s /\ frameIn[s] \in Frames
  BY <1>1 DEF FrameInv, WritersFit, Writers
<1>3. Writers' = Writers /\ Writers = {s} /\ frameAt'[s] = "metadata"
  BY <1>1, <1>2 DEF FrameInv, FrameTypeOK, WritersFit, Writers
<1>4. FrameTypeOK'
  BY <1>1, <1>2 DEF FrameInv, FrameTypeOK
<1>5. FilesFit'
  <2>1. ~(\A q \in Writers' : frameAt'[q] = "image")
    BY <1>3
  <2>2. metadata # NoFrame => frameIn[s] # NoFrame /\ frameIn[s].at >= metadata.at
    <3>1. ASSUME metadata # NoFrame PROVE frameIn[s].at > metadata.at
      BY <1>2, <3>1 DEF FrameInv, WritersFit
    <3>2. metadata # NoFrame => metadata.at \in Int
      BY FrameTimeAssumption DEF FrameInv, FrameTypeOK
    <3>3. frameIn[s] # NoFrame /\ frameIn[s].at \in Int
      BY <1>2, NoFrameAssumption, FrameTimeAssumption
    <3>4. QED
      BY <3>1, <3>2, <3>3
  <2>3. QED
    BY <1>1, <2>1, <2>2 DEF FrameInv, FilesFit
<1>6. WritersFit'
  BY <1>1, <1>2, <1>3 DEF FrameInv, FrameTypeOK, WritersFit, Writers
<1>7. QED
  BY <1>1, <1>2, <1>3, <1>4, <1>5, <1>6 DEF FrameInv, PagesFit

LEMMA MetadataReplaced ==
  ASSUME FrameInv, NEW s \in FrameSenders, ReplaceMetadata(s), ~FrameWriteFails(s)
  PROVE  FrameInv'
<1>1. /\ metadata' = frameIn[s] /\ image' = image /\ shownMeta' = shownMeta
      /\ shown' = shown /\ torn' = FALSE /\ frameAt[s] = "metadata"
      /\ frameAt' = [frameAt EXCEPT ![s] = "idle"]
      /\ frameIn' = [frameIn EXCEPT ![s] = NoFrame]
      /\ lock' = IF lock = s THEN NoSender ELSE lock
  BY DEF ReplaceMetadata, EndFrame
<1>2. s \in Writers /\ lock = s /\ frameIn[s] \in Frames /\ image = frameIn[s]
  BY <1>1 DEF FrameInv, WritersFit, Writers
<1>3. Writers = {s} /\ Writers' = {}
  BY <1>1, <1>2 DEF FrameInv, FrameTypeOK, WritersFit, Writers
<1>4. FrameTypeOK'
  BY <1>1, <1>2 DEF FrameInv, FrameTypeOK
<1>5. FilesFit'
  <2>1. frameIn[s].at \in Int /\ frameIn[s] # NoFrame
    BY <1>2, NoFrameAssumption, FrameTimeAssumption
  <2>2. ASSUME shownMeta # NoFrame PROVE frameIn[s].at >= shownMeta.at
    <3>1. /\ metadata # NoFrame /\ metadata.at >= shownMeta.at
          /\ frameIn[s].at > metadata.at
      BY <1>2, <2>2 DEF FrameInv, FilesFit, WritersFit
    <3>2. metadata.at \in Int /\ shownMeta.at \in Int
      BY <2>2, <3>1, FrameTimeAssumption DEF FrameInv, FrameTypeOK
    <3>3. QED
      BY <2>1, <3>1, <3>2
  <2>3. QED
    BY <1>1, <1>2, <2>1, <2>2 DEF FilesFit
<1>6. WritersFit'
  BY <1>1, <1>3 DEF FrameInv, FrameTypeOK, WritersFit, Writers
<1>7. QED
  BY <1>1, <1>2, <1>4, <1>5, <1>6 DEF FrameInv, PagesFit

(* The page reads metadata first: what it sends then is as new or newer.      *)
LEMMA PageStep ==
  ASSUME FrameInv, ReadFrameMetadata \/ SendFrame
  PROVE  FrameInv'
<1>1. /\ image' = image /\ metadata' = metadata /\ torn' = torn /\ lock' = lock
      /\ frameAt' = frameAt /\ frameIn' = frameIn
  BY DEF ReadFrameMetadata, SendFrame, frameFiles
<1>2. WritersFit' /\ Writers' = Writers
  BY <1>1 DEF FrameInv, WritersFit, Writers
<1>3. CASE ReadFrameMetadata
  <2>1. shownMeta' = metadata /\ metadata # NoFrame /\ shown' = shown
    BY <1>3 DEF ReadFrameMetadata
  <2>2. metadata.at \in Int
    BY <2>1, FrameTimeAssumption DEF FrameInv, FrameTypeOK
  <2>3. QED
    BY <1>1, <1>2, <2>1, <2>2 DEF FrameInv, FrameTypeOK, FilesFit, PagesFit
<1>4. CASE SendFrame
  <2>1. /\ shownMeta # NoFrame /\ shownMeta' = NoFrame
        /\ shown' = shown \cup {<<shownMeta, image>>}
    BY <1>4 DEF SendFrame
  <2>2. /\ metadata # NoFrame /\ image # NoFrame
        /\ metadata.at >= shownMeta.at /\ image.at >= metadata.at
    BY <2>1 DEF FrameInv, FilesFit
  <2>3. {image, metadata, shownMeta} \subseteq Frames
    BY <2>1, <2>2 DEF FrameInv, FrameTypeOK
  <2>4. image.at >= shownMeta.at
    BY <2>2, <2>3, FrameTimeAssumption
  <2>5. PagesFit'
    BY <2>1, <2>4 DEF FrameInv, PagesFit
  <2>6. FrameTypeOK'
    BY <1>1, <2>1, <2>3 DEF FrameInv, FrameTypeOK
  <2>7. QED
    BY <1>1, <1>2, <2>1, <2>5, <2>6 DEF FrameInv, FilesFit
<1>5. QED
  BY <1>3, <1>4

LEMMA FrameInvStep == FrameInv /\ [FrameNext]_frameVars => FrameInv'
<1> SUFFICES ASSUME FrameInv, [FrameNext]_frameVars PROVE FrameInv'
  OBVIOUS
<1>1. ASSUME NEW s \in FrameSenders, ReplaceImage(s) \/ ReplaceMetadata(s) PROVE FrameInv'
  <2>1. frameAt[s] # "idle"
    BY <1>1 DEF ReplaceImage, ReplaceMetadata
  <2>2. QED
    BY <1>1, <2>1, FrameEnds, ImageReplaced, MetadataReplaced
<1>2. ASSUME NEW s \in FrameSenders, FrameSenderDies(s) PROVE FrameInv'
  BY <1>2, FrameEnds DEF FrameSenderDies
<1>3. CASE UNCHANGED frameVars
  BY <1>3 DEF frameVars, FrameInv, FrameTypeOK, FilesFit, WritersFit, PagesFit, Writers
<1>4. QED
  BY <1>1, <1>2, <1>3, FrameReceived, FrameLooked, PageStep DEF FrameNext

(* The types of files, writers and pages.                                    *)
LEMMA FrameTypes == FrameSpec => []FrameTypeOK
<1>1. FrameInv => FrameTypeOK
  BY DEF FrameInv
<1>2. QED
  BY <1>1, FrameInvInit, FrameInvStep, PTL DEF FrameSpec

(* For any senders and frames: image and metadata are of one frame but after  *)
(* an end between the two, and a page never sends an older image.             *)
THEOREM FrameFits == FrameSpec => []FrameFitsMetadata
<1>1. QED
  BY FrameInvInit, FrameInvStep, FrameInvFits, PTL DEF FrameSpec

--------------------------------------------------------------------------------
(* Maps and costmaps.  A request that may write, or has written, the picture  *)
(* found no row of it, or somebody carried the same map at the time.          *)
GridMade(s) == gridAt[s] \in {"store", "remove new"} /\ gridMade[s]

GridKinds ==
  /\ \A g \in mapRows : g.kind = "map"
  /\ mapLatest # NoGrid => mapLatest \in mapRows
  /\ costLatest # NoGrid => costLatest.kind = "costmap"
  /\ \A s \in MapSenders :
       /\ gridBefore[s] # NoGrid => gridBefore[s].kind = "costmap"
       /\ gridIn[s] # NoGrid => gridIn[s].kind = "map" \/ s = Adapter

GridRequests ==
  \A s \in MapSenders :
    /\ gridAt[s] = "idle" <=> gridIn[s] = NoGrid
    /\ gridAt[s] = "remove old" <=> gridBefore[s] # NoGrid
    /\ gridAt[s] = "remove old" =>
         s = Adapter /\ gridIn[s] = costLatest /\ gridBefore[s] # costLatest
    /\ gridAt[s] \in {"exists", "write"} => ~gridMade[s]
    /\ gridAt[s] = "remove new" => gridMade[s]

RowsHavePictures == \A g \in mapRows \cup ({costLatest} \ {NoGrid}) : g \in gridFiles \cup carried

CarriedOnce ==
  \A s, o \in MapSenders :
    s # o /\ gridIn[s] = gridIn[o] /\ gridIn[s] # NoGrid => gridIn[s] \in carried

PictureIsThere ==
  \A s \in MapSenders : gridAt[s] = "store" => gridIn[s] \in gridFiles \cup carried

PictureIsNew ==
  \A s \in MapSenders :
    gridAt[s] = "write" \/ GridMade(s) =>
      gridIn[s] \notin mapRows \cup {costLatest} \/ gridIn[s] \in carried

PicturesAreOwned ==
  \A g \in gridFiles :
    \/ g \in mapRows \cup {costLatest}
    \/ \E s \in MapSenders : (GridMade(s) /\ g = gridIn[s]) \/ g = gridBefore[s]
    \/ g \in abandoned

GridInv ==
  /\ GridTypeOK /\ GridKinds /\ GridRequests /\ RowsHavePictures
  /\ CarriedOnce /\ PictureIsThere /\ PictureIsNew /\ PicturesAreOwned

LEMMA GridInvInit == GridInit => GridInv
<1> SUFFICES ASSUME GridInit PROVE GridInv
  OBVIOUS
<1> USE DEF GridInit
<1>1. GridTypeOK
  BY DEF GridTypeOK, GridSteps
<1>2. GridKinds /\ GridRequests
  BY DEF GridKinds, GridRequests
<1>3. RowsHavePictures /\ CarriedOnce /\ PictureIsThere /\ PictureIsNew /\ PicturesAreOwned
  BY DEF RowsHavePictures, CarriedOnce, PictureIsThere, PictureIsNew, PicturesAreOwned, GridMade
<1>4. QED
  BY <1>1, <1>2, <1>3 DEF GridInv

(* What is common to the ends of a request: its picture may stay or go.       *)
GridEnded(s) ==
  /\ gridAt'[s] = "idle" /\ gridIn'[s] = NoGrid /\ gridBefore'[s] = NoGrid
  /\ \A o \in MapSenders : o # s => /\ gridAt'[o] = gridAt[o] /\ gridIn'[o] = gridIn[o]
                                    /\ gridBefore'[o] = gridBefore[o]

LEMMA GridEnds ==
  ASSUME GridInv, NEW s \in MapSenders, EndGrid(s), gridMade' = gridMade,
         mapRows' \in {mapRows, mapRows \cup {gridIn[s]}}, mapRows' \subseteq Grids,
         costLatest' = costLatest \/ (s = Adapter /\ costLatest' = gridIn[s] /\ gridIn[s] \in Grids),
         mapLatest' \in Grids \cup {NoGrid}, gridFiles' \subseteq gridFiles, abandoned' \subseteq Grids
  PROVE  /\ GridEnded(s) /\ carried' = carried
         /\ GridTypeOK' /\ GridRequests' /\ CarriedOnce' /\ PictureIsNew'
<1>1. /\ gridAt \in [MapSenders -> GridSteps]
      /\ gridIn \in [MapSenders -> Grids \cup {NoGrid}]
      /\ gridBefore \in [MapSenders -> Grids \cup {NoGrid}]
  BY DEF GridInv, GridTypeOK
<1>2. GridEnded(s) /\ carried' = carried
  BY <1>1 DEF EndGrid, GridEnded
<1>3. /\ gridAt' \in [MapSenders -> GridSteps]
      /\ gridIn' \in [MapSenders -> Grids \cup {NoGrid}]
      /\ gridBefore' \in [MapSenders -> Grids \cup {NoGrid}]
  BY <1>1 DEF EndGrid, GridSteps
<1>4. GridTypeOK'
  BY <1>2, <1>3 DEF GridInv, GridTypeOK
<1>5. GridRequests'
  BY <1>2 DEF GridInv, GridRequests, GridEnded
<1>6. CarriedOnce'
  BY <1>2 DEF GridInv, CarriedOnce, GridEnded
<1>7. PictureIsNew'
  <2>1. SUFFICES ASSUME NEW o \in MapSenders, (gridAt[o] = "write" \/ GridMade(o))',
                        gridIn'[o] \notin carried
                 PROVE  gridIn'[o] \notin mapRows' \cup {costLatest'}
    BY <1>2 DEF PictureIsNew
  <2>2. o # s /\ (gridAt[o] = "write" \/ GridMade(o)) /\ gridIn'[o] = gridIn[o]
    BY <1>2, <2>1 DEF GridEnded, GridMade
  <2>3. gridIn[o] \notin mapRows \cup {costLatest} /\ gridIn[o] # NoGrid
    BY <2>1, <2>2 DEF GridInv, PictureIsNew, GridRequests, GridMade
  <2>4. gridIn[o] # gridIn[s]
    BY <2>1, <2>2, <2>3 DEF GridInv, CarriedOnce
  <2>5. QED
    BY <2>2, <2>3, <2>4
<1>8. QED
  BY <1>2, <1>4, <1>5, <1>6, <1>7

(* An end that leaves directory and tables as they are.                       *)
LEMMA GridEndsQuietly ==
  ASSUME GridInv, NEW s \in MapSenders, EndGrid(s),
         UNCHANGED <<gridRows, gridFiles, gridMade>>,
         abandoned \subseteq abandoned', abandoned' \subseteq Grids,
         GridMade(s) => gridIn[s] \in mapRows \cup {costLatest} \cup abandoned',
         gridBefore[s] # NoGrid => gridBefore[s] \in abandoned'
  PROVE  GridInv'
<1>1. UNCHANGED <<mapRows, mapLatest, costLatest, gridFiles, gridMade>>
  BY DEF gridRows
<1>2. mapRows \subseteq Grids /\ mapLatest \in Grids \cup {NoGrid} /\ gridFiles \subseteq Grids
  BY DEF GridInv, GridTypeOK
<1>3. /\ GridEnded(s) /\ carried' = carried
      /\ GridTypeOK' /\ GridRequests' /\ CarriedOnce' /\ PictureIsNew'
  BY <1>1, <1>2, GridEnds
<1>4. GridKinds'
  BY <1>1, <1>3 DEF GridInv, GridKinds, GridEnded
<1>5. RowsHavePictures'
  BY <1>1, <1>3 DEF GridInv, RowsHavePictures
<1>6. PictureIsThere'
  BY <1>1, <1>3 DEF GridInv, PictureIsThere, GridEnded
<1>7. PicturesAreOwned'
  <2>1. SUFFICES ASSUME NEW g \in gridFiles, g \notin mapRows \cup {costLatest}, g \notin abandoned'
                 PROVE  \E o \in MapSenders : ((GridMade(o) /\ g = gridIn[o]) \/ g = gridBefore[o])'
    BY <1>1 DEF PicturesAreOwned
  <2>2. PICK o \in MapSenders : (GridMade(o) /\ g = gridIn[o]) \/ g = gridBefore[o]
    BY <2>1 DEF GridInv, PicturesAreOwned
  <2>3. o # s
    BY <1>2, <2>1, <2>2, NoGridAssumption
  <2>4. QED
    BY <1>1, <1>3, <2>2, <2>3 DEF GridEnded, GridMade
<1>8. QED
  BY <1>3, <1>4, <1>5, <1>6, <1>7 DEF GridInv

LEMMA GridReceived ==
  ASSUME GridInv, NEW s \in MapSenders, NEW g \in Grids, ReceiveGrid(s, g)
  PROVE  GridInv'
<1>1. /\ UNCHANGED <<mapRows, mapLatest, costLatest, gridFiles, gridBefore, abandoned>>
      /\ gridAt[s] = "idle" /\ (g.kind = "map" \/ s = Adapter) /\ g # NoGrid
  BY GridKindAssumption, NoGridAssumption DEF ReceiveGrid, gridRows
<1>2. /\ gridAt'[s] = "exists" /\ gridIn'[s] = g /\ gridMade'[s] = FALSE
      /\ \A o \in MapSenders : o # s => /\ gridAt'[o] = gridAt[o] /\ gridIn'[o] = gridIn[o]
                                        /\ gridMade'[o] = gridMade[o]
      /\ gridAt' \in [MapSenders -> GridSteps]
      /\ gridIn' \in [MapSenders -> Grids \cup {NoGrid}]
      /\ gridMade' \in [MapSenders -> BOOLEAN]
  BY DEF ReceiveGrid, GridInv, GridTypeOK, GridSteps
<1>3. /\ carried \subseteq carried' /\ carried' \subseteq Grids
      /\ \A o \in MapSenders : gridIn[o] = g => g \in carried'
  BY DEF ReceiveGrid, GridInv, GridTypeOK
<1>4. GridTypeOK'
  BY <1>1, <1>2, <1>3 DEF GridInv, GridTypeOK
<1>5. GridKinds' /\ GridRequests'
  BY <1>1, <1>2 DEF GridInv, GridKinds, GridRequests
<1>6. RowsHavePictures'
  BY <1>1, <1>3 DEF GridInv, RowsHavePictures
<1>7. CarriedOnce'
  BY <1>1, <1>2, <1>3 DEF GridInv, CarriedOnce
<1>8. PictureIsThere' /\ PictureIsNew'
  BY <1>1, <1>2, <1>3 DEF GridInv, PictureIsThere, PictureIsNew, GridMade
<1>9. PicturesAreOwned'
  BY <1>1, <1>2 DEF GridInv, PicturesAreOwned, GridMade
<1>10. QED
  BY <1>4, <1>5, <1>6, <1>7, <1>8, <1>9 DEF GridInv

(* A request goes on: to look, to store, to remove what it made.              *)
LEMMA GridGoes ==
  ASSUME GridInv, NEW s \in MapSenders, NEW step \in {"write", "store", "remove new"},
         GridGoesTo(s, step), UNCHANGED gridRows,
         gridAt[s] \in {"exists", "write", "store"},
         gridFiles \subseteq gridFiles', gridFiles' \subseteq gridFiles \cup {gridIn[s]},
         gridMade' \in [MapSenders -> BOOLEAN],
         \A o \in MapSenders : o # s => gridMade'[o] = gridMade[o],
         gridMade'[s] = FALSE => ~GridMade(s) /\ gridFiles' = gridFiles /\ step # "remove new",
         step = "store" => gridIn[s] \in gridFiles',
         step = "write" => ~gridMade'[s],
         step = "write" \/ gridMade'[s] =>
           gridIn[s] \notin mapRows \cup {costLatest} \/ gridIn[s] \in carried
  PROVE  GridInv'
<1>1. /\ UNCHANGED <<mapRows, mapLatest, costLatest, gridIn, gridBefore, carried, abandoned>>
  BY DEF GridGoesTo, gridRows
<1>2. /\ gridAt'[s] = step /\ \A o \in MapSenders : o # s => gridAt'[o] = gridAt[o]
      /\ gridAt' \in [MapSenders -> GridSteps]
  BY DEF GridGoesTo, GridInv, GridTypeOK, GridSteps
<1>3. gridIn[s] \in Grids /\ gridFiles' \subseteq Grids
  BY DEF GridInv, GridTypeOK, GridRequests
<1>4. GridTypeOK'
  BY <1>1, <1>2, <1>3 DEF GridInv, GridTypeOK
<1>5. GridKinds'
  BY <1>1 DEF GridInv, GridKinds
<1>6. GridRequests'
  BY <1>1, <1>2 DEF GridInv, GridTypeOK, GridRequests
<1>7. RowsHavePictures' /\ CarriedOnce'
  BY <1>1 DEF GridInv, RowsHavePictures, CarriedOnce
<1>8. PictureIsThere'
  BY <1>1, <1>2 DEF GridInv, PictureIsThere
<1>9. PictureIsNew'
  BY <1>1, <1>2 DEF GridInv, PictureIsNew, GridMade
<1>10. PicturesAreOwned'
  <2>1. ASSUME NEW g \in gridFiles, NEW o \in MapSenders, GridMade(o), g = gridIn[o]
        PROVE  GridMade(o)'
    <3>1. CASE o = s
      BY <1>2, <2>1, <3>1 DEF GridMade
    <3>2. CASE o # s
      BY <1>2, <2>1, <3>2 DEF GridMade
    <3>3. QED
      BY <3>1, <3>2
  <2>2. ASSUME gridFiles' # gridFiles PROVE GridMade(s)'
    BY <1>2, <2>2 DEF GridMade
  <2>3. QED
    BY <1>1, <2>1, <2>2 DEF GridInv, PicturesAreOwned
<1>11. QED
  BY <1>4, <1>5, <1>6, <1>7, <1>8, <1>9, <1>10 DEF GridInv

LEMMA GridLooked == ASSUME GridInv, NEW s \in MapSenders, CheckGridImage(s) PROVE GridInv'
<1> DEFINE step == IF gridIn[s] \in gridFiles THEN "store" ELSE "write"
<1>1. /\ gridAt[s] = "exists" /\ GridGoesTo(s, step) /\ UNCHANGED <<gridFiles, gridMade>>
      /\ UNCHANGED gridRows
  BY DEF CheckGridImage
<1>2. /\ gridIn[s] \in Grids /\ ~GridMade(s) /\ gridMade \in [MapSenders -> BOOLEAN]
      /\ gridMade[s] = FALSE
  BY <1>1 DEF GridInv, GridTypeOK, GridRequests, GridMade
<1>3. gridIn[s] \in mapRows \cup {costLatest} => gridIn[s] \in gridFiles \cup carried
  BY <1>2, NoGridAssumption DEF GridInv, RowsHavePictures
<1>4. CASE gridIn[s] \in gridFiles
  BY <1>1, <1>2, <1>3, <1>4, GridGoes
<1>5. CASE gridIn[s] \notin gridFiles
  BY <1>1, <1>2, <1>3, <1>5, GridGoes
<1>6. QED
  BY <1>4, <1>5

LEMMA GridWritten == ASSUME GridInv, NEW s \in MapSenders, WriteGridImage(s) PROVE GridInv'
<1>1. gridAt[s] = "write" /\ UNCHANGED gridRows
  BY DEF WriteGridImage
<1>2. /\ ~GridMade(s) /\ gridMade \in [MapSenders -> BOOLEAN] /\ gridBefore[s] = NoGrid
      /\ gridIn[s] \notin mapRows \cup {costLatest} \/ gridIn[s] \in carried
      /\ abandoned \subseteq Grids
  BY <1>1 DEF GridInv, GridTypeOK, GridRequests, GridMade, PictureIsNew
<1>3. ASSUME gridFiles' = gridFiles \cup {gridIn[s]}, GridGoesTo(s, "store"),
             gridMade' = [gridMade EXCEPT ![s] = TRUE]
      PROVE  GridInv'
  <2>1. /\ gridMade' \in [MapSenders -> BOOLEAN] /\ gridMade'[s] = TRUE
        /\ \A o \in MapSenders : o # s => gridMade'[o] = gridMade[o]
    BY <1>2, <1>3
  <2>2. QED
    BY <1>1, <1>2, <1>3, <2>1, GridGoes
<1>4. ASSUME EndGrid(s), UNCHANGED <<gridFiles, gridMade, abandoned>> PROVE GridInv'
  BY <1>1, <1>2, <1>4, GridEndsQuietly
<1>5. QED
  BY <1>3, <1>4 DEF WriteGridImage

LEMMA GridRefused ==
  ASSUME GridInv, NEW s \in MapSenders, gridAt[s] = "store", RefuseGrid(s),
         UNCHANGED <<gridFiles, gridMade>>
  PROVE  GridInv'
<1>1. /\ gridMade \in [MapSenders -> BOOLEAN] /\ gridBefore[s] = NoGrid /\ abandoned \subseteq Grids
      /\ GridMade(s) <=> gridMade[s]
  BY DEF GridInv, GridTypeOK, GridRequests, GridMade
<1>2. CASE gridMade[s]
  <2>1. gridIn[s] \notin mapRows \cup {costLatest} \/ gridIn[s] \in carried
    BY <1>1, <1>2 DEF GridInv, PictureIsNew
  <2>2. GridGoesTo(s, "remove new") /\ UNCHANGED gridRows
    BY <1>2 DEF RefuseGrid
  <2>3. gridMade'[s] /\ gridMade' \in [MapSenders -> BOOLEAN] /\ gridMade'[s] # FALSE
    BY <1>1, <1>2
  <2>4. QED
    BY <1>1, <1>2, <2>1, <2>2, <2>3, GridGoes
<1>3. CASE ~gridMade[s]
  <2>1. EndGrid(s) /\ UNCHANGED abandoned /\ UNCHANGED gridRows
    BY <1>3 DEF RefuseGrid
  <2>2. QED
    BY <1>1, <1>3, <2>1, GridEndsQuietly
<1>4. QED
  BY <1>2, <1>3

(* Its row is stored already: then so is its picture, or another has it.      *)
LEMMA GridRepeated ==
  ASSUME GridInv, NEW s \in MapSenders, gridAt[s] = "store", EndGrid(s),
         UNCHANGED <<gridRows, gridFiles, gridMade, abandoned>>,
         gridIn[s] \in mapRows \cup {costLatest}
  PROVE  GridInv'
<1>1. gridBefore[s] = NoGrid /\ abandoned \subseteq Grids
  BY DEF GridInv, GridTypeOK, GridRequests
<1>2. QED
  BY <1>1, GridEndsQuietly

LEMMA MapAccepted ==
  ASSUME GridInv, NEW s \in MapSenders, gridAt[s] = "store", gridIn[s].kind = "map",
         mapRows' = mapRows \cup {gridIn[s]}, mapLatest' = gridIn[s], EndGrid(s),
         UNCHANGED <<costLatest, abandoned, gridFiles, gridMade>>
  PROVE  GridInv'
<1>1. /\ gridIn[s] \in Grids /\ mapRows' \subseteq Grids /\ abandoned \subseteq Grids
      /\ gridBefore[s] = NoGrid
  BY DEF GridInv, GridTypeOK, GridRequests
<1>2. /\ GridEnded(s) /\ carried' = carried
      /\ GridTypeOK' /\ GridRequests' /\ CarriedOnce' /\ PictureIsNew'
  BY <1>1, GridEnds
<1>3. GridKinds'
  BY <1>2 DEF GridInv, GridKinds, GridEnded
<1>4. RowsHavePictures'
  BY <1>2 DEF GridInv, RowsHavePictures, PictureIsThere
<1>5. PictureIsThere'
  BY <1>2 DEF GridInv, PictureIsThere, GridEnded
<1>6. PicturesAreOwned'
  <2>1. SUFFICES ASSUME NEW g \in gridFiles, g \notin mapRows' \cup {costLatest}, g \notin abandoned
                 PROVE  \E o \in MapSenders : ((GridMade(o) /\ g = gridIn[o]) \/ g = gridBefore[o])'
    BY DEF PicturesAreOwned
  <2>2. PICK o \in MapSenders : (GridMade(o) /\ g = gridIn[o]) \/ g = gridBefore[o]
    BY <2>1 DEF GridInv, PicturesAreOwned
  <2>3. o # s
    BY <1>1, <2>1, <2>2, NoGridAssumption DEF GridInv, GridTypeOK
  <2>4. QED
    BY <1>2, <2>2, <2>3 DEF GridEnded, GridMade
<1>7. QED
  BY <1>2, <1>3, <1>4, <1>5, <1>6 DEF GridInv

LEMMA CostmapAccepted ==
  ASSUME GridInv, NEW s \in MapSenders, gridAt[s] = "store", gridIn[s].kind = "costmap",
         AcceptCostmap(s), UNCHANGED <<gridFiles, gridMade>>
  PROVE  GridInv'
<1>1. /\ gridIn[s] \in Grids /\ mapRows \subseteq Grids /\ abandoned \subseteq Grids
      /\ gridBefore[s] = NoGrid /\ mapLatest \in Grids \cup {NoGrid}
      /\ costLatest \in Grids \cup {NoGrid} /\ gridFiles \subseteq Grids
      /\ gridAt \in [MapSenders -> GridSteps]
      /\ gridBefore \in [MapSenders -> Grids \cup {NoGrid}]
  BY DEF GridInv, GridTypeOK, GridRequests
<1>2. s = Adapter
  BY <1>1, NoGridAssumption DEF GridInv, GridKinds
<1>3. costLatest' = gridIn[s] /\ UNCHANGED <<mapRows, mapLatest, abandoned, gridFiles, gridMade>>
  BY DEF AcceptCostmap
<1>4. gridIn[s] \in gridFiles \cup carried
  BY DEF GridInv, PictureIsThere
<1>5. CASE costLatest \in {NoGrid, gridIn[s]}
  <2>1. EndGrid(s)
    BY <1>5 DEF AcceptCostmap
  <2>2. /\ GridEnded(s) /\ carried' = carried
        /\ GridTypeOK' /\ GridRequests' /\ CarriedOnce' /\ PictureIsNew'
    BY <1>1, <1>2, <1>3, <2>1, GridEnds
  <2>3. GridKinds'
    BY <1>3, <2>2 DEF GridInv, GridKinds, GridEnded
  <2>4. RowsHavePictures'
    BY <1>3, <1>4, <2>2 DEF GridInv, RowsHavePictures
  <2>5. PictureIsThere'
    BY <1>3, <2>2 DEF GridInv, PictureIsThere, GridEnded
  <2>6. PicturesAreOwned'
    <3>1. SUFFICES ASSUME NEW g \in gridFiles, g \notin mapRows \cup {gridIn[s]}, g \notin abandoned
                   PROVE  \E o \in MapSenders :
                            ((GridMade(o) /\ g = gridIn[o]) \/ g = gridBefore[o])'
      BY <1>3 DEF PicturesAreOwned
    <3>2. g # NoGrid /\ g \notin mapRows \cup {costLatest}
      BY <1>1, <1>5, <3>1, NoGridAssumption
    <3>3. PICK o \in MapSenders : (GridMade(o) /\ g = gridIn[o]) \/ g = gridBefore[o]
      BY <3>1, <3>2 DEF GridInv, PicturesAreOwned
    <3>4. o # s
      BY <1>1, <3>1, <3>2, <3>3
    <3>5. QED
      BY <1>3, <2>2, <3>3, <3>4 DEF GridEnded, GridMade
  <2>7. QED
    BY <2>2, <2>3, <2>4, <2>5, <2>6 DEF GridInv
<1>6. CASE costLatest \notin {NoGrid, gridIn[s]}
  <2>1. /\ gridAt' = [gridAt EXCEPT ![s] = "remove old"]
        /\ gridBefore' = [gridBefore EXCEPT ![s] = costLatest]
        /\ UNCHANGED <<gridIn, carried>>
    BY <1>6 DEF AcceptCostmap
  <2>2. /\ gridAt'[s] = "remove old" /\ gridBefore'[s] = costLatest
        /\ \A o \in MapSenders : o # s => /\ gridAt'[o] = gridAt[o]
                                          /\ gridBefore'[o] = gridBefore[o]
        /\ gridAt' \in [MapSenders -> GridSteps]
        /\ gridBefore' \in [MapSenders -> Grids \cup {NoGrid}]
    BY <1>1, <2>1 DEF GridSteps
  <2>3. GridTypeOK'
    BY <1>1, <1>3, <2>1, <2>2 DEF GridInv, GridTypeOK
  <2>4. GridKinds'
    BY <1>3, <1>6, <2>1, <2>2 DEF GridInv, GridKinds
  <2>5. GridRequests'
    <3>1. gridIn[s] # NoGrid /\ gridMade' = gridMade
      BY <1>1, <1>3, NoGridAssumption
    <3>2. \A o \in MapSenders : o # s => gridAt[o] # "remove old"
      BY <1>2 DEF GridInv, GridRequests
    <3>3. ASSUME NEW o \in MapSenders, o # s
          PROVE  /\ gridAt'[o] = gridAt[o] /\ gridBefore'[o] = gridBefore[o]
                 /\ gridIn'[o] = gridIn[o] /\ gridAt[o] # "remove old"
      BY <2>1, <2>2, <3>2, <3>3
    <3>4. /\ gridAt'[s] = "remove old" /\ gridBefore'[s] = costLatest /\ gridIn'[s] = gridIn[s]
          /\ costLatest # NoGrid /\ costLatest # gridIn[s]
      BY <1>6, <2>1, <2>2
    <3>5. QED
      BY <1>2, <1>3, <3>1, <3>3, <3>4 DEF GridInv, GridRequests
  <2>6. RowsHavePictures' /\ CarriedOnce'
    BY <1>3, <1>4, <2>1 DEF GridInv, RowsHavePictures, CarriedOnce
  <2>7. PictureIsThere'
    BY <1>3, <2>1, <2>2 DEF GridInv, PictureIsThere
  <2>8. PictureIsNew'
    <3>1. SUFFICES ASSUME NEW o \in MapSenders, (gridAt[o] = "write" \/ GridMade(o))',
                          gridIn[o] \notin carried
                   PROVE  gridIn[o] \notin mapRows \cup {gridIn[s]}
      BY <1>3, <2>1 DEF PictureIsNew
    <3>2. o # s /\ (gridAt[o] = "write" \/ GridMade(o))
      BY <1>3, <2>2, <3>1 DEF GridMade
    <3>3. gridIn[o] \notin mapRows /\ gridIn[o] # NoGrid
      BY <3>1, <3>2 DEF GridInv, PictureIsNew, GridRequests, GridMade
    <3>4. gridIn[o] # gridIn[s]
      BY <3>1, <3>2, <3>3 DEF GridInv, CarriedOnce
    <3>5. QED
      BY <3>3, <3>4
  <2>9. PicturesAreOwned'
    <3>1. SUFFICES ASSUME NEW g \in gridFiles, g \notin mapRows \cup {gridIn[s]}, g \notin abandoned
                   PROVE  \E o \in MapSenders :
                            ((GridMade(o) /\ g = gridIn[o]) \/ g = gridBefore[o])'
      BY <1>3 DEF PicturesAreOwned
    <3>2. CASE g = costLatest
      BY <2>2, <3>2
    <3>3. CASE g # costLatest
      <4>1. PICK o \in MapSenders : (GridMade(o) /\ g = gridIn[o]) \/ g = gridBefore[o]
        BY <3>1, <3>3 DEF GridInv, PicturesAreOwned
      <4>2. o # s
        BY <1>1, <3>1, <4>1, NoGridAssumption
      <4>3. QED
        BY <1>3, <2>1, <2>2, <4>1, <4>2 DEF GridMade
    <3>4. QED
      BY <3>2, <3>3
  <2>10. QED
    BY <2>3, <2>4, <2>5, <2>6, <2>7, <2>8, <2>9 DEF GridInv
<1>7. QED
  BY <1>5, <1>6

(* A picture goes: no row names it, and no other request counts on it.        *)
LEMMA PictureGoes ==
  ASSUME GridInv, NEW s \in MapSenders, NEW old, gridFiles' = gridFiles \ {old}, EndGrid(s),
         UNCHANGED <<gridRows, gridMade, abandoned>>,
         old \notin mapRows \cup {costLatest} \/ old \in carried,
         \A o \in MapSenders : o # s /\ gridAt[o] = "store" /\ gridIn[o] = old => old \in carried,
         GridMade(s) => gridIn[s] \in {old} \cup mapRows \cup {costLatest},
         gridBefore[s] \in {NoGrid, old}
  PROVE  GridInv'
<1>1. UNCHANGED <<mapRows, mapLatest, costLatest>>
  BY DEF gridRows
<1>2. /\ mapRows \subseteq Grids /\ abandoned \subseteq Grids /\ gridFiles \subseteq Grids
      /\ mapLatest \in Grids \cup {NoGrid}
  BY DEF GridInv, GridTypeOK
<1>3. /\ GridEnded(s) /\ carried' = carried
      /\ GridTypeOK' /\ GridRequests' /\ CarriedOnce' /\ PictureIsNew'
  BY <1>1, <1>2, GridEnds
<1>4. GridKinds'
  BY <1>1, <1>3 DEF GridInv, GridKinds, GridEnded
<1>5. RowsHavePictures'
  BY <1>1, <1>3 DEF GridInv, RowsHavePictures
<1>6. PictureIsThere'
  BY <1>3 DEF GridInv, PictureIsThere, GridEnded
<1>7. PicturesAreOwned'
  <2>1. SUFFICES ASSUME NEW g \in gridFiles, g # old, g \notin mapRows \cup {costLatest},
                        g \notin abandoned
                 PROVE  \E o \in MapSenders : ((GridMade(o) /\ g = gridIn[o]) \/ g = gridBefore[o])'
    BY <1>1 DEF PicturesAreOwned
  <2>2. PICK o \in MapSenders : (GridMade(o) /\ g = gridIn[o]) \/ g = gridBefore[o]
    BY <2>1 DEF GridInv, PicturesAreOwned
  <2>3. o # s
    BY <1>2, <2>1, <2>2, NoGridAssumption
  <2>4. QED
    BY <1>3, <2>2, <2>3 DEF GridEnded, GridMade
<1>8. QED
  BY <1>3, <1>4, <1>5, <1>6, <1>7 DEF GridInv

LEMMA GridStored == ASSUME GridInv, NEW s \in MapSenders, StoreGrid(s) PROVE GridInv'
<1>1. gridAt[s] = "store" /\ UNCHANGED <<gridFiles, gridMade>>
  BY DEF StoreGrid
<1>2. gridIn[s] \in Grids /\ gridIn[s].kind \in {"map", "costmap"}
  BY <1>1, GridKindAssumption DEF GridInv, GridTypeOK, GridRequests
<1>3. CASE gridIn[s].kind = "map"
  <2>1. StoreMap(s)
    BY <1>3 DEF StoreGrid
  <2>2. ASSUME mapRows' = mapRows \cup {gridIn[s]}, mapLatest' = gridIn[s], EndGrid(s),
               UNCHANGED <<costLatest, abandoned>>
        PROVE  GridInv'
    BY <1>1, <1>3, <2>2, MapAccepted
  <2>3. ASSUME SameMapId(gridIn[s]) = {gridIn[s]}, EndGrid(s), UNCHANGED <<gridRows, abandoned>>
        PROVE  GridInv'
    <3>1. gridIn[s] \in mapRows
      BY <2>3 DEF SameMapId
    <3>2. QED
      BY <1>1, <2>3, <3>1, GridRepeated
  <2>4. CASE RefuseGrid(s)
    BY <1>1, <2>4, GridRefused
  <2>5. QED
    BY <2>1, <2>2, <2>3, <2>4 DEF StoreMap
<1>4. CASE gridIn[s].kind = "costmap"
  <2>1. StoreCostmap(s)
    BY <1>4 DEF StoreGrid
  <2>2. CASE AcceptCostmap(s)
    BY <1>1, <1>4, <2>2, CostmapAccepted
  <2>3. ASSUME SameCostmapId(gridIn[s]) = {gridIn[s]}, EndGrid(s), UNCHANGED <<gridRows, abandoned>>
        PROVE  GridInv'
    <3>1. gridIn[s] = costLatest
      BY <2>3 DEF SameCostmapId
    <3>2. QED
      BY <1>1, <2>3, <3>1, GridRepeated
  <2>4. CASE RefuseGrid(s)
    BY <1>1, <2>4, GridRefused
  <2>5. QED
    BY <2>1, <2>2, <2>3, <2>4 DEF StoreCostmap
<1>5. QED
  BY <1>2, <1>3, <1>4

LEMMA GridRemoved ==
  ASSUME GridInv, NEW s \in MapSenders, RemoveNewImage(s) \/ RemoveOldImage(s)
  PROVE  GridInv'
<1>1. CASE RemoveNewImage(s)
  <2>1. /\ gridAt[s] = "remove new" /\ gridFiles' = gridFiles \ {gridIn[s]} /\ EndGrid(s)
        /\ UNCHANGED <<gridRows, gridMade, abandoned>>
    BY <1>1 DEF RemoveNewImage
  <2>2. GridMade(s) /\ gridBefore[s] = NoGrid /\ gridIn[s] # NoGrid
    BY <2>1 DEF GridInv, GridRequests, GridMade
  <2>3. gridIn[s] \notin mapRows \cup {costLatest} \/ gridIn[s] \in carried
    BY <2>2 DEF GridInv, PictureIsNew
  <2>4. ASSUME NEW o \in MapSenders, o # s, gridIn[o] = gridIn[s] PROVE gridIn[s] \in carried
    BY <2>2, <2>4 DEF GridInv, CarriedOnce
  <2>5. QED
    BY <2>1, <2>2, <2>3, <2>4, PictureGoes
<1>2. CASE RemoveOldImage(s)
  <2>1. /\ gridAt[s] = "remove old" /\ gridFiles' = gridFiles \ {gridBefore[s]} /\ EndGrid(s)
        /\ UNCHANGED <<gridRows, gridMade, abandoned>>
    BY <1>2 DEF RemoveOldImage
  <2>2. /\ s = Adapter /\ gridIn[s] = costLatest /\ gridBefore[s] # costLatest
        /\ gridBefore[s].kind = "costmap" /\ ~GridMade(s) /\ gridBefore[s] # NoGrid
    BY <2>1 DEF GridInv, GridRequests, GridKinds, GridMade
  <2>3. gridBefore[s] \notin mapRows \cup {costLatest}
    BY <2>2 DEF GridInv, GridKinds
  <2>4. ASSUME NEW o \in MapSenders, o # s PROVE gridIn[o] # gridBefore[s]
    BY <2>2, <2>4 DEF GridInv, GridKinds
  <2>5. QED
    BY <2>1, <2>2, <2>3, <2>4, PictureGoes
<1>3. QED
  BY <1>1, <1>2

LEMMA GridAbandoned == ASSUME GridInv, NEW s \in MapSenders, GridDies(s) PROVE GridInv'
<1>1. /\ gridAt[s] # "idle" /\ EndGrid(s) /\ UNCHANGED <<gridRows, gridFiles, gridMade>>
      /\ abandoned' = abandoned \cup ({gridIn[s], gridBefore[s]} \ {NoGrid})
  BY DEF GridDies
<1>2. /\ abandoned \subseteq Grids /\ gridIn[s] \in Grids
      /\ gridBefore[s] \in Grids \cup {NoGrid}
  BY <1>1 DEF GridInv, GridTypeOK, GridRequests
<1>3. /\ abandoned \subseteq abandoned' /\ abandoned' \subseteq Grids
      /\ gridIn[s] \in abandoned'
      /\ gridBefore[s] # NoGrid => gridBefore[s] \in abandoned'
  BY <1>1, <1>2, NoGridAssumption
<1>4. QED
  BY <1>1, <1>3, GridEndsQuietly

(* Every step of a request keeps the invariant.                              *)
LEMMA GridInvStep == GridInv /\ [GridNext]_gridVars => GridInv'
<1>1. ASSUME GridInv, UNCHANGED gridVars PROVE GridInv'
  BY <1>1 DEF gridVars, GridInv, GridTypeOK, GridKinds, GridRequests, RowsHavePictures, CarriedOnce,
              PictureIsThere, PictureIsNew, PicturesAreOwned, GridMade
<1>2. ASSUME GridInv, GridNext PROVE GridInv'
  BY <1>2, GridReceived, GridLooked, GridWritten, GridStored, GridRemoved, GridAbandoned
     DEF GridNext
<1>3. QED
  BY <1>1, <1>2

(* The types of rows, files and requests.                                    *)
LEMMA GridTypes == GridSpec => []GridTypeOK
<1>1. GridInv => GridTypeOK
  BY DEF GridInv
<1>2. QED
  BY <1>1, GridInvInit, GridInvStep, PTL DEF GridSpec

(* For any maps, costmaps and requests: rows have their pictures, but for a   *)
(* map that two requests carried at once, and a picture has a row or a        *)
(* request that is under way or died.                                         *)
THEOREM PicturesFollowRows == GridSpec => []PicturesMatchRows
<1>1. GridInv => PicturesMatchRows
  BY DEF GridInv, RowsHavePictures, PicturesAreOwned, GridKinds, PicturesMatchRows
<1>2. QED
  BY <1>1, GridInvStep, GridInvInit, PTL DEF GridSpec

--------------------------------------------------------------------------------
(***************************************************************************)
(* PermitLog.  The property is inductive together with the types: a permit  *)
(* that is sent adds a place behind the queue, one that is stored takes the *)
(* first place off, and whatever is lost is remembered in permitMissed.     *)
(***************************************************************************)
PermitInv == PermitTypeOK /\ PermitLogComplete

LEMMA PermitTypesStep == PermitTypeOK /\ [PermitNext]_permitVars => PermitTypeOK'
<1> SUFFICES ASSUME PermitTypeOK, [PermitNext]_permitVars PROVE PermitTypeOK'
  OBVIOUS
<1> USE PermitAssumption
<1>1. ASSUME NEW allowed \in PermitValues, SendPermit(allowed) PROVE PermitTypeOK'
  <2>1. permitChanges' \in Seq(PermitValues)
    BY <1>1 DEF SendPermit, AppendChange, PermitTypeOK
  <2>2. permitQueue' \in Seq(PermitValues) /\ Len(permitQueue') <= PermitDepth
    BY <1>1 DEF SendPermit, KeepLast, PermitTypeOK
  <2>3. permitMissed' \in BOOLEAN
    BY <1>1 DEF SendPermit
  <2>4. permitSent' \in 0 .. MaxPermits
    BY <1>1 DEF SendPermit, PermitTypeOK
  <2>5. QED
    BY <1>1, <2>1, <2>2, <2>3, <2>4 DEF SendPermit, PermitTypeOK
<1>2. CASE ReceivePermit
  <2>1. permitQueue # <<>> /\ Head(permitQueue) \in PermitValues
    BY <1>2 DEF ReceivePermit, PermitTypeOK
  <2>2. permitQueue' \in Seq(PermitValues) /\ Len(permitQueue') <= PermitDepth
    BY <1>2, <2>1 DEF ReceivePermit, PermitTypeOK
  <2>3. permitLog' \in Seq(PermitValues) /\ permitLatest' \subseteq PermitValues
    <3>1. permitLog \in Seq(PermitValues) /\ permitLatest \subseteq PermitValues
      BY DEF PermitTypeOK
    <3>2. Append(permitLog, Head(permitQueue)) \in Seq(PermitValues)
      BY <2>1, <3>1
    <3>3. \/ permitLog' = permitLog /\ permitLatest' = permitLatest
          \/ /\ permitLatest' = {Head(permitQueue)}
             /\ permitLog' \in {permitLog, Append(permitLog, Head(permitQueue))}
      BY <1>2 DEF ReceivePermit
    <3>4. QED
      BY <2>1, <3>1, <3>2, <3>3
  <2>4. permitMissed' \in BOOLEAN
    BY <1>2 DEF ReceivePermit, PermitTypeOK
  <2>5. QED
    BY <1>2, <2>2, <2>3, <2>4 DEF ReceivePermit, PermitTypeOK
<1>3. CASE PermitAdapterStarts
  BY <1>3 DEF PermitAdapterStarts, PermitTypeOK
<1>4. CASE UNCHANGED permitVars
  BY <1>4 DEF permitVars, PermitTypeOK
<1>5. QED
  BY <1>1, <1>2, <1>3, <1>4 DEF PermitNext

(* A permit that is sent while the queue has room is told behind the others. *)
LEMMA SentPermitIsTold ==
  ASSUME PermitInv, NEW allowed \in PermitValues, SendPermit(allowed), ~permitMissed'
  PROVE  LogAndQueueTellChanges'
<1> DEFINE n == Len(permitQueue)
           m == Len(permitChanges)
<1>1. /\ n \in Nat /\ m \in Nat /\ permitQueue \in Seq(PermitValues)
      /\ permitChanges \in Seq(PermitValues) /\ permitLog' = permitLog
      /\ permitLog \in Seq(PermitValues)
  BY DEF PermitInv, PermitTypeOK, SendPermit
<1>2. n < PermitDepth /\ ~permitMissed
  <2>1. ~permitMissed /\ n # PermitDepth
    BY DEF SendPermit
  <2>2. n <= PermitDepth
    BY DEF PermitInv, PermitTypeOK
  <2>3. QED
    BY <1>1, <2>1, <2>2, PermitAssumption
<1>3. /\ permitQueue' = Append(permitQueue, allowed) /\ Len(permitQueue') = n + 1
      /\ \A i \in 1 .. n : permitQueue'[i] = permitQueue[i]
      /\ permitQueue'[n + 1] = allowed
  BY <1>1, <1>2 DEF SendPermit, KeepLast
<1>4. PICK far \in [0 .. n -> 0 .. m] :
        /\ far[0] = Len(permitLog) /\ far[n] = m
        /\ \A i \in 1 .. Len(permitLog) : permitLog[i] = permitChanges[i]
        /\ \A i \in 1 .. n : Reaches(permitChanges, far[i - 1], far[i], permitQueue[i])
  BY <1>2 DEF PermitInv, PermitLogComplete, LogAndQueueTellChanges
<1>5. /\ Len(permitChanges') \in {m, m + 1}
      /\ \A i \in 1 .. m : permitChanges'[i] = permitChanges[i]
      /\ Len(permitChanges') = IF m # 0 /\ permitChanges[m] = allowed THEN m ELSE m + 1
      /\ permitChanges'[Len(permitChanges')] = allowed
  <2>1. CASE permitChanges # <<>> /\ Last(permitChanges) = allowed
    <3>1. permitChanges' = permitChanges /\ m # 0 /\ permitChanges[m] = allowed
      BY <1>1, <2>1 DEF SendPermit, AppendChange, Last
    <3>2. QED
      BY <1>1, <3>1
  <2>2. CASE ~(permitChanges # <<>> /\ Last(permitChanges) = allowed)
    <3>1. permitChanges' = Append(permitChanges, allowed)
      BY <2>2 DEF SendPermit, AppendChange
    <3>2. ~(m # 0 /\ permitChanges[m] = allowed)
      BY <1>1, <2>2 DEF Last
    <3>3. /\ Len(Append(permitChanges, allowed)) = m + 1
          /\ Append(permitChanges, allowed)[m + 1] = allowed
          /\ \A i \in 1 .. m : Append(permitChanges, allowed)[i] = permitChanges[i]
      BY <1>1
    <3>4. QED
      BY <1>1, <3>1, <3>2, <3>3
  <2>3. QED
    BY <2>1, <2>2
<1> DEFINE k == Len(permitChanges')
           further == [i \in 0 .. n + 1 |-> IF i <= n THEN far[i] ELSE k]
<1>6. k \in Nat /\ m <= k
  BY <1>1, <1>5
<1>7. further \in [0 .. n + 1 -> 0 .. k]
  BY <1>1, <1>6
<1>8. further[0] = Len(permitLog') /\ further[n + 1] = k
  BY <1>1, <1>4
<1>9. \A i \in 1 .. Len(permitLog') : permitLog'[i] = permitChanges'[i]
  <2>1. Len(permitLog) <= m
    BY <1>1, <1>4
  <2>2. QED
    BY <1>1, <1>4, <1>5, <2>1
<1>10. ASSUME NEW i \in 1 .. n + 1
       PROVE  Reaches(permitChanges', further[i - 1], further[i], permitQueue'[i])
  <2>1. CASE i <= n
    <3>1. i \in 1 .. n /\ i - 1 \in 0 .. n /\ i \in 0 .. n
      BY <1>1, <2>1
    <3>2. /\ further[i - 1] = far[i - 1] /\ further[i] = far[i]
          /\ far[i - 1] \in 0 .. m /\ far[i] \in 0 .. m
      <4>1. far[i - 1] \in 0 .. m /\ far[i] \in 0 .. m
        BY <3>1
      <4>2. i - 1 <= n /\ i <= n /\ i - 1 \in 0 .. n + 1 /\ i \in 0 .. n + 1
        BY <1>1, <3>1
      <4>3. QED
        BY <4>1, <4>2
    <3>3. Reaches(permitChanges, far[i - 1], far[i], permitQueue[i])
      BY <1>4, <3>1
    <3>4. far[i] # 0
      BY <3>2, <3>3 DEF Reaches
    <3>5. /\ permitChanges'[far[i]] = permitChanges[far[i]]
          /\ far[i - 1] # 0 => permitChanges'[far[i - 1]] = permitChanges[far[i - 1]]
      BY <1>1, <1>5, <3>2, <3>4
    <3>6. QED
      BY <1>3, <3>1, <3>2, <3>3, <3>5 DEF Reaches
  <2>2. CASE i = n + 1
    <3>1. /\ further[i - 1] = m /\ further[i] = k /\ permitQueue'[i] = allowed
          /\ m # 0 => permitChanges'[m] = permitChanges[m]
      BY <1>1, <1>3, <1>4, <1>5, <2>2
    <3>2. QED
      BY <1>5, <3>1 DEF Reaches
  <2>3. QED
    BY <1>1, <2>1, <2>2
<1> HIDE DEF n, m, k, further
<1>11. further \in [0 .. Len(permitQueue') -> 0 .. Len(permitChanges')]
  BY <1>3, <1>7 DEF k
<1>12. QED
  BY <1>3, <1>8, <1>9, <1>10, <1>11 DEF LogAndQueueTellChanges, k

(* The row of the present is the last change of the log. *)
LEMMA ChangedAgainstLog ==
  ASSUME PermitInv, NEW allowed
  PROVE  PermitChanged(allowed) <=>
           Len(permitLog) = 0 \/ permitLog[Len(permitLog)] # allowed
<1>1. permitLog \in Seq(PermitValues) /\ (permitLog = <<>> <=> Len(permitLog) = 0)
  BY DEF PermitInv, PermitTypeOK
<1>2. permitLatest = IF permitLog = <<>> THEN {} ELSE {permitLog[Len(permitLog)]}
  BY DEF PermitInv, PermitLogComplete, Last
<1>3. QED
  BY <1>1, <1>2 DEF PermitChanged

(* A permit that is stored leaves a log that alternates and ends with it. *)
LEMMA StoredLogAlternates ==
  ASSUME PermitInv, NEW allowed \in PermitValues,
         permitLog' = IF PermitChanged(allowed) THEN Append(permitLog, allowed) ELSE permitLog
  PROVE  /\ permitLog' # <<>> /\ Last(permitLog') = allowed
         /\ \A i \in 1 .. Len(permitLog') - 1 : permitLog'[i] # permitLog'[i + 1]
<1>1. permitLog \in Seq(PermitValues) /\ Len(permitLog) \in Nat
  BY DEF PermitInv, PermitTypeOK
<1>2. \A i \in 1 .. Len(permitLog) - 1 : permitLog[i] # permitLog[i + 1]
  BY DEF PermitInv, PermitLogComplete
<1>3. CASE PermitChanged(allowed)
  <2>1. permitLog' = Append(permitLog, allowed)
    BY <1>3
  <2>2. /\ Len(permitLog') = Len(permitLog) + 1
        /\ permitLog'[Len(permitLog) + 1] = allowed
        /\ \A i \in 1 .. Len(permitLog) : permitLog'[i] = permitLog[i]
        /\ permitLog' # <<>>
    BY <1>1, <2>1
  <2>3. ASSUME NEW i \in 1 .. Len(permitLog)
        PROVE  permitLog'[i] # permitLog'[i + 1]
    <3>1. CASE i = Len(permitLog)
      BY <1>1, <1>3, <2>2, <3>1, ChangedAgainstLog
    <3>2. CASE i # Len(permitLog)
      <4>1. i \in 1 .. Len(permitLog) - 1 /\ i + 1 \in 1 .. Len(permitLog)
        BY <1>1, <3>2
      <4>2. QED
        BY <1>2, <2>2, <4>1
    <3>3. QED
      BY <3>1, <3>2
  <2>4. QED
    BY <1>1, <2>2, <2>3 DEF Last
<1>4. CASE ~PermitChanged(allowed)
  <2>1. /\ permitLog' = permitLog /\ Len(permitLog) # 0
        /\ permitLog[Len(permitLog)] = allowed
    BY <1>4, ChangedAgainstLog
  <2>2. permitLog # <<>>
    BY <1>1, <2>1
  <2>3. QED
    BY <1>2, <2>1, <2>2 DEF Last
<1>5. QED
  BY <1>3, <1>4

(* The permit that is stored is the next change, or a repeat of the last one. *)
LEMMA StoredPermitIsNext ==
  ASSUME PermitInv, ReceivePermit, ~permitMissed'
  PROVE  LogAndQueueTellChanges'
<1> DEFINE n == Len(permitQueue)
           m == Len(permitChanges)
           allowed == Head(permitQueue)
<1>1. /\ n \in Nat /\ m \in Nat /\ n # 0 /\ permitQueue \in Seq(PermitValues)
      /\ permitChanges \in Seq(PermitValues) /\ permitLog \in Seq(PermitValues)
      /\ Len(permitLog) \in Nat
      /\ allowed = permitQueue[1] /\ allowed \in PermitValues
      /\ permitChanges' = permitChanges
  BY DEF PermitInv, PermitTypeOK, ReceivePermit
<1>2. /\ ~permitMissed
      /\ permitLog' = IF PermitChanged(allowed) THEN Append(permitLog, allowed) ELSE permitLog
  BY DEF ReceivePermit
<1>3. /\ permitQueue' = Tail(permitQueue) /\ Len(permitQueue') = n - 1
      /\ \A i \in 1 .. n - 1 : permitQueue'[i] = permitQueue[i + 1]
  BY <1>1 DEF ReceivePermit
<1>4. PICK far \in [0 .. n -> 0 .. m] :
        /\ far[0] = Len(permitLog) /\ far[n] = m
        /\ \A i \in 1 .. Len(permitLog) : permitLog[i] = permitChanges[i]
        /\ \A i \in 1 .. n : Reaches(permitChanges, far[i - 1], far[i], permitQueue[i])
  BY <1>2 DEF PermitInv, PermitLogComplete, LogAndQueueTellChanges
<1>5. PermitChanged(allowed) <=> Len(permitLog) = 0 \/ permitLog[Len(permitLog)] # allowed
  BY ChangedAgainstLog
<1> HIDE DEF allowed
<1>6. /\ Reaches(permitChanges, Len(permitLog), far[1], allowed)
      /\ far[1] \in 0 .. m /\ Len(permitLog) \in 0 .. m
  <2>1. 1 \in 1 .. n /\ 0 \in 0 .. n /\ 1 \in 0 .. n /\ 1 - 1 = 0
    BY <1>1
  <2>2. Reaches(permitChanges, far[1 - 1], far[1], permitQueue[1])
    BY <1>4, <2>1
  <2>3. QED
    BY <1>1, <1>4, <2>1, <2>2
<1>7. /\ Len(permitLog') = far[1]
      /\ \A i \in 1 .. Len(permitLog') : permitLog'[i] = permitChanges'[i]
  <2>1. Len(permitLog) # 0 => permitLog[Len(permitLog)] = permitChanges[Len(permitLog)]
    BY <1>1, <1>4
  <2>2. CASE PermitChanged(allowed)
    <3>1. permitLog' = Append(permitLog, allowed)
      BY <1>2, <2>2
    <3>2. /\ Len(permitLog') = Len(permitLog) + 1
          /\ permitLog'[Len(permitLog) + 1] = allowed
          /\ \A i \in 1 .. Len(permitLog) : permitLog'[i] = permitLog[i]
      BY <1>1, <3>1
    <3>3. far[1] = Len(permitLog) + 1 /\ permitChanges[far[1]] = allowed
      BY <1>5, <1>6, <2>2, <2>1 DEF Reaches
    <3>4. ASSUME NEW i \in 1 .. Len(permitLog')
          PROVE  permitLog'[i] = permitChanges'[i]
      <4>1. i = Len(permitLog) + 1 \/ i \in 1 .. Len(permitLog)
        BY <1>1, <3>2
      <4>2. QED
        BY <1>1, <1>4, <3>2, <3>3, <4>1
    <3>5. QED
      BY <3>2, <3>3, <3>4
  <2>3. CASE ~PermitChanged(allowed)
    <3>1. permitLog' = permitLog /\ Len(permitLog) # 0 /\ permitLog[Len(permitLog)] = allowed
      BY <1>1, <1>2, <1>5, <2>3
    <3>2. far[1] = Len(permitLog)
      BY <1>6, <2>1, <3>1 DEF Reaches
    <3>3. QED
      BY <1>1, <1>4, <3>1, <3>2
  <2>4. QED
    BY <2>2, <2>3
<1> DEFINE rest == [i \in 0 .. n - 1 |-> far[i + 1]]
<1>8. rest \in [0 .. n - 1 -> 0 .. m] /\ rest[0] = far[1] /\ rest[n - 1] = m
  BY <1>1, <1>4
<1>9. ASSUME NEW i \in 1 .. n - 1
      PROVE  Reaches(permitChanges', rest[i - 1], rest[i], permitQueue'[i])
  <2>1. i + 1 \in 1 .. n /\ (i + 1) - 1 = i /\ i - 1 \in 0 .. n - 1 /\ i \in 0 .. n - 1
    BY <1>1
  <2>2. Reaches(permitChanges, far[(i + 1) - 1], far[i + 1], permitQueue[i + 1])
    BY <1>4, <2>1
  <2>3. /\ rest[i - 1] = far[(i - 1) + 1] /\ (i - 1) + 1 = i /\ rest[i] = far[i + 1]
        /\ permitQueue'[i] = permitQueue[i + 1]
    BY <1>1, <1>3, <2>1
  <2>4. QED
    BY <1>1, <2>1, <2>2, <2>3
<1> HIDE DEF n, m, rest
<1>10. rest \in [0 .. Len(permitQueue') -> 0 .. Len(permitChanges')]
  BY <1>1, <1>3, <1>8 DEF m
<1>11. QED
  BY <1>1, <1>3, <1>7, <1>8, <1>9, <1>10 DEF LogAndQueueTellChanges, m

LEMMA PermitInvStep == PermitInv /\ [PermitNext]_permitVars => PermitInv'
<1> SUFFICES ASSUME PermitInv, [PermitNext]_permitVars PROVE PermitInv'
  OBVIOUS
<1>1. PermitTypeOK'
  BY PermitTypesStep DEF PermitInv
<1>2. ASSUME NEW allowed \in PermitValues, SendPermit(allowed) PROVE PermitLogComplete'
  <2>1. permitLog' = permitLog /\ permitLatest' = permitLatest
    BY <1>2 DEF SendPermit
  <2>2. ~permitMissed' => LogAndQueueTellChanges'
    BY <1>2, SentPermitIsTold
  <2>3. QED
    BY <2>1, <2>2 DEF PermitInv, PermitLogComplete
<1>3. ASSUME ReceivePermit PROVE PermitLogComplete'
  <2> DEFINE allowed == Head(permitQueue)
  <2>1. CASE permitMissed' = TRUE /\ UNCHANGED <<permitLog, permitLatest>>
    <3>1. permitLog' = permitLog /\ permitLatest' = permitLatest
      BY <2>1
    <3>2. permitMissed'
      BY <2>1
    <3>3. QED
      BY <3>1, <3>2 DEF PermitInv, PermitLogComplete
  <2>2. CASE /\ permitLog' = IF PermitChanged(allowed) THEN Append(permitLog, allowed)
                                                       ELSE permitLog
             /\ permitLatest' = {allowed}
    <3>1. allowed \in PermitValues
      BY <1>3 DEF ReceivePermit, PermitInv, PermitTypeOK
    <3> HIDE DEF allowed
    <3>2. /\ permitLog' # <<>> /\ Last(permitLog') = allowed
          /\ \A i \in 1 .. Len(permitLog') - 1 : permitLog'[i] # permitLog'[i + 1]
      BY <2>2, <3>1, StoredLogAlternates
    <3>3. permitLatest' = {allowed}
      BY <2>2
    <3>4. ~permitMissed' => LogAndQueueTellChanges'
      BY <1>3, StoredPermitIsNext
    <3>5. QED
      BY <3>2, <3>3, <3>4 DEF PermitLogComplete
  <2>3. QED
    BY <1>3, <2>1, <2>2 DEF ReceivePermit
<1>4. CASE PermitAdapterStarts
  <2>1. CASE permitMissed'
    BY <1>1, <1>4, <2>1 DEF PermitAdapterStarts, PermitInv, PermitLogComplete
  <2>2. CASE ~permitMissed'
    <3>1. /\ permitQueue' = permitQueue /\ permitChanges' = permitChanges
          /\ permitLog' = permitLog /\ permitLatest' = permitLatest /\ ~permitMissed
      BY <1>4, <2>2 DEF PermitAdapterStarts
    <3>2. QED
      BY <1>1, <3>1 DEF PermitInv, PermitLogComplete, LogAndQueueTellChanges
  <2>3. QED
    BY <2>1, <2>2
<1>5. CASE UNCHANGED permitVars
  BY <1>1, <1>5 DEF permitVars, PermitInv, PermitLogComplete, LogAndQueueTellChanges
<1>6. QED
  BY <1>1, <1>2, <1>3, <1>4, <1>5 DEF PermitNext, PermitInv

(* Empty tables and an empty queue satisfy it.                               *)
LEMMA PermitInvInit == PermitInit => PermitInv
<1> SUFFICES ASSUME PermitInit PROVE PermitInv
  OBVIOUS
<1>1. PermitTypeOK
  <2>1. permitQueue \in Seq(PermitValues) /\ Len(permitQueue) <= PermitDepth
    BY PermitAssumption DEF PermitInit
  <2>2. permitLog \in Seq(PermitValues) /\ permitChanges \in Seq(PermitValues)
    BY DEF PermitInit
  <2>3. permitMissed \in BOOLEAN
    BY DEF PermitInit
  <2>4. permitLatest \subseteq PermitValues /\ permitSent \in 0 .. MaxPermits
    BY PermitAssumption DEF PermitInit
  <2>5. QED
    BY <2>1, <2>2, <2>3, <2>4 DEF PermitTypeOK
<1>2. LogAndQueueTellChanges
  <2> DEFINE none == [i \in 0 .. 0 |-> 0]
  <2>1. none \in [0 .. 0 -> 0 .. 0] /\ none[0] = 0
    OBVIOUS
  <2> HIDE DEF none
  <2>2. QED
    BY <2>1 DEF PermitInit, LogAndQueueTellChanges
<1>3. QED
  BY <1>1, <1>2 DEF PermitInit, PermitInv, PermitLogComplete

(* The types of queue, row and log.                                          *)
LEMMA PermitTypes == PermitSpec => []PermitTypeOK
<1>1. PermitInv => PermitTypeOK
  BY DEF PermitInv
<1>2. QED
  BY <1>1, PermitInvInit, PermitInvStep, PTL DEF PermitSpec

(* The log of the permit misses and repeats no change of cam_master's, for   *)
(* any depth of the queue and any number of permits.                         *)
THEOREM LogTellsEveryChange == PermitSpec => []PermitLogComplete
<1>1. PermitInv => PermitLogComplete
  BY DEF PermitInv
<1>2. QED
  BY <1>1, PermitInvInit, PermitInvStep, PTL DEF PermitSpec
================================================================================
