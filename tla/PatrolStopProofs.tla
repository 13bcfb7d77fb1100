---------------------------- MODULE PatrolStopProofs ---------------------------
(***************************************************************************)
(* What is proved of the stop of a patrol: what EventCheck owes its clients *)
(* and the worker, and that the robot is held while an event is reported    *)
(* unless a resume or another client's stop came after the stop was taken.  *)
(* Clients, events, routes and messages are any.                            *)
(***************************************************************************)
EXTENDS PatrolStop, FiniteSetTheorems, FunctionTheorems, SequenceTheorems, TLAPS

--------------------------------------------------------------------------------
(* The invariant.  The worker owns a completion from the moment it stops for  *)
(* it, and a completion is open until the worker has held for it.             *)
WorkerFits ==
  /\ mine # NoFuture <=> pc \in {"stopping", "holding"}
  /\ active <=> pc \in {"loop", "moving", "stopping", "holding"}
  /\ pc = "moving" => index <= LastStep
  /\ pc = "stopping" => mine = completion
  /\ pc = "holding" => completion # NoFuture /\ results[mine] = "stopped" /\ task # "running"

(* Only the current completion is open.                                       *)
FuturesFit ==
  /\ ~active => completion = NoFuture
  /\ \A f \in Futures : results[f] = "pending" => f = completion
  /\ completion # NoFuture =>
       results[completion] = "pending" \/ (pc = "holding" /\ mine = completion)
  /\ responded # NoFuture => results[responded] # "pending"

(* Somebody waits for the current completion until it was responded to.       *)
Awaits(c, f) == call[c] = [phase |-> "awaiting", future |-> f]

CallsFit ==
  /\ \A c \in Clients : call[c].phase = "awaiting" <=> call[c].future # NoFuture
  /\ completion # NoFuture =>
       responded = completion \/ \E c \in Clients : Awaits(c, completion)

(* The vision node has one call at a time, and none once it knows the answer. *)
VisionAsks ==
  /\ ~busy \/ stopped => call[Vision] = Idle
  /\ stopped => busy
  /\ report # NoEvent => stopped

IInv == TypeOK /\ WorkerFits /\ FuturesFit /\ CallsFit /\ VisionAsks

LEMMA InvInit == Init => IInv
<1> SUFFICES ASSUME Init PROVE IInv
  OBVIOUS
<1>1. /\ pc = "idle" /\ mine = NoFuture /\ completion = NoFuture /\ responded = NoFuture
      /\ \A f \in Futures : results[f] = "refused"
      /\ \A c \in Clients : call[c] = Idle
      /\ report = NoEvent /\ Vision \in Clients
  BY DEF Init, Clients
<1>2. ~active /\ active \in BOOLEAN
  BY DEF Init
<1>3. /\ ~stopped /\ stopped \in BOOLEAN /\ ~busy /\ busy \in BOOLEAN
      /\ disturbed \in BOOLEAN
  BY DEF Init
<1>4. ~held /\ held \in BOOLEAN /\ ~reported /\ reported \in BOOLEAN
  BY DEF Init
<1>5. /\ pc \in WorkerPlaces /\ index \in 1 .. LastStep + 1 /\ task \in TaskStates
      /\ allowed \in Permissions
      /\ candidate \in Events \cup {NoEvent} /\ report \in Events \cup {NoEvent}
  BY RouteAssumption DEF Init, WorkerPlaces, TaskStates, Permissions
<1>6. /\ results \in [Futures -> {"pending", "stopped", "refused"}]
      /\ call \in [Clients -> [phase : CallPhases, future : {NoFuture} \cup Futures]]
  BY DEF Init, Idle, CallPhases
<1>7. resumes \in Seq({"true", "false"}) /\ Len(resumes) <= ResumeDepth
  BY BoundAssumption DEF Init
<1>8. TypeOK
  BY <1>1, <1>2, <1>3, <1>4, <1>5, <1>6, <1>7 DEF TypeOK
<1>9. WorkerFits
  BY <1>1, <1>2 DEF WorkerFits
<1>10. FuturesFit /\ CallsFit
  BY <1>1 DEF FuturesFit, CallsFit, Idle
<1>11. VisionAsks
  BY <1>1, <1>3 DEF VisionAsks
<1>12. QED
  BY <1>8, <1>9, <1>10, <1>11 DEF IInv

--------------------------------------------------------------------------------
LEMMA OneMore ==
  ASSUME NEW S, IsFiniteSet(S), NEW x, NEW k \in Nat, Cardinality(S) <= k
  PROVE  IsFiniteSet(S \cup {x}) /\ Cardinality(S \cup {x}) <= k + 1
<1>1. IsFiniteSet(S \cup {x})
      /\ Cardinality(S \cup {x}) = IF x \in S THEN Cardinality(S) ELSE Cardinality(S) + 1
  BY FS_AddElement
<1>2. Cardinality(S) \in Nat
  BY FS_CardinalityType
<1>3. QED
  BY <1>1, <1>2

(* A client that calls finds a future that nobody refers to: the others hold  *)
(* one each, the worker, the current completion and the responded one three.  *)
LEMMA FreeFuture ==
  ASSUME TypeOK, NEW c \in Clients, call[c].future = NoFuture
  PROVE  \E f \in Futures : Free(f)
<1> DEFINE Rest == Clients \ {c}
           futureOf == [d \in Rest |-> call[d].future]
           Taken == {call[d].future : d \in Rest}
           Used == Taken \cup {completion, responded, mine}
           n == Cardinality(OtherClients)
<1>1. IsFiniteSet(OtherClients) /\ n \in Nat /\ LastFuture \in Nat /\ LastFuture >= n + 4
  BY FutureAssumption, BoundAssumption, FS_CardinalityType
<1>2. IsFiniteSet(Clients) /\ Cardinality(Clients) = n + 1
  <2>1. Clients = OtherClients \cup {Vision}
    BY DEF Clients
  <2>2. QED
    BY <1>1, <2>1, FS_AddElement, ClientAssumption
<1>3. IsFiniteSet(Rest) /\ Cardinality(Rest) = n
  BY <1>1, <1>2, FS_RemoveElement
<1>4. IsFiniteSet(Taken) /\ Cardinality(Taken) <= n /\ Cardinality(Taken) \in Nat
  <2>1. futureOf \in Surjection(Rest, Taken)
    BY Fun_IsSurj
  <2>2. IsFiniteSet(Taken) /\ Cardinality(Taken) <= Cardinality(Rest)
    BY <1>3, <2>1, FS_Surjection
  <2>3. QED
    BY <1>3, <2>2, FS_CardinalityType
<1>5. IsFiniteSet(Used) /\ Cardinality(Used) <= n + 3 /\ Cardinality(Used) \in Nat
  <2> DEFINE A == Taken \cup {completion}
             B == A \cup {responded}
  <2>1. IsFiniteSet(A) /\ Cardinality(A) <= n + 1
    BY <1>1, <1>4, OneMore
  <2>2. IsFiniteSet(B) /\ Cardinality(B) <= (n + 1) + 1
    <3>1. n + 1 \in Nat
      BY <1>1
    <3>2. QED
      BY <2>1, <3>1, OneMore
  <2>3. IsFiniteSet(B \cup {mine}) /\ Cardinality(B \cup {mine}) <= ((n + 1) + 1) + 1
    <3>1. (n + 1) + 1 \in Nat
      BY <1>1
    <3>2. QED
      BY <2>2, <3>1, OneMore
  <2>4. Used = B \cup {mine}
    OBVIOUS
  <2> HIDE DEF Used, n, B
  <2>5. IsFiniteSet(Used) /\ Cardinality(Used) <= ((n + 1) + 1) + 1
    BY <2>3, <2>4
  <2>6. Cardinality(Used) \in Nat
    BY <2>5, FS_CardinalityType
  <2>7. QED
    BY <1>1, <2>5, <2>6
<1>6. IsFiniteSet(Futures) /\ Cardinality(Futures) = LastFuture
  BY <1>1, FS_Interval, BoundAssumption DEF Futures
<1>7. ~(Futures \subseteq Used)
  <2> SUFFICES ASSUME Futures \subseteq Used PROVE FALSE
    OBVIOUS
  <2>1. Cardinality(Futures) <= Cardinality(Used)
    BY <1>5, FS_Subset
  <2>2. QED
    BY <1>1, <1>5, <1>6, <2>1
<1>8. PICK f \in Futures : f \notin Used
  BY <1>7
<1>9. f # NoFuture
  BY <1>8, <1>1 DEF Futures, NoFuture
<1>10. ASSUME NEW d \in Clients PROVE call[d].future # f
  BY <1>8, <1>9
<1>11. Free(f)
  BY <1>8, <1>10 DEF Free
<1>12. QED
  BY <1>11

LEMMA NewFuture ==
  ASSUME TypeOK, NEW c \in Clients, call[c].future = NoFuture
  PROVE  (CHOOSE f \in Futures : Free(f)) \in {f \in Futures : Free(f)}
BY FreeFuture

LEMMA NoneIsNone == NoFuture \notin Futures
BY BoundAssumption DEF Futures, NoFuture

--------------------------------------------------------------------------------
(* The worker. *)

LEMMA RequestIsOpen == IInv /\ StopRequested => active /\ completion \in Futures
BY DEF IInv, TypeOK, FuturesFit, StopRequested

(* set_active(False), wherever the worker gives the completion up.            *)
LEMMA Deactivates ==
  ASSUME IInv, Deactivate,
         pc' \in {"failing", "docking", "idle"}, mine' = NoFuture,
         index' = index, task' = task, UNCHANGED <<wireVars, visionVars>>
  PROVE  IInv'
<1>1. /\ active' = FALSE /\ completion' = NoFuture /\ responded' = NoFuture
      /\ allowed' = "unknown"
      /\ results' = IF StopRequested
                    THEN [results EXCEPT ![completion] = "refused"] ELSE results
  BY DEF Deactivate
<1>2. UNCHANGED <<call, resumes, disturbed, candidate, held, reported, report, busy, stopped>>
  BY DEF wireVars, visionVars
<1>3. /\ results' \in [Futures -> {"pending", "stopped", "refused"}]
      /\ \A f \in Futures : results'[f] # "pending"
  <2>1. /\ results \in [Futures -> {"pending", "stopped", "refused"}]
        /\ completion \in Futures \cup {NoFuture}
        /\ \A f \in Futures : results[f] = "pending" => f = completion
    BY DEF IInv, TypeOK, FuturesFit
  <2>2. CASE StopRequested
    <3>1. completion \in Futures /\ results' = [results EXCEPT ![completion] = "refused"]
      BY <1>1, <2>1, <2>2 DEF StopRequested
    <3>2. QED
      BY <2>1, <3>1
  <2>3. CASE ~StopRequested
    <3>1. results' = results
      BY <1>1, <2>3
    <3>2. ASSUME NEW f \in Futures PROVE results[f] # "pending"
      BY <2>1, <2>3, NoneIsNone DEF StopRequested
    <3>3. QED
      BY <2>1, <3>1, <3>2
  <2>4. QED
    BY <2>2, <2>3
<1>4. TypeOK'
  BY <1>1, <1>2, <1>3 DEF IInv, TypeOK, WorkerPlaces, Permissions
<1>5. WorkerFits'
  BY <1>1 DEF WorkerFits
<1>6. FuturesFit'
  BY <1>1, <1>3 DEF FuturesFit
<1>7. CallsFit' /\ VisionAsks'
  BY <1>1, <1>2 DEF IInv, CallsFit, VisionAsks, Idle
<1>8. QED
  BY <1>4, <1>5, <1>6, <1>7 DEF IInv

(* The worker stops for the current completion.                               *)
LEMMA Pauses ==
  ASSUME IInv, PauseFor(completion), completion # NoFuture,
         results[completion] = "pending", pc \in {"loop", "moving", "holding"},
         UNCHANGED <<index, task, checkVars, wireVars, visionVars>>
  PROVE  IInv'
<1>1. pc' = "stopping" /\ mine' = completion
  BY DEF PauseFor
<1>2. UNCHANGED <<index, task, active, completion, responded, allowed, results, call, resumes,
                  disturbed, candidate, held, reported, report, busy, stopped>>
  BY DEF checkVars, wireVars, visionVars
<1>3. TypeOK'
  BY <1>1, <1>2 DEF IInv, TypeOK, WorkerPlaces
<1>4. WorkerFits'
  BY <1>1, <1>2 DEF IInv, WorkerFits
<1>5. FuturesFit'
  BY <1>1, <1>2 DEF IInv, FuturesFit
<1>6. CallsFit' /\ VisionAsks'
  BY <1>2 DEF IInv, CallsFit, VisionAsks, Awaits
<1>7. QED
  BY <1>3, <1>4, <1>5, <1>6 DEF IInv

(* The worker moves between places where it holds nothing.                    *)
LEMMA Moves ==
  ASSUME IInv, pc \notin {"stopping", "holding"}, mine' = mine,
         pc' \in {"preparing", "loop", "moving"},
         index' \in 1 .. LastStep + 1, task' \in TaskStates,
         pc' = "moving" => index' <= LastStep,
         active' \in BOOLEAN, active' <=> pc' # "preparing", active => active',
         UNCHANGED <<completion, responded, allowed, results, wireVars, visionVars>>
  PROVE  IInv'
<1>1. UNCHANGED <<call, resumes, disturbed, candidate, held, reported, report, busy, stopped>>
  BY DEF wireVars, visionVars
<1>2. mine = NoFuture
  BY DEF IInv, WorkerFits
<1>3. TypeOK'
  BY <1>1 DEF IInv, TypeOK, WorkerPlaces
<1>4. WorkerFits'
  BY <1>2 DEF WorkerFits
<1>5. FuturesFit'
  BY <1>2 DEF IInv, FuturesFit
<1>6. CallsFit' /\ VisionAsks'
  BY <1>1 DEF IInv, CallsFit, VisionAsks, Awaits
<1>7. QED
  BY <1>3, <1>4, <1>5, <1>6 DEF IInv

LEMMA StopConfirmedStep == IInv /\ StopConfirmed => IInv'
<1> SUFFICES ASSUME IInv, StopConfirmed PROVE IInv'
  OBVIOUS
<1>1. /\ pc = "stopping" /\ pc' = "holding" /\ task # "running"
      /\ results' = [results EXCEPT ![mine] = "stopped"]
      /\ UNCHANGED <<index, task, mine, active, completion, responded, allowed, call, resumes,
                     disturbed, candidate, held, reported, report, busy, stopped>>
  BY DEF StopConfirmed, StandsStill, wireVars, visionVars
<1>2. mine = completion /\ mine # NoFuture /\ mine \in Futures
  BY <1>1 DEF IInv, TypeOK, WorkerFits
<1>3. TypeOK'
  BY <1>1, <1>2 DEF IInv, TypeOK, WorkerPlaces
<1>4. results'[mine] = "stopped" /\ \A f \in Futures : f # mine => results'[f] = results[f]
  BY <1>1, <1>2 DEF IInv, TypeOK
<1>5. WorkerFits'
  BY <1>1, <1>2, <1>4 DEF IInv, WorkerFits
<1>6. FuturesFit'
  BY <1>1, <1>2, <1>4 DEF IInv, TypeOK, FuturesFit
<1>7. CallsFit' /\ VisionAsks'
  BY <1>1 DEF IInv, CallsFit, VisionAsks, Awaits
<1>8. QED
  BY <1>3, <1>5, <1>6, <1>7 DEF IInv

LEMMA ResumeStepStep == IInv /\ ResumeStep => IInv'
<1> SUFFICES ASSUME IInv, ResumeStep PROVE IInv'
  OBVIOUS
<1>1. /\ pc = "holding" /\ pc' = "loop" /\ completion = mine
      /\ completion' = NoFuture /\ responded' = NoFuture /\ mine' = NoFuture
      /\ UNCHANGED <<index, task, active, allowed, results, call, resumes, disturbed,
                     candidate, held, reported, report, busy, stopped>>
  BY DEF ResumeStep, MayResume, wireVars, visionVars
<1>2. TypeOK'
  BY <1>1 DEF IInv, TypeOK, WorkerPlaces
<1>3. WorkerFits'
  BY <1>1 DEF IInv, WorkerFits
<1>4. FuturesFit'
  BY <1>1 DEF IInv, TypeOK, WorkerFits, FuturesFit
<1>5. CallsFit' /\ VisionAsks'
  BY <1>1 DEF IInv, CallsFit, VisionAsks
<1>6. QED
  BY <1>2, <1>3, <1>4, <1>5 DEF IInv

LEMMA TaskEndsStep == IInv /\ TaskEnds => IInv'
<1> SUFFICES ASSUME IInv, TaskEnds PROVE IInv'
  OBVIOUS
<1>1. /\ task' \in TaskStates /\ task' # "running"
      /\ UNCHANGED <<pc, index, mine, active, completion, responded, allowed, results, call,
                     resumes, disturbed, candidate, held, reported, report, busy, stopped>>
  BY DEF TaskEnds, TaskStates, checkVars, wireVars, visionVars
<1>2. QED
  BY <1>1 DEF IInv, TypeOK, WorkerFits, FuturesFit, CallsFit, VisionAsks, Awaits

LEMMA WorkerStep == IInv /\ Worker => IInv'
<1> SUFFICES ASSUME IInv, Worker PROVE IInv'
  OBVIOUS
<1> USE DEF IInv
<1>1. CASE ReceiveGoal
  BY <1>1, Moves DEF ReceiveGoal, checkVars, TypeOK, WorkerFits
<1>2. CASE BeginRoute
  <2>1. 1 \in 1 .. LastStep + 1
    BY RouteAssumption
  <2>2. QED
    BY <1>2, <2>1, Moves DEF BeginRoute, checkVars, TypeOK, WorkerFits
<1>3. CASE Fails
  BY <1>3, Deactivates DEF Fails, Abort
<1>4. CASE StartStep
  <2>1. CASE StopRequested
    BY <1>4, <2>1, Pauses DEF StartStep, StopRequested
  <2>2. ASSUME ~StopRequested, task' = "running", pc' = "moving" PROVE IInv'
    <3>1. UNCHANGED <<mine, index, active, completion, responded, allowed, results, wireVars,
                      visionVars>> /\ pc = "loop" /\ index <= LastStep
      BY <1>4, <2>2 DEF StartStep, checkVars, Abort
    <3>2. task' \in TaskStates
      BY <2>2 DEF TaskStates
    <3>3. QED
      BY <2>2, <3>1, <3>2, Moves DEF TypeOK, WorkerFits
  <2>3. ASSUME ~StopRequested, Abort, task' = task PROVE IInv'
    BY <1>4, <2>3, Deactivates DEF StartStep, Abort
  <2>4. QED
    BY <1>4, <2>1, <2>2, <2>3 DEF StartStep
<1>5. CASE WaitForTask
  <2>1. CASE StopRequested
    BY <1>5, <2>1, Pauses DEF WaitForTask, StopRequested
  <2>2. ASSUME ~StopRequested, index' = index + 1, pc' = "loop", UNCHANGED <<mine, checkVars>>
        PROVE  IInv'
    <3>1. index' \in 1 .. LastStep + 1
      BY <1>5, <2>2, RouteAssumption DEF WaitForTask, TypeOK, WorkerFits
    <3>2. QED
      BY <1>5, <2>2, <3>1, Moves DEF WaitForTask, checkVars, TypeOK, WorkerFits
  <2>3. ASSUME ~StopRequested, Abort, index' = index PROVE IInv'
    BY <1>5, <2>3, Deactivates DEF WaitForTask, Abort
  <2>4. QED
    BY <1>5, <2>1, <2>2, <2>3 DEF WaitForTask
<1>6. CASE StopFails
  BY <1>6, Deactivates DEF StopFails, Abort
<1>7. CASE StopAgain
  BY <1>7, Pauses DEF StopAgain, WorkerFits, FuturesFit
<1>8. CASE LeaveRoute \/ EndGoal
  BY <1>8, Deactivates DEF LeaveRoute, EndGoal, WorkerFits
<1>9. QED
  BY <1>1, <1>2, <1>3, <1>4, <1>5, <1>6, <1>7, <1>8, StopConfirmedStep, ResumeStepStep
     DEF Worker, WorkerProgress

--------------------------------------------------------------------------------
(* The event executor. *)

(* on_stop up to its await.                                                   *)
LEMMA OnStopStep ==
  ASSUME IInv, NEW c \in Clients, OnStop(c)
  PROVE  IInv'
<1> USE NoneIsNone
<1>1. /\ call[c].phase = "sent" /\ call[c].future = NoFuture
      /\ call \in [Clients -> [phase : CallPhases, future : {NoFuture} \cup Futures]]
      /\ UNCHANGED <<pc, index, task, mine, active, responded, resumes,
                     candidate, held, reported, report, busy, stopped>>
  BY DEF IInv, TypeOK, CallsFit, OnStop, workerVars, visionVars
<1>2. c = Vision => busy /\ ~stopped /\ report = NoEvent
  BY <1>1 DEF IInv, TypeOK, VisionAsks, Idle
<1>3. CASE ~active
  <2>1. /\ call' = [call EXCEPT ![c].phase = "refused"]
        /\ UNCHANGED <<completion, allowed, results, disturbed>>
    BY <1>3 DEF OnStop
  <2>2. /\ call'[c] = [phase |-> "refused", future |-> NoFuture]
        /\ \A d \in Clients : d # c => call'[d] = call[d]
        /\ call' \in [Clients -> [phase : CallPhases, future : {NoFuture} \cup Futures]]
    BY <1>1, <2>1 DEF CallPhases
  <2>3. TypeOK'
    BY <1>1, <2>1, <2>2 DEF IInv, TypeOK
  <2>4. WorkerFits' /\ FuturesFit'
    BY <1>1, <2>1 DEF IInv, WorkerFits, FuturesFit
  <2>5. CallsFit'
    <3>1. completion = NoFuture
      BY <1>3 DEF IInv, FuturesFit
    <3>2. QED
      BY <2>1, <2>2, <3>1 DEF IInv, CallsFit
  <2>6. VisionAsks'
    BY <1>1, <1>2, <2>2 DEF IInv, VisionAsks, Clients
  <2>7. QED
    BY <2>3, <2>4, <2>5, <2>6 DEF IInv
<1>4. CASE active
  <2>1. /\ allowed' = "false" /\ disturbed' \in BOOLEAN
        /\ call' = [call EXCEPT ![c] = [phase |-> "awaiting", future |-> completion']]
    BY <1>4 DEF OnStop, TakeBackPermission
  <2>2. /\ completion' \in Futures
        /\ results' \in [Futures -> {"pending", "stopped", "refused"}]
        /\ results'[completion'] = "pending"
        /\ \A f \in Futures : f # completion' => results'[f] = results[f]
        /\ responded # completion'
        /\ completion' = completion => results[completion] = "pending"
        /\ completion' # completion => mine # completion' /\ ~StopRequested
    <3>1. /\ results \in [Futures -> {"pending", "stopped", "refused"}]
          /\ completion \in Futures \cup {NoFuture}
          /\ responded # NoFuture => results[responded] # "pending"
      BY DEF IInv, TypeOK, FuturesFit
    <3>2. CASE StopRequested
      <4>1. completion' = completion /\ results' = results
        BY <1>4, <3>2 DEF OnStop
      <4>2. QED
        BY <3>1, <3>2, <4>1 DEF StopRequested
    <3>3. CASE ~StopRequested
      <4>1. /\ completion' = CHOOSE f \in Futures : Free(f)
            /\ results' = [results EXCEPT ![completion'] = "pending"]
        BY <1>4, <3>3 DEF OnStop
      <4>2. completion' \in Futures /\ Free(completion')
        BY <1>1, <4>1, NewFuture DEF IInv
      <4>3. QED
        BY <3>1, <3>3, <4>1, <4>2 DEF Free
    <3>4. QED
      BY <3>2, <3>3
  <2>3. /\ call'[c] = [phase |-> "awaiting", future |-> completion']
        /\ \A d \in Clients : d # c => call'[d] = call[d]
        /\ call' \in [Clients -> [phase : CallPhases, future : {NoFuture} \cup Futures]]
    BY <1>1, <2>1, <2>2 DEF CallPhases
  <2>4. TypeOK'
    BY <1>1, <2>1, <2>2, <2>3 DEF IInv, TypeOK, Permissions
  <2>5. WorkerFits'
    <3>1. ASSUME pc = "stopping" PROVE mine = completion'
      <4>1. completion # NoFuture /\ mine = completion /\ completion \in Futures
        BY <3>1 DEF IInv, TypeOK, WorkerFits
      <4>2. StopRequested
        BY <3>1, <4>1 DEF IInv, FuturesFit, StopRequested
      <4>3. QED
        BY <2>2, <4>1, <4>2
    <3>2. ASSUME pc = "holding" PROVE results'[mine] = "stopped"
      <4>1. mine \in Futures /\ results[mine] = "stopped"
        BY <3>2 DEF IInv, TypeOK, WorkerFits
      <4>2. mine # completion'
        BY <2>2, <4>1
      <4>3. QED
        BY <2>2, <4>1, <4>2
    <3>3. QED
      BY <1>1, <2>2, <3>1, <3>2 DEF IInv, WorkerFits
  <2>6. FuturesFit'
    <3>1. ASSUME NEW f \in Futures, results'[f] = "pending" PROVE f = completion'
      <4>1. ASSUME f # completion' PROVE FALSE
        <5>1. results[f] = "pending" /\ f = completion
          BY <2>2, <3>1, <4>1 DEF IInv, FuturesFit
        <5>2. StopRequested
          BY <5>1 DEF StopRequested
        <5>3. QED
          BY <2>2, <4>1, <5>1, <5>2
      <4>2. QED
        BY <4>1
    <3>2. responded # NoFuture => results'[responded] # "pending"
      BY <2>2 DEF IInv, TypeOK, FuturesFit
    <3>3. QED
      BY <1>1, <1>4, <2>2, <3>1, <3>2 DEF FuturesFit
  <2>7. CallsFit'
    <3>1. \A d \in Clients : call'[d].phase = "awaiting" <=> call'[d].future # NoFuture
      BY <2>2, <2>3 DEF IInv, CallsFit
    <3>2. QED
      BY <2>3, <3>1 DEF CallsFit, Awaits
  <2>8. VisionAsks'
    BY <1>1, <1>2, <2>3 DEF IInv, VisionAsks, Clients
  <2>9. QED
    BY <2>4, <2>5, <2>6, <2>7, <2>8 DEF IInv
<1>5. QED
  BY <1>3, <1>4

(* on_stop after its await: it may not be the current stop any more.          *)
LEMMA OnStopDoneStep ==
  ASSUME IInv, NEW c \in Clients, OnStopDone(c)
  PROVE  IInv'
<1> DEFINE f == call[c].future
<1>1. /\ call[c].phase = "awaiting" /\ f \in Futures /\ f # NoFuture
      /\ results[f] \in {"stopped", "refused"}
      /\ UNCHANGED <<pc, index, task, mine, active, completion, allowed, results, resumes,
                     disturbed, candidate, held, reported, report, busy, stopped>>
      /\ call \in [Clients -> [phase : CallPhases, future : {NoFuture} \cup Futures]]
  BY DEF IInv, TypeOK, CallsFit, OnStopDone, workerVars, visionVars
<1>2. responded' = IF completion = f THEN f ELSE responded
  BY DEF OnStopDone, Respond
<1>3. /\ call'[c] = [phase |-> results[f], future |-> NoFuture]
      /\ \A d \in Clients : d # c => call'[d] = call[d]
      /\ call' \in [Clients -> [phase : CallPhases, future : {NoFuture} \cup Futures]]
  <2>1. call' = [call EXCEPT ![c] = [phase |-> results[f], future |-> NoFuture]]
    BY DEF OnStopDone
  <2>2. QED
    BY <1>1, <2>1 DEF CallPhases
<1>4. TypeOK'
  BY <1>1, <1>2, <1>3 DEF IInv, TypeOK
<1>5. WorkerFits'
  BY <1>1 DEF IInv, WorkerFits
<1>6. FuturesFit'
  BY <1>1, <1>2 DEF IInv, FuturesFit
<1>7. CallsFit'
  <2>1. \A d \in Clients : call'[d].phase = "awaiting" <=> call'[d].future # NoFuture
    BY <1>1, <1>3 DEF IInv, CallsFit
  <2>2. ASSUME completion # NoFuture, completion # f
        PROVE  responded' = completion \/ \E d \in Clients : Awaits(d, completion)'
    <3>1. CASE responded = completion
      BY <1>2, <2>2, <3>1
    <3>2. CASE responded # completion
      <4>1. PICK d \in Clients : Awaits(d, completion)
        BY <2>2, <3>2 DEF IInv, CallsFit
      <4>2. d # c
        BY <2>2, <4>1 DEF Awaits
      <4>3. QED
        BY <1>1, <1>3, <4>1, <4>2 DEF Awaits
    <3>3. QED
      BY <3>1, <3>2
  <2>3. QED
    BY <1>1, <1>2, <2>1, <2>2 DEF CallsFit, Awaits
<1>8. VisionAsks'
  <2>1. c = Vision => busy /\ ~stopped
    BY <1>1 DEF IInv, TypeOK, VisionAsks, Idle
  <2>2. QED
    BY <1>1, <1>3, <2>1 DEF IInv, VisionAsks, Clients
<1>9. QED
  BY <1>4, <1>5, <1>6, <1>7, <1>8 DEF IInv

LEMMA OnResumeStep == IInv /\ OnResume => IInv'
<1> SUFFICES ASSUME IInv, OnResume PROVE IInv'
  OBVIOUS
<1>1. /\ allowed' = Head(resumes) /\ resumes' = Tail(resumes) /\ resumes # <<>>
      /\ UNCHANGED <<pc, index, task, mine, active, completion, responded, results, call,
                     candidate, held, reported, report, busy, stopped>>
  BY DEF OnResume, workerVars, visionVars
<1>2. /\ resumes \in Seq({"true", "false"}) /\ Len(resumes) <= ResumeDepth
      /\ ResumeDepth \in Nat
  BY BoundAssumption DEF IInv, TypeOK
<1>3. /\ Head(resumes) \in {"true", "false"} /\ Tail(resumes) \in Seq({"true", "false"})
      /\ Len(Tail(resumes)) = Len(resumes) - 1 /\ Len(resumes) \in Nat
  BY <1>1, <1>2, HeadTailProperties
<1>4. disturbed' \in BOOLEAN
  BY DEF OnResume, IInv, TypeOK
<1>5. TypeOK'
  BY <1>1, <1>2, <1>3, <1>4 DEF IInv, TypeOK, Permissions
<1>6. QED
  BY <1>1, <1>5 DEF IInv, WorkerFits, FuturesFit, CallsFit, VisionAsks, Awaits

--------------------------------------------------------------------------------
(* The vision node and the other clients: what they change is their own call, *)
(* the resume topic and what the vision node remembers.                       *)
ClientsType == [Clients -> [phase : CallPhases, future : {NoFuture} \cup Futures]]

VisionTypes ==
  /\ candidate \in Events \cup {NoEvent} /\ report \in Events \cup {NoEvent}
  /\ held \in BOOLEAN /\ reported \in BOOLEAN
  /\ busy \in BOOLEAN /\ stopped \in BOOLEAN /\ disturbed \in BOOLEAN

LEMMA Outside ==
  ASSUME IInv, UNCHANGED <<workerVars, checkVars>>, VisionTypes', VisionAsks',
         resumes' \in Seq({"true", "false"}), Len(resumes') <= ResumeDepth,
         call' \in ClientsType,
         \A c \in Clients : \/ call'[c] = call[c]
                            \/ /\ call[c].phase # "awaiting" /\ call'[c].phase # "awaiting"
                               /\ call'[c].future = NoFuture
  PROVE  IInv'
<1>1. UNCHANGED <<pc, index, task, mine, active, completion, responded, allowed, results>>
  BY DEF workerVars, checkVars
<1>2. TypeOK'
  BY <1>1 DEF IInv, TypeOK, VisionTypes, ClientsType
<1>3. WorkerFits' /\ FuturesFit'
  BY <1>1 DEF IInv, WorkerFits, FuturesFit
<1>4. CallsFit'
  <2>1. ASSUME NEW c \in Clients
        PROVE  call'[c].phase = "awaiting" <=> call'[c].future # NoFuture
    BY DEF IInv, CallsFit
  <2>2. ASSUME NEW c \in Clients, Awaits(c, completion) PROVE Awaits(c, completion)'
    BY <1>1, <2>2 DEF Awaits
  <2>3. QED
    BY <1>1, <2>1, <2>2 DEF IInv, CallsFit
<1>5. QED
  BY <1>2, <1>3, <1>4 DEF IInv

LEMMA PublishFits ==
  ASSUME TypeOK, NEW b \in {"true", "false"}, Publish(b)
  PROVE  resumes' \in Seq({"true", "false"}) /\ Len(resumes') <= ResumeDepth
<1>1. /\ resumes \in Seq({"true", "false"}) /\ Len(resumes) <= ResumeDepth
      /\ ResumeDepth \in Nat \ {0} /\ Len(resumes) \in Nat
  BY BoundAssumption, LenProperties DEF TypeOK
<1>2. CASE Len(resumes) < ResumeDepth
  <2>1. resumes' = Append(resumes, b)
    BY <1>2 DEF Publish
  <2>2. resumes' \in Seq({"true", "false"}) /\ Len(resumes') = Len(resumes) + 1
    BY <1>1, <2>1, AppendProperties
  <2>3. QED
    BY <1>1, <1>2, <2>2
<1>3. CASE ~(Len(resumes) < ResumeDepth)
  <2>1. resumes' = Append(Tail(resumes), b)
    BY <1>3 DEF Publish
  <2>2. resumes # <<>>
    BY <1>1, <1>3
  <2>3. Tail(resumes) \in Seq({"true", "false"}) /\ Len(Tail(resumes)) = Len(resumes) - 1
    BY <1>1, <2>2, HeadTailProperties
  <2>4. resumes' \in Seq({"true", "false"}) /\ Len(resumes') = Len(Tail(resumes)) + 1
    BY <2>1, <2>3, AppendProperties
  <2>5. QED
    BY <1>1, <2>3, <2>4
<1>4. QED
  BY <1>2, <1>3

LEMMA SeeEventStep ==
  ASSUME IInv, NEW e \in Events, SeeEvent(e)
  PROVE  IInv'
<1>1. /\ UNCHANGED <<workerVars, checkVars, resumes, disturbed, stopped>>
      /\ candidate' = e /\ RequestStop /\ held' = (held /\ e = candidate)
      /\ IF stopped /\ report = NoEvent /\ held'
         THEN Submit(e) ELSE reported' = FALSE /\ UNCHANGED report
  BY DEF SeeEvent
<1>2. /\ reported' \in BOOLEAN /\ report' \in Events \cup {NoEvent}
      /\ report' # NoEvent => stopped
  BY <1>1 DEF Submit, IInv, TypeOK, VisionAsks
<1>3. held' \in BOOLEAN
  BY <1>1 DEF IInv, TypeOK
<1>4. /\ call \in ClientsType /\ Vision \in Clients /\ busy \in BOOLEAN /\ stopped \in BOOLEAN
      /\ ~busy \/ stopped => call[Vision] = Idle
      /\ stopped => busy
      /\ disturbed \in BOOLEAN
  BY DEF IInv, TypeOK, VisionAsks, ClientsType, Clients
<1>5. CASE ~busy /\ busy' = TRUE /\ call' = [call EXCEPT ![Vision].phase = "sent"]
  <2>1. /\ call' \in ClientsType
        /\ call[Vision].phase = "none" /\ call'[Vision] = [phase |-> "sent", future |-> NoFuture]
        /\ \A c \in Clients : c # Vision => call'[c] = call[c]
    BY <1>4, <1>5 DEF ClientsType, CallPhases, Idle
  <2>2. VisionTypes' /\ VisionAsks'
    BY <1>1, <1>2, <1>3, <1>4, <1>5 DEF VisionTypes, VisionAsks
  <2>3. QED
    BY <1>1, <2>1, <2>2, Outside DEF IInv, TypeOK
<1>6. CASE UNCHANGED <<busy, call>>
  <2>1. VisionTypes' /\ VisionAsks'
    BY <1>1, <1>2, <1>3, <1>4, <1>6 DEF VisionTypes, VisionAsks
  <2>2. QED
    BY <1>1, <1>4, <1>6, <2>1, Outside DEF IInv, TypeOK
<1>7. QED
  BY <1>1, <1>5, <1>6 DEF RequestStop

LEMMA StopAnswerStep == IInv /\ StopAnswer => IInv'
<1> SUFFICES ASSUME IInv, StopAnswer PROVE IInv'
  OBVIOUS
<1>1. /\ UNCHANGED <<workerVars, checkVars, resumes, disturbed, candidate, held, reported,
                     report>>
      /\ call[Vision].phase \in {"stopped", "refused"}
      /\ call' = [call EXCEPT ![Vision] = Idle]
      /\ \/ stopped' = TRUE /\ UNCHANGED busy
         \/ busy' = FALSE /\ UNCHANGED stopped
  BY DEF StopAnswer
<1>2. call \in ClientsType /\ Vision \in Clients
  BY DEF IInv, TypeOK, ClientsType, Clients
<1>3. /\ call' \in ClientsType /\ call'[Vision] = Idle
      /\ \A c \in Clients : c # Vision => call'[c] = call[c]
  BY <1>1, <1>2 DEF ClientsType, Idle, CallPhases
<1>4. busy /\ ~stopped /\ report = NoEvent
  BY <1>1 DEF IInv, TypeOK, VisionAsks, Idle
<1>5. VisionTypes
  BY DEF IInv, TypeOK, VisionTypes
<1>6. CASE stopped' = TRUE /\ UNCHANGED busy
  <2>1. VisionTypes'
    BY <1>1, <1>5, <1>6 DEF VisionTypes
  <2>2. stopped' /\ busy' /\ report' = NoEvent
    BY <1>1, <1>4, <1>6
  <2>3. VisionAsks'
    BY <1>3, <2>2 DEF VisionAsks
  <2>4. QED
    BY <1>1, <1>3, <2>1, <2>3, Outside DEF IInv, TypeOK, Idle
<1>7. CASE busy' = FALSE /\ UNCHANGED stopped
  <2>1. VisionTypes'
    BY <1>1, <1>5, <1>7 DEF VisionTypes
  <2>2. ~stopped' /\ ~busy' /\ report' = NoEvent
    BY <1>1, <1>4, <1>7
  <2>3. VisionAsks'
    BY <1>3, <2>2 DEF VisionAsks
  <2>4. QED
    BY <1>1, <1>3, <2>1, <2>3, Outside DEF IInv, TypeOK, Idle
<1>8. QED
  BY <1>1, <1>6, <1>7

LEMMA VisionStep ==
  ASSUME IInv, LoseCandidate \/ HoldElapses \/ ReportStored \/ ReportNotStored
  PROVE  IInv'
<1>1. UNCHANGED <<workerVars, checkVars, call>> /\ call \in ClientsType
  BY DEF IInv, TypeOK, ClientsType, LoseCandidate, HoldElapses, ReportStored, ReportNotStored,
         wireVars
<1>2. resumes' \in Seq({"true", "false"}) /\ Len(resumes') <= ResumeDepth
  <2>1. CASE ReportStored
    BY <2>1, PublishFits DEF ReportStored, LinkResumes, IInv
  <2>2. CASE resumes' = resumes
    BY <2>2 DEF IInv, TypeOK
  <2>3. QED
    BY <2>1, <2>2 DEF LoseCandidate, HoldElapses, ReportNotStored, wireVars
<1>3. VisionTypes'
  BY DEF IInv, TypeOK, VisionTypes, LoseCandidate, HoldElapses, ReportStored, ReportNotStored,
         LinkResumes, wireVars
<1>4. VisionAsks'
  <2>1. CASE ReportStored
    BY <1>1, <2>1 DEF IInv, VisionAsks, ReportStored, LinkResumes
  <2>2. CASE UNCHANGED <<busy, stopped>> /\ report' \in {report, NoEvent}
    BY <1>1, <2>2 DEF IInv, VisionAsks
  <2>3. QED
    BY <2>1, <2>2 DEF LoseCandidate, HoldElapses, ReportNotStored
<1>5. QED
  BY <1>1, <1>2, <1>3, <1>4, Outside

LEMMA OtherStep ==
  ASSUME IInv, \/ \E c \in OtherClients : OtherStops(c) \/ OtherHears(c)
               \/ \E b \in {"true", "false"} : OtherResumes(b)
  PROVE  IInv'
<1>1. call \in ClientsType /\ VisionTypes
  BY DEF IInv, TypeOK, ClientsType, VisionTypes
<1>2. ASSUME NEW c \in OtherClients, OtherStops(c) \/ OtherHears(c) PROVE IInv'
  <2>1. /\ UNCHANGED <<workerVars, checkVars, resumes, disturbed, candidate, held, reported,
                       report, busy, stopped>>
        /\ call[c].phase # "awaiting" /\ c \in Clients /\ c # Vision
        /\ \/ call' = [call EXCEPT ![c].phase = "sent"]
           \/ call' = [call EXCEPT ![c] = Idle]
    BY <1>2, ClientAssumption DEF OtherStops, OtherHears, Clients, visionVars
  <2>2. call[c].future = NoFuture
    BY <2>1 DEF IInv, CallsFit
  <2>3. /\ call' \in ClientsType
        /\ call'[c].phase # "awaiting" /\ call'[c].future = NoFuture
        /\ \A d \in Clients : d # c => call'[d] = call[d]
    BY <1>1, <2>1, <2>2 DEF ClientsType, Idle, CallPhases
  <2>4. VisionTypes' /\ VisionAsks'
    BY <1>1, <2>1, <2>3 DEF IInv, VisionTypes, VisionAsks, Clients
  <2>5. QED
    BY <2>1, <2>3, <2>4, Outside DEF IInv, TypeOK
<1>3. ASSUME NEW b \in {"true", "false"}, OtherResumes(b) PROVE IInv'
  <2>1. UNCHANGED <<workerVars, checkVars, call, disturbed, candidate, held, reported, report,
                    busy, stopped>>
    BY <1>3 DEF OtherResumes, visionVars
  <2>2. resumes' \in Seq({"true", "false"}) /\ Len(resumes') <= ResumeDepth
    BY <1>3, PublishFits DEF OtherResumes, IInv
  <2>3. VisionTypes'
    BY <1>1, <2>1 DEF VisionTypes
  <2>4. VisionAsks'
    BY <2>1 DEF IInv, VisionAsks
  <2>5. QED
    BY <1>1, <2>1, <2>2, <2>3, <2>4, Outside
<1>4. QED
  BY <1>2, <1>3

LEMMA InvStep == IInv /\ [Next]_vars => IInv'
<1> SUFFICES ASSUME IInv, [Next]_vars PROVE IInv'
  OBVIOUS
<1>1. CASE UNCHANGED vars
  <2>1. UNCHANGED <<pc, index, task, mine, active, completion, responded, allowed, results,
                    call, resumes, disturbed, candidate, held, reported, report, busy, stopped>>
    BY <1>1 DEF vars, workerVars, checkVars, wireVars, visionVars
  <2>2. QED
    BY <2>1 DEF IInv, TypeOK, WorkerFits, FuturesFit, CallsFit, VisionAsks, Awaits
<1>2. CASE Worker \/ TaskEnds
  BY <1>2, WorkerStep, TaskEndsStep
<1>3. CASE \E c \in Clients : OnStop(c) \/ OnStopDone(c)
  BY <1>3, OnStopStep, OnStopDoneStep
<1>4. CASE OnResume
  BY <1>4, OnResumeStep
<1>5. CASE \E e \in Events : SeeEvent(e)
  BY <1>5, SeeEventStep
<1>6. CASE LoseCandidate \/ HoldElapses \/ ReportStored \/ ReportNotStored
  BY <1>6, VisionStep
<1>7. CASE StopAnswer
  BY <1>7, StopAnswerStep
<1>8. CASE \/ \E c \in OtherClients : OtherStops(c) \/ OtherHears(c)
           \/ \E b \in {"true", "false"} : OtherResumes(b)
  BY <1>8, OtherStep
<1>9. QED
  BY <1>1, <1>2, <1>3, <1>4, <1>5, <1>6, <1>7, <1>8 DEF Next

(* The invariant holds whoever stops and resumes.                             *)
THEOREM StopInvariant == Spec => []IInv
<1>1. QED
  BY InvInit, InvStep, PTL DEF Spec

(* Type correctness: the pool of futures is never exhausted.                  *)
THEOREM TypeCorrect == Spec => []TypeOK
<1>1. IInv => TypeOK
  BY DEF IInv
<1>2. QED
  BY <1>1, StopInvariant, PTL

(* Whatever stops, failures and resumes there are, a client of the stop       *)
(* service waits for the completion the worker will finish.                   *)
THEOREM NobodyIsOrphaned == Spec => []NoOrphanedWaiter
<1>1. ASSUME IInv PROVE NoOrphanedWaiter
  <2>1. SUFFICES ASSUME NEW c \in Clients, call[c].phase = "awaiting",
                        results[call[c].future] = "pending"
                 PROVE  active /\ call[c].future = completion
    BY DEF NoOrphanedWaiter
  <2>2. call[c].future \in Futures
    BY <1>1, <2>1 DEF IInv, TypeOK, CallsFit
  <2>3. call[c].future = completion
    BY <1>1, <2>1, <2>2 DEF IInv, FuturesFit
  <2>4. QED
    BY <1>1, <2>2, <2>3, NoneIsNone DEF IInv, TypeOK, FuturesFit
<1>2. QED
  BY <1>1, StopInvariant, PTL

(* A worker that holds the robot was responded to, or somebody will respond.  *)
THEOREM HoldsCanEnd == Spec => []HoldCanEnd
<1>1. IInv => HoldCanEnd
  BY DEF IInv, WorkerFits, CallsFit, Awaits, HoldCanEnd
<1>2. QED
  BY <1>1, StopInvariant, PTL

(* A stop that is confirmed and not resumed from is a robot nothing moves.    *)
THEOREM ConfirmedMeansStill == Spec => []ConfirmedStopHolds
<1>1. IInv => ConfirmedStopHolds
  BY DEF IInv, WorkerFits, FuturesFit, ConfirmedStopHolds
<1>2. QED
  BY <1>1, StopInvariant, PTL

--------------------------------------------------------------------------------
(* The vision node's stop, from the moment it was taken: as long as no resume *)
(* was handled and no other client stopped the patrol, nobody said "true".    *)

visionPhase == call[Vision].phase

(* The stop it asked for is confirmed, whether it has heard so or not.        *)
Granted ==
  \/ stopped \/ visionPhase = "stopped"
  \/ visionPhase = "awaiting" /\ results[call[Vision].future] = "stopped"

StopIsOurs ==
  /\ Outstanding => allowed # "true"
  /\ Granted => pc = "holding" /\ completion = mine
  /\ completion # NoFuture => responded = completion \/ Awaits(Vision, completion)

OrderInv == ~disturbed => StopIsOurs

LEMMA GrantedIsOutstanding == Granted => Outstanding
BY DEF Granted, Outstanding, visionPhase

LEMMA OrderInit == Init => OrderInv
BY DEF Init, OrderInv, StopIsOurs, Granted, Outstanding, visionPhase, Idle, Clients

(* A worker that gives nothing up leaves the order as it is.                  *)
LEMMA WorkerOrder == IInv /\ OrderInv /\ (Worker \/ TaskEnds) => OrderInv'
<1> SUFFICES ASSUME IInv, StopIsOurs, Worker \/ TaskEnds, UNCHANGED disturbed
             PROVE  StopIsOurs'
  <2>1. Worker \/ TaskEnds => UNCHANGED disturbed
    BY DEF Worker, WorkerProgress, TaskEnds, ReceiveGoal, BeginRoute, Fails, StartStep,
           WaitForTask, StopConfirmed, StopFails, ResumeStep, StopAgain, LeaveRoute, EndGoal,
           wireVars
  <2>2. QED
    BY <2>1 DEF OrderInv
<1>1. /\ UNCHANGED <<call, stopped>>
      /\ allowed' \in {allowed, "unknown"}
  BY DEF Worker, WorkerProgress, TaskEnds, ReceiveGoal, BeginRoute, Fails, StartStep, WaitForTask,
         StopConfirmed, StopFails, ResumeStep, StopAgain, LeaveRoute, EndGoal, Abort, Deactivate,
         checkVars, wireVars, visionVars
<1>2. Outstanding' => allowed' # "true"
  BY <1>1 DEF StopIsOurs, Outstanding
<1>3. visionPhase = "awaiting" => call[Vision].future \in Futures
  BY DEF IInv, TypeOK, CallsFit, Clients, visionPhase
<1>4. ASSUME \A f \in Futures : results'[f] = "stopped" => results[f] = "stopped", Granted'
      PROVE  Granted
  BY <1>1, <1>3, <1>4 DEF Granted, visionPhase
<1>5. completion' # NoFuture =>
        responded' = completion' \/ Awaits(Vision, completion)'
  <2>1. \/ completion' = NoFuture
        \/ completion' = completion /\ responded' = responded
    BY DEF Worker, WorkerProgress, TaskEnds, ReceiveGoal, BeginRoute, Fails, StartStep,
           WaitForTask, StopConfirmed, StopFails, ResumeStep, StopAgain, LeaveRoute, EndGoal,
           Abort, Deactivate, checkVars
  <2>2. QED
    BY <1>1, <2>1 DEF StopIsOurs, Awaits
<1>6. CASE StopConfirmed
  BY <1>2, <1>5, <1>6 DEF StopConfirmed, IInv, WorkerFits, StopIsOurs
<1>7. CASE TaskEnds
  BY <1>2, <1>4, <1>5, <1>7 DEF TaskEnds, StopIsOurs, checkVars
<1>8. CASE ResumeStep
  <2>1. allowed = "true" /\ results' = results
    BY <1>8 DEF ResumeStep, MayResume
  <2>2. ~Granted
    BY <2>1, GrantedIsOutstanding DEF StopIsOurs
  <2>3. QED
    BY <1>2, <1>4, <1>5, <2>1, <2>2 DEF StopIsOurs
<1>9. CASE StopAgain
  BY <1>2, <1>4, <1>5, <1>9 DEF StopAgain, StopIsOurs, checkVars
<1>10. ASSUME pc # "holding", results' = results \/ Deactivate PROVE StopIsOurs'
  <2>1. ~Granted
    BY <1>10 DEF StopIsOurs
  <2>2. ASSUME NEW f \in Futures, results'[f] = "stopped" PROVE results[f] = "stopped"
    BY <1>10, <2>2 DEF Deactivate, IInv, TypeOK
  <2>3. QED
    BY <1>2, <1>4, <1>5, <2>1, <2>2 DEF StopIsOurs
<1>11. CASE ReceiveGoal \/ BeginRoute \/ Fails \/ StartStep \/ WaitForTask \/ StopFails
            \/ LeaveRoute \/ EndGoal
  <2>1. pc # "holding" /\ (results' = results \/ Deactivate)
    BY <1>11 DEF ReceiveGoal, BeginRoute, Fails, StartStep, WaitForTask, StopFails, LeaveRoute,
                 EndGoal, Abort, checkVars
  <2>2. QED
    BY <1>10, <2>1
<1>12. QED
  BY <1>6, <1>7, <1>8, <1>9, <1>11 DEF Worker, WorkerProgress

(* The event executor: a stop that is taken is the vision node's, or disturbs *)
(* it, and so does a resume that is handled after it.                         *)
LEMMA EventOrder ==
  ASSUME IInv, OrderInv, OnResume \/ \E c \in Clients : OnStop(c) \/ OnStopDone(c),
         ~disturbed'
  PROVE  StopIsOurs'
<1>1. UNCHANGED <<pc, mine, stopped>>
  BY DEF OnResume, OnStop, OnStopDone, workerVars, visionVars
<1>2. call \in ClientsType /\ Vision \in Clients
  BY DEF IInv, TypeOK, ClientsType, Clients
<1>3. CASE OnResume
  <2>1. /\ ~disturbed /\ (Outstanding => Head(resumes) # "true") /\ allowed' = Head(resumes)
        /\ UNCHANGED <<completion, responded, results, call>>
    BY <1>3 DEF OnResume
  <2>2. StopIsOurs
    BY <2>1 DEF OrderInv
  <2>3. QED
    BY <1>1, <2>1, <2>2 DEF StopIsOurs, Granted, Outstanding, Awaits, visionPhase
<1>4. ASSUME NEW c \in Clients, OnStop(c), ~active PROVE StopIsOurs'
  <2>1. /\ ~disturbed /\ UNCHANGED <<completion, allowed, results>>
        /\ call[c].phase = "sent" /\ call' = [call EXCEPT ![c].phase = "refused"]
    BY <1>4 DEF OnStop
  <2>2. completion' = NoFuture
    BY <1>4, <2>1 DEF IInv, FuturesFit
  <2>3. call'[Vision].phase \in {call[Vision].phase, "refused"}
        /\ call'[Vision].future = call[Vision].future
    BY <1>2, <2>1 DEF ClientsType
  <2>4. (Outstanding' => Outstanding) /\ (Granted' => Granted)
    BY <1>1, <2>1, <2>3 DEF Outstanding, Granted, visionPhase
  <2>5. QED
    BY <1>1, <2>1, <2>2, <2>4 DEF OrderInv, StopIsOurs
<1>5. ASSUME NEW c \in Clients, OnStop(c), active PROVE StopIsOurs'
  <2>1. /\ c = Vision /\ call[Vision].phase = "sent" /\ allowed' = "false"
        /\ call' = [call EXCEPT ![Vision] = [phase |-> "awaiting", future |-> completion']]
    BY <1>5 DEF OnStop, TakeBackPermission
  <2>2. results'[completion'] = "pending" /\ completion' \in Futures
    <3>1. CASE StopRequested
      BY <1>5, <3>1, RequestIsOpen DEF OnStop, StopRequested
    <3>2. CASE ~StopRequested
      <4>1. completion' \in Futures
        BY <1>2, <1>5, <2>1, <3>2, NewFuture DEF OnStop, IInv, CallsFit
      <4>2. QED
        BY <1>5, <3>2, <4>1 DEF OnStop, IInv, TypeOK
    <3>3. QED
      BY <3>1, <3>2
  <2>3. call'[Vision] = [phase |-> "awaiting", future |-> completion']
    BY <1>2, <2>1, <2>2 DEF ClientsType
  <2>4. ~stopped
    BY <2>1 DEF IInv, VisionAsks, Idle
  <2>5. ~Granted'
    BY <1>1, <2>2, <2>3, <2>4 DEF Granted, visionPhase
  <2>6. QED
    BY <2>1, <2>3, <2>5 DEF StopIsOurs, Awaits
<1>6. ASSUME NEW c \in Clients, OnStopDone(c) PROVE StopIsOurs'
  <2> DEFINE f == call[c].future
  <2>1. /\ ~disturbed /\ UNCHANGED <<completion, allowed, results>>
        /\ call[c].phase = "awaiting" /\ f \in Futures
        /\ call' = [call EXCEPT ![c] = [phase |-> results[f], future |-> NoFuture]]
        /\ responded' = IF completion = f THEN f ELSE responded
    BY <1>6 DEF OnStopDone, Respond, IInv, TypeOK, CallsFit
  <2>2. StopIsOurs
    BY <2>1 DEF OrderInv
  <2>3. \/ call'[Vision] = call[Vision]
        \/ /\ c = Vision
           /\ call'[Vision] = [phase |-> results[f], future |-> NoFuture]
    BY <1>2, <2>1 DEF ClientsType
  <2>4. results[f] \in {"stopped", "refused"}
    BY <1>6, <2>1 DEF OnStopDone, IInv, TypeOK
  <2>5. (Outstanding' => Outstanding) /\ (Granted' => Granted)
    BY <1>1, <2>1, <2>3, <2>4 DEF Outstanding, Granted, visionPhase
  <2>6. completion' # NoFuture => responded' = completion' \/ Awaits(Vision, completion)'
    BY <2>1, <2>2, <2>3 DEF StopIsOurs, Awaits
  <2>7. QED
    BY <1>1, <2>1, <2>2, <2>5, <2>6 DEF StopIsOurs
<1>7. QED
  BY <1>3, <1>4, <1>5, <1>6

(* The other clients and publishers change nothing of the vision node's stop  *)
(* before EventCheck hears of them.                                           *)
LEMMA OtherOrder ==
  ASSUME IInv, OrderInv, \/ \E c \in OtherClients : OtherStops(c) \/ OtherHears(c)
                         \/ \E b \in {"true", "false"} : OtherResumes(b)
  PROVE  OrderInv'
<1>1. /\ UNCHANGED <<pc, mine, completion, responded, allowed, results, disturbed, stopped>>
      /\ call'[Vision] = call[Vision]
  BY ClientAssumption
     DEF OtherStops, OtherHears, OtherResumes, workerVars, checkVars, visionVars, IInv, TypeOK,
         Clients
<1>2. QED
  BY <1>1 DEF OrderInv, StopIsOurs, Granted, Outstanding, Awaits, visionPhase

LEMMA VisionOrder ==
  ASSUME IInv, OrderInv,
         \/ \E e \in Events : SeeEvent(e)
         \/ LoseCandidate \/ HoldElapses \/ StopAnswer \/ ReportStored \/ ReportNotStored
  PROVE  OrderInv'
<1>1. UNCHANGED <<pc, mine, completion, responded, allowed, results, disturbed>>
  BY DEF SeeEvent, LoseCandidate, HoldElapses, StopAnswer, ReportStored, ReportNotStored,
         workerVars, checkVars, wireVars
<1>2. Vision \in Clients /\ call \in ClientsType
  BY DEF Clients, IInv, TypeOK, ClientsType
<1>3. ASSUME UNCHANGED <<call, stopped>> PROVE OrderInv'
  BY <1>1, <1>3 DEF OrderInv, StopIsOurs, Granted, Outstanding, Awaits, visionPhase
<1>4. ASSUME call'[Vision].phase \notin {"awaiting", "stopped"}, ~stopped',
             call[Vision].phase # "awaiting"
      PROVE  OrderInv'
  <2>1. ~Outstanding' /\ ~Granted'
    BY <1>4 DEF Outstanding, Granted, visionPhase
  <2>2. ~Awaits(Vision, completion)
    BY <1>4 DEF Awaits
  <2>3. QED
    BY <1>1, <2>1, <2>2 DEF OrderInv, StopIsOurs
<1>5. ASSUME NEW e \in Events, SeeEvent(e) PROVE OrderInv'
  <2>1. UNCHANGED stopped
    BY <1>5 DEF SeeEvent
  <2>2. ASSUME ~busy, call' = [call EXCEPT ![Vision].phase = "sent"] PROVE OrderInv'
    <3>1. ~stopped' /\ call[Vision].phase = "none" /\ call'[Vision].phase = "sent"
      BY <1>2, <2>1, <2>2 DEF IInv, VisionAsks, Idle, ClientsType
    <3>2. QED
      BY <1>4, <3>1
  <2>3. QED
    BY <1>3, <1>5, <2>1, <2>2 DEF SeeEvent, RequestStop
<1>6. CASE StopAnswer
  <2>1. call'[Vision].phase = "none" /\ call[Vision].phase \in {"stopped", "refused"}
    BY <1>2, <1>6 DEF StopAnswer, ClientsType, Idle
  <2>2. stopped' => stopped \/ call[Vision].phase = "stopped"
    BY <1>6 DEF StopAnswer
  <2>3. (Outstanding' => Outstanding) /\ (Granted' => Granted)
    BY <2>1, <2>2 DEF Outstanding, Granted, visionPhase
  <2>4. ~Awaits(Vision, completion)
    BY <2>1 DEF Awaits
  <2>5. QED
    BY <1>1, <2>3, <2>4 DEF OrderInv, StopIsOurs
<1>7. CASE ReportStored
  <2>1. stopped /\ ~stopped' /\ UNCHANGED call
    BY <1>7 DEF ReportStored, LinkResumes, IInv, VisionAsks
  <2>2. call[Vision].phase = "none"
    BY <2>1 DEF IInv, VisionAsks, Idle
  <2>3. QED
    BY <1>4, <2>1, <2>2
<1>8. CASE LoseCandidate \/ HoldElapses \/ ReportNotStored
  BY <1>3, <1>8 DEF LoseCandidate, HoldElapses, ReportNotStored, wireVars
<1>9. QED
  BY <1>5, <1>6, <1>7, <1>8

LEMMA OrderStep ==
  ASSUME IInv, OrderInv, [Next]_vars
  PROVE  OrderInv'
<1>1. CASE UNCHANGED vars
  BY <1>1 DEF vars, workerVars, checkVars, wireVars, visionVars, OrderInv, StopIsOurs, Granted,
              Outstanding, Awaits, visionPhase
<1>2. CASE OnResume \/ \E c \in Clients : OnStop(c) \/ OnStopDone(c)
  BY <1>2, EventOrder DEF OrderInv
<1>3. CASE Next
  BY <1>2, <1>3, WorkerOrder, OtherOrder, VisionOrder DEF Next
<1>4. QED
  BY <1>1, <1>3

(* While the vision node believes the robot stopped, and while its report is  *)
(* on its way, the worker holds the robot and Nav2 moves nothing, unless a    *)
(* resume was handled or another client's stop taken since its own was: no    *)
(* failure, no message of an earlier event and no step of the patrol itself   *)
(* lets it go.                                                                *)
THEOREM ReportsAreHeld == Spec => []UndisturbedStopHolds
<1>1. IInv /\ OrderInv /\ [Next]_vars => OrderInv'
  BY OrderStep
<1>2. IInv /\ OrderInv => UndisturbedStopHolds
  BY DEF IInv, WorkerFits, VisionAsks, OrderInv, StopIsOurs, Granted, UndisturbedStopHolds,
         StoppedMeansHeld, Held
<1>3. QED
  BY <1>1, <1>2, OrderInit, StopInvariant, PTL DEF Spec

--------------------------------------------------------------------------------
(* The refinement.  In a stop that nobody disturbs, the completion is open    *)
(* only for the vision node, so the worker holds for an event that was asked. *)
LEMMA WorkerPromise ==
  ASSUME IInv, OrderInv, Worker \/ TaskEnds
  PROVE  [Promise!StopReportNext]_(Promise!stopReportVars)
<1> USE DEF Promise!stopReportVars
<1>1. UNCHANGED <<report, busy, stopped, call, disturbed>> /\ EventPhase' = EventPhase
  BY DEF Worker, WorkerProgress, TaskEnds, ReceiveGoal, BeginRoute, Fails, StartStep, WaitForTask,
         StopConfirmed, StopFails, ResumeStep, StopAgain, LeaveRoute, EndGoal, wireVars,
         visionVars, EventPhase
<1>2. ASSUME pc # "holding", pc' # "holding"
      PROVE  UNCHANGED Promise!stopReportVars
  BY <1>1, <1>2
<1>3. CASE StopConfirmed
  <2>1. pc = "stopping" /\ pc' = "holding"
    BY <1>3 DEF StopConfirmed
  <2>2. completion \in Futures /\ results[completion] = "pending"
    BY <2>1, NoneIsNone DEF IInv, TypeOK, WorkerFits, FuturesFit
  <2>3. responded # completion
    BY <2>2, NoneIsNone DEF IInv, FuturesFit
  <2>4. ~disturbed => Awaits(Vision, completion)
    BY <2>2, <2>3, NoneIsNone DEF OrderInv, StopIsOurs
  <2>5. disturbed \/ EventPhase = "asked"
    BY <2>4 DEF IInv, TypeOK, VisionAsks, Awaits, Idle, EventPhase
  <2>6. Promise!Hold
    BY <1>1, <2>1, <2>5 DEF Promise!Hold
  <2>7. QED
    BY <2>6 DEF Promise!StopReportNext
<1>4. CASE ResumeStep \/ StopAgain
  <2>1. pc = "holding" /\ pc' # "holding"
    BY <1>4 DEF ResumeStep, StopAgain, PauseFor
  <2>2. disturbed \/ ~stopped
    BY <1>4 DEF ResumeStep, StopAgain, MayResume, OrderInv, StopIsOurs, Granted, Outstanding
  <2>3. disturbed \/ EventPhase \in {"none", "asked"}
    BY <2>2 DEF IInv, VisionAsks, EventPhase
  <2>4. Promise!DriveOn
    BY <1>1, <2>1, <2>3 DEF Promise!DriveOn
  <2>5. QED
    BY <2>4 DEF Promise!StopReportNext
<1>5. CASE TaskEnds
  BY <1>1, <1>5 DEF TaskEnds
<1>6. CASE ReceiveGoal \/ BeginRoute \/ Fails \/ StartStep \/ WaitForTask \/ StopFails
           \/ LeaveRoute \/ EndGoal
  BY <1>2, <1>6 DEF ReceiveGoal, BeginRoute, Fails, StartStep, WaitForTask, StopFails, LeaveRoute,
                    EndGoal, Abort, PauseFor
<1>7. QED
  BY <1>3, <1>4, <1>5, <1>6 DEF Worker, WorkerProgress

LEMMA VisionPromise ==
  ASSUME IInv, OrderInv,
         \/ \E e \in Events : SeeEvent(e)
         \/ LoseCandidate \/ HoldElapses \/ StopAnswer \/ ReportStored \/ ReportNotStored
  PROVE  [Promise!StopReportNext]_(Promise!stopReportVars)
<1> USE DEF Promise!stopReportVars, Promise!StopReportNext
<1>1. pc' = pc /\ UNCHANGED disturbed
  BY DEF SeeEvent, LoseCandidate, HoldElapses, StopAnswer, ReportStored, ReportNotStored,
         workerVars, wireVars
<1>2. ASSUME NEW e \in Events, SeeEvent(e)
      PROVE  [Promise!StopReportNext]_(Promise!stopReportVars)
  <2>1. stopped' = stopped /\ e # NoEvent /\ (busy' = busy \/ (~busy /\ busy' = TRUE))
    BY <1>2, EventAssumption DEF SeeEvent, RequestStop
  <2>2. report' = report \/ (stopped /\ report = NoEvent /\ report' = e)
    BY <1>2 DEF SeeEvent, Submit
  <2>3. CASE report' = report /\ busy' = busy
    BY <1>1, <2>1, <2>3 DEF EventPhase
  <2>4. CASE report' = report /\ ~busy /\ busy' = TRUE
    <3>1. EventPhase = "none" /\ EventPhase' = "asked"
      BY <2>1, <2>4 DEF IInv, VisionAsks, EventPhase
    <3>2. Promise!Ask
      BY <1>1, <3>1 DEF Promise!Ask
    <3>3. QED
      BY <3>2
  <2>5. CASE stopped /\ report = NoEvent /\ report' = e
    <3>1. /\ EventPhase = "stopped" /\ EventPhase' = "reporting"
          /\ disturbed \/ pc = "holding"
      BY <2>1, <2>5 DEF EventPhase, OrderInv, StopIsOurs, Granted
    <3>2. Promise!Report
      BY <1>1, <3>1 DEF Promise!Report
    <3>3. QED
      BY <3>2
  <2>6. QED
    BY <2>1, <2>2, <2>3, <2>4, <2>5
<1>3. CASE LoseCandidate \/ HoldElapses
  BY <1>1, <1>3 DEF LoseCandidate, HoldElapses, EventPhase
<1>4. CASE StopAnswer
  <2>1. EventPhase = "asked" /\ report' = NoEvent
    BY <1>4 DEF StopAnswer, IInv, TypeOK, VisionAsks, Idle, EventPhase
  <2>2. CASE visionPhase = "stopped"
    <3>1. EventPhase' = "stopped" /\ (disturbed \/ pc = "holding")
      BY <1>4, <2>1, <2>2 DEF StopAnswer, EventPhase, OrderInv, StopIsOurs, Granted, visionPhase
    <3>2. Promise!Confirm
      BY <1>1, <2>1, <3>1 DEF Promise!Confirm
    <3>3. QED
      BY <3>2
  <2>3. CASE visionPhase # "stopped"
    <3>1. EventPhase' = "none"
      BY <1>4, <2>1, <2>3 DEF StopAnswer, EventPhase, visionPhase, IInv, VisionAsks, Idle
    <3>2. Promise!Refuse
      BY <1>1, <2>1, <3>1 DEF Promise!Refuse
    <3>3. QED
      BY <3>2
  <2>4. QED
    BY <2>2, <2>3
<1>5. CASE ReportStored
  <2>1. EventPhase = "reporting" /\ EventPhase' = "none"
    BY <1>5 DEF ReportStored, LinkResumes, EventPhase
  <2>2. Promise!Stored
    BY <1>1, <2>1 DEF Promise!Stored
  <2>3. QED
    BY <2>2
<1>6. CASE ReportNotStored
  <2>1. EventPhase = "reporting" /\ EventPhase' = "stopped"
    BY <1>6 DEF ReportNotStored, EventPhase, IInv, VisionAsks
  <2>2. Promise!NotStored
    BY <1>1, <2>1 DEF Promise!NotStored
  <2>3. QED
    BY <2>2
<1>7. QED
  BY <1>2, <1>3, <1>4, <1>5, <1>6

(* A stop that is taken, or a resume that is handled, starts or disturbs the  *)
(* promise and moves nothing.                                                 *)
LEMMA EventPromise ==
  ASSUME IInv, OnResume \/ \E c \in Clients : OnStop(c) \/ OnStopDone(c)
  PROVE  [Promise!StopReportNext]_(Promise!stopReportVars)
<1> USE DEF Promise!stopReportVars
<1>1. pc' = pc /\ EventPhase' = EventPhase
  BY DEF OnResume, OnStop, OnStopDone, workerVars, visionVars, EventPhase
<1>2. CASE disturbed' = disturbed
  BY <1>1, <1>2
<1>3. CASE disturbed' = TRUE
  <2>1. Promise!Disturb
    BY <1>1, <1>3 DEF Promise!Disturb
  <2>2. QED
    BY <2>1 DEF Promise!StopReportNext
<1>4. ASSUME OnStop(Vision), active PROVE Promise!Take
  <2>1. disturbed' = FALSE
    BY <1>4 DEF OnStop
  <2>2. EventPhase = "asked"
    BY <1>4 DEF OnStop, IInv, VisionAsks, Idle, EventPhase
  <2>3. QED
    BY <1>1, <2>1, <2>2 DEF Promise!Take
<1>5. OnResume => disturbed' = disturbed \/ disturbed' = TRUE
  BY DEF OnResume, IInv, TypeOK
<1>6. ASSUME NEW c \in Clients, OnStop(c) \/ OnStopDone(c), c # Vision \/ ~active \/ ~OnStop(c)
      PROVE  disturbed' = disturbed \/ disturbed' = TRUE
  BY <1>6 DEF OnStop, OnStopDone
<1>7. QED
  BY <1>2, <1>3, <1>4, <1>5, <1>6 DEF Promise!StopReportNext

(* Every step of the patrol and the vision node is a step of StopReport or    *)
(* leaves what it speaks of alone: hold because asked, report while held,     *)
(* drive on after the report was stored, whoever else stops and resumes and   *)
(* in whatever order the messages come.                                       *)
THEOREM StopReportHolds == Spec => ImplementsStopReport
<1>1. Init => Promise!StopReportInit
  BY DEF Init, Promise!StopReportInit, EventPhase
<1>2. IInv /\ OrderInv /\ [Next]_vars => [Promise!StopReportNext]_(Promise!stopReportVars)
  <2> SUFFICES ASSUME IInv, OrderInv, [Next]_vars
               PROVE  [Promise!StopReportNext]_(Promise!stopReportVars)
    OBVIOUS
  <2>1. CASE UNCHANGED <<pc, report, stopped, busy, disturbed>>
    BY <2>1 DEF EventPhase, Promise!stopReportVars
  <2>2. UNCHANGED vars => UNCHANGED <<pc, report, stopped, busy, disturbed>>
    BY DEF vars, workerVars, wireVars, visionVars
  <2>3. (\/ \E c \in OtherClients : OtherStops(c) \/ OtherHears(c)
         \/ \E b \in {"true", "false"} : OtherResumes(b))
          => UNCHANGED <<pc, report, stopped, busy, disturbed>>
    BY DEF OtherStops, OtherHears, OtherResumes, workerVars, visionVars
  <2>4. CASE Next
    BY <2>1, <2>3, <2>4, WorkerPromise, VisionPromise, EventPromise DEF Next
  <2>5. QED
    BY <2>1, <2>2, <2>4
<1>3. IInv /\ OrderInv /\ [Next]_vars => OrderInv'
  BY OrderStep
<1>4. QED
  BY <1>1, <1>2, <1>3, OrderInit, StopInvariant, PTL
     DEF Spec, ImplementsStopReport, Promise!StopReportSpec

================================================================================
