------------------------------- MODULE PermitLog -------------------------------
(***************************************************************************)
(* The patrol permit in the System Monitor: a row for the present and a log *)
(* of the changes (cctv_service.receive_patrol_allowed, cctv.store_permit;  *)
(* the store is one transaction).  cam_master sends the permit again and    *)
(* again; the adapter's queue holds PermitDepth of them, a new one drives   *)
(* out the oldest, and an adapter that starts finds it empty (VOLATILE).    *)
(***************************************************************************)
EXTENDS Naturals, SequencesExt

CONSTANTS
  PermitDepth, \* depth of the queue (qos.permit)
  MaxPermits   \* bound: permits sent

ASSUME PermitAssumption == PermitDepth \in Nat \ {0} /\ MaxPermits \in Nat

VARIABLES
  permitQueue,   \* the adapter's queue
  permitLatest,  \* table patrol_permit_latest: {} or the one value
  permitLog,     \* table patrol_permit_history
  (* History, read only by the properties. *)
  permitChanges, \* the changes of the permit as cam_master sent them
  permitSent,    \* how many permits it has sent
  permitMissed   \* has one not reached the tables?

permitVars == <<permitQueue, permitLatest, permitLog, permitChanges, permitSent, permitMissed>>

(* std_msgs/Bool on /patrol_allowed *)
PermitValues == BOOLEAN

PermitTypeOK ==
  /\ permitQueue \in Seq(PermitValues) /\ Len(permitQueue) <= PermitDepth
  /\ permitLatest \subseteq PermitValues
  /\ permitLog \in Seq(PermitValues) /\ permitChanges \in Seq(PermitValues)
  /\ permitSent \in 0 .. MaxPermits
  /\ permitMissed \in BOOLEAN

PermitInit ==
  /\ permitQueue = <<>> /\ permitLatest = {} /\ permitLog = <<>>
  /\ permitChanges = <<>> /\ permitSent = 0 /\ permitMissed = FALSE

--------------------------------------------------------------------------------
AppendChange(log, allowed) ==
  IF log # <<>> /\ Last(log) = allowed THEN log ELSE Append(log, allowed)

(* Mutant: KEEP_ALL. *)
KeepAll(allowed) == Append(permitQueue, allowed)

(* KEEP_LAST: the oldest gives way. *)
KeepLast(allowed) ==
  Append(IF Len(permitQueue) < PermitDepth THEN permitQueue ELSE Tail(permitQueue), allowed)

SendPermit(allowed) ==
  /\ permitSent < MaxPermits
  /\ permitSent' = permitSent + 1
  /\ permitChanges' = AppendChange(permitChanges, allowed)
  /\ permitQueue' = KeepLast(allowed)
  /\ permitMissed' = (permitMissed \/ Len(permitQueue) = PermitDepth)
  /\ UNCHANGED <<permitLatest, permitLog>>

(* Mutant: the first permit of all is no change. *)
ChangedAfterFirst(allowed) == permitLatest \notin {{}, {allowed}}

(* The change is told by the row of the present, not by the log. *)
PermitChanged(allowed) == permitLatest # {allowed}

(* The store may fail: the permit is gone. *)
ReceivePermit ==
  /\ permitQueue # <<>>
  /\ permitQueue' = Tail(permitQueue)
  /\ LET allowed == Head(permitQueue) IN
     \/ /\ permitLog' = IF PermitChanged(allowed) THEN Append(permitLog, allowed) ELSE permitLog
        /\ permitLatest' = {allowed}
        /\ UNCHANGED permitMissed
     \/ permitMissed' = TRUE /\ UNCHANGED <<permitLog, permitLatest>>
  /\ UNCHANGED <<permitChanges, permitSent>>

PermitAdapterStarts ==
  /\ permitQueue' = <<>>
  /\ permitMissed' = (permitMissed \/ permitQueue # <<>>)
  /\ UNCHANGED <<permitLatest, permitLog, permitChanges, permitSent>>

PermitNext ==
  \/ \E allowed \in PermitValues : SendPermit(allowed)
  \/ ReceivePermit
  \/ PermitAdapterStarts

PermitSpec == PermitInit /\ [][PermitNext]_permitVars

--------------------------------------------------------------------------------
(***************************************************************************)
(* Properties.                                                              *)
(***************************************************************************)

(* A log of the first changes, from of them, has the first "to" of them once *)
(* it has taken in allowed: a permit equal to the change before it is a      *)
(* repeat and tells nothing new.                                             *)
Reaches(changes, from, to, allowed) ==
  /\ to = IF from # 0 /\ changes[from] = allowed THEN from ELSE from + 1
  /\ changes[to] = allowed

(* The log is the first of the changes and the queue tells the others: with  *)
(* i more permits of the queue the log will hold far[i] changes.             *)
LogAndQueueTellChanges ==
  \E far \in [0 .. Len(permitQueue) -> 0 .. Len(permitChanges)] :
    /\ far[0] = Len(permitLog) /\ far[Len(permitQueue)] = Len(permitChanges)
    /\ \A i \in 1 .. Len(permitLog) : permitLog[i] = permitChanges[i]
    /\ \A i \in 1 .. Len(permitQueue) :
         Reaches(permitChanges, far[i - 1], far[i], permitQueue[i])

(* The log of the permit is cam_master's changes, in order and each once,   *)
(* but for those still in the queue, as long as the queue never overflowed, *)
(* no store failed and no start of the adapter lost one; and at any time it *)
(* alternates and ends with the present permit.                             *)
PermitLogComplete ==
  /\ ~permitMissed => LogAndQueueTellChanges
  /\ \A i \in 1 .. Len(permitLog) - 1 : permitLog[i] # permitLog[i + 1]
  /\ permitLatest = IF permitLog = <<>> THEN {} ELSE {Last(permitLog)}
================================================================================
