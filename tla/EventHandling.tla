----------------------------- MODULE EventHandling -----------------------------
(***************************************************************************)
(* The handling of an event by the operators of the System Monitor: a page  *)
(* shows the event and offers its next status; the operator's click is      *)
(* decided later, in one transaction on the row as it is by then            *)
(* (event_service.change_event_status, event.change_status).                *)
(***************************************************************************)
EXTENDS Naturals, SequencesExt

CONSTANTS
  Operators, \* browsers that show the event
  NotShown

Statuses == {"NEW", "REVIEWING", "WORK_REQUESTED", "RESOLVED"}

(* STATUS_TRANSITIONS *)
NextStatus == [NEW |-> "REVIEWING", REVIEWING |-> "WORK_REQUESTED",
               WORK_REQUESTED |-> "RESOLVED"]

ASSUME NotShownAssumption == NotShown \notin Statuses

VARIABLES
  eventStatus, \* events.status
  eventLog,    \* table event_changes, with the status the operator saw
  page         \* the status each operator's page shows

eventVars == <<eventStatus, eventLog, page>>

EventTypeOK ==
  /\ eventStatus \in Statuses
  /\ eventLog \in Seq([from : Statuses, to : Statuses, seen : Statuses, by : Operators])
  /\ page \in [Operators -> Statuses \cup {NotShown}]

EventInit ==
  /\ eventStatus = "NEW"
  /\ eventLog = <<>>
  /\ page = [o \in Operators |-> NotShown]

--------------------------------------------------------------------------------
ShowEvent(o) ==
  /\ page' = [page EXCEPT ![o] = eventStatus]
  /\ UNCHANGED <<eventStatus, eventLog>>

(* Mutant: any status but the present one may be set. *)
AllowedAny(to) == to # eventStatus

Allowed(to) == eventStatus \in DOMAIN NextStatus /\ NextStatus[eventStatus] = to

(* A click that is refused changes nothing, and the page shows the row anew *)
(* either way.                                                              *)
ChangeStatus(o) ==
  /\ page[o] \in DOMAIN NextStatus
  /\ LET to == NextStatus[page[o]] IN
     IF Allowed(to)
       THEN /\ eventStatus' = to
            /\ eventLog' = Append(eventLog, [from |-> eventStatus, to |-> to,
                                             seen |-> page[o], by |-> o])
       ELSE UNCHANGED <<eventStatus, eventLog>>
  /\ page' = [page EXCEPT ![o] = NotShown]

EventNext == \E o \in Operators : ShowEvent(o) \/ ChangeStatus(o)

EventSpec == EventInit /\ [][EventNext]_eventVars

--------------------------------------------------------------------------------
(***************************************************************************)
(* Properties.                                                              *)
(***************************************************************************)

(* Every change of an event was made from the status its operator saw, and  *)
(* the log is an unbroken chain from NEW to the present status: of two      *)
(* operators who act on the same page, one is refused.                      *)
ActedOnWhatWasSeen ==
  /\ \A i \in 1 .. Len(eventLog) :
       /\ eventLog[i].seen = eventLog[i].from
       /\ eventLog[i].from = IF i = 1 THEN "NEW" ELSE eventLog[i - 1].to
  /\ eventStatus = IF eventLog = <<>> THEN "NEW" ELSE Last(eventLog).to
================================================================================
