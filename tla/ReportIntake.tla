------------------------------ MODULE ReportIntake -------------------------------
(***************************************************************************)
(* What ReportDetection promises its callers, without the steps of a        *)
(* request: the answer is the result of the storing.  A report is stored at *)
(* once and for good or not at all, one for each event id, and an answer is *)
(* right by the table of the moment it is given.                            *)
(***************************************************************************)
EXTENDS Integers

CONSTANTS
  Reports, \* the valid requests: records of event, kind, at, spot and image
  Window   \* REPORT_SUPPRESS_SECONDS

VARIABLES
  events,  \* the stored reports
  answers  \* the outcomes callers were told

intakeVars == <<events, answers>>

IntakeInit == events = {} /\ answers = {}

Tell(r, outcome) == answers' = answers \cup {<<r, outcome>>}

(* No other report may ever take the event id. *)
Accept(r) ==
  /\ \A e \in events : e.event # r.event
  /\ events' = events \cup {r}
  /\ Tell(r, "accepted")

Recognise(r) == r \in events /\ Tell(r, "duplicate") /\ UNCHANGED events

Suppress(r) ==
  /\ Window > 0
  /\ \E e \in events : e.kind = r.kind /\ r.at \in (e.at - Window) .. (e.at + Window)
  /\ Tell(r, "suppressed")
  /\ UNCHANGED events

Refuse(r) ==
  /\ \E e \in events : e.event = r.event /\ e # r
  /\ Tell(r, "conflict")
  /\ UNCHANGED events

Fail(r) == Tell(r, "failed") /\ UNCHANGED events

IntakeNext ==
  \E r \in Reports : Accept(r) \/ Recognise(r) \/ Suppress(r) \/ Refuse(r) \/ Fail(r)

IntakeSpec == IntakeInit /\ [][IntakeNext]_intakeVars
================================================================================
