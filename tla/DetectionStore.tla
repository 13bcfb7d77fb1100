---------------------------- MODULE DetectionStore ----------------------------
(***************************************************************************)
(* The System Monitor's intake of confirmed events: detection_service.      *)
(* receive_report and models/detection.py.  The ROS adapter and the web     *)
(* server are separate processes that run the same code on one database     *)
(* and one evidence directory, so a request is taken apart at every read    *)
(* and write another request can slip between; store_report's transaction   *)
(* (BEGIN IMMEDIATE) is one step.  A step may fail, and a process may die.  *)
(***************************************************************************)
EXTENDS Integers

CONSTANTS
  Callers,  \* requests that can be under way at once
  Reports,  \* the valid requests: records of event, kind, at, spot and image
  NoReport, \* a caller without a request
  Window    \* REPORT_SUPPRESS_SECONDS, in the unit of "at"

ASSUME NoReportAssumption == NoReport \notin Reports
ASSUME WindowAssumption == Window \in Nat
ASSUME TimeAssumption == \A r \in Reports : r.at \in Int

(***************************************************************************)
(* validate_report: kind is the pair of robot_id and event_type.  The       *)
(* content hash covers every field, so two requests have one hash exactly   *)
(* when they are the same record.  The file name has the event and the      *)
(* picture in it, not the rest.                                             *)
(***************************************************************************)
Picture(r) == [event |-> r.event, image |-> r.image]

(* find_recent_report: the same kind, at most Window away either way. *)
Near(r, s) ==
  /\ r.kind = s.kind
  /\ s.at - Window <= r.at /\ r.at <= s.at + Window

VARIABLES
  events,  \* rows of the tables events and event_evidence, as reports
  files,   \* pictures in EVIDENCE_DIR
  step,    \* where each caller is in receive_report
  report,  \* its request
  created, \* did it write the picture itself?
  (* History, read only by the properties. *)
  answers, \* the outcomes callers were told
  together \* pairs of reports whose requests were under way at once

vars == <<events, files, step, report, created, answers, together>>

Steps == {"idle", "find", "recent", "exists", "write", "store",
          "conflict", "failed"}
Outcomes == {"accepted", "duplicate", "suppressed", "conflict", "failed"}

TypeOK ==
  /\ events \subseteq Reports
  /\ files \subseteq {Picture(r) : r \in Reports}
  /\ step \in [Callers -> Steps]
  /\ report \in [Callers -> Reports \cup {NoReport}]
  /\ created \in [Callers -> BOOLEAN]
  /\ answers \subseteq Reports \X Outcomes
  /\ together \subseteq SUBSET Reports
  /\ \A c \in Callers : step[c] = "idle" <=> report[c] = NoReport

Init ==
  /\ events = {}
  /\ files = {}
  /\ step = [c \in Callers |-> "idle"]
  /\ report = [c \in Callers |-> NoReport]
  /\ created = [c \in Callers |-> FALSE]
  /\ answers = {}
  /\ together = {}

--------------------------------------------------------------------------------
UnderWay(c) == {report[d] : d \in {d \in Callers \ {c} : step[d] # "idle"}}

Receive(c, r) ==
  /\ step[c] = "idle"
  /\ step' = [step EXCEPT ![c] = "find"]
  /\ report' = [report EXCEPT ![c] = r]
  /\ created' = [created EXCEPT ![c] = FALSE]
  /\ together' = together \cup {{r, s} : s \in UnderWay(c)}
  /\ UNCHANGED <<events, files, answers>>

GoTo(c, s) == step' = [step EXCEPT ![c] = s] /\ UNCHANGED <<report, answers, together>>

Answer(c, outcome) ==
  /\ step' = [step EXCEPT ![c] = "idle"]
  /\ report' = [report EXCEPT ![c] = NoReport]
  /\ answers' = answers \cup {<<report[c], outcome>>}
  /\ UNCHANGED together

SameEvent(r) == {e \in events : e.event = r.event}

(* Mutant: a known event id is a duplicate, whatever the content. *)
VerdictById(r, e) == "duplicate"

Verdict(r, e) == IF e = r THEN "duplicate" ELSE "conflict"

(* find_report, and the outcome it decides *)
FindReport(c) ==
  /\ step[c] = "find"
  /\ \/ SameEvent(report[c]) = {} /\ GoTo(c, "recent")
     \/ \E e \in SameEvent(report[c]) : Answer(c, Verdict(report[c], e))
  /\ UNCHANGED <<events, files, created>>

(* Mutant: the window looks only at earlier events. *)
RecentBackward(r) == {e \in events : Window > 0 /\ Near(e, r) /\ e.at <= r.at}

Recent(r) == {e \in events : Window > 0 /\ Near(e, r)}

(* The suppression check, made once and outside the transaction. *)
FindRecent(c) ==
  /\ step[c] = "recent"
  /\ IF Recent(report[c]) = {} THEN GoTo(c, "exists") ELSE Answer(c, "suppressed")
  /\ UNCHANGED <<events, files, created>>

CheckPicture(c) ==
  /\ step[c] = "exists"
  /\ GoTo(c, IF Picture(report[c]) \in files THEN "store" ELSE "write")
  /\ UNCHANGED <<events, files, created>>

(* Mutant: the error of the write is swallowed. *)
WriteFailsSilently(c) == GoTo(c, "store")

WriteFails(c) == Answer(c, "failed")

(* The temporary file and os.replace; nothing is left of a failed attempt. *)
WritePicture(c) ==
  /\ step[c] = "write"
  /\ \/ /\ files' = files \cup {Picture(report[c])}
        /\ created' = [created EXCEPT ![c] = TRUE]
        /\ GoTo(c, "store")
     \/ WriteFails(c) /\ UNCHANGED <<files, created>>
  /\ UNCHANGED events

StoredBefore(r) == SameEvent(r)

(* store_report.  Disjuncts: the row is inserted; it is there already;      *)
(* another report has its event id; the database raises (locked, disk).     *)
StoreReport(c) ==
  /\ step[c] = "store"
  /\ \/ /\ StoredBefore(report[c]) = {}
        /\ events' = events \cup {report[c]}
        /\ Answer(c, "accepted")
     \/ /\ StoredBefore(report[c]) = {report[c]}
        /\ Answer(c, "duplicate")
        /\ UNCHANGED events
     \/ /\ StoredBefore(report[c]) \ {report[c]} # {}
        /\ GoTo(c, "conflict")
        /\ UNCHANGED events
     \/ GoTo(c, "failed") /\ UNCHANGED events
  /\ UNCHANGED <<files, created>>

(* The exception leaves receive_report: unlink the picture if this request  *)
(* created it.                                                              *)
RemovePicture(c) ==
  /\ step[c] \in {"conflict", "failed"}
  /\ files' = IF created[c] THEN files \ {Picture(report[c])} ELSE files
  /\ Answer(c, step[c])
  /\ UNCHANGED <<events, created>>

(* The process dies: an open transaction is rolled back, a picture stays.   *)
Die(c) ==
  /\ step[c] # "idle"
  /\ step' = [step EXCEPT ![c] = "idle"]
  /\ report' = [report EXCEPT ![c] = NoReport]
  /\ UNCHANGED <<events, files, created, answers, together>>

Next ==
  \E c \in Callers :
    \/ \E r \in Reports : Receive(c, r)
    \/ FindReport(c)
    \/ FindRecent(c)
    \/ CheckPicture(c)
    \/ WritePicture(c)
    \/ StoreReport(c)
    \/ RemovePicture(c)
    \/ Die(c)

Spec == Init /\ [][Next]_vars

--------------------------------------------------------------------------------
(***************************************************************************)
(* Properties.                                                              *)
(***************************************************************************)

(* What a caller was told agrees with the table for good: accepted and      *)
(* duplicate reports are in it, a suppressed one has a stored neighbour of  *)
(* its kind, and a conflicting one lost its event id to another report.     *)
(* Callers race for the id between find_report and store_report.            *)
AnswersMatchRows ==
  \A a \in answers :
    /\ a[2] \in {"accepted", "duplicate"} => a[1] \in events
    /\ a[2] = "suppressed" => \E e \in events : Near(e, a[1])
    /\ a[2] = "conflict" => \E e \in events : e.event = a[1].event /\ e # a[1]

(* The requests, cut into steps that others slip between, still are one     *)
(* step each to their callers: the answer "is the result of the storing"    *)
(* (README of the System Monitor, on ReportDetection).                      *)
Intake == INSTANCE ReportIntake
ImplementsIntake == Intake!IntakeSpec

(* Two rows never share an event id, so a report that was stored cannot be  *)
(* contradicted by another.                                                 *)
OneRowPerEvent == \A e, f \in events : e.event = f.event => e = f

(* Within the suppression window a kind has two rows only when the two      *)
(* requests were under way together: the window is checked before the       *)
(* transaction and not again inside it.                                     *)
WindowHoldsApart ==
  \A e, f \in events :
    e # f /\ Window > 0 /\ Near(e, f) => {e, f} \in together

(* The picture of a stored event is in the directory, through failures of   *)
(* other requests and deaths between writing it and storing the row, unless *)
(* the request was under way together with another for the same picture.    *)
PictureKeptApart ==
  \A e \in events :
    \/ Picture(e) \in files
    \/ \E p \in together : \A r \in p : Picture(r) = Picture(e)

(* A stored event has its picture: "one picture file and one events row"    *)
(* (receive_report's docstring).                                            *)
PictureKept == \A e \in events : Picture(e) \in files
================================================================================
