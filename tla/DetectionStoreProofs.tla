-------------------------- MODULE DetectionStoreProofs --------------------------
(***************************************************************************)
(* What the System Monitor's tables and pictures promise for any number of  *)
(* concurrent requests, any set of reports and any window, and that the     *)
(* requests implement ReportIntake.                                         *)
(***************************************************************************)
EXTENDS DetectionStore, TLAPS

(* Why it holds.  A row that a request's look did not show was stored by a  *)
(* request that was under way with it, because every look precedes the      *)
(* store of the same request; so what two requests can get wrong about each *)
(* other is confined to pairs in "together".                                *)
PastFind == {"recent", "exists", "write", "store", "conflict", "failed"}
PastRecent == {"exists", "write", "store"}

OverlapsSeen ==
  \A c, d \in Callers :
    c # d /\ step[c] # "idle" /\ step[d] # "idle" => {report[c], report[d]} \in together

EventLooked ==
  \A c \in Callers : step[c] \in PastFind =>
    \A e \in SameEvent(report[c]) : {e, report[c]} \in together

WindowLooked ==
  \A c \in Callers : step[c] \in PastRecent =>
    \A e \in Recent(report[c]) : {e, report[c]} \in together

SharedPicture(r) == \E p \in together : \A s \in p : Picture(s) = Picture(r)

PictureBeforeStore ==
  \A c \in Callers : step[c] = "store" =>
    Picture(report[c]) \in files \/ SharedPicture(report[c])

ConflictSeen ==
  \A c \in Callers : step[c] = "conflict" =>
    \E e \in events : e.event = report[c].event /\ e # report[c]

IInv ==
  /\ TypeOK
  /\ OverlapsSeen
  /\ EventLooked
  /\ WindowLooked
  /\ PictureBeforeStore
  /\ ConflictSeen
  /\ AnswersMatchRows
  /\ OneRowPerEvent
  /\ WindowHoldsApart
  /\ PictureKeptApart

Step(c) ==
  \/ \E r \in Reports : Receive(c, r)
  \/ FindReport(c)
  \/ FindRecent(c)
  \/ CheckPicture(c)
  \/ WritePicture(c)
  \/ StoreReport(c)
  \/ RemovePicture(c)
  \/ Die(c)

(* The window is symmetric: times are integers.                             *)
LEMMA NearSymmetric ==
  ASSUME NEW r \in Reports, NEW s \in Reports, Near(r, s)
  PROVE  Near(s, r)
BY WindowAssumption, TimeAssumption DEF Near

(* A caller at work has a report, and an idle one has none.                 *)
LEMMA AtWork ==
  ASSUME TypeOK, NEW c \in Callers, step[c] # "idle"
  PROVE  report[c] \in Reports
BY NoReportAssumption DEF TypeOK

(* A step of one caller leaves the others where they are, and the rows and  *)
(* the pairs seen together only grow.                                       *)
LEMMA OthersStay ==
  ASSUME TypeOK, NEW c \in Callers, Step(c)
  PROVE  /\ \A d \in Callers \ {c} : step'[d] = step[d] /\ report'[d] = report[d]
         /\ events \subseteq events'
         /\ together \subseteq together'
BY DEF Step, TypeOK, Receive, FindReport, FindRecent, CheckPicture, WritePicture,
       WriteFails, StoreReport, RemovePicture, Die, GoTo, Answer

(* Types, and idle callers without a report.                                *)
LEMMA TypeStep ==
  ASSUME TypeOK, NEW c \in Callers, Step(c)
  PROVE  TypeOK'
<1>1. ASSUME NEW r \in Reports, Receive(c, r) PROVE TypeOK'
  <2>1. UnderWay(c) \subseteq Reports
    BY AtWork DEF UnderWay
  <2>2. together' \subseteq SUBSET Reports
    BY <1>1, <2>1 DEF Receive, TypeOK
  <2>3. QED
    BY <1>1, <2>2, NoReportAssumption DEF Receive, TypeOK, Steps
<1>2. CASE FindReport(c)
  BY <1>2, AtWork DEF FindReport, TypeOK, GoTo, Answer, Verdict, Steps, Outcomes
<1>3. CASE FindRecent(c)
  BY <1>3, AtWork DEF FindRecent, TypeOK, GoTo, Answer, Steps, Outcomes
<1>4. CASE CheckPicture(c)
  BY <1>4, AtWork DEF CheckPicture, TypeOK, GoTo, Steps
<1>5. CASE WritePicture(c)
  <2>1. report[c] \in Reports
    BY <1>5, AtWork DEF WritePicture
  <2>2. /\ events' = events
        /\ files' \subseteq {Picture(r) : r \in Reports}
        /\ created' \in [Callers -> BOOLEAN]
    BY <1>5, <2>1 DEF WritePicture, TypeOK
  <2>3. CASE WriteFails(c)
    BY <2>1, <2>2, <2>3 DEF WriteFails, TypeOK, Answer, Steps, Outcomes
  <2>4. CASE GoTo(c, "store")
    BY <1>5, <2>1, <2>2, <2>4, NoReportAssumption DEF WritePicture, TypeOK, GoTo, Steps
  <2>5. QED
    BY <1>5, <2>3, <2>4 DEF WritePicture
<1>6. CASE StoreReport(c)
  <2>1. report[c] \in Reports /\ events' \subseteq Reports
    BY <1>6, AtWork DEF StoreReport, TypeOK
  <2>2. CASE Answer(c, "accepted") \/ Answer(c, "duplicate")
    BY <1>6, <2>1, <2>2 DEF StoreReport, TypeOK, Answer, Steps, Outcomes
  <2>3. CASE GoTo(c, "conflict") \/ GoTo(c, "failed")
    BY <1>6, <2>1, <2>3, NoReportAssumption DEF StoreReport, TypeOK, GoTo, Steps
  <2>4. QED
    BY <1>6, <2>2, <2>3 DEF StoreReport
<1>7. CASE RemovePicture(c)
  BY <1>7, AtWork DEF RemovePicture, TypeOK, Answer, Steps, Outcomes
<1>8. CASE Die(c)
  BY <1>8 DEF Die, TypeOK, Steps
<1>9. QED
  BY <1>1, <1>2, <1>3, <1>4, <1>5, <1>6, <1>7, <1>8 DEF Step

--------------------------------------------------------------------------------
(* A request that comes in meets every request under way, and only then do  *)
(* callers get company.                                                     *)
LEMMA OverlapsStep ==
  ASSUME TypeOK, OverlapsSeen, NEW c \in Callers, Step(c)
  PROVE  OverlapsSeen'
<1> SUFFICES ASSUME NEW a \in Callers, NEW b \in Callers, a # b,
                    step'[a] # "idle", step'[b] # "idle"
             PROVE  {report'[a], report'[b]} \in together'
  BY DEF OverlapsSeen
<1>1. ASSUME NEW r \in Reports, Receive(c, r) PROVE {report'[a], report'[b]} \in together'
  <2>1. \A d \in Callers \ {c} : step[d] # "idle" => {r, report[d]} \in together'
    BY <1>1 DEF Receive, UnderWay
  <2>2. report'[c] = r
    BY <1>1 DEF Receive, TypeOK
  <2>3. CASE a = c
    BY <2>1, <2>2, <2>3, OthersStay
  <2>4. CASE b = c
    <3>1. {r, report[a]} \in together'
      BY <2>1, <2>4, OthersStay
    <3>2. {r, report[a]} = {report'[a], report'[b]}
      BY <2>2, <2>4, OthersStay
    <3>3. QED
      BY <3>1, <3>2
  <2>5. CASE a # c /\ b # c
    BY <2>5, OthersStay DEF OverlapsSeen
  <2>6. QED
    BY <2>3, <2>4, <2>5
<1>2. CASE ~ \E r \in Reports : Receive(c, r)
  <2>1. step'[c] = "idle" \/ (step[c] # "idle" /\ report'[c] = report[c])
    BY <1>2 DEF Step, TypeOK, FindReport, FindRecent, CheckPicture, WritePicture,
         WriteFails, StoreReport, RemovePicture, Die, GoTo, Answer
  <2>2. step[a] # "idle" /\ step[b] # "idle" /\ report'[a] = report[a] /\ report'[b] = report[b]
    BY <2>1, OthersStay
  <2>3. QED
    BY <2>2, OthersStay DEF OverlapsSeen
<1>3. QED
  BY <1>1, <1>2

(* What the step does to the rows: at most one is added, and then it is the *)
(* report of a caller that was about to store and had no row of its event.  *)
LEMMA RowsStep ==
  ASSUME TypeOK, NEW c \in Callers, Step(c)
  PROVE  \/ events' = events
         \/ /\ step[c] = "store"
            /\ step'[c] = "idle"
            /\ report[c] \in Reports
            /\ SameEvent(report[c]) = {}
            /\ events' = events \cup {report[c]}
            /\ answers' = answers \cup {<<report[c], "accepted">>}
            /\ files' = files
            /\ together' = together
<1>1. step[c] # "idle" => report[c] \in Reports
  BY AtWork
<1>2. QED
  BY <1>1 DEF Step, TypeOK, Receive, FindReport, FindRecent, CheckPicture, WritePicture,
       StoreReport, StoredBefore, RemovePicture, Die, Answer

(* A caller past its look for the event knows every other row of it from a  *)
(* request that was under way with its own.                                 *)
LEMMA EventLookedStep ==
  ASSUME TypeOK, OverlapsSeen, EventLooked, NEW c \in Callers, Step(c)
  PROVE  EventLooked'
<1> SUFFICES ASSUME NEW a \in Callers, step'[a] \in PastFind,
                    NEW e \in events', e.event = report'[a].event
             PROVE  {e, report'[a]} \in together'
  BY DEF EventLooked, SameEvent
<1>1. CASE a = c
  <2>1. report'[c] = report[c] /\ events' = events /\ together' = together
    BY <1>1 DEF Step, TypeOK, PastFind, Receive, FindReport, FindRecent, CheckPicture,
         WritePicture, WriteFails, StoreReport, RemovePicture, Die, GoTo, Answer
  <2>2. step[c] \in PastFind \/ (step[c] = "find" /\ SameEvent(report[c]) = {})
    BY <1>1 DEF Step, TypeOK, PastFind, Receive, FindReport, FindRecent, CheckPicture,
         WritePicture, WriteFails, StoreReport, RemovePicture, Die, GoTo, Answer
  <2>3. QED
    BY <1>1, <2>1, <2>2 DEF EventLooked, SameEvent
<1>2. CASE a # c
  <2>1. step[a] \in PastFind /\ report'[a] = report[a]
    BY <1>2, OthersStay
  <2>2. CASE e \in events
    BY <2>1, <2>2, OthersStay DEF EventLooked, SameEvent
  <2>3. CASE e \notin events
    <3>1. step[c] = "store" /\ e = report[c] /\ together' = together
      BY <2>3, RowsStep
    <3>2. {report[c], report[a]} \in together
      BY <1>2, <2>1, <3>1 DEF OverlapsSeen, PastFind
    <3>3. QED
      BY <2>1, <3>1, <3>2
  <2>4. QED
    BY <2>2, <2>3
<1>3. QED
  BY <1>1, <1>2

(* The same for the window, past the look for recent events.                *)
LEMMA WindowLookedStep ==
  ASSUME TypeOK, OverlapsSeen, WindowLooked, NEW c \in Callers, Step(c)
  PROVE  WindowLooked'
<1> SUFFICES ASSUME NEW a \in Callers, step'[a] \in PastRecent,
                    NEW e \in events', Window > 0, Near(e, report'[a])
             PROVE  {e, report'[a]} \in together'
  BY DEF WindowLooked, Recent
<1>1. CASE a = c
  <2>1. report'[c] = report[c] /\ events' = events /\ together' = together
    BY <1>1 DEF Step, TypeOK, PastRecent, Receive, FindReport, FindRecent, CheckPicture,
         WritePicture, WriteFails, StoreReport, RemovePicture, Die, GoTo, Answer
  <2>2. step[c] \in PastRecent \/ (step[c] = "recent" /\ Recent(report[c]) = {})
    BY <1>1 DEF Step, TypeOK, PastRecent, Receive, FindReport, FindRecent, CheckPicture,
         WritePicture, WriteFails, StoreReport, RemovePicture, Die, GoTo, Answer
  <2>3. QED
    BY <1>1, <2>1, <2>2 DEF WindowLooked, Recent
<1>2. CASE a # c
  <2>1. step[a] \in PastRecent /\ report'[a] = report[a]
    BY <1>2, OthersStay
  <2>2. CASE e \in events
    BY <2>1, <2>2, OthersStay DEF WindowLooked, Recent
  <2>3. CASE e \notin events
    <3>1. step[c] = "store" /\ e = report[c] /\ together' = together
      BY <2>3, RowsStep
    <3>2. {report[c], report[a]} \in together
      BY <1>2, <2>1, <3>1 DEF OverlapsSeen, PastRecent
    <3>3. QED
      BY <2>1, <3>1, <3>2
  <2>4. QED
    BY <2>2, <2>3
<1>3. QED
  BY <1>1, <1>2

(* Before a request stores its row the picture is there: it found it or     *)
(* wrote it, and only a request for the same picture can have removed it.   *)
LEMMA PictureStep ==
  ASSUME TypeOK, OverlapsSeen, PictureBeforeStore, NEW c \in Callers, Step(c)
  PROVE  PictureBeforeStore'
<1> SUFFICES ASSUME NEW a \in Callers, step'[a] = "store",
                    Picture(report'[a]) \notin files'
             PROVE  \E p \in together' : \A s \in p : Picture(s) = Picture(report'[a])
  BY DEF PictureBeforeStore, SharedPicture, Picture
<1>1. CASE a = c
  <2>1. Picture(report'[c]) \in files'
    BY <1>1 DEF Step, TypeOK, Receive, FindReport, FindRecent, CheckPicture,
         WritePicture, WriteFails, StoreReport, RemovePicture, Die, GoTo, Answer
  <2>2. QED
    BY <1>1, <2>1
<1>2. CASE a # c
  <2>1. step[a] = "store" /\ report'[a] = report[a]
    BY <1>2, OthersStay
  <2>2. CASE Picture(report[a]) \notin files
    BY <2>1, <2>2, OthersStay DEF PictureBeforeStore, SharedPicture
  <2>3. CASE Picture(report[a]) \in files
    <3>1. step[c] # "idle" /\ Picture(report[c]) = Picture(report[a])
      BY <2>1, <2>3 DEF Step, Receive, FindReport, FindRecent, CheckPicture,
           WritePicture, StoreReport, RemovePicture, Die
    <3>2. {report[c], report[a]} \in together'
      BY <1>2, <2>1, <3>1, OthersStay DEF OverlapsSeen
    <3>3. QED
      BY <2>1, <3>1, <3>2
  <2>4. QED
    BY <2>2, <2>3
<1>3. QED
  BY <1>1, <1>2

(* The other report that a conflict was found with stays.                   *)
LEMMA ConflictStep ==
  ASSUME TypeOK, ConflictSeen, NEW c \in Callers, Step(c)
  PROVE  ConflictSeen'
<1> SUFFICES ASSUME NEW a \in Callers, step'[a] = "conflict"
             PROVE  \E e \in events' : e.event = report'[a].event /\ e # report'[a]
  BY DEF ConflictSeen
<1>1. CASE a = c
  BY <1>1 DEF Step, TypeOK, Receive, FindReport, FindRecent, CheckPicture, WritePicture,
     WriteFails, StoreReport, StoredBefore, SameEvent, RemovePicture, Die, GoTo, Answer
<1>2. CASE a # c
  BY <1>2, OthersStay DEF ConflictSeen
<1>3. QED
  BY <1>1, <1>2

(* Rows of one event: a row is added only where the transaction sees none.  *)
LEMMA OneRowStep ==
  ASSUME TypeOK, OneRowPerEvent, NEW c \in Callers, Step(c)
  PROVE  OneRowPerEvent'
BY RowsStep DEF OneRowPerEvent, SameEvent

(* Rows of one kind: the row added is near another only when the request    *)
(* of the other came in after the look of this one.                         *)
LEMMA WindowStep ==
  ASSUME TypeOK, WindowLooked, WindowHoldsApart, NEW c \in Callers, Step(c)
  PROVE  WindowHoldsApart'
<1> SUFFICES ASSUME NEW e \in events', NEW f \in events', e # f, Window > 0, Near(e, f)
             PROVE  {e, f} \in together'
  BY DEF WindowHoldsApart
<1>1. CASE e \in events /\ f \in events
  BY <1>1, OthersStay DEF WindowHoldsApart
<1>2. CASE ~ (e \in events /\ f \in events)
  <2>1. /\ step[c] = "store"
        /\ report[c] \in Reports
        /\ events' = events \cup {report[c]}
        /\ together' = together
    BY <1>2, RowsStep
  <2>2. \A g \in events : Near(g, report[c]) => {g, report[c]} \in together
    BY <2>1 DEF WindowLooked, Recent, PastRecent
  <2>3. CASE f = report[c]
    BY <2>1, <2>2, <2>3
  <2>4. CASE e = report[c]
    <3>1. f \in events /\ f \in Reports
      BY <2>1, <2>4 DEF TypeOK
    <3>2. Near(f, e)
      BY <2>1, <2>4, <3>1, NearSymmetric
    <3>3. {f, e} \in together
      BY <2>2, <2>4, <3>1, <3>2
    <3>4. {f, e} = {e, f}
      OBVIOUS
    <3>5. QED
      BY <2>1, <3>3, <3>4
  <2>5. QED
    BY <1>2, <2>1, <2>3, <2>4
<1>3. QED
  BY <1>1, <1>2

(* Pictures of rows: one is removed only by a request of the same event,    *)
(* which was under way with the one that stored the row.                    *)
LEMMA KeptStep ==
  ASSUME TypeOK, EventLooked, PictureBeforeStore, PictureKeptApart,
         NEW c \in Callers, Step(c)
  PROVE  PictureKeptApart'
<1> SUFFICES ASSUME NEW e \in events', Picture(e) \notin files'
             PROVE  \E p \in together' : \A r \in p : Picture(r) = Picture(e)
  BY DEF PictureKeptApart, Picture
<1>1. CASE e \notin events
  <2>1. step[c] = "store" /\ e = report[c] /\ files' = files /\ together' = together
    BY <1>1, RowsStep
  <2>2. QED
    BY <2>1 DEF PictureBeforeStore, SharedPicture
<1>2. CASE e \in events /\ Picture(e) \notin files
  BY <1>2, OthersStay DEF PictureKeptApart
<1>3. CASE e \in events /\ Picture(e) \in files
  <2>1. step[c] \in {"conflict", "failed"} /\ Picture(report[c]) = Picture(e)
    BY <1>3 DEF Step, Receive, FindReport, FindRecent, CheckPicture, WritePicture,
         StoreReport, RemovePicture, Die
  <2>2. e \in SameEvent(report[c])
    BY <1>3, <2>1 DEF SameEvent, Picture
  <2>3. {e, report[c]} \in together'
    BY <2>1, <2>2, OthersStay DEF EventLooked, PastFind
  <2>4. QED
    BY <2>1, <2>3
<1>4. QED
  BY <1>1, <1>2, <1>3

(* Answers: what was said of a report stays true, and what is said now is   *)
(* read from the rows.                                                      *)
LEMMA AnswersStep ==
  ASSUME TypeOK, ConflictSeen, AnswersMatchRows, NEW c \in Callers, Step(c)
  PROVE  AnswersMatchRows'
<1> DEFINE Said(o) ==
      /\ o \in {"accepted", "duplicate"} => report[c] \in events'
      /\ o = "suppressed" => \E e \in events' : Near(e, report[c])
      /\ o = "conflict" => \E e \in events' : e.event = report[c].event /\ e # report[c]
<1>1. ASSUME NEW o \in Outcomes, answers' = answers \cup {<<report[c], o>>}, Said(o)
      PROVE  AnswersMatchRows'
  <2> SUFFICES ASSUME NEW a \in answers'
               PROVE  /\ a[2] \in {"accepted", "duplicate"} => a[1] \in events'
                      /\ a[2] = "suppressed" => \E e \in events' : Near(e, a[1])
                      /\ a[2] = "conflict" =>
                           \E e \in events' : e.event = a[1].event /\ e # a[1]
    BY DEF AnswersMatchRows, Near
  <2>1. CASE a \in answers
    BY <2>1, OthersStay DEF AnswersMatchRows
  <2>2. CASE a = <<report[c], o>>
    <3>1. a[1] = report[c] /\ a[2] = o
      BY <2>2
    <3>2. QED
      BY <1>1, <3>1
  <2>3. QED
    BY <1>1, <2>1, <2>2
<1>2. CASE answers' = answers
  BY <1>2, OthersStay DEF AnswersMatchRows, Near
<1>3. CASE FindReport(c)
  <2>1. CASE answers' = answers
    BY <1>2, <2>1
  <2>2. CASE answers' # answers
    <3>1. PICK e \in SameEvent(report[c]) : Answer(c, Verdict(report[c], e))
      BY <1>3, <2>2 DEF FindReport, GoTo
    <3>2. events' = events
      BY <1>3 DEF FindReport
    <3>3. Said(Verdict(report[c], e)) /\ Verdict(report[c], e) \in Outcomes
      BY <3>1, <3>2 DEF SameEvent, Verdict, Outcomes
    <3>4. QED
      BY <1>1, <3>1, <3>3 DEF Answer
  <2>3. QED
    BY <2>1, <2>2
<1>4. CASE FindRecent(c)
  <2>1. CASE answers' = answers
    BY <1>2, <2>1
  <2>2. CASE answers' # answers
    <3>1. Recent(report[c]) # {} /\ Answer(c, "suppressed") /\ events' = events
      BY <1>4, <2>2 DEF FindRecent, GoTo
    <3>2. Said("suppressed")
      BY <3>1 DEF Recent
    <3>3. QED
      BY <1>1, <3>1, <3>2 DEF Answer, Outcomes
  <2>3. QED
    BY <2>1, <2>2
<1>5. CASE StoreReport(c)
  <2>1. CASE answers' = answers
    BY <1>2, <2>1
  <2>2. CASE answers' # answers
    <3>1. PICK o \in {"accepted", "duplicate"} : Answer(c, o) /\ report[c] \in events'
      BY <1>5, <2>2 DEF StoreReport, StoredBefore, SameEvent, GoTo
    <3>2. QED
      BY <1>1, <3>1 DEF Answer, Outcomes
  <2>3. QED
    BY <2>1, <2>2
<1>6. CASE RemovePicture(c)
  <2>1. Said(step[c]) /\ step[c] \in Outcomes
    BY <1>6 DEF RemovePicture, ConflictSeen, Outcomes
  <2>2. QED
    BY <1>1, <1>6, <2>1 DEF RemovePicture, Answer
<1>7. CASE WritePicture(c)
  <2>1. CASE answers' = answers
    BY <1>2, <2>1
  <2>2. CASE answers' # answers
    <3>1. Answer(c, "failed")
      BY <1>7, <2>2 DEF WritePicture, WriteFails, GoTo
    <3>2. QED
      BY <1>1, <3>1 DEF Answer, Outcomes
  <2>3. QED
    BY <2>1, <2>2
<1>8. CASE (\E r \in Reports : Receive(c, r)) \/ CheckPicture(c) \/ Die(c)
  BY <1>2, <1>8 DEF Receive, CheckPicture, GoTo, Die
<1>9. QED
  BY <1>3, <1>4, <1>5, <1>6, <1>7, <1>8 DEF Step

--------------------------------------------------------------------------------
(* Nothing is stored and nobody is at work to begin with.                   *)
LEMMA InitIInv == Init => IInv
BY DEF Init, IInv, TypeOK, Steps, OverlapsSeen, EventLooked, WindowLooked,
   PictureBeforeStore, ConflictSeen, AnswersMatchRows, OneRowPerEvent,
   WindowHoldsApart, PictureKeptApart, SameEvent, Recent, PastFind, PastRecent

(* Every step keeps the invariant.                                          *)
LEMMA NextIInv == IInv /\ [Next]_vars => IInv'
<1> SUFFICES ASSUME IInv, [Next]_vars PROVE IInv'
  OBVIOUS
<1>1. CASE Next
  <2>1. PICK c \in Callers : Step(c)
    BY <1>1 DEF Next, Step
  <2>2. QED
    BY <2>1, TypeStep, OverlapsStep, EventLookedStep, WindowLookedStep, PictureStep,
       ConflictStep, AnswersStep, OneRowStep, WindowStep, KeptStep DEF IInv
<1>2. CASE UNCHANGED vars
  BY <1>2 DEF vars, IInv, TypeOK, OverlapsSeen, EventLooked, WindowLooked, SharedPicture,
     PictureBeforeStore, ConflictSeen, AnswersMatchRows, OneRowPerEvent,
     WindowHoldsApart, PictureKeptApart, SameEvent, Recent
<1>3. QED
  BY <1>1, <1>2

(* The invariant holds throughout.                                          *)
THEOREM StoreInvariant == Spec => []IInv
BY InitIInv, NextIInv, PTL DEF Spec

(* What the answers say of the rows stays true (receive_report's outcomes). *)
THEOREM AnswersStand == Spec => []AnswersMatchRows
<1>1. IInv => AnswersMatchRows
  BY DEF IInv
<1>2. QED
  BY <1>1, StoreInvariant, PTL

(* An event id has one row, however many requests race for it: the look     *)
(* inside store_report's transaction is what decides.                       *)
THEOREM EventStoredOnce == Spec => []OneRowPerEvent
<1>1. IInv => OneRowPerEvent
  BY DEF IInv
<1>2. QED
  BY <1>1, StoreInvariant, PTL

(* Suppression fails only between requests that were under way together.    *)
THEOREM SuppressionApart == Spec => []WindowHoldsApart
<1>1. IInv => WindowHoldsApart
  BY DEF IInv
<1>2. QED
  BY <1>1, StoreInvariant, PTL

(* A row loses its picture only to a request for the same picture that was  *)
(* under way together with its own; failures and deaths alone do no harm.   *)
THEOREM PictureApart == Spec => []PictureKeptApart
<1>1. IInv => PictureKeptApart
  BY DEF IInv
<1>2. QED
  BY <1>1, StoreInvariant, PTL

--------------------------------------------------------------------------------
(* A neighbour in the window, said of one report or of the other.           *)
LEMMA NearIsInWindow ==
  ASSUME TypeOK, NEW r \in Reports, NEW e \in events, Near(e, r)
  PROVE  e.kind = r.kind /\ r.at \in (e.at - Window) .. (e.at + Window)
<1>1. e \in Reports
  BY DEF TypeOK
<1>2. e.at \in Int /\ r.at \in Int /\ Window \in Nat
  BY <1>1, TimeAssumption, WindowAssumption
<1>3. e.kind = r.kind /\ r.at - Window <= e.at /\ e.at <= r.at + Window
  BY DEF Near
<1>4. QED
  BY <1>2, <1>3

(* Each step of a request is one step to the callers, or none.  A conflict  *)
(* is told steps after it was seen: the row that holds the id is still      *)
(* there (ConflictSeen).                                                    *)
LEMMA IntakeStep ==
  ASSUME TypeOK, ConflictSeen, NEW c \in Callers, Step(c)
  PROVE  Intake!IntakeNext \/ UNCHANGED Intake!intakeVars
<1> DEFINE r == report[c]
<1>1. CASE (\E q \in Reports : Receive(c, q)) \/ CheckPicture(c) \/ Die(c)
  BY <1>1 DEF Receive, CheckPicture, GoTo, Die, Intake!intakeVars
<1>2. CASE FindReport(c)
  <2>1. r \in Reports /\ events' = events
    BY <1>2, AtWork DEF FindReport
  <2>2. CASE GoTo(c, "recent")
    BY <2>1, <2>2 DEF GoTo, Intake!intakeVars
  <2>3. ASSUME NEW e \in SameEvent(r), Answer(c, Verdict(r, e))
        PROVE  Intake!IntakeNext
    <3>1. e \in events /\ e.event = r.event
      BY DEF SameEvent
    <3>2. CASE e = r
      BY <2>1, <2>3, <3>1, <3>2 DEF Answer, Verdict, Intake!IntakeNext, Intake!Recognise, Intake!Tell
    <3>3. CASE e # r
      BY <2>1, <2>3, <3>1, <3>3 DEF Answer, Verdict, Intake!IntakeNext, Intake!Refuse, Intake!Tell
    <3>4. QED
      BY <3>2, <3>3
  <2>4. QED
    BY <1>2, <2>2, <2>3 DEF FindReport
<1>3. CASE FindRecent(c)
  <2>1. r \in Reports /\ events' = events
    BY <1>3, AtWork DEF FindRecent
  <2>2. CASE GoTo(c, "exists")
    BY <2>1, <2>2 DEF GoTo, Intake!intakeVars
  <2>3. CASE Recent(r) # {} /\ Answer(c, "suppressed")
    <3>1. PICK e \in events : Window > 0 /\ Near(e, r)
      BY <2>3 DEF Recent
    <3>2. e.kind = r.kind /\ r.at \in (e.at - Window) .. (e.at + Window)
      BY <2>1, <3>1, NearIsInWindow
    <3>3. QED
      BY <2>1, <2>3, <3>1, <3>2 DEF Answer, Intake!IntakeNext, Intake!Suppress, Intake!Tell
  <2>4. QED
    BY <1>3, <2>2, <2>3 DEF FindRecent
<1>4. CASE WritePicture(c)
  <2>1. r \in Reports /\ events' = events
    BY <1>4, AtWork DEF WritePicture
  <2>2. CASE GoTo(c, "store")
    BY <2>1, <2>2 DEF GoTo, Intake!intakeVars
  <2>3. CASE Answer(c, "failed")
    BY <2>1, <2>3 DEF Answer, Intake!IntakeNext, Intake!Fail, Intake!Tell
  <2>4. QED
    BY <1>4, <2>2, <2>3 DEF WritePicture, WriteFails
<1>5. CASE StoreReport(c)
  <2>1. r \in Reports
    BY <1>5, AtWork DEF StoreReport
  <2>2. CASE StoredBefore(r) = {} /\ events' = events \cup {r} /\ Answer(c, "accepted")
    BY <2>1, <2>2 DEF StoredBefore, SameEvent, Answer, Intake!IntakeNext, Intake!Accept, Intake!Tell
  <2>3. CASE StoredBefore(r) = {r} /\ Answer(c, "duplicate") /\ UNCHANGED events
    BY <2>1, <2>3
       DEF StoredBefore, SameEvent, Answer, Intake!IntakeNext, Intake!Recognise, Intake!Tell
  <2>4. CASE (GoTo(c, "conflict") \/ GoTo(c, "failed")) /\ UNCHANGED events
    BY <2>4 DEF GoTo, Intake!intakeVars
  <2>5. QED
    BY <1>5, <2>2, <2>3, <2>4 DEF StoreReport
<1>6. CASE RemovePicture(c)
  <2>1. r \in Reports /\ events' = events /\ Answer(c, step[c])
    BY <1>6, AtWork DEF RemovePicture
  <2>2. CASE step[c] = "conflict"
    BY <2>1, <2>2 DEF ConflictSeen, Answer, Intake!IntakeNext, Intake!Refuse, Intake!Tell
  <2>3. CASE step[c] = "failed"
    BY <2>1, <2>3 DEF Answer, Intake!IntakeNext, Intake!Fail, Intake!Tell
  <2>4. QED
    BY <1>6, <2>2, <2>3 DEF RemovePicture
<1>7. QED
  BY <1>1, <1>2, <1>3, <1>4, <1>5, <1>6 DEF Step

(* For any number of requests at once the service is what its callers take  *)
(* it for: one step each, by the table of that moment, and rows for good.   *)
THEOREM RequestsAreAtomic == Spec => ImplementsIntake
<1>1. Init => Intake!IntakeInit
  BY DEF Init, Intake!IntakeInit
<1>2. IInv /\ [Next]_vars => [Intake!IntakeNext]_Intake!intakeVars
  <2> SUFFICES ASSUME IInv, [Next]_vars
               PROVE  Intake!IntakeNext \/ UNCHANGED Intake!intakeVars
    OBVIOUS
  <2>1. CASE Next
    <3>1. PICK c \in Callers : Step(c)
      BY <2>1 DEF Next, Step
    <3>2. QED
      BY <3>1, IntakeStep DEF IInv
  <2>2. CASE UNCHANGED vars
    BY <2>2 DEF vars, Intake!intakeVars
  <2>3. QED
    BY <2>1, <2>2
<1>3. QED
  BY <1>1, <1>2, StoreInvariant, PTL DEF Spec, ImplementsIntake, Intake!IntakeSpec
================================================================================
