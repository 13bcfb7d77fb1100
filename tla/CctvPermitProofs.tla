---------------------------- MODULE CctvPermitProofs ---------------------------
(***************************************************************************)
(* What is proved of the gate camera, of cam_master and of the center       *)
(* camera, each alone; and that what is proved of one process of PC 4 holds *)
(* in PC 4 as a whole.                                                      *)
(***************************************************************************)
EXTENDS CctvPermit, SequenceTheorems, TLAPS

--------------------------------------------------------------------------------
(* The gate camera, alone: it never tells the wrong direction, for every set *)
(* of positions, every placement of the two lines, every confirmation time   *)
(* and cooldown, whatever the detector sees and however many frames it       *)
(* misses.                                                                   *)

(* Why it holds.  A passage that is half recorded belongs to a car on this    *)
(* side of the other line, which needs that no crossing was overlooked since: *)
(* a history can only be kept outside the cooldown.  And what is recorded was *)
(* seen: the last position counts as seen since the last event.               *)
RecordFitsPending ==
  /\ pending = "none" => crossings \in {<<>>, <<"L">>, <<"R">>}
  /\ pending = "ENTERING" => crossings = <<"L", "R">>
  /\ pending = "EXITED" => crossings = <<"R", "L">>

RecordOutsideCooldown == crossings # <<>> => gateQuiet = Cooldown /\ lastCx # NoX

RecordWasSeen ==
  /\ lastCx # NoX => EndOf(lastCx) \subseteq sides
  /\ crossings \in {<<"L">>, <<"L", "R">>, <<"R", "L">>} => "left" \in sides
  /\ crossings \in {<<"R">>, <<"L", "R">>, <<"R", "L">>} => "right" \in sides

GateInv ==
  /\ GateTypeOK
  /\ RecordFitsPending
  /\ RecordOutsideCooldown
  /\ RecordWasSeen
  /\ HalfPassageFits
  /\ GateTellsDirection

--------------------------------------------------------------------------------
(* A counter of frames stays within its limit and does not leave it.          *)
LEMMA LaterStays ==
  ASSUME NEW limit \in Nat, NEW age \in 0 .. limit
  PROVE  /\ Later(age, limit) \in 0 .. limit
         /\ age = limit => Later(age, limit) = limit
BY DEF Later

(* Appending to a sequence of one element.                                    *)
LEMMA AppendPair == ASSUME NEW a, NEW b PROVE Append(<<a>>, b) = <<a, b>>
<1> DEFINE s == Append(<<a>>, b)
           t == <<a, b>>
<1>1. s \in Seq({a, b}) /\ Len(s) = 2 /\ s[1] = a /\ s[2] = b
  OBVIOUS
<1>2. t \in Seq({a, b}) /\ Len(t) = 2 /\ t[1] = a /\ t[2] = b
  OBVIOUS
<1> HIDE DEF s, t
<1>3. s = t
  BY <1>1, <1>2, SeqEqual
<1>4. QED
  BY <1>3 DEF s, t

(* What the two calls of append leave in _crossing_history.                   *)
LEMMA NotedCases ==
  ASSUME NEW x, crossings \in {<<>>, <<"L">>, <<"R">>}
  PROVE  LET l == Crossed(lastCx, x, LeftLine)
             r == Crossed(lastCx, x, RightLine)
         IN  /\ crossings = <<>> =>
                  Noted(x) = IF l THEN (IF r THEN <<"L", "R">> ELSE <<"L">>)
                             ELSE (IF r THEN <<"R">> ELSE <<>>)
             /\ crossings = <<"L">> => Noted(x) = IF r THEN <<"L", "R">> ELSE <<"L">>
             /\ crossings = <<"R">> => Noted(x) = IF l THEN <<"R", "L">> ELSE <<"R">>
<1> DEFINE l == Crossed(lastCx, x, LeftLine)
           r == Crossed(lastCx, x, RightLine)
<1>0. /\ Append(<<"R">>, "L") = <<"R", "L">>
      /\ Append(<<"L">>, "R") = <<"L", "R">>
      /\ \A i \in DOMAIN <<"L">> : <<"L">>[i] # "R"
      /\ \A i \in DOMAIN <<"R">> : <<"R">>[i] # "L"
  BY AppendPair
<1>1. Note(<<>>, "L", l) = IF l THEN <<"L">> ELSE <<>>
  BY DEF Note
<1>2. Note(<<"L">>, "L", l) = <<"L">>
  BY DEF Note
<1>3. Note(<<"R">>, "L", l) = IF l THEN <<"R", "L">> ELSE <<"R">>
  BY <1>0 DEF Note
<1>4. Note(<<>>, "R", r) = IF r THEN <<"R">> ELSE <<>>
  BY DEF Note
<1>5. Note(<<"L">>, "R", r) = IF r THEN <<"L", "R">> ELSE <<"L">>
  BY <1>0 DEF Note
<1>6. /\ Note(<<"R">>, "R", r) = <<"R">>
      /\ Note(<<"R", "L">>, "R", r) = <<"R", "L">>
  BY DEF Note
<1>7. Noted(x) = Note(Note(crossings, "L", l), "R", r)
  BY DEF Noted
<1> HIDE DEF l, r
<1>8. QED
  BY <1>1, <1>2, <1>3, <1>4, <1>5, <1>6, <1>7 DEF l, r

--------------------------------------------------------------------------------
(* The invariant holds at the start. *)
LEMMA GateInvInit == GateInit => GateInv
BY GateAssumption, TimeAssumption
   DEF GateInit, GateInv, GateTypeOK, RecordFitsPending, RecordOutsideCooldown,
       RecordWasSeen, HalfPassageFits, GateTellsDirection, GateStates, Ends

(* Frames that are not read, or show nothing, and a new process forget a      *)
(* record or leave it as it is.                                               *)
LEMMA UnseenFrameStep ==
  ASSUME GateInv, GateReadFails \/ GateMisses \/ GateRestarts
  PROVE  GateInv'
<1> USE GateAssumption, TimeAssumption
<1>1. Later(gateQuiet, Cooldown) \in 0 .. Cooldown /\ Later(pendingFor, Confirm) \in 0 .. Confirm
  BY LaterStays DEF GateInv, GateTypeOK
<1>2. gateQuiet = Cooldown => Later(gateQuiet, Cooldown) = Cooldown
  BY LaterStays DEF GateInv, GateTypeOK
<1>3. CASE GateReadFails
  BY <1>1, <1>2, <1>3
     DEF GateReadFails, GateInv, GateTypeOK, RecordFitsPending, RecordOutsideCooldown,
         RecordWasSeen, HalfPassageFits, GateTellsDirection
<1>4. CASE GateMisses
  <2>1. CASE pending # "none"
    BY <1>1, <1>4, <2>1
       DEF GateMisses, DropPending, ForgetCrossings, GateInv, GateTypeOK, RecordFitsPending,
           RecordOutsideCooldown, RecordWasSeen, HalfPassageFits, GateTellsDirection
  <2>2. CASE pending = "none"
    BY <1>1, <1>2, <1>4, <2>2
       DEF GateMisses, GateInv, GateTypeOK, RecordFitsPending, RecordOutsideCooldown,
           RecordWasSeen, HalfPassageFits, GateTellsDirection
  <2>3. QED
    BY <2>1, <2>2
<1>5. CASE GateRestarts
  BY <1>5
     DEF GateRestarts, GateInv, GateTypeOK, RecordFitsPending, RecordOutsideCooldown,
         RecordWasSeen, HalfPassageFits, GateTellsDirection
<1>6. QED
  BY <1>3, <1>4, <1>5

(* The record is dropped, or held on to, while a passage is pending.          *)
LEMMA PendingStep ==
  ASSUME GateInv, NEW x \in Xs, GateConfirms(x) \/ GateHolds(x) \/ GateGivesUp(x)
  PROVE  GateInv'
<1> USE GateAssumption, TimeAssumption
<1>1. /\ Later(gateQuiet, Cooldown) \in 0 .. Cooldown
      /\ gateQuiet = Cooldown => Later(gateQuiet, Cooldown) = Cooldown
  BY LaterStays DEF GateInv, GateTypeOK
<1>2. x # NoX /\ x \in Int /\ EndOf(x) \subseteq Ends
  BY DEF EndOf, Ends
<1>3. "left" \in sides /\ "right" \in sides
  BY DEF GateInv, GateTypeOK, GateStates, RecordFitsPending, RecordWasSeen, GateConfirms,
         GateHolds, GateGivesUp
<1>4. CASE GateConfirms(x)
  <2>1. pending = "ENTERING" => "right" \in EndOf(x)
    BY <1>2, <1>4 DEF GateConfirms, Beyond, EndOf
  <2>2. pending = "EXITED" => "left" \in EndOf(x)
    BY <1>2, <1>4 DEF GateConfirms, Beyond, EndOf, GateInv, GateTypeOK, GateStates
  <2>3. GateTypeOK' /\ GateTellsDirection'
    BY <1>2, <1>3, <1>4, <2>1, <2>2
       DEF GateConfirms, DropPending, ForgetCrossings, GateInv, GateTypeOK, GateTellsDirection
  <2>4. QED
    BY <1>4, <2>3
       DEF GateConfirms, DropPending, ForgetCrossings, GateInv, RecordFitsPending,
           RecordOutsideCooldown, RecordWasSeen, HalfPassageFits
<1>5. CASE GateHolds(x)
  <2>1. pendingFor + 1 \in 0 .. Confirm
    BY <1>5 DEF GateHolds, GateInv, GateTypeOK
  <2>2. crossings \notin {<<>>, <<"L">>, <<"R">>}
    BY <1>5 DEF GateHolds, GateInv, GateTypeOK, GateStates, RecordFitsPending
  <2>3. GateTypeOK'
    BY <1>1, <1>2, <1>5, <2>1 DEF GateHolds, GateInv, GateTypeOK
  <2>4. RecordFitsPending' /\ RecordOutsideCooldown' /\ RecordWasSeen'
    BY <1>1, <1>2, <1>5
       DEF GateHolds, GateInv, RecordFitsPending, RecordOutsideCooldown, RecordWasSeen
  <2>5. HalfPassageFits' /\ GateTellsDirection'
    BY <1>5, <2>2 DEF GateHolds, GateInv, HalfPassageFits, GateTellsDirection
  <2>6. QED
    BY <2>3, <2>4, <2>5 DEF GateInv
<1>6. CASE GateGivesUp(x)
  BY <1>1, <1>2, <1>6
     DEF GateGivesUp, DropPending, ForgetCrossings, GateInv, GateTypeOK, RecordFitsPending,
         RecordOutsideCooldown, RecordWasSeen, HalfPassageFits, GateTellsDirection
<1>7. QED
  BY <1>4, <1>5, <1>6

(* A crossing is noted only outside the cooldown, and completes the record    *)
(* when the car is on the far side of the other line.                         *)
LEMMA TracksStep ==
  ASSUME GateInv, NEW x \in Xs, GateTracks(x)
  PROVE  GateInv'
<1> USE GateAssumption, TimeAssumption
<1>1. /\ Later(gateQuiet, Cooldown) \in 0 .. Cooldown
      /\ gateQuiet = Cooldown => Later(gateQuiet, Cooldown) = Cooldown
  BY LaterStays DEF GateInv, GateTypeOK
<1>2. x # NoX /\ x \in Int /\ EndOf(x) \subseteq Ends
  BY DEF EndOf, Ends
<1>3. pending = "none" /\ crossings \in {<<>>, <<"L">>, <<"R">>}
  BY DEF GateTracks, GateInv, RecordFitsPending
<1>4. CASE lastCx = NoX \/ Cooling
  <2>1. crossings = <<>>
    BY <1>1, <1>4 DEF Cooling, GateInv, RecordOutsideCooldown
  <2>2. GateTypeOK' /\ GateTellsDirection'
    BY <1>1, <1>2, <1>4 DEF GateTracks, GateInv, GateTypeOK, GateTellsDirection
  <2>3. QED
    BY <1>2, <1>3, <1>4, <2>1, <2>2
       DEF GateTracks, GateInv, RecordFitsPending, RecordOutsideCooldown, RecordWasSeen,
           HalfPassageFits
<1>5. CASE lastCx # NoX /\ ~Cooling
  <2> DEFINE l == Crossed(lastCx, x, LeftLine)
             r == Crossed(lastCx, x, RightLine)
  <2>1. lastCx \in Int /\ EndOf(lastCx) \subseteq sides
    BY <1>5 DEF GateInv, GateTypeOK, RecordWasSeen
  <2>2. gateQuiet' = Cooldown
    BY <1>1, <1>5 DEF GateTracks, Cooling
  <2>3. /\ crossings' = Noted(x) /\ pending' = Passage(Noted(x)) /\ pendingFor' = 0
        /\ lastCx' = x /\ sides' = sides \cup EndOf(x) /\ gateSaid' = gateSaid
    BY <1>5 DEF GateTracks
  <2>4. /\ crossings = <<>> =>
             Noted(x) = IF l THEN (IF r THEN <<"L", "R">> ELSE <<"L">>)
                        ELSE (IF r THEN <<"R">> ELSE <<>>)
        /\ crossings = <<"L">> => Noted(x) = IF r THEN <<"L", "R">> ELSE <<"L">>
        /\ crossings = <<"R">> => Noted(x) = IF l THEN <<"R", "L">> ELSE <<"R">>
    BY <1>3, NotedCases
  <2>5. l => "left" \in sides'
    BY <1>2, <2>1, <2>3 DEF Crossed, EndOf
  <2>6. r => "right" \in sides'
    BY <1>2, <2>1, <2>3 DEF Crossed, EndOf
  <2>7. /\ l /\ ~r => x < RightLine
        /\ r /\ ~l => x > LeftLine
        /\ lastCx < RightLine /\ ~r => x < RightLine
        /\ lastCx > LeftLine /\ ~l => x > LeftLine
    BY <1>2, <2>1 DEF Crossed
  <2> HIDE DEF l, r
  <2>8. GateTypeOK' /\ RecordFitsPending'
    BY <1>2, <1>3, <2>2, <2>3, <2>4
       DEF Passage, GateInv, GateTypeOK, GateStates, RecordFitsPending
  <2>9. RecordOutsideCooldown'
    BY <1>2, <2>2, <2>3 DEF RecordOutsideCooldown
  <2>10. RecordWasSeen'
    BY <1>3, <2>3, <2>4, <2>5, <2>6 DEF GateInv, RecordWasSeen
  <2>11. HalfPassageFits'
    BY <1>3, <2>3, <2>4, <2>7 DEF GateInv, HalfPassageFits
  <2>12. GateTellsDirection'
    BY <2>3 DEF GateInv, GateTellsDirection
  <2>13. QED
    BY <2>8, <2>9, <2>10, <2>11, <2>12 DEF GateInv
<1>6. QED
  BY <1>4, <1>5

(* Every frame, and a restart, keeps the invariant. *)
LEMMA GateInvStep == GateInv /\ [GateNext]_gateVars => GateInv'
<1> SUFFICES ASSUME GateInv, [GateNext]_gateVars PROVE GateInv'
  OBVIOUS
<1>1. CASE UNCHANGED gateVars
  BY <1>1
     DEF gateVars, GateInv, GateTypeOK, RecordFitsPending, RecordOutsideCooldown,
         RecordWasSeen, HalfPassageFits, GateTellsDirection
<1>2. CASE GateReadFails \/ GateMisses \/ GateRestarts
  BY <1>2, UnseenFrameStep
<1>3. ASSUME NEW x \in Xs, GateConfirms(x) \/ GateHolds(x) \/ GateGivesUp(x)
      PROVE  GateInv'
  BY <1>3, PendingStep
<1>4. ASSUME NEW x \in Xs, GateTracks(x)
      PROVE  GateInv'
  BY <1>4, TracksStep
<1>5. QED
  BY <1>1, <1>2, <1>3, <1>4 DEF GateNext, GateQuietFrame

(* The camera alone never tells the wrong direction, and never keeps half a   *)
(* record of a car that has gone through (gate_cam.py, _on_detection).        *)
THEOREM GateAloneTellsDirection == GateSpec => [](GateTellsDirection /\ HalfPassageFits)
<1>1. GateInv => GateTellsDirection /\ HalfPassageFits
  BY DEF GateInv
<1>2. QED
  BY <1>1, GateInvInit, GateInvStep, PTL DEF GateSpec

--------------------------------------------------------------------------------
(* cam_master, alone.                                                        *)
OnTheWay(t) == Range(topics[t])

Applied(m) == accepted = m.stamp /\ permit = PatrolAllowedBy(m.state)

(* Why it holds.  Every message that counts is as old as the newest event or  *)
(* older, and the newest event is on its way, or it was the last one applied; *)
(* then everything still on its way is outdated, and a message with a known   *)
(* id is either outdated or the newest event itself.                          *)
NothingNewer ==
  /\ clock \in Nat /\ accepted \in Nat /\ newest.stamp \in 0 .. clock
  /\ accepted <= newest.stamp
  /\ \A i \in seenIds : i \in Nat /\ i <= newest.stamp
  /\ \A t \in Topics : \A m \in OnTheWay(t) :
       /\ m.stamp \in Nat \ {0} /\ m.stamp <= clock
       /\ Belongs(t, m) => m.stamp <= newest.stamp
       /\ m.stamp = newest.stamp => m = newest /\ t = newest.camera

NewestArrives ==
  /\ newest = NoMessage => permit = TRUE /\ accepted = 0
  /\ newest # NoMessage =>
       /\ newest.stamp # 0 /\ newest.camera \in Topics
       /\ Belongs(newest.camera, newest)
       /\ newest \in OnTheWay(newest.camera) \/ Applied(newest)
       /\ newest.stamp \in seenIds \/ accepted = newest.stamp => Applied(newest)

MasterInv ==
  /\ topics \in [Topics -> Seq([camera : Topics, state : EventStates, stamp : Nat])]
  /\ NothingNewer
  /\ NewestArrives

--------------------------------------------------------------------------------
(* What is in a queue after a message was taken from it, or added to it.      *)
LEMMA TailRange ==
  ASSUME NEW S, NEW q \in Seq(S), q # <<>>
  PROVE  /\ Tail(q) \in Seq(S) /\ Head(q) \in Range(q)
         /\ Range(Tail(q)) \subseteq Range(q)
         /\ Range(q) \subseteq Range(Tail(q)) \cup {Head(q)}
<1>1. Len(q) \in Nat \ {0} /\ DOMAIN q = 1 .. Len(q)
  BY EmptySeq, LenProperties
<1>2. /\ Tail(q) \in Seq(S) /\ Head(q) = q[1]
      /\ Len(Tail(q)) = Len(q) - 1
      /\ \A i \in 1 .. Len(q) - 1 : Tail(q)[i] = q[i + 1]
  OBVIOUS
<1>3. DOMAIN Tail(q) = 1 .. Len(q) - 1
  BY <1>1, <1>2, LenProperties
<1>4. ASSUME NEW i \in DOMAIN Tail(q) PROVE i + 1 \in DOMAIN q /\ Tail(q)[i] = q[i + 1]
  BY <1>1, <1>2, <1>3
<1>5. ASSUME NEW i \in DOMAIN q
      PROVE  i = 1 \/ (i - 1 \in DOMAIN Tail(q) /\ Tail(q)[i - 1] = q[i])
  BY <1>1, <1>2, <1>3
<1>6. Head(q) \in Range(q)
  BY <1>1, <1>2 DEF Range
<1>7. Range(Tail(q)) \subseteq Range(q)
  BY <1>4 DEF Range
<1>8. Range(q) \subseteq Range(Tail(q)) \cup {Head(q)}
  BY <1>2, <1>5 DEF Range
<1>9. QED
  BY <1>2, <1>6, <1>7, <1>8

(* A longer queue holds what it held, and the new message. *)
LEMMA AppendRange ==
  ASSUME NEW S, NEW q \in Seq(S), NEW m \in S
  PROVE  Append(q, m) \in Seq(S) /\ Range(Append(q, m)) = Range(q) \cup {m}
<1>1. /\ Append(q, m) \in Seq(S) /\ Len(Append(q, m)) = Len(q) + 1
      /\ \A i \in 1 .. Len(q) : Append(q, m)[i] = q[i]
      /\ Append(q, m)[Len(q) + 1] = m
  BY AppendProperties
<1>2. Len(q) \in Nat /\ DOMAIN q = 1 .. Len(q) /\ DOMAIN Append(q, m) = 1 .. Len(q) + 1
  BY <1>1, LenProperties
<1>3. ASSUME NEW i \in DOMAIN Append(q, m)
      PROVE  Append(q, m)[i] = m \/ (i \in DOMAIN q /\ Append(q, m)[i] = q[i])
  BY <1>1, <1>2
<1>4. ASSUME NEW i \in DOMAIN q
      PROVE  i \in DOMAIN Append(q, m) /\ Append(q, m)[i] = q[i]
  BY <1>1, <1>2
<1>5. Len(q) + 1 \in DOMAIN Append(q, m)
  BY <1>2
<1>6. QED
  BY <1>1, <1>3, <1>4, <1>5 DEF Range

--------------------------------------------------------------------------------
(* A started cam_master satisfies the invariant. *)
LEMMA MasterInvInit == MasterInit => MasterInv
<1>1. Range(<<>>) = {}
  BY DEF Range
<1>2. QED
  BY <1>1
     DEF MasterInit, MasterInv, NothingNewer, NewestArrives, OnTheWay, NoMessage

(* A camera publishes: its event is the newest, and is on its way.            *)
LEMMA PublishStep ==
  ASSUME MasterInv, NEW c \in Topics, NEW s \in AllowedStates[c], Publish(c, s)
  PROVE  MasterInv'
<1> DEFINE Msgs == [camera : Topics, state : EventStates, stamp : Nat]
           m == [camera |-> c, state |-> s, stamp |-> clock + 1]
<1>1. clock \in Nat /\ s \in EventStates /\ m \in Msgs
  <2>1. clock \in Nat /\ clock + 1 \in Nat
    BY DEF MasterInv, NothingNewer
  <2>2. s \in EventStates
    BY DEF AllowedStates, EventStates, Topics
  <2>3. QED
    BY <2>1, <2>2
<1>2. m.camera = c /\ m.state = s /\ m.stamp = clock + 1
  OBVIOUS
<1>3. /\ topics' = [topics EXCEPT ![c] = Append(@, m)] /\ newest' = m
      /\ clock' = clock + 1 /\ UNCHANGED <<permit, seenIds, accepted>>
  BY DEF Publish
<1>4. Belongs(c, m)
  BY <1>2 DEF Belongs
<1> HIDE DEF m
<1>5. topics \in [Topics -> Seq(Msgs)]
  BY DEF MasterInv
<1>6. topics' \in [Topics -> Seq(Msgs)]
  BY <1>1, <1>3, <1>5, AppendRange
<1>7. \A t \in Topics :
        OnTheWay(t)' = IF t = c THEN OnTheWay(t) \cup {m} ELSE OnTheWay(t)
  <2>1. topics'[c] = Append(topics[c], m)
    BY <1>3, <1>5
  <2>2. Range(Append(topics[c], m)) = Range(topics[c]) \cup {m}
    <3>1. topics[c] \in Seq(Msgs) /\ m \in Msgs
      BY <1>1, <1>5
    <3> HIDE DEF Msgs
    <3>2. QED
      BY <3>1, AppendRange
  <2>3. \A t \in Topics : t # c => topics'[t] = topics[t]
    BY <1>3, <1>5
  <2>4. QED
    BY <2>1, <2>2, <2>3 DEF OnTheWay
<1>8. m \in OnTheWay(c)'
  BY <1>7
<1>9. NothingNewer'
  <2>1. /\ clock' \in Nat /\ accepted' \in Nat /\ newest'.stamp \in 0 .. clock'
        /\ accepted' <= newest'.stamp
        /\ \A i \in seenIds' : i \in Nat /\ i <= newest'.stamp
    BY <1>1, <1>2, <1>3 DEF MasterInv, NothingNewer
  <2>2. ASSUME NEW t \in Topics, NEW n \in OnTheWay(t)'
        PROVE  /\ n.stamp \in Nat \ {0} /\ n.stamp <= clock'
               /\ Belongs(t, n) => n.stamp <= newest'.stamp
               /\ n.stamp = newest'.stamp => n = newest' /\ t = newest'.camera
    BY <1>1, <1>2, <1>3, <1>7 DEF MasterInv, NothingNewer
  <2>3. QED
    BY <2>1, <2>2 DEF NothingNewer, Belongs
<1>10. NewestArrives'
  <2>1. newest' # NoMessage /\ newest'.stamp # 0
    BY <1>1, <1>2, <1>3 DEF NoMessage
  <2>2. newest'.stamp \notin seenIds' /\ accepted' # newest'.stamp
    BY <1>1, <1>2, <1>3 DEF MasterInv, NothingNewer
  <2>3. newest'.camera = c /\ Belongs(c, newest') /\ newest' \in OnTheWay(c)'
    BY <1>2, <1>3, <1>4, <1>8
  <2>4. QED
    BY <2>1, <2>2, <2>3 DEF NewestArrives, Belongs
<1>11. QED
  BY <1>6, <1>9, <1>10 DEF MasterInv

(* A message that does not belong on its topic changes nothing that counts.   *)
LEMMA StrayStep ==
  ASSUME MasterInv, NEW t \in Topics, NEW c \in Topics, NEW s \in EventStates,
         PublishStray(t, c, s)
  PROVE  MasterInv'
<1> DEFINE Msgs == [camera : Topics, state : EventStates, stamp : Nat]
           m == [camera |-> c, state |-> s, stamp |-> clock + 1]
<1>1. clock \in Nat /\ m \in Msgs
  <2>1. clock \in Nat /\ clock + 1 \in Nat
    BY DEF MasterInv, NothingNewer
  <2>2. QED
    BY <2>1
<1>2. ~Belongs(t, m) /\ m.stamp = clock + 1
  BY DEF Belongs, PublishStray
<1>3. /\ topics' = [topics EXCEPT ![t] = Append(@, m)] /\ clock' = clock + 1
      /\ UNCHANGED <<permit, seenIds, accepted, newest>>
  BY DEF PublishStray
<1> HIDE DEF m
<1>4. topics \in [Topics -> Seq(Msgs)]
  BY DEF MasterInv
<1>5. topics' \in [Topics -> Seq(Msgs)]
  BY <1>1, <1>3, <1>4, AppendRange
<1>6. \A u \in Topics :
        OnTheWay(u)' = IF u = t THEN OnTheWay(u) \cup {m} ELSE OnTheWay(u)
  <2>1. topics'[t] = Append(topics[t], m)
    BY <1>3, <1>4
  <2>2. Range(Append(topics[t], m)) = Range(topics[t]) \cup {m}
    <3>1. topics[t] \in Seq(Msgs) /\ m \in Msgs
      BY <1>1, <1>4
    <3> HIDE DEF Msgs
    <3>2. QED
      BY <3>1, AppendRange
  <2>3. \A u \in Topics : u # t => topics'[u] = topics[u]
    BY <1>3, <1>4
  <2>4. QED
    BY <2>1, <2>2, <2>3 DEF OnTheWay
<1>7. \A u \in Topics : OnTheWay(u) \subseteq OnTheWay(u)'
  BY <1>6
<1>8. NothingNewer'
  <2>1. /\ clock' \in Nat /\ accepted' \in Nat /\ newest'.stamp \in 0 .. clock'
        /\ accepted' <= newest'.stamp
        /\ \A i \in seenIds' : i \in Nat /\ i <= newest'.stamp
    BY <1>1, <1>3 DEF MasterInv, NothingNewer
  <2>2. ASSUME NEW u \in Topics, NEW n \in OnTheWay(u)'
        PROVE  /\ n.stamp \in Nat \ {0} /\ n.stamp <= clock'
               /\ Belongs(u, n) => n.stamp <= newest'.stamp
               /\ n.stamp = newest'.stamp => n = newest' /\ u = newest'.camera
    <3>1. CASE n \in OnTheWay(u)
      BY <1>1, <1>3, <3>1 DEF MasterInv, NothingNewer
    <3>2. CASE u = t /\ n = m
      BY <1>1, <1>2, <1>3, <3>2 DEF MasterInv, NothingNewer
    <3>3. QED
      BY <1>6, <3>1, <3>2
  <2>3. QED
    BY <2>1, <2>2 DEF NothingNewer, Belongs
<1>9. NewestArrives'
  BY <1>3, <1>7 DEF MasterInv, NewestArrives, Applied, Belongs
<1>10. QED
  BY <1>5, <1>8, <1>9 DEF MasterInv

(* A message is handled: it is dropped, outdated, or the newest so far.       *)
LEMMA OnEventStep ==
  ASSUME MasterInv, NEW t \in Topics, OnEvent(t)
  PROVE  MasterInv'
<1> DEFINE Msgs == [camera : Topics, state : EventStates, stamp : Nat]
           m == Head(topics[t])
<1>1. topics \in [Topics -> Seq(Msgs)] /\ topics[t] # <<>>
  BY DEF MasterInv, OnEvent, Handle
<1>2. m \in OnTheWay(t)
  BY <1>1, TailRange DEF OnTheWay
<1>3. /\ topics' \in [Topics -> Seq(Msgs)]
      /\ \A u \in Topics : \A n \in OnTheWay(u)' : n \in OnTheWay(u)
      /\ \A u \in Topics : \A n \in OnTheWay(u) : n = m \/ n \in OnTheWay(u)'
  <2>1. CASE topics' = [topics EXCEPT ![t] = Tail(@)]
    <3>1. ASSUME NEW u \in Topics
          PROVE  topics'[u] = IF u = t THEN Tail(topics[u]) ELSE topics[u]
      BY <1>1, <2>1
    <3>2. topics' \in [Topics -> Seq(Msgs)]
      BY <1>1, <2>1, TailRange
    <3>3. ASSUME NEW u \in Topics
          PROVE  OnTheWay(u)' \subseteq OnTheWay(u) /\ OnTheWay(u) \subseteq OnTheWay(u)' \cup {m}
      BY <1>1, <3>1, TailRange DEF OnTheWay
    <3>4. \A u \in Topics : \A n \in OnTheWay(u)' : n \in OnTheWay(u)
      BY <3>3
    <3>5. \A u \in Topics : \A n \in OnTheWay(u) : n = m \/ n \in OnTheWay(u)'
      BY <3>3
    <3>6. QED
      BY <3>2, <3>4, <3>5
  <2>2. CASE UNCHANGED topics
    BY <1>1, <2>2 DEF OnTheWay
  <2>3. QED
    BY <2>1, <2>2 DEF OnEvent
<1>4. /\ m.stamp \in Nat \ {0}
      /\ Belongs(t, m) => m.stamp <= newest.stamp
      /\ m.stamp = newest.stamp => m = newest /\ t = newest.camera
      /\ newest.stamp \in Nat /\ accepted \in Nat /\ accepted <= newest.stamp
  BY <1>2 DEF MasterInv, NothingNewer
<1>5. UNCHANGED <<clock, newest>>
  BY DEF OnEvent, Handle
<1>6. \/ /\ ~Belongs(t, m) \/ m.stamp \in seenIds
         /\ UNCHANGED <<permit, seenIds, accepted>>
      \/ /\ Belongs(t, m) /\ m.stamp \notin seenIds /\ seenIds' = seenIds \cup {m.stamp}
         /\ accepted # 0 /\ m.stamp < accepted
         /\ UNCHANGED <<permit, accepted>>
      \/ /\ Belongs(t, m) /\ m.stamp \notin seenIds /\ seenIds' = seenIds \cup {m.stamp}
         /\ accepted = 0 \/ ~(m.stamp < accepted)
         /\ permit' = PatrolAllowedBy(m.state) /\ accepted' = m.stamp
  BY DEF OnEvent, Handle, Outdated
<1> HIDE DEF m
<1>7. NothingNewer'
  <2>1. /\ clock' \in Nat /\ accepted' \in Nat /\ newest'.stamp \in 0 .. clock'
        /\ accepted' <= newest'.stamp
        /\ \A i \in seenIds' : i \in Nat /\ i <= newest'.stamp
    BY <1>4, <1>5, <1>6 DEF MasterInv, NothingNewer
  <2>2. QED
    BY <1>3, <1>5, <2>1 DEF MasterInv, NothingNewer, Belongs
<1>8. NewestArrives'
  <2>1. CASE newest = NoMessage
    <3>1. ~Belongs(t, m)
      BY <1>4, <2>1 DEF NoMessage
    <3>2. QED
      BY <1>5, <1>6, <2>1, <3>1 DEF MasterInv, NewestArrives
  <2>2. CASE newest # NoMessage
    <3>1. /\ newest.stamp # 0 /\ newest.camera \in Topics /\ Belongs(newest.camera, newest)
          /\ newest \in OnTheWay(newest.camera) \/ Applied(newest)
          /\ newest.stamp \in seenIds \/ accepted = newest.stamp => Applied(newest)
      BY <2>2 DEF MasterInv, NewestArrives
    <3>2. newest \in OnTheWay(newest.camera) /\ newest # m => newest \in OnTheWay(newest.camera)'
      <4>1. newest'.camera = newest.camera
        BY <1>5
      <4>2. QED
        BY <1>3, <3>1, <4>1 DEF OnTheWay
    <3>3. CASE UNCHANGED <<permit, seenIds, accepted>> /\ (~Belongs(t, m) \/ m.stamp \in seenIds)
      <4>1. m = newest => m.stamp \in seenIds
        BY <1>4, <3>1, <3>3
      <4>2. QED
        BY <1>5, <2>2, <3>1, <3>3, <3>2, <4>1 DEF NewestArrives, Applied, Belongs
    <3>4. CASE /\ Belongs(t, m) /\ seenIds' = seenIds \cup {m.stamp}
               /\ m.stamp < accepted /\ UNCHANGED <<permit, accepted>>
      <4>1. m # newest /\ m.stamp # newest.stamp
        BY <1>4, <3>4
      <4>2. QED
        BY <1>5, <2>2, <3>1, <3>4, <3>2, <4>1 DEF NewestArrives, Applied, Belongs
    <3>5. CASE /\ Belongs(t, m) /\ seenIds' = seenIds \cup {m.stamp}
               /\ accepted = 0 \/ ~(m.stamp < accepted)
               /\ permit' = PatrolAllowedBy(m.state) /\ accepted' = m.stamp
      <4>1. CASE m.stamp = newest.stamp
        BY <1>4, <1>5, <2>2, <3>1, <3>5, <4>1 DEF NewestArrives, Applied, Belongs
      <4>2. CASE m.stamp # newest.stamp
        <5>1. ~Applied(newest)
          BY <1>4, <3>1, <3>5, <4>2 DEF Applied
        <5>2. m # newest /\ newest \in OnTheWay(newest.camera)'
          BY <3>1, <3>2, <4>2, <5>1
        <5>3. newest.stamp \notin seenIds' /\ accepted' # newest.stamp
          BY <3>1, <3>5, <4>2, <5>1
        <5>4. QED
          BY <1>5, <2>2, <3>1, <5>2, <5>3 DEF NewestArrives, Belongs
      <4>3. QED
        BY <4>1, <4>2
    <3>6. QED
      BY <1>6, <3>3, <3>4, <3>5
  <2>3. QED
    BY <2>1, <2>2
<1>9. QED
  BY <1>3, <1>7, <1>8 DEF MasterInv

(* Forgetting ids, and forgetting everything.                                 *)
LEMMA PurgeStep == MasterInv /\ PurgeOldEventIds => MasterInv'
<1> SUFFICES ASSUME MasterInv, PurgeOldEventIds PROVE MasterInv'
  OBVIOUS
<1>1. /\ seenIds' \subseteq seenIds
      /\ UNCHANGED <<clock, topics, permit, accepted, strays, newest>>
  BY DEF PurgeOldEventIds
<1>2. QED
  BY <1>1
     DEF MasterInv, NothingNewer, NewestArrives, Applied, OnTheWay, Belongs

(* A restart forgets everything the invariant speaks of. *)
LEMMA RestartStep == MasterInv /\ MasterRestarts => MasterInv'
<1> SUFFICES ASSUME MasterInv, MasterRestarts PROVE MasterInv'
  OBVIOUS
<1>1. Range(<<>>) = {}
  BY DEF Range
<1>2. QED
  BY <1>1
     DEF MasterRestarts, MasterInv, NothingNewer, NewestArrives, OnTheWay, NoMessage

(* Every step of cam_master keeps the invariant. *)
LEMMA MasterInvStep == MasterInv /\ [MasterNext]_masterVars => MasterInv'
<1> SUFFICES ASSUME MasterInv, [MasterNext]_masterVars PROVE MasterInv'
  OBVIOUS
<1>1. CASE UNCHANGED masterVars
  BY <1>1
     DEF masterVars, MasterInv, NothingNewer, NewestArrives, Applied, OnTheWay, Belongs
<1>2. ASSUME NEW t \in Topics, OnEvent(t) PROVE MasterInv'
  BY <1>2, OnEventStep
<1>3. CASE PurgeOldEventIds
  BY <1>3, PurgeStep
<1>4. CASE MasterRestarts
  BY <1>4, RestartStep
<1>5. ASSUME NEW t \in Topics, NEW c \in Topics, NEW s \in EventStates, PublishStray(t, c, s)
      PROVE  MasterInv'
  BY <1>5, StrayStep
<1>6. ASSUME NEW c \in Topics, NEW s \in AllowedStates[c], Publish(c, s)
      PROVE  MasterInv'
  BY <1>6, PublishStep
<1>7. QED
  BY <1>1, <1>2, <1>3, <1>4, <1>5, <1>6 DEF MasterNext, MasterStep

(* Once every topic is empty the newest event has been applied.               *)
LEMMA MasterInvLatest == MasterInv => LatestEventRules
<1> SUFFICES ASSUME MasterInv, \A t \in Topics : topics[t] = <<>>
             PROVE  permit = IF newest = NoMessage THEN TRUE
                             ELSE PatrolAllowedBy(newest.state)
  BY DEF LatestEventRules
<1>1. \A t \in Topics : OnTheWay(t) = {}
  BY DEF OnTheWay, Range
<1>2. QED
  BY <1>1 DEF MasterInv, NewestArrives, Applied

(* The permit ends up as the newest event asks, whatever the order in which   *)
(* the two topics deliver (cam_master.py, _handle_event).                     *)
THEOREM MasterFollowsLatest == MasterSpec => []LatestEventRules
<1>1. QED
  BY MasterInvInit, MasterInvStep, MasterInvLatest, PTL DEF MasterSpec

--------------------------------------------------------------------------------
(* In PC 4 as a whole the gate camera does what it does alone: neither the    *)
(* other camera nor cam_master nor the topics act on its state.               *)
LEMMA NextIsGateStep == [CctvNext]_cctvVars => [GateNext]_gateVars
BY DEF CctvNext, cctvVars, GateFrame, CameraRestarts, GateNext

(* Seen from its own variables, the system only ever runs the gate camera:    *)
(* what is proved of the camera alone holds on PC 4.                          *)
THEOREM SystemRunsGate == CctvSpec => GateSpec
<1>1. CctvInit => GateInit
  BY DEF CctvInit
<1>2. QED
  BY <1>1, NextIsGateStep, PTL DEF CctvSpec, GateSpec

(* So what reaches the topic never has the wrong direction either.            *)
THEOREM EventTellsDirection == CctvSpec => []GateTellsDirection
<1>1. QED
  BY SystemRunsGate, GateAloneTellsDirection, PTL

(* And no half-recorded passage is ever stale.                                *)
THEOREM NoStaleHalfPassage == CctvSpec => []HalfPassageFits
<1>1. QED
  BY SystemRunsGate, GateAloneTellsDirection, PTL

(* cam_master, too, does what it does alone: what a camera publishes is one   *)
(* of the states its topic allows.                                            *)
LEMMA NextIsMasterStep ==
  ASSUME GateInv, [CctvNext]_cctvVars
  PROVE  [MasterNext]_masterVars
<1>1. CASE GateFrame
  <2>1. CASE UNCHANGED masterVars
    BY <2>1
  <2>2. ASSUME NEW x \in Xs, GateConfirms(x), Publish("gate", pending)
        PROVE  MasterNext
    <3>1. pending \in AllowedStates["gate"] /\ "gate" \in Topics
      BY <2>2 DEF GateConfirms, GateInv, GateTypeOK, GateStates, AllowedStates, Topics
    <3>2. QED
      BY <2>2, <3>1 DEF MasterNext
  <2>3. QED
    BY <1>1, <2>1, <2>2 DEF GateFrame
<1>2. CASE CenterFrame
  <2>1. /\ "PARKED" \in AllowedStates["center"] /\ "EXITING" \in AllowedStates["center"]
        /\ "center" \in Topics
    BY DEF AllowedStates, Topics
  <2>2. QED
    BY <1>2, <2>1 DEF CenterFrame, MasterNext
<1>3. CASE CameraRestarts \/ UNCHANGED cctvVars
  BY <1>3 DEF CameraRestarts, cctvVars
<1>4. CASE MasterStep
  BY <1>4 DEF MasterNext
<1>5. QED
  BY <1>1, <1>2, <1>3, <1>4 DEF CctvNext

(* So the invariant of the gate camera holds in the system.                   *)
LEMMA GateInvHolds == CctvSpec => []GateInv
<1>1. QED
  BY SystemRunsGate, GateInvInit, GateInvStep, PTL DEF GateSpec

(* And PC 4 runs cam_master by its specification, which leaves the cameras    *)
(* free to say what their topic allows whenever they like.                    *)
THEOREM SystemRunsMaster == CctvSpec => MasterSpec
<1>1. CctvInit => MasterInit
  BY DEF CctvInit
<1>2. QED
  BY <1>1, GateInvHolds, NextIsMasterStep, PTL DEF CctvSpec, MasterSpec

(* So the permit of PC 4 ends up as the newest event of its cameras asks.     *)
THEOREM PermitFollowsLatestEvent == CctvSpec => []LatestEventRules
<1>1. QED
  BY SystemRunsMaster, MasterFollowsLatest, PTL

--------------------------------------------------------------------------------
(* The center camera.  A car that is not taken for parked has been nowhere    *)
(* else for as long as its stay counts; one that is was said to be.  (While   *)
(* a parked car leaves, its stay goes on counting.)                           *)
CenterInv ==
  /\ CenterTypeOK
  /\ roi # NoRoi /\ ~parked => stayed <= elsewhere[roi]
  /\ parked => centerSaid = "PARKED"
  /\ ExitingFollowsParked
  /\ ParkedMeansStayed

LEMMA CenterInvInit == CenterInit => CenterInv
<1> SUFFICES ASSUME CenterInit PROVE CenterInv
  OBVIOUS
<1>1. /\ roi = NoRoi /\ stayed \in 0 .. Stay /\ leaving = NotLeaving
      /\ centerQuiet \in 0 .. CenterCooldown
      /\ elsewhere \in [Rois -> 0 .. Stay]
      /\ centerSaid = "none"
      /\ saidBefore \in [event : CenterStates \cup {"none"}, elsewhere : 0 .. Stay]
  BY CenterTimeAssumption DEF CenterInit
<1>2. ~parked /\ parked \in BOOLEAN
  BY DEF CenterInit
<1>3. QED
  BY <1>1, <1>2 DEF CenterInv, CenterTypeOK, ExitingFollowsParked, ParkedMeansStayed

LEMMA UntilFits ==
  ASSUME NEW limit \in Nat, NEW age \in 0 .. limit
  PROVE  /\ Until(age, limit) \in 0 .. limit
         /\ \A b \in 0 .. limit : age <= b => Until(age, limit) <= Until(b, limit)
BY DEF Until

(* What every frame does to the clocks. *)
LEMMA ClocksFit ==
  ASSUME CenterInv
  PROVE  /\ 0 \in 0 .. Stay /\ 0 \in 0 .. ExitConfirm /\ 0 \in 0 .. CenterCooldown
         /\ Stay \in 0 .. Stay /\ CenterCooldown \in 0 .. CenterCooldown
         /\ Until(stayed, Stay) \in 0 .. Stay
         /\ Until(centerQuiet, CenterCooldown) \in 0 .. CenterCooldown
         /\ leaving # NotLeaving => Until(leaving, ExitConfirm) \in 0 .. ExitConfirm
         /\ \A r \in Rois : Until(elsewhere[r], Stay) \in 0 .. Stay
         /\ \A r \in Rois : stayed <= elsewhere[r] =>
              Until(stayed, Stay) <= Until(elsewhere[r], Stay)
<1>1. /\ Stay \in Nat /\ ExitConfirm \in Nat /\ CenterCooldown \in Nat
      /\ stayed \in 0 .. Stay /\ centerQuiet \in 0 .. CenterCooldown
      /\ leaving # NotLeaving => leaving \in 0 .. ExitConfirm
      /\ \A r \in Rois : elsewhere[r] \in 0 .. Stay
  BY CenterTimeAssumption DEF CenterInv, CenterTypeOK
<1>2. /\ Until(stayed, Stay) \in 0 .. Stay
      /\ \A r \in Rois : stayed <= elsewhere[r] =>
           Until(stayed, Stay) <= Until(elsewhere[r], Stay)
  BY <1>1, UntilFits
<1>3. \A r \in Rois : Until(elsewhere[r], Stay) \in 0 .. Stay
  BY <1>1, UntilFits
<1>4. /\ Until(centerQuiet, CenterCooldown) \in 0 .. CenterCooldown
      /\ leaving # NotLeaving => Until(leaving, ExitConfirm) \in 0 .. ExitConfirm
  BY <1>1, UntilFits
<1>5. QED
  BY <1>1, <1>2, <1>3, <1>4

LEMMA CenterQuietStep == CenterInv /\ CenterQuietFrame => CenterInv'
<1> SUFFICES ASSUME CenterInv, CenterQuietFrame PROVE CenterInv'
  OBVIOUS
<1> USE ClocksFit, RoiAssumption
<1>1. /\ centerQuiet' \in 0 .. CenterCooldown
      /\ centerSaid' = centerSaid /\ saidBefore' = saidBefore
  BY DEF CenterQuietFrame, CenterReadFails, CenterMisses, StaysIn, NothingToLeave,
         LeavesUnparked, StartsLeaving, LeavesUnsaid, SaysNothing
<1>2. ExitingFollowsParked' /\ ParkedMeansStayed'
  BY <1>1 DEF CenterInv, ExitingFollowsParked, ParkedMeansStayed
<1>3. elsewhere' \in [Rois -> 0 .. Stay]
  BY DEF CenterQuietFrame, CenterReadFails, CenterMisses, StaysIn, NothingToLeave,
         LeavesUnparked, StartsLeaving, LeavesUnsaid, SeenAt, UnseenFrame
<1>4. /\ roi' \in Rois \cup {NoRoi} /\ parked' \in BOOLEAN
      /\ parked' => parked
  <2>1. roi \in Rois \cup {NoRoi} /\ parked \in BOOLEAN
    BY DEF CenterInv, CenterTypeOK
  <2>2. ASSUME NEW r \in Rois, StaysIn(r)
        PROVE  roi' \in Rois \cup {NoRoi} /\ parked' \in BOOLEAN /\ (parked' => parked)
    BY <2>2 DEF StaysIn, ParkedNow
  <2>3. CASE CenterReadFails \/ CenterMisses \/ NothingToLeave \/ StartsLeaving
    <3>1. roi' = roi /\ parked' = parked
      BY <2>3 DEF CenterReadFails, CenterMisses, NothingToLeave, StartsLeaving
    <3>2. QED
      BY <2>1, <3>1
  <2>4. CASE LeavesUnparked
    BY <2>1, <2>4, Zenon DEF LeavesUnparked
  <2>5. CASE LeavesUnsaid
    BY <2>5 DEF LeavesUnsaid, EndsStay
  <2>6. QED
    BY <2>2, <2>3, <2>4, <2>5 DEF CenterQuietFrame
<1>5. stayed' \in 0 .. Stay
  BY DEF CenterInv, CenterTypeOK, CenterQuietFrame, CenterReadFails, CenterMisses,
         StaysIn, StayNow, NothingToLeave, LeavesUnparked, StartsLeaving,
         LeavesUnsaid, EndsStay
<1>6. leaving' \in {NotLeaving} \cup 0 .. ExitConfirm
  BY DEF CenterInv, CenterTypeOK, CenterQuietFrame, CenterReadFails, CenterMisses,
         StaysIn, NothingToLeave, LeavesUnparked, StartsLeaving, LeavingNow,
         LeavesUnsaid, EndsStay
<1>7. CenterTypeOK'
  BY <1>1, <1>3, <1>4, <1>5, <1>6 DEF CenterInv, CenterTypeOK
<1>8. ASSUME roi' # NoRoi, ~parked' PROVE stayed' <= elsewhere'[roi']
  <2>1. CASE CenterReadFails \/ CenterMisses
    <3>1. /\ roi' = roi /\ ~parked /\ roi \in Rois
          /\ stayed' = Until(stayed, Stay)
          /\ elsewhere'[roi] = Until(elsewhere[roi], Stay)
      BY <1>8, <2>1 DEF CenterReadFails, CenterMisses, UnseenFrame, CenterInv, CenterTypeOK
    <3>2. QED
      BY <1>8, <3>1 DEF CenterInv
  <2>2. ASSUME NEW r \in Rois, StaysIn(r) PROVE stayed' <= elsewhere'[roi']
    <3>1. /\ roi' = r /\ elsewhere'[r] = Until(elsewhere[r], Stay)
          /\ stayed' = StayNow(r)
      BY <2>2 DEF StaysIn, SeenAt
    <3>2. CASE roi = r
      <4>1. ~parked
        BY <1>8, <2>2, <3>2 DEF StaysIn, ParkedNow
      <4>2. stayed <= elsewhere[r]
        BY <3>2, <4>1 DEF CenterInv
      <4>3. QED
        BY <3>1, <3>2, <4>2 DEF StayNow
    <3>3. CASE roi # r
      BY <3>1, <3>3 DEF StayNow
    <3>4. QED
      BY <3>2, <3>3
  <2>3. CASE NothingToLeave \/ LeavesUnparked \/ LeavesUnsaid
    BY <1>8, <2>3 DEF NothingToLeave, LeavesUnparked, LeavesUnsaid, EndsStay
  <2>4. CASE StartsLeaving
    BY <1>8, <2>4 DEF StartsLeaving, HasParked
  <2>5. QED
    BY <2>1, <2>2, <2>3, <2>4 DEF CenterQuietFrame
<1>9. parked' => centerSaid' = "PARKED"
  BY <1>1, <1>4 DEF CenterInv
<1>10. QED
  BY <1>2, <1>7, <1>8, <1>9 DEF CenterInv

LEMMA SaysParkedStep ==
  ASSUME CenterInv, NEW r \in Rois, SaysParked(r)
  PROVE  CenterInv'
<1> USE ClocksFit, RoiAssumption
<1>1. roi = r /\ ~parked /\ Until(stayed, Stay) >= Stay
  <2>1. roi = r
    BY CenterTimeAssumption DEF SaysParked, ParksIn, StayNow
  <2>2. QED
    BY <2>1 DEF SaysParked, ParksIn, StayNow, ParkedNow
<1>2. /\ elsewhere' \in [Rois -> 0 .. Stay]
      /\ elsewhere'[r] = Until(elsewhere[r], Stay)
  BY DEF SaysParked, SeenAt
<1>3. elsewhere'[r] = Stay
  <2>1. stayed <= elsewhere[r]
    BY <1>1 DEF CenterInv
  <2>2. QED
    BY <1>1, <1>2, <2>1, CenterTimeAssumption
<1>4. /\ roi' = r /\ parked' = TRUE /\ leaving' = NotLeaving
      /\ stayed' = Until(stayed, Stay)
      /\ centerQuiet' = 0 /\ centerSaid' = "PARKED"
      /\ saidBefore' = [event |-> centerSaid, elsewhere |-> Stay]
  BY <1>1, <1>3 DEF SaysParked, Says, StayNow
<1>5. CenterTypeOK'
  BY <1>2, <1>4 DEF CenterInv, CenterTypeOK, CenterStates
<1>6. QED
  BY <1>4, <1>5 DEF CenterInv, ExitingFollowsParked, ParkedMeansStayed

LEMMA SaysExitingStep ==
  ASSUME CenterInv, SaysExiting
  PROVE  CenterInv'
<1> USE ClocksFit, RoiAssumption
<1>1. /\ roi' = NoRoi /\ stayed' = 0 /\ leaving' = NotLeaving /\ parked' = FALSE
      /\ centerQuiet' = 0 /\ centerSaid' = "EXITING"
      /\ saidBefore' = [event |-> centerSaid, elsewhere |-> 0]
      /\ elsewhere' \in [Rois -> 0 .. Stay]
  BY DEF SaysExiting, EndsStay, Says, SeenAt
<1>2. centerSaid = "PARKED"
  BY DEF SaysExiting, HasParked, CenterInv
<1>3. CenterTypeOK'
  BY <1>1 DEF CenterInv, CenterTypeOK, CenterStates
<1>4. QED
  BY <1>1, <1>2, <1>3 DEF CenterInv, ExitingFollowsParked, ParkedMeansStayed

LEMMA CenterInvStep == CenterInv /\ [CenterNext]_centerVars => CenterInv'
<1> SUFFICES ASSUME CenterInv, [CenterNext]_centerVars PROVE CenterInv'
  OBVIOUS
<1>1. CASE CenterRestarts
  <2>1. CenterTypeOK'
    BY <1>1, ClocksFit DEF CenterRestarts, CenterInv, CenterTypeOK
  <2>2. QED
    BY <1>1, <2>1, RoiAssumption
       DEF CenterRestarts, CenterInv, ExitingFollowsParked, ParkedMeansStayed
<1>2. CASE UNCHANGED centerVars
  BY <1>2 DEF centerVars, CenterInv, CenterTypeOK, ExitingFollowsParked, ParkedMeansStayed
<1>3. QED
  BY <1>1, <1>2, CenterQuietStep, SaysParkedStep, SaysExitingStep DEF CenterNext

(* The system takes no other step on the center camera's variables.           *)
LEMMA NextIsCenterStep == [CctvNext]_cctvVars => [CenterNext]_centerVars
BY DEF CctvNext, cctvVars, CenterFrame, CameraRestarts, CenterNext

(* Seen from its own variables, the system only ever runs the center camera.  *)
THEOREM SystemRunsCenter == CctvSpec => CenterSpec
<1>1. CctvInit => CenterInit
  BY DEF CctvInit
<1>2. QED
  BY <1>1, NextIsCenterStep, PTL DEF CctvSpec, CenterSpec

(* And so keeps its invariant.                                                *)
LEMMA CenterInvHolds == CctvSpec => []CenterInv
<1>1. QED
  BY SystemRunsCenter, CenterInvInit, CenterInvStep, PTL DEF CenterSpec

(* For any areas and times, on PC 4 as a whole: EXITING is said of a car that *)
(* was said to be PARKED.                                                     *)
THEOREM OnlyParkedCarsExit == CctvSpec => []ExitingFollowsParked
<1>1. CenterInv => ExitingFollowsParked
  BY DEF CenterInv
<1>2. QED
  BY <1>1, CenterInvHolds, PTL

(* PARKED is said of a car that stayed.                                       *)
THEOREM OnlyStayingCarsPark == CctvSpec => []ParkedMeansStayed
<1>1. CenterInv => ParkedMeansStayed
  BY DEF CenterInv
<1>2. QED
  BY <1>1, CenterInvHolds, PTL

--------------------------------------------------------------------------------
(* A handled message is the first of its topic, so the others keep theirs.    *)
LEMMA HandledTypes ==
  ASSUME MasterTypeOK, NEW t \in Topics, OnEvent(t)
  PROVE  MasterTypeOK'
<1> DEFINE m == Head(topics[t])
<1>1. topics[t] \in Seq(Messages) /\ topics[t] # <<>>
  BY DEF MasterTypeOK, OnEvent, Handle
<1>2. m \in Messages /\ Tail(topics[t]) \in Seq(Messages)
  <2> HIDE DEF Messages
  <2>1. QED
    BY <1>1
<1>3. m.stamp \in 1 .. MaxEvents
  BY <1>2 DEF Messages
<1> HIDE DEF m
<1>4. topics' \in [Topics -> Seq(Messages)]
  <2>1. topics \in [Topics -> Seq(Messages)]
    BY DEF MasterTypeOK
  <2>2. topics' = [topics EXCEPT ![t] = Tail(topics[t])] \/ topics' = topics
    BY DEF OnEvent
  <2> HIDE DEF Messages
  <2>3. QED
    BY <1>2, <2>1, <2>2
<1>5. /\ UNCHANGED <<clock, strays, newest>>
      /\ seenIds' = seenIds \/ seenIds' = seenIds \cup {m.stamp}
      /\ accepted' = accepted \/ accepted' = m.stamp
      /\ permit' = permit \/ permit' = PatrolAllowedBy(m.state)
  BY DEF OnEvent, Handle, m
<1>6. permit' \in BOOLEAN
  <2>1. permit \in BOOLEAN /\ PatrolAllowedBy(m.state) \in BOOLEAN
    BY DEF PatrolAllowedBy, MasterTypeOK
  <2>2. permit' = permit \/ permit' = PatrolAllowedBy(m.state)
    BY <1>5
  <2>3. CASE permit' = permit
    BY <2>1, <2>3, Zenon
  <2>4. CASE permit' = PatrolAllowedBy(m.state)
    BY <2>1, <2>4, Zenon
  <2>5. QED
    BY <2>2, <2>3, <2>4
<1>7. seenIds' \subseteq 1 .. MaxEvents /\ accepted' \in 0 .. MaxEvents
  <2>1. seenIds \subseteq 1 .. MaxEvents /\ accepted \in 0 .. MaxEvents
    BY DEF MasterTypeOK
  <2>2. /\ seenIds' = seenIds \/ seenIds' = seenIds \cup {m.stamp}
        /\ accepted' = accepted \/ accepted' = m.stamp
    BY <1>5
  <2>3. m.stamp \in 0 .. MaxEvents
    BY <1>3
  <2>4. QED
    BY <1>3, <2>1, <2>2, <2>3
<1>8. clock' = clock /\ strays' = strays /\ newest' = newest
  BY <1>5
<1>9. QED
  BY <1>4, <1>6, <1>7, <1>8 DEF MasterTypeOK

(* A message that is sent is one of the topic's.                              *)
LEMMA SentTypes ==
  ASSUME MasterTypeOK, NEW t \in Topics, NEW c \in Topics, NEW s \in EventStates,
         clock < MaxEvents, clock' = clock + 1,
         topics' = [topics EXCEPT ![t] =
           Append(@, [camera |-> c, state |-> s, stamp |-> clock + 1])]
  PROVE  /\ clock' \in 0 .. MaxEvents
         /\ topics' \in [Topics -> Seq(Messages)]
         /\ [camera |-> c, state |-> s, stamp |-> clock + 1] \in Messages
<1> DEFINE m == [camera |-> c, state |-> s, stamp |-> clock + 1]
<1>1. clock \in 0 .. MaxEvents /\ topics \in [Topics -> Seq(Messages)]
  BY DEF MasterTypeOK
<1>2. clock + 1 \in 1 .. MaxEvents
  BY <1>1, MasterAssumption
<1>3. m \in Messages
  BY <1>2 DEF Messages
<1>4. topics' = [topics EXCEPT ![t] = Append(topics[t], m)]
  OBVIOUS
<1> HIDE DEF m, Messages
<1>5. topics' \in [Topics -> Seq(Messages)]
  BY <1>1, <1>3, <1>4
<1>6. clock' \in 0 .. MaxEvents
  BY <1>2
<1>7. QED
  BY <1>3, <1>5, <1>6 DEF m

(* Every step of cam_master keeps its types.                                  *)
LEMMA MasterTypesStep == MasterTypeOK /\ [MasterNext]_masterVars => MasterTypeOK'
<1> SUFFICES ASSUME MasterTypeOK, [MasterNext]_masterVars PROVE MasterTypeOK'
  OBVIOUS
<1>1. ASSUME NEW c \in Topics, NEW s \in AllowedStates[c], Publish(c, s) PROVE MasterTypeOK'
  <2>1. s \in EventStates
    BY DEF AllowedStates, EventStates, Topics
  <2>2. /\ clock' \in 0 .. MaxEvents /\ topics' \in [Topics -> Seq(Messages)]
        /\ newest' \in Messages
    BY <1>1, <2>1, SentTypes DEF Publish
  <2>3. QED
    BY <1>1, <2>2 DEF Publish, MasterTypeOK
<1>2. ASSUME NEW t \in Topics, NEW c \in Topics, NEW s \in EventStates, PublishStray(t, c, s)
      PROVE  MasterTypeOK'
  <2>1. clock' \in 0 .. MaxEvents /\ topics' \in [Topics -> Seq(Messages)]
    BY <1>2, SentTypes DEF PublishStray
  <2>2. strays' \in 0 .. MaxStrays
    BY <1>2, MasterAssumption DEF PublishStray, MasterTypeOK
  <2>3. QED
    BY <1>2, <2>1, <2>2 DEF PublishStray, MasterTypeOK
<1>3. CASE PurgeOldEventIds
  BY <1>3 DEF PurgeOldEventIds, MasterTypeOK
<1>4. CASE MasterRestarts
  <2>1. topics' \in [Topics -> Seq(Messages)]
    BY <1>4 DEF MasterRestarts
  <2>2. QED
    BY <1>4, <2>1, MasterAssumption DEF MasterRestarts, MasterTypeOK
<1>5. CASE UNCHANGED masterVars
  BY <1>5 DEF masterVars, MasterTypeOK
<1>6. QED
  BY <1>1, <1>2, <1>3, <1>4, <1>5, HandledTypes DEF MasterNext, MasterStep

(* The types of the three processes, together.                                *)
LEMMA CctvTypes == CctvSpec => []CctvTypeOK
<1>1. MasterInit => MasterTypeOK
  <2> SUFFICES ASSUME MasterInit PROVE MasterTypeOK
    OBVIOUS
  <2>1. topics \in [Topics -> Seq(Messages)]
    BY DEF MasterInit
  <2>2. QED
    BY <2>1, MasterAssumption DEF MasterInit, MasterTypeOK
<1>2. MasterSpec => []MasterTypeOK
  BY <1>1, MasterTypesStep, PTL DEF MasterSpec
<1>3. GateInv /\ CenterInv /\ MasterTypeOK => CctvTypeOK
  BY DEF GateInv, CenterInv, CctvTypeOK
<1>4. QED
  BY <1>2, <1>3, GateInvHolds, CenterInvHolds, SystemRunsMaster, PTL
================================================================================
