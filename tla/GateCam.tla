-------------------------------- MODULE GateCam --------------------------------
(***************************************************************************)
(* gate_cam.py: one 30 Hz timer callback per frame, which watches where the *)
(* best detection is against two lines and says ENTERING or EXITED once a   *)
(* car has crossed both and stayed beyond the second.  What the detector    *)
(* sees in a frame is an input: a position, or nothing.  Time is counted in *)
(* frames, and a counter stops at the only limit it is compared with; a     *)
(* slower loop is a loop with more frames that could not be read.           *)
(***************************************************************************)
EXTENDS Integers, Sequences

CONSTANTS
  Xs,        \* positions the detector may report
  NoX,       \* _last_cx is None
  LeftLine,  \* left_x
  RightLine, \* right_x
  Confirm,   \* 0.2 s of staying beyond the second line
  Cooldown   \* 2.0 s of silence after an event

ASSUME GateAssumption ==
  /\ Xs \subseteq Int /\ NoX \notin Xs
  /\ LeftLine \in Int /\ RightLine \in Int /\ LeftLine < RightLine
ASSUME TimeAssumption == Confirm \in Nat \ {0} /\ Cooldown \in Nat \ {0}

VARIABLES
  lastCx,      \* _last_cx
  crossings,   \* _crossing_history
  pending,     \* the state of _pending, "none" for None
  pendingFor,  \* frames since its start_time
  gateQuiet,   \* frames since _last_event_time
  (* History, read only by the properties. *)
  sides,       \* ends of the gate at which the car was seen since the last event
  gateSaid     \* the last event, the end at which it was confirmed, and sides

gateVars == <<lastCx, crossings, pending, pendingFor, gateQuiet, sides, gateSaid>>

GateStates == {"ENTERING", "EXITED"}
Ends == {"left", "right"}

GateTypeOK ==
  /\ lastCx \in Xs \cup {NoX}
  /\ crossings \in {<<>>, <<"L">>, <<"R">>, <<"L", "R">>, <<"R", "L">>}
  /\ pending \in GateStates \cup {"none"}
  /\ pendingFor \in 0 .. Confirm
  /\ gateQuiet \in 0 .. Cooldown
  /\ sides \subseteq Ends
  /\ gateSaid \in [state : GateStates \cup {"none"}, at : SUBSET Ends, sides : SUBSET Ends]

GateInit ==
  /\ lastCx = NoX /\ crossings = <<>>
  /\ pending = "none" /\ pendingFor = 0
  /\ gateQuiet = Cooldown
  /\ sides = {}
  /\ gateSaid = [state |-> "none", at |-> {}, sides |-> {}]

Later(age, limit) == IF age < limit THEN age + 1 ELSE limit

(* Which end of the gate, if any, a position belongs to. *)
EndOf(x) ==
  (IF x <= LeftLine THEN {"left"} ELSE {}) \cup (IF x >= RightLine THEN {"right"} ELSE {})

Crossed(prev, curr, line) ==
  (prev < line /\ line <= curr) \/ (prev > line /\ line >= curr)

(* Definitions marked "Mutant:" are slips the properties would notice. *)

(* Mutant: the histories of two passages run into each other. *)
KeepCrossings == crossings' = crossings

ForgetCrossings == crossings' = <<>>

DropPending == pending' = "none" /\ pendingFor' = 0 /\ ForgetCrossings

--------------------------------------------------------------------------------
(* _process_frame when the camera gives no frame: only time passes. *)
GateReadFails ==
  /\ gateQuiet' = Later(gateQuiet, Cooldown)
  /\ pendingFor' = IF pending = "none" THEN 0 ELSE Later(pendingFor, Confirm)
  /\ UNCHANGED <<lastCx, crossings, pending, sides, gateSaid>>

(* _on_no_detection *)
GateMisses ==
  /\ gateQuiet' = Later(gateQuiet, Cooldown)
  /\ IF pending # "none" THEN DropPending
     ELSE UNCHANGED <<crossings, pending, pendingFor>>
  /\ UNCHANGED <<lastCx, sides, gateSaid>>

(* _on_detection while a passage is pending. *)
Beyond(x) == IF pending = "ENTERING" THEN x > RightLine ELSE x < LeftLine

GateConfirms(x) ==
  /\ pending # "none" /\ Beyond(x)
  /\ pendingFor + 1 >= Confirm
  /\ gateSaid' = [state |-> pending, at |-> EndOf(x), sides |-> sides \cup EndOf(x)]
  /\ sides' = EndOf(x)
  /\ gateQuiet' = 0
  /\ DropPending
  /\ lastCx' = x

GateHolds(x) ==
  /\ pending # "none" /\ Beyond(x)
  /\ pendingFor + 1 < Confirm
  /\ pendingFor' = pendingFor + 1
  /\ gateQuiet' = Later(gateQuiet, Cooldown)
  /\ sides' = sides \cup EndOf(x)
  /\ lastCx' = x
  /\ UNCHANGED <<crossings, pending, gateSaid>>

GateGivesUp(x) ==
  /\ pending # "none" /\ ~Beyond(x)
  /\ DropPending
  /\ gateQuiet' = Later(gateQuiet, Cooldown)
  /\ sides' = sides \cup EndOf(x)
  /\ lastCx' = x
  /\ UNCHANGED gateSaid

(* _on_detection while nothing is pending.  The left line is looked at first, *)
(* also when the car has jumped over both.                                    *)
Note(history, label, crossed) ==
  IF crossed /\ \A i \in DOMAIN history : history[i] # label
  THEN Append(history, label) ELSE history

Noted(x) ==
  Note(Note(crossings, "L", Crossed(lastCx, x, LeftLine)),
       "R", Crossed(lastCx, x, RightLine))

Passage(history) ==
  IF history = <<"L", "R">> THEN "ENTERING"
  ELSE IF history = <<"R", "L">> THEN "EXITED" ELSE "none"

(* Mutant: the cooldown hides the crossings of a passage already half seen. *)
CoolAfterFirstLine == Later(gateQuiet, Cooldown) < Cooldown \/ crossings = <<"L">>

Cooling == Later(gateQuiet, Cooldown) < Cooldown

GateTracks(x) ==
  /\ pending = "none"
  /\ IF lastCx = NoX \/ Cooling
     THEN UNCHANGED <<crossings, pending, pendingFor>>
     ELSE /\ crossings' = Noted(x)
          /\ pending' = Passage(Noted(x))
          /\ pendingFor' = 0
  /\ gateQuiet' = Later(gateQuiet, Cooldown)
  /\ sides' = sides \cup EndOf(x)
  /\ lastCx' = x
  /\ UNCHANGED gateSaid

GateQuietFrame ==
  \/ GateReadFails
  \/ GateMisses
  \/ \E x \in Xs : GateHolds(x) \/ GateGivesUp(x) \/ GateTracks(x)

(* The process is started anew. *)
GateRestarts ==
  /\ lastCx' = NoX /\ crossings' = <<>>
  /\ pending' = "none" /\ pendingFor' = 0
  /\ gateQuiet' = Cooldown
  /\ sides' = {}
  /\ UNCHANGED gateSaid

GateNext == GateQuietFrame \/ (\E x \in Xs : GateConfirms(x)) \/ GateRestarts

GateSpec == GateInit /\ [][GateNext]_gateVars

--------------------------------------------------------------------------------
(* The event never has the wrong direction, whatever frames are lost and      *)
(* however far the car jumps between two frames: ENTERING is said of a car at *)
(* the right end which was seen at the left end since the last event, EXITED  *)
(* of one at the left end which was seen at the right end (_on_detection).    *)
GateTellsDirection ==
  /\ gateSaid.state = "ENTERING" => "right" \in gateSaid.at /\ "left" \in gateSaid.sides
  /\ gateSaid.state = "EXITED" => "left" \in gateSaid.at /\ "right" \in gateSaid.sides

(* A half-recorded passage belongs to a car that has not gone through: with   *)
(* one line in _crossing_history the car is still on this side of the other.  *)
(* A stale half would turn the direction of the next passage, or hide it.     *)
HalfPassageFits ==
  /\ crossings = <<"L">> => lastCx < RightLine
  /\ crossings = <<"R">> => lastCx > LeftLine
================================================================================
