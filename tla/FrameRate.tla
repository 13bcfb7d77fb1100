------------------------------- MODULE FrameRate -------------------------------
(***************************************************************************)
(* The limit on the frames of one camera topic: _receive_camera's schedule  *)
(* (_camera_next_due).  A frame is taken up to Early before it is due, and  *)
(* the schedule moves on by Interval from where it was, or starts anew from *)
(* the present when a whole interval was missed.                            *)
(***************************************************************************)
EXTENDS Integers

CONSTANTS
  Interval, \* _camera_min_interval
  Early,    \* the quarter of it
  MaxTime,  \* bounds: how long a run lasts
  NoTime

ASSUME RateAssumption ==
  /\ Interval \in Nat \ {0} /\ Early \in Nat /\ MaxTime \in Nat
  /\ NoTime \notin Int

VARIABLES
  now,    \* time.monotonic()
  due,    \* _camera_next_due[topic]
  window, \* history: the time of a frame taken, any one, where counting starts
  since   \* history: frames taken since then

rateVars == <<now, due, window, since>>

RateTypeOK ==
  /\ now \in Nat
  /\ due \in Int \cup {NoTime}
  /\ window \in Nat \cup {NoTime}
  /\ since \in Nat

RateInit == now = 0 /\ due = NoTime /\ window = NoTime /\ since = 0

TooEarly == due # NoTime /\ now < due - Early

(* Mutant: the schedule always moves on from where it was. *)
NextDueUnreset == (IF due # NoTime THEN due ELSE now) + Interval

NextDue == (IF due # NoTime /\ now - due < Interval THEN due ELSE now) + Interval

TakeFrame ==
  /\ ~TooEarly
  /\ due' = NextDue
  /\ \/ window = NoTime /\ window' = now /\ since' = 0
     \/ UNCHANGED window /\ since' = IF window = NoTime THEN 0 ELSE since + 1
  /\ UNCHANGED now

(* A throttled frame changes nothing, so time passing stands for it too. *)
Tick ==
  /\ now < MaxTime
  /\ now' = now + 1
  /\ UNCHANGED <<due, window, since>>

(* The schedule is in memory. *)
RateAdapterStarts ==
  /\ due' = NoTime /\ window' = NoTime /\ since' = 0
  /\ UNCHANGED now

RateNext == TakeFrame \/ Tick \/ RateAdapterStarts

RateSpec == RateInit /\ [][RateNext]_rateVars

--------------------------------------------------------------------------------
(* From any frame taken on, the frames after it are no more than the        *)
(* intervals since, and one: a gap is never made up for by a burst.         *)
RateBounded ==
  window # NoTime => Interval * since < now - window + Interval + Early
================================================================================
