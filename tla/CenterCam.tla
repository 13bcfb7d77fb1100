------------------------------- MODULE CenterCam -------------------------------
(***************************************************************************)
(* center_cam.py: one 30 Hz timer callback per frame, which says PARKED once *)
(* the car has stayed in a parking area and EXITING once a parked car has    *)
(* been outside of both for long enough.  Time is counted as in GateCam.     *)
(***************************************************************************)
EXTENDS Integers

CONSTANTS
  Rois,            \* TOP and BOTTOM
  NoRoi,           \* _current_roi is None
  Stay,            \* 5.0 s in one area
  ExitConfirm,     \* 0.2 s outside
  CenterCooldown   \* 2.0 s of silence after an event

ASSUME RoiAssumption == NoRoi \notin Rois
ASSUME CenterTimeAssumption ==
  Stay \in Nat \ {0} /\ ExitConfirm \in Nat \ {0} /\ CenterCooldown \in Nat \ {0}

NotLeaving == -1   \* _exit_confirm_start is None

VARIABLES
  roi,          \* _current_roi
  stayed,       \* frames since _roi_enter_time
  parked,       \* _parked_confirmed
  leaving,      \* frames since _exit_confirm_start
  centerQuiet,  \* frames since _last_event_time
  (* History, read only by the properties. *)
  elsewhere,    \* frames since the car was last seen in no area, or in another
  centerSaid,   \* the last event
  saidBefore    \* what the last event followed, with elsewhere at that time

centerVars == <<roi, stayed, parked, leaving, centerQuiet, elsewhere, centerSaid, saidBefore>>

CenterStates == {"PARKED", "EXITING"}

CenterTypeOK ==
  /\ roi \in Rois \cup {NoRoi}
  /\ stayed \in 0 .. Stay
  /\ parked \in BOOLEAN
  /\ leaving \in {NotLeaving} \cup 0 .. ExitConfirm
  /\ centerQuiet \in 0 .. CenterCooldown
  /\ elsewhere \in [Rois -> 0 .. Stay]
  /\ centerSaid \in CenterStates \cup {"none"}
  /\ saidBefore \in [event : CenterStates \cup {"none"}, elsewhere : 0 .. Stay]

CenterInit ==
  /\ roi = NoRoi /\ stayed = 0 /\ parked = FALSE /\ leaving = NotLeaving
  /\ centerQuiet = CenterCooldown
  /\ elsewhere = [r \in Rois |-> Stay]
  /\ centerSaid = "none"
  /\ saidBefore = [event |-> "none", elsewhere |-> 0]

Until(age, limit) == IF age < limit THEN age + 1 ELSE limit

Outlasted == Until(centerQuiet, CenterCooldown) = CenterCooldown

Says(event, since) ==
  /\ centerQuiet' = 0
  /\ centerSaid' = event
  /\ saidBefore' = [event |-> centerSaid, elsewhere |-> since]

SaysNothing ==
  /\ centerQuiet' = Until(centerQuiet, CenterCooldown)
  /\ UNCHANGED <<centerSaid, saidBefore>>

(* The history of where the car was seen: area r, or NoRoi. *)
SeenAt(r) ==
  elsewhere' = [q \in Rois |-> IF q = r THEN Until(elsewhere[q], Stay) ELSE 0]

UnseenFrame == elsewhere' = [q \in Rois |-> Until(elsewhere[q], Stay)]

--------------------------------------------------------------------------------
(* _process_frame when the camera gives no frame: only time passes. *)
CenterReadFails ==
  /\ stayed' = IF roi = NoRoi THEN 0 ELSE Until(stayed, Stay)
  /\ leaving' = IF leaving = NotLeaving THEN NotLeaving ELSE Until(leaving, ExitConfirm)
  /\ UnseenFrame
  /\ SaysNothing
  /\ UNCHANGED <<roi, parked>>

(* _on_no_detection: the stay goes on. *)
CenterMisses ==
  /\ stayed' = IF roi = NoRoi THEN 0 ELSE Until(stayed, Stay)
  /\ leaving' = NotLeaving
  /\ UnseenFrame
  /\ SaysNothing
  /\ UNCHANGED <<roi, parked>>

(* _on_detection in an area. *)

(* Mutant: the stay survives a change of area. *)
StayNowAnywhere(r) == IF roi = NoRoi THEN 0 ELSE Until(stayed, Stay)

StayNow(r) == IF roi = r THEN Until(stayed, Stay) ELSE 0

ParkedNow(r) == roi = r /\ parked

ParksIn(r) == ~ParkedNow(r) /\ StayNow(r) >= Stay /\ Outlasted

StaysIn(r) ==
  /\ ~ParksIn(r)
  /\ roi' = r /\ stayed' = StayNow(r) /\ leaving' = NotLeaving
  /\ parked' = ParkedNow(r)
  /\ SeenAt(r)
  /\ SaysNothing

SaysParked(r) ==
  /\ ParksIn(r)
  /\ roi' = r /\ stayed' = StayNow(r) /\ leaving' = NotLeaving
  /\ parked' = TRUE
  /\ SeenAt(r)
  /\ Says("PARKED", elsewhere'[r])

(* _on_detection outside of the areas. *)
NothingToLeave ==
  /\ roi = NoRoi
  /\ SeenAt(NoRoi)
  /\ SaysNothing
  /\ UNCHANGED <<roi, stayed, parked, leaving>>

(* Mutant: a car that was in the area for a while has parked. *)
SomeStay == stayed > 0

HasParked == parked

LeavesUnparked ==
  /\ roi # NoRoi /\ ~HasParked
  /\ roi' = NoRoi /\ stayed' = 0
  /\ SeenAt(NoRoi)
  /\ SaysNothing
  /\ UNCHANGED <<parked, leaving>>

LeavingNow == IF leaving = NotLeaving THEN 0 ELSE Until(leaving, ExitConfirm)

StartsLeaving ==
  /\ roi # NoRoi /\ HasParked /\ LeavingNow < ExitConfirm
  /\ leaving' = LeavingNow
  /\ stayed' = Until(stayed, Stay)
  /\ SeenAt(NoRoi)
  /\ SaysNothing
  /\ UNCHANGED <<roi, parked>>

EndsStay == roi' = NoRoi /\ stayed' = 0 /\ leaving' = NotLeaving /\ parked' = FALSE

SaysExiting ==
  /\ roi # NoRoi /\ HasParked /\ LeavingNow >= ExitConfirm /\ Outlasted
  /\ EndsStay
  /\ SeenAt(NoRoi)
  /\ Says("EXITING", 0)

(* The cooldown swallows the event, and the stay ends all the same. *)
LeavesUnsaid ==
  /\ roi # NoRoi /\ HasParked /\ LeavingNow >= ExitConfirm /\ ~Outlasted
  /\ EndsStay
  /\ SeenAt(NoRoi)
  /\ SaysNothing

CenterQuietFrame ==
  \/ CenterReadFails \/ CenterMisses
  \/ \E r \in Rois : StaysIn(r)
  \/ NothingToLeave \/ LeavesUnparked \/ StartsLeaving \/ LeavesUnsaid

(* The process is started anew. *)
CenterRestarts ==
  /\ roi' = NoRoi /\ stayed' = 0 /\ parked' = FALSE /\ leaving' = NotLeaving
  /\ centerQuiet' = CenterCooldown
  /\ elsewhere' = [r \in Rois |-> Stay]
  /\ UNCHANGED <<centerSaid, saidBefore>>

CenterNext ==
  CenterQuietFrame \/ (\E r \in Rois : SaysParked(r)) \/ SaysExiting \/ CenterRestarts

CenterSpec == CenterInit /\ [][CenterNext]_centerVars

--------------------------------------------------------------------------------
(* EXITING is only ever said of the car that was said to be parked: the event *)
(* before it is PARKED.                                                       *)
ExitingFollowsParked == centerSaid = "EXITING" => saidBefore.event = "PARKED"

(* PARKED is said of a car that was seen nowhere but in its area for the last *)
(* 5 s: driving from one area to the other, or through one, is not parking.   *)
ParkedMeansStayed == centerSaid = "PARKED" => saidBefore.elsewhere = Stay
================================================================================
