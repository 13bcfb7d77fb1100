------------------------------- MODULE AccessLog -------------------------------
(***************************************************************************)
(* Vehicle passages in the System Monitor.  A CameraState of the gate goes  *)
(* to two tables, each in a transaction of its own: the event              *)
(* (cctv.store_event), then the passage under the id of the event           *)
(* (cctv_service.receive_camera_state, vehicle_access.store).  Either may   *)
(* fail, and the adapter may die between them.  Passages also come over     *)
(* HTTP, with any ids.                                                      *)
(***************************************************************************)
EXTENDS Naturals

CONSTANTS
  CameraStates, \* records of id, camera, state and at
  Passages,     \* what HTTP may send: records of id, message, direction and at
  NoState

ASSUME NoStateAssumption == NoState \notin CameraStates

(* ACCESS_CAMERA_IDS, ACCESS_DIRECTIONS *)
Direction == [ENTERING |-> "ENTRY", EXITED |-> "EXIT"]
AtGate(c) == c.camera = "gate_cam" /\ c.state \in DOMAIN Direction

(* vehicle_access_payload: access_id and message_id are the event's id. *)
PassageOf(c) ==
  [id |-> c.id, message |-> c.id, direction |-> Direction[c.state], at |-> c.at]

VARIABLES
  cctvEvents, \* table cctv_state_events
  accesses,   \* table vehicle_access_logs
  inHand,     \* the CameraState whose event is stored and its passage not yet
  (* History, read only by the properties. *)
  cutShort    \* states left in hand when they last came

accessVars == <<cctvEvents, accesses, inHand, cutShort>>

AccessTypeOK ==
  /\ cctvEvents \cup cutShort \subseteq CameraStates
  /\ accesses \subseteq Passages \cup {PassageOf(c) : c \in {c \in CameraStates : AtGate(c)}}
  /\ inHand \in CameraStates \cup {NoState}

AccessInit ==
  cctvEvents = {} /\ accesses = {} /\ inHand = NoState /\ cutShort = {}

--------------------------------------------------------------------------------
(* Mutant: a duplicate event ends there. *)
HandOverNew(c) == inHand' = IF AtGate(c) /\ c \notin cctvEvents THEN c ELSE NoState

(* The passage of an event is looked at again when the event comes again. *)
HandOver(c) == inHand' = IF AtGate(c) THEN c ELSE NoState

(* validate_camera_state and store_event: new, or known already; a conflict *)
(* of ids or an error of the database changes nothing.                      *)
ReceiveCameraState(c) ==
  /\ inHand = NoState
  /\ \A e \in cctvEvents : e.id = c.id => e = c
  /\ cctvEvents' = cctvEvents \cup {c}
  /\ HandOver(c)
  /\ cutShort' = cutShort \ {c}
  /\ UNCHANGED accesses

SameAccess(p) == {a \in accesses : a.id = p.id \/ a.message = p.message}

(* vehicle_access.store *)
StorePassage ==
  /\ inHand # NoState
  /\ LET p == PassageOf(inHand) IN
     accesses' = IF SameAccess(p) = {} THEN accesses \cup {p} ELSE accesses
  /\ inHand' = NoState
  /\ UNCHANGED <<cctvEvents, cutShort>>

(* The database raises, or the adapter dies. *)
PassageCutShort ==
  /\ inHand # NoState
  /\ cutShort' = cutShort \cup {inHand}
  /\ inHand' = NoState
  /\ UNCHANGED <<cctvEvents, accesses>>

(* POST /api/vehicle-access *)
ReceivePassage(p) ==
  /\ accesses' = IF SameAccess(p) = {} THEN accesses \cup {p} ELSE accesses
  /\ UNCHANGED <<cctvEvents, inHand, cutShort>>

AccessNext ==
  \/ \E c \in CameraStates : ReceiveCameraState(c)
  \/ StorePassage
  \/ PassageCutShort
  \/ \E p \in Passages : ReceivePassage(p)

AccessSpec == AccessInit /\ [][AccessNext]_accessVars

--------------------------------------------------------------------------------
(***************************************************************************)
(* Properties.                                                              *)
(***************************************************************************)

(* Between messages, every gate event in the table has its passage, or an   *)
(* HTTP passage has taken its id, or its handling was cut short and the     *)
(* event has not come again since; no id of a passage is given twice.       *)
AccessFollowsEvent ==
  /\ \A c \in cctvEvents :
       AtGate(c) => c = inHand \/ SameAccess(PassageOf(c)) # {} \/ c \in cutShort
  /\ \A a, b \in accesses : a.id = b.id \/ a.message = b.message => a = b
================================================================================
