------------------------------ MODULE CctvPermit -------------------------------
(***************************************************************************)
(* PC 4 as a whole: both cameras and cam_master, three processes that share *)
(* the two event topics.  A camera publishes in the frame that confirms.    *)
(***************************************************************************)
EXTENDS GateCam, CenterCam, CamMaster

cctvVars == <<gateVars, centerVars, masterVars>>

CctvInit == GateInit /\ CenterInit /\ MasterInit

GateFrame ==
  \/ GateQuietFrame /\ UNCHANGED masterVars
  \/ (\E x \in Xs : GateConfirms(x)) /\ Publish("gate", pending)

CenterFrame ==
  \/ CenterQuietFrame /\ UNCHANGED masterVars
  \/ (\E r \in Rois : SaysParked(r)) /\ Publish("center", "PARKED")
  \/ SaysExiting /\ Publish("center", "EXITING")

(* A camera takes longer to start than its last event to arrive. *)
CameraRestarts ==
  /\ UNCHANGED masterVars
  /\ \/ topics["gate"] = <<>> /\ GateRestarts /\ UNCHANGED centerVars
     \/ topics["center"] = <<>> /\ CenterRestarts /\ UNCHANGED gateVars

CctvNext ==
  \/ GateFrame /\ UNCHANGED centerVars
  \/ CenterFrame /\ UNCHANGED gateVars
  \/ CameraRestarts
  \/ MasterStep /\ UNCHANGED <<gateVars, centerVars>>

CctvSpec == CctvInit /\ [][CctvNext]_cctvVars

CctvTypeOK == GateTypeOK /\ CenterTypeOK /\ MasterTypeOK
================================================================================
