------------------------------- MODULE StopReport -------------------------------
(***************************************************************************)
(* What the robot side promises about a detection, without its threads and  *)
(* messages: the robot is held in place because a stop was asked for, the   *)
(* event is reported only while it is held, and it drives on only after the *)
(* report was stored (or to stop again for the next event).  A stop or a    *)
(* resume that comes from elsewhere, or too late, disturbs the promise      *)
(* until the next stop is taken.                                            *)
(***************************************************************************)
VARIABLES
  robot,     \* "free" or "held"
  event,     \* how far the current detection has come
  disturbed  \* has anybody interfered since the stop was taken?

stopReportVars == <<robot, event, disturbed>>

StopReportInit == robot = "free" /\ event = "none" /\ disturbed = FALSE

Ask == event = "none" /\ event' = "asked" /\ UNCHANGED <<robot, disturbed>>

Take == event = "asked" /\ disturbed' = FALSE /\ UNCHANGED <<robot, event>>

Disturb == disturbed' = TRUE /\ UNCHANGED <<robot, event>>

Refuse == event = "asked" /\ event' = "none" /\ UNCHANGED <<robot, disturbed>>

Hold ==
  /\ robot = "free" /\ (event = "asked" \/ disturbed)
  /\ robot' = "held"
  /\ UNCHANGED <<event, disturbed>>

Confirm ==
  /\ event = "asked" /\ (robot = "held" \/ disturbed)
  /\ event' = "stopped"
  /\ UNCHANGED <<robot, disturbed>>

Report ==
  /\ event = "stopped" /\ (robot = "held" \/ disturbed)
  /\ event' = "reporting"
  /\ UNCHANGED <<robot, disturbed>>

NotStored == event = "reporting" /\ event' = "stopped" /\ UNCHANGED <<robot, disturbed>>

Stored == event = "reporting" /\ event' = "none" /\ UNCHANGED <<robot, disturbed>>

DriveOn ==
  /\ robot = "held" /\ (event \in {"none", "asked"} \/ disturbed)
  /\ robot' = "free"
  /\ UNCHANGED <<event, disturbed>>

StopReportNext ==
  \/ Ask \/ Take \/ Disturb \/ Refuse
  \/ Hold \/ Confirm \/ Report \/ NotStored \/ Stored \/ DriveOn

StopReportSpec == StopReportInit /\ [][StopReportNext]_stopReportVars
================================================================================
