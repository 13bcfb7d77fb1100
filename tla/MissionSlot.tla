------------------------------ MODULE MissionSlot ------------------------------
(***************************************************************************)
(* What the Control Server promises about drive authority, without its      *)
(* callbacks: there is one slot; a robot enters it while the CCTV permit is *)
(* given, may be granted authority to drive only after its goal was         *)
(* accepted and only while the permit is given, and gives the slot back     *)
(* before another robot can enter.                                          *)
(***************************************************************************)
CONSTANTS Robots, NoRobot

VARIABLES
  holder,  \* the robot in the slot, or NoRobot
  phase,   \* how far the robot in the slot has come
  permit   \* the CCTV permit

slotVars == <<holder, phase, permit>>

SlotInit ==
  /\ holder = NoRobot
  /\ phase = "idle"
  /\ permit = "unknown"

Reserve(r) ==
  /\ phase = "idle"
  /\ phase' = "reserved"
  /\ holder' = r
  /\ permit' = "allowed"

Accept ==
  /\ phase = "reserved"
  /\ phase' = "accepted"
  /\ UNCHANGED <<holder, permit>>

Grant ==
  /\ phase = "accepted"
  /\ permit = "allowed"
  /\ phase' = "driving"
  /\ UNCHANGED <<holder, permit>>

Revoke ==
  /\ phase = "driving"
  /\ phase' = "accepted"
  /\ UNCHANGED <<holder, permit>>

Release ==
  /\ phase # "idle"
  /\ phase' = "idle"
  /\ holder' = NoRobot
  /\ UNCHANGED permit

ChangePermit(p) ==
  /\ permit' = p
  /\ UNCHANGED <<holder, phase>>

SlotNext ==
  \/ \E r \in Robots : Reserve(r)
  \/ Accept
  \/ Grant
  \/ Revoke
  \/ Release
  \/ \E p \in {"denied", "allowed"} : ChangePermit(p)

SlotSpec == SlotInit /\ [][SlotNext]_slotVars
================================================================================
