---------------------------- MODULE MCPatrolRecords ----------------------------
(* A small instance of PatrolRecords: one waypoint that the robot leaves and  *)
(* reaches anew in two goals, a feedback queue of one.                        *)
EXTENDS PatrolRecords, TLC

CONSTANTS gate

MCWaypoints == {gate}
MCResults == {"SUCCEEDED"}
================================================================================
