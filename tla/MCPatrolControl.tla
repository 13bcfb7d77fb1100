---------------------------- MODULE MCPatrolControl ----------------------------
(* Small instances of PatrolControl: two robots, one fire event. *)
EXTENDS PatrolControl, TLC

CONSTANTS robot1, robot6, fire1

MCRobots == {robot1, robot6}
MCFires == {fire1}
================================================================================
