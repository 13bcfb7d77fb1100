------------------------------ MODULE MCPatrolStop ------------------------------
(* Small instances of PatrolStop. *)
EXTENDS PatrolStop, TLC

CONSTANTS fire, leak, vision, operator

MCEvents == {fire, leak}
OneEvent == {fire}
NoOthers == {}
MCOthers == {operator}
================================================================================
