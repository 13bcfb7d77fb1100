---------------------------- MODULE MCDetectionStore ----------------------------
(* Small instances of DetectionStore: the adapter and a web request, one     *)
(* event id used for two contents with one picture, and a second event that  *)
(* is in the window of the later content only.                               *)
EXTENDS DetectionStore, TLC

CONSTANTS adapter, web, door, hall

Rep(e, k, t, s) == [event |-> e, kind |-> k, at |-> t, spot |-> s, image |-> 1]

MCCallers == {adapter, web}
OneEvent == {Rep(1, "fire", 0, door), Rep(1, "fire", 4, hall)}
MCReports == OneEvent \cup {Rep(2, "fire", 3, door)}
Symmetry == Permutations(MCCallers)
================================================================================
