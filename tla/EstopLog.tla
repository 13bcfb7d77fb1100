------------------------------- MODULE EstopLog --------------------------------
(***************************************************************************)
(* The E-stop of the System Monitor: one topic for all targets, a row for   *)
(* the present state of each target and a log of its changes (safety_       *)
(* service.receive_estop, safety.store_estop; the store is one              *)
(* transaction).  The adapter's queue holds one state, a newer one drives   *)
(* it out, and an adapter that starts is sent the last one again            *)
(* (TRANSIENT_LOCAL).  Nobody publishes the E-stop in this release, so the  *)
(* states and times that come are free.                                     *)
(***************************************************************************)
EXTENDS Naturals, SequencesExt

CONSTANTS
  Estops,      \* records of target, active, reason and at (observed_at)
  NoEstop,
  MaxEstopRows \* bound: rows of one target's log

ASSUME EstopAssumption ==
  /\ MaxEstopRows \in Nat
  /\ NoEstop \notin Estops
  /\ \A e \in Estops : e.at \in Nat

Targets == {e.target : e \in Estops}

VARIABLES
  estopTopic,  \* the last E-stop sent
  estopWaits,  \* is it in the adapter's queue?
  estopLatest, \* table estop_latest, by target
  estopLog     \* table estop_history, by target

estopVars == <<estopTopic, estopWaits, estopLatest, estopLog>>

EstopTypeOK ==
  /\ estopTopic \in Estops \cup {NoEstop}
  /\ estopWaits \in BOOLEAN
  /\ estopLatest \in [Targets -> Estops \cup {NoEstop}]
  /\ estopLog \in [Targets -> Seq(Estops)]

EstopInit ==
  /\ estopTopic = NoEstop
  /\ estopWaits = FALSE
  /\ estopLatest = [t \in Targets |-> NoEstop]
  /\ estopLog = [t \in Targets |-> <<>>]

--------------------------------------------------------------------------------
SendEstop(e) ==
  /\ estopTopic' = e
  /\ estopWaits' = TRUE
  /\ UNCHANGED <<estopLatest, estopLog>>

StaleEstop(e) == estopLatest[e.target] # NoEstop /\ e.at < estopLatest[e.target].at

(* Mutant: only the flag is compared. *)
ActiveChanged(e) ==
  estopLatest[e.target] # NoEstop => estopLatest[e.target].active # e.active

EstopChanged(e) ==
  estopLatest[e.target] # NoEstop =>
    \/ estopLatest[e.target].active # e.active
    \/ estopLatest[e.target].reason # e.reason

StoreEstop(e) ==
  /\ EstopChanged(e) => Len(estopLog[e.target]) < MaxEstopRows
  /\ estopLatest' = [estopLatest EXCEPT ![e.target] = e]
  /\ estopLog' = IF EstopChanged(e) THEN [estopLog EXCEPT ![e.target] = Append(@, e)]
                                    ELSE estopLog

(* The sample may also be stale, or its store fail: it is gone then. *)
ReceiveEstop ==
  /\ estopWaits
  /\ estopWaits' = FALSE
  /\ \/ ~StaleEstop(estopTopic) /\ StoreEstop(estopTopic)
     \/ UNCHANGED <<estopLatest, estopLog>>
  /\ UNCHANGED estopTopic

EstopAdapterStarts ==
  /\ estopWaits' = (estopTopic # NoEstop)
  /\ UNCHANGED <<estopTopic, estopLatest, estopLog>>

EstopNext ==
  \/ \E e \in Estops : SendEstop(e)
  \/ ReceiveEstop
  \/ EstopAdapterStarts

EstopSpec == EstopInit /\ [][EstopNext]_estopVars

--------------------------------------------------------------------------------
(***************************************************************************)
(* Properties.                                                              *)
(***************************************************************************)

(* The row and the log of a target tell one story, through states sent      *)
(* again, out of order or lost and restarts of the adapter: the log ends    *)
(* with the present state, has no row without a change and never goes back  *)
(* in time.                                                                 *)
EstopLogTellsLatest ==
  \A t \in Targets :
    LET log == estopLog[t]
        state(e) == <<e.active, e.reason>> IN
    /\ log = <<>> <=> estopLatest[t] = NoEstop
    /\ log # <<>> => state(Last(log)) = state(estopLatest[t]) /\ Last(log).at <= estopLatest[t].at
    /\ \A i \in 1 .. Len(log) - 1 :
         state(log[i]) # state(log[i + 1]) /\ log[i].at <= log[i + 1].at
================================================================================
