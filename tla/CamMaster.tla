------------------------------- MODULE CamMaster -------------------------------
(***************************************************************************)
(* cam_master.py: two subscriptions and one permit.  Each camera's events   *)
(* keep their order on their own topic, but nothing orders one topic with   *)
(* the other, so an event may be handled after a newer one of the other     *)
(* camera; a message may also be delivered twice.  All three nodes run on   *)
(* one computer and read one clock, which is a counter here.                *)
(***************************************************************************)
EXTENDS Integers, Sequences

CONSTANTS
  MaxEvents,  \* bound on messages published on the two topics
  MaxStrays   \* bound on messages that do not belong on their topic

ASSUME MasterAssumption == MaxEvents \in Nat /\ MaxStrays \in Nat

VARIABLES
  clock,     \* header.stamp of the last message
  topics,    \* messages of each topic on their way
  permit,    \* _patrol_allowed
  seenIds,   \* _seen_event_ids
  accepted,  \* _last_accepted_event_stamp, 0 for None
  strays,    \* messages published that do not belong on their topic
  newest     \* history: the last event of a camera since this process started

masterVars == <<clock, topics, permit, seenIds, accepted, strays, newest>>

Topics == {"gate", "center"}
AllowedStates == [gate |-> {"ENTERING", "EXITED"}, center |-> {"PARKED", "EXITING"}]
EventStates == {"ENTERING", "EXITED", "PARKED", "EXITING"}
PatrolAllowedBy(state) == state \in {"PARKED", "EXITED"}

(* An event id is made of the session, the state and a number: no two events *)
(* share one, and the stamp stands for it.                                   *)
Messages == [camera : Topics, state : EventStates, stamp : 1 .. MaxEvents]
NoMessage == [camera |-> "gate", state |-> "none", stamp |-> 0]

MasterTypeOK ==
  /\ clock \in 0 .. MaxEvents
  /\ topics \in [Topics -> Seq(Messages)]
  /\ permit \in BOOLEAN
  /\ seenIds \subseteq 1 .. MaxEvents
  /\ accepted \in 0 .. MaxEvents
  /\ strays \in 0 .. MaxStrays
  /\ newest \in Messages \cup {NoMessage}

MasterInit ==
  /\ clock = 0
  /\ topics = [t \in Topics |-> <<>>]
  /\ permit = TRUE
  /\ seenIds = {}
  /\ accepted = 0
  /\ strays = 0
  /\ newest = NoMessage

--------------------------------------------------------------------------------
(* A camera publishes (_publish_state). *)
Publish(camera, state) ==
  LET m == [camera |-> camera, state |-> state, stamp |-> clock + 1] IN
  /\ clock < MaxEvents
  /\ clock' = clock + 1
  /\ topics' = [topics EXCEPT ![camera] = Append(@, m)]
  /\ newest' = m
  /\ UNCHANGED <<permit, seenIds, accepted, strays>>

(* A message that does not belong on its topic: another camera's, or a state  *)
(* its camera does not say.                                                   *)
PublishStray(topic, camera, state) ==
  /\ camera # topic \/ state \notin AllowedStates[topic]
  /\ clock < MaxEvents /\ strays < MaxStrays
  /\ clock' = clock + 1 /\ strays' = strays + 1
  /\ topics' = [topics EXCEPT ![topic] =
       Append(@, [camera |-> camera, state |-> state, stamp |-> clock + 1])]
  /\ UNCHANGED <<permit, seenIds, accepted, newest>>

(* _handle_event *)
Belongs(topic, m) == m.camera = topic /\ m.state \in AllowedStates[topic]

(* Mutant: every event is applied as it comes. *)
OutdatedNever(m) == FALSE

Outdated(m) == accepted # 0 /\ m.stamp < accepted

Handle(topic) ==
  LET m == Head(topics[topic]) IN
  /\ topics[topic] # <<>>
  /\ IF ~Belongs(topic, m) \/ m.stamp \in seenIds
     THEN UNCHANGED <<permit, seenIds, accepted>>
     ELSE /\ seenIds' = seenIds \cup {m.stamp}
          /\ IF Outdated(m)
             THEN UNCHANGED <<permit, accepted>>
             ELSE permit' = PatrolAllowedBy(m.state) /\ accepted' = m.stamp
  /\ UNCHANGED <<clock, strays, newest>>

(* _on_gate_event, _on_center_event; the message may come again. *)
OnEvent(topic) ==
  /\ Handle(topic)
  /\ \/ topics' = [topics EXCEPT ![topic] = Tail(@)]
     \/ UNCHANGED topics

(* _purge_old_event_ids: those older than EVENT_ID_TTL_SEC. *)
PurgeOldEventIds ==
  \E n \in 1 .. MaxEvents :
    /\ n \in seenIds
    /\ seenIds' = {i \in seenIds : i > n}
    /\ UNCHANGED <<clock, topics, permit, accepted, strays, newest>>

(* The process is started anew; VOLATILE topics keep nothing for it. *)
MasterRestarts ==
  /\ topics' = [t \in Topics |-> <<>>]
  /\ permit' = TRUE
  /\ seenIds' = {}
  /\ accepted' = 0
  /\ newest' = NoMessage
  /\ UNCHANGED <<clock, strays>>

MasterStep ==
  \/ \E t \in Topics : OnEvent(t)
  \/ PurgeOldEventIds
  \/ MasterRestarts
  \/ \E t, c \in Topics, s \in EventStates : PublishStray(t, c, s)

MasterNext ==
  MasterStep \/ \E c \in Topics : \E s \in AllowedStates[c] : Publish(c, s)

MasterSpec == MasterInit /\ [][MasterNext]_masterVars

--------------------------------------------------------------------------------
(* Once every message is handled, the permit is what the newest event of the  *)
(* two cameras asks for, in whatever order the topics delivered: an older     *)
(* event never overturns a newer one (docs/vision.md, 4-1), and none is lost  *)
(* to the checks, the duplicates or the purge.  A restarted cam_master knows  *)
(* nothing and permits.                                                       *)
LatestEventRules ==
  (\A t \in Topics : topics[t] = <<>>) =>
    permit = IF newest = NoMessage THEN TRUE ELSE PatrolAllowedBy(newest.state)

================================================================================
