------------------------------ MODULE GridStore --------------------------------
(***************************************************************************)
(* Maps and costmaps of the System Monitor: map_service.receive_map,        *)
(* costmap_service.receive_costmap and their tables.  A grid becomes a      *)
(* picture file and a row that names it.  Maps come from the ROS adapter    *)
(* and over HTTP, and every one that was accepted is kept; costmaps come    *)
(* from the adapter alone, and only the latest of a source is kept (one     *)
(* source here, they share nothing).  A request is taken apart at each read *)
(* and write of the directory; a transaction is one step.                   *)
(***************************************************************************)
EXTENDS Integers

CONSTANTS
  MapSenders, \* requests that may carry a map: the adapter, HTTP requests
  Adapter,    \* the one of them that carries costmaps too
  Grids,      \* records of kind, id, content and at (observed_at)
  NoGrid,
  GridClock   \* the present, in the unit of "at"; five minutes are one unit

ASSUME AdapterAssumption == Adapter \in MapSenders
ASSUME GridTimeAssumption == GridClock \in Int /\ \A g \in Grids : g.at \in Int
ASSUME NoGridAssumption == NoGrid \notin Grids
ASSUME GridKindAssumption == \A g \in Grids : g.kind \in {"map", "costmap"}

VARIABLES
  mapRows,    \* table maps: every accepted map
  mapLatest,  \* table map_latest
  costLatest, \* table costmap_latest
  gridFiles,  \* the picture files; the name is the hash of the whole message
  gridAt,     \* where each sender's request is
  gridIn,     \* the message of the request
  gridMade,   \* did it make the file?
  gridBefore, \* the costmap it has replaced
  (* History, read only by the properties. *)
  carried,    \* messages that two requests carried at once
  abandoned   \* messages of requests that died

gridVars == <<mapRows, mapLatest, costLatest, gridFiles, gridAt, gridIn, gridMade,
              gridBefore, carried, abandoned>>
gridRows == <<mapRows, mapLatest, costLatest>>

GridSteps == {"idle", "exists", "write", "store", "remove new", "remove old"}

GridTypeOK ==
  /\ mapRows \cup gridFiles \cup carried \cup abandoned \subseteq Grids
  /\ mapLatest \in Grids \cup {NoGrid} /\ costLatest \in Grids \cup {NoGrid}
  /\ gridAt \in [MapSenders -> GridSteps]
  /\ gridIn \in [MapSenders -> Grids \cup {NoGrid}]
  /\ gridBefore \in [MapSenders -> Grids \cup {NoGrid}]
  /\ gridMade \in [MapSenders -> BOOLEAN]

GridInit ==
  /\ mapRows = {} /\ gridFiles = {} /\ carried = {} /\ abandoned = {}
  /\ mapLatest = NoGrid /\ costLatest = NoGrid
  /\ gridAt = [s \in MapSenders |-> "idle"]
  /\ gridIn = [s \in MapSenders |-> NoGrid]
  /\ gridMade = [s \in MapSenders |-> FALSE]
  /\ gridBefore = [s \in MapSenders |-> NoGrid]

--------------------------------------------------------------------------------
(* validate_map: a grid of the future is refused. *)
ValidGrid(g) == g.at <= GridClock + 1

ReceiveGrid(s, g) ==
  /\ gridAt[s] = "idle"
  /\ ValidGrid(g)
  /\ g.kind = "costmap" => s = Adapter
  /\ gridAt' = [gridAt EXCEPT ![s] = "exists"]
  /\ gridIn' = [gridIn EXCEPT ![s] = g]
  /\ gridMade' = [gridMade EXCEPT ![s] = FALSE]
  /\ carried' = carried \cup (IF \E o \in MapSenders : gridIn[o] = g THEN {g} ELSE {})
  /\ UNCHANGED <<gridRows, gridFiles, gridBefore, abandoned>>

GridGoesTo(s, step) ==
  gridAt' = [gridAt EXCEPT ![s] = step] /\ UNCHANGED <<gridIn, gridBefore, carried, abandoned>>

EndGrid(s) ==
  /\ gridAt' = [gridAt EXCEPT ![s] = "idle"]
  /\ gridIn' = [gridIn EXCEPT ![s] = NoGrid]
  /\ gridBefore' = [gridBefore EXCEPT ![s] = NoGrid]
  /\ UNCHANGED carried

CheckGridImage(s) ==
  /\ gridAt[s] = "exists"
  /\ GridGoesTo(s, IF gridIn[s] \in gridFiles THEN "store" ELSE "write")
  /\ UNCHANGED <<gridRows, gridFiles, gridMade>>

(* The picture goes to a temporary file and is renamed, or the write fails  *)
(* and the temporary file is removed.                                       *)
WriteGridImage(s) ==
  /\ gridAt[s] = "write"
  /\ \/ /\ gridFiles' = gridFiles \cup {gridIn[s]}
        /\ gridMade' = [gridMade EXCEPT ![s] = TRUE]
        /\ GridGoesTo(s, "store")
     \/ EndGrid(s) /\ UNCHANGED <<gridFiles, gridMade, abandoned>>
  /\ UNCHANGED gridRows

--------------------------------------------------------------------------------
(* The end of store_map and store_costmap. *)

(* An exception leaves the store: a file this request made goes. *)
RefuseGrid(s) ==
  /\ IF gridMade[s] THEN GridGoesTo(s, "remove new") ELSE EndGrid(s) /\ UNCHANGED abandoned
  /\ UNCHANGED gridRows

Newer(g, latest) == latest # NoGrid => g.at > latest.at
SameMapId(g) == {m \in mapRows : m.id = g.id}
SameCostmapId(g) == {m \in {costLatest} \ {NoGrid} : m.id = g.id}

(* Disjuncts: accepted; the same map again; its id has another content, it  *)
(* is not newer than the current map, or the database raises.               *)
StoreMap(s) ==
  LET g == gridIn[s] IN
  \/ /\ SameMapId(g) = {}
     /\ Newer(g, mapLatest)
     /\ mapRows' = mapRows \cup {g} /\ mapLatest' = g
     /\ EndGrid(s)
     /\ UNCHANGED <<costLatest, abandoned>>
  \/ SameMapId(g) = {g} /\ EndGrid(s) /\ UNCHANGED <<gridRows, abandoned>>
  \/ RefuseGrid(s)

(* Mutant: the picture that was replaced is not remembered. *)
AcceptForgetting(s) ==
  /\ costLatest' = gridIn[s]
  /\ EndGrid(s)
  /\ UNCHANGED <<mapRows, mapLatest, abandoned>>

(* The row is replaced, and the picture of the old one is still there. *)
AcceptCostmap(s) ==
  /\ costLatest' = gridIn[s]
  /\ IF costLatest \in {NoGrid, gridIn[s]}
       THEN EndGrid(s)
       ELSE /\ gridAt' = [gridAt EXCEPT ![s] = "remove old"]
            /\ gridBefore' = [gridBefore EXCEPT ![s] = costLatest]
            /\ UNCHANGED <<gridIn, carried>>
  /\ UNCHANGED <<mapRows, mapLatest, abandoned>>

StoreCostmap(s) ==
  LET g == gridIn[s] IN
  \/ /\ Newer(g, costLatest)
     /\ SameCostmapId(g) = {}
     /\ AcceptCostmap(s)
  \/ SameCostmapId(g) = {g} /\ EndGrid(s) /\ UNCHANGED <<gridRows, abandoned>>
  \/ RefuseGrid(s)

StoreGrid(s) ==
  /\ gridAt[s] = "store"
  /\ IF gridIn[s].kind = "map" THEN StoreMap(s) ELSE StoreCostmap(s)
  /\ UNCHANGED <<gridFiles, gridMade>>

RemoveNewImage(s) ==
  /\ gridAt[s] = "remove new"
  /\ gridFiles' = gridFiles \ {gridIn[s]}
  /\ EndGrid(s)
  /\ UNCHANGED <<gridRows, gridMade, abandoned>>

(* Only after the commit. *)
RemoveOldImage(s) ==
  /\ gridAt[s] = "remove old"
  /\ gridFiles' = gridFiles \ {gridBefore[s]}
  /\ EndGrid(s)
  /\ UNCHANGED <<gridRows, gridMade, abandoned>>

(* The process dies, or an unlink raises: what is done stays done. *)
GridDies(s) ==
  /\ gridAt[s] # "idle"
  /\ abandoned' = abandoned \cup ({gridIn[s], gridBefore[s]} \ {NoGrid})
  /\ EndGrid(s)
  /\ UNCHANGED <<gridRows, gridFiles, gridMade>>

GridNext ==
  \E s \in MapSenders :
    \/ \E g \in Grids : ReceiveGrid(s, g)
    \/ CheckGridImage(s)
    \/ WriteGridImage(s)
    \/ StoreGrid(s)
    \/ RemoveNewImage(s)
    \/ RemoveOldImage(s)
    \/ GridDies(s)

GridSpec == GridInit /\ [][GridNext]_gridVars

--------------------------------------------------------------------------------
(***************************************************************************)
(* Properties.                                                              *)
(***************************************************************************)

(* Rows and pictures belong together, through failed and stale requests and *)
(* deaths at any step.  Every map that was accepted, the current one and    *)
(* the current costmap have their pictures; only a map that two requests    *)
(* carried at once may lose its own.  And no picture is left behind: each   *)
(* is named by a row, or belongs to a request under way or that died.       *)
PicturesMatchRows ==
  /\ \A g \in mapRows \cup ({mapLatest, costLatest} \ {NoGrid}) : g \in gridFiles \cup carried
  /\ \A g \in gridFiles :
       \/ g \in mapRows \cup {costLatest}
       \/ \E s \in MapSenders : g \in {gridIn[s], gridBefore[s]}
       \/ g \in abandoned
================================================================================
