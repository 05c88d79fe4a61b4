--------------------------- MODULE AdmissionLane ---------------------------
(***************************************************************************)
(* What an admission lane of the router promises, whatever data structure  *)
(* implements it: at most MaxActive tasks hold a permit, a permit that is  *)
(* returned goes at once to the best waiting task, and nobody waits while  *)
(* a permit is free.  FleetQueue is shown to implement this module.        *)
(***************************************************************************)
EXTENDS Naturals, FiniteSets

CONSTANTS
  Tasks,      (* the asyncio tasks that ask for a permit       *)
  MaxActive   (* number of permits of the lane                 *)

VARIABLES
  inUse,      (* the tasks that own a permit                                *)
  waiting,    (* the tasks that want one and have not given up              *)
  rank,       (* the priority each waiting task asked with                  *)
  arrival     (* a number that orders the waiting tasks by time of arrival  *)

laneVars == <<inUse, waiting, rank, arrival>>

Free == Cardinality(inUse) < MaxActive

(* w is served before u: a higher priority, or the same and an earlier arrival *)
ServedBefore(w, u) ==
  \/ rank[w] > rank[u]
  \/ rank[w] = rank[u] /\ arrival[w] < arrival[u]

LaneInit ==
  /\ inUse = {}
  /\ waiting = {}
  /\ rank \in [Tasks -> {0}]
  /\ arrival \in [Tasks -> {0}]

Admit(t) ==
  /\ t \notin inUse \cup waiting
  /\ Free
  /\ waiting = {}
  /\ inUse' = inUse \cup {t}
  /\ UNCHANGED <<waiting, rank, arrival>>

Wait(t) ==
  /\ t \notin inUse \cup waiting
  /\ ~Free
  /\ waiting' = waiting \cup {t}
  /\ \A u \in waiting : arrival[u] < arrival'[t]
  /\ \A u \in Tasks \ {t} : rank'[u] = rank[u] /\ arrival'[u] = arrival[u]
  /\ UNCHANGED inUse

(* a waiting task gives up: it is cancelled before it was served *)
Leave(t) ==
  /\ t \in waiting
  /\ waiting' = waiting \ {t}
  /\ UNCHANGED <<inUse, rank, arrival>>

Return(t) ==
  /\ t \in inUse
  /\ \/ /\ waiting = {}
        /\ inUse' = inUse \ {t}
        /\ UNCHANGED waiting
     \/ \E w \in waiting :
          /\ \A u \in waiting \ {w} : ServedBefore(w, u)
          /\ inUse' = (inUse \ {t}) \cup {w}
          /\ waiting' = waiting \ {w}
  /\ UNCHANGED <<rank, arrival>>

LaneNext == \E t \in Tasks : Admit(t) \/ Wait(t) \/ Leave(t) \/ Return(t)

LaneSpec == LaneInit /\ [][LaneNext]_laneVars

(* every owner of a permit eventually returns it *)
LaneFairness == \A t \in Tasks : WF_laneVars(Return(t))

LaneFairSpec == LaneSpec /\ LaneFairness
=============================================================================
