------------------------- MODULE ContainerBackends -------------------------
(***************************************************************************)
(* The two backends without a process of their own: Docker containers      *)
(* (helpers/backends/docker_backend.py), long-lived ones for slots and     *)
(* ephemeral ones for conversations, and remote servers (helpers/backends/ *)
(* remote_backend.py), which are only asked how they are.                  *)
(*                                                                         *)
(* A container goes by its name at the daemon and by its id in the         *)
(* backend's memory; the daemon's containers outlive the service, and      *)
(* people remove them, or make others under the same name, by hand.        *)
(***************************************************************************)
EXTENDS Integers, FiniteSets

CONSTANTS
  Shared,     \* the slots with a long-lived container
  Ephemeral,  \* the names of containers for one conversation
  HostKnown,  \* the slots with a usable remote host
  NoBox,
  MaxBoxes    \* bound: how many containers there are in all

Names == Shared \cup Ephemeral

ASSUME ContainerAssumption == Shared \cap Ephemeral = {} /\ MaxBoxes \in Nat

VARIABLES
  box,      \* box[n]: the daemon's container of that name, or NoBox
  kept,     \* kept[n]: the id the backend remembers for n, or 0
  known,    \* known[n]: what the backend's status says of n: see Reports
  waiting,  \* names whose start waits for health
  boxes,    \* how many containers there have been
  removed,  \* ghost: the containers the program removed, and why
  up        \* up[n]: the remote server of n answers

dockerVars == <<box, kept, known, waiting, boxes, removed>>
containerVars == <<dockerVars, up>>
Reports == {"none", "healthy", "running", "down", "failed"}

There(n) == kept[n] # 0 /\ box[n] # NoBox /\ box[n].id = kept[n]
Running(n) == box[n] # NoBox /\ box[n].up
Forgotten(n) == kept' = [kept EXCEPT ![n] = 0] /\ known' = [known EXCEPT ![n] = "none"]

-----------------------------------------------------------------------------
(* start_slot and start_ephemeral_slot.  A remembered container that the   *)
(* daemon no longer knows makes reload raise, before anything changes.     *)
MayStart(n) == n \notin waiting /\ (kept[n] # 0 => There(n) /\ ~box[n].up)

(* run: the name must be free, which it is when the old container could    *)
(* be removed.                                                             *)
ContainerStart(n) ==
  /\ MayStart(n) /\ boxes < MaxBoxes
  /\ box[n] = NoBox \/ There(n)
  /\ box' = [box EXCEPT ![n] = [id |-> boxes + 1, up |-> TRUE, managed |-> TRUE, stale |-> FALSE]]
  /\ boxes' = boxes + 1
  /\ kept' = [kept EXCEPT ![n] = boxes + 1]
  /\ known' = IF There(n) THEN [known EXCEPT ![n] = "none"] ELSE known
  /\ removed' = IF There(n) THEN removed \cup {<<n, box[n].managed, box[n].stale, "asked">>} ELSE removed
  /\ waiting' = waiting \cup {n}
  /\ UNCHANGED up
StartConflicts(n) ==
  /\ MayStart(n) /\ box[n] # NoBox
  /\ kept' = [kept EXCEPT ![n] = 0] /\ known' = [known EXCEPT ![n] = "failed"]
  /\ UNCHANGED <<box, waiting, boxes, removed, up>>
StartReports(n) ==
  /\ n \in waiting /\ waiting' = waiting \ {n}
  /\ known' = [known EXCEPT ![n] = IF Running(n) THEN "healthy" ELSE "failed"]
  /\ UNCHANGED <<box, kept, boxes, removed, up>>

(* stop_slot and stop_ephemeral_slot, cleanup for each: the container is   *)
(* forgotten first; the daemon may fail to stop or remove it.              *)
RemoveContainer(n) ==
  /\ n \notin waiting /\ Forgotten(n)
  /\ \/ /\ There(n)
        /\ box' = [box EXCEPT ![n] = NoBox]
        /\ removed' = removed \cup {<<n, box[n].managed, box[n].stale, "asked">>}
     \/ UNCHANGED <<box, removed>>
  /\ UNCHANGED <<waiting, boxes, up>>

(* health_check of a name with a status.                                   *)
ContainerHealth(n) ==
  /\ known[n] # "none"
  /\ known' = [known EXCEPT ![n] = IF ~There(n) \/ ~box[n].up THEN "down" ELSE "healthy"]
  /\ UNCHANGED <<box, kept, waiting, boxes, removed, up>>

(* list_slots takes over the labelled containers it has no status for.     *)
Found == {n \in Names : box[n] # NoBox /\ box[n].managed /\ known[n] = "none"}
ListSlots ==
  /\ kept' = [n \in Names |-> IF n \in Found THEN box[n].id ELSE kept[n]]
  /\ known' = [n \in Names |-> IF n \in Found THEN (IF box[n].up THEN "running" ELSE "down") ELSE known[n]]
  /\ UNCHANGED <<box, waiting, boxes, removed, up>>

(* cleanup_stale_ephemerals, one container of the listing.                 *)
StaleBox(n) == n \in Ephemeral /\ box[n] # NoBox /\ box[n].managed /\ box[n].stale
CleanupStale(n) ==
  /\ StaleBox(n) /\ Forgotten(n)
  /\ box' = [box EXCEPT ![n] = NoBox]
  /\ removed' = removed \cup {<<n, box[n].managed, box[n].stale, "stale">>}
  /\ UNCHANGED <<waiting, boxes, up>>

(* The daemon restarts the containers of slots ("unless-stopped"), not     *)
(* ephemeral ones; time passes; people remove and make containers.         *)
Daemon(n) ==
  /\ \/ /\ box[n] # NoBox
        /\ \/ box' = [box EXCEPT ![n].up = IF n \in Shared THEN ~@ ELSE FALSE]
           \/ box' = [box EXCEPT ![n].stale = TRUE]
           \/ box' = [box EXCEPT ![n] = NoBox]
        /\ UNCHANGED boxes
     \/ /\ box[n] = NoBox /\ boxes < MaxBoxes
        /\ box' = [box EXCEPT ![n] = [id |-> boxes + 1, up |-> TRUE, managed |-> FALSE, stale |-> FALSE]]
        /\ boxes' = boxes + 1
  /\ UNCHANGED <<kept, known, waiting, removed, up>>
Forgets ==
  /\ kept' = [n \in Names |-> 0] /\ known' = [n \in Names |-> "none"] /\ waiting' = {}
  /\ UNCHANGED <<box, boxes, removed, up>>

Docker ==
  \/ ListSlots \/ Forgets
  \/ \E n \in Names : \/ ContainerStart(n) \/ StartConflicts(n) \/ StartReports(n) \/ RemoveContainer(n)
                      \/ ContainerHealth(n) \/ CleanupStale(n) \/ Daemon(n)

-----------------------------------------------------------------------------
(* The remote backend: start registers a slot and probes it, stop marks it *)
(* down but keeps it registered, so that the next health check may find it *)
(* running again; cleanup forgets all.                                     *)
Probe(n) == IF up[n] THEN "healthy" ELSE "down"
RemoteStart(n) ==
  /\ known' = [known EXCEPT ![n] = IF n \in HostKnown THEN Probe(n) ELSE "failed"]
  /\ UNCHANGED <<box, kept, waiting, boxes, removed, up>>
RemoteStop(n) ==
  /\ known[n] # "none" /\ known' = [known EXCEPT ![n] = "down"]
  /\ UNCHANGED <<box, kept, waiting, boxes, removed, up>>
RemoteHealth(n) ==
  /\ known[n] # "none"
  /\ known' = [known EXCEPT ![n] = IF n \in HostKnown THEN Probe(n) ELSE "down"]
  /\ UNCHANGED <<box, kept, waiting, boxes, removed, up>>
ServerChanges(n) == up' = [up EXCEPT ![n] = ~@] /\ UNCHANGED dockerVars

Remote == Forgets \/ \E n \in Shared : RemoteStart(n) \/ RemoteStop(n) \/ RemoteHealth(n) \/ ServerChanges(n)

-----------------------------------------------------------------------------
ContainerInit ==
  /\ box = [n \in Names |-> NoBox] /\ kept = [n \in Names |-> 0]
  /\ known = [n \in Names |-> "none"] /\ waiting = {} /\ boxes = 0 /\ removed = {}
  /\ up = [n \in Shared |-> FALSE]

ContainerTypeOK ==
  /\ kept \in [Names -> 0..boxes] /\ known \in [Names -> Reports]
  /\ waiting \subseteq Names /\ boxes \in 0..MaxBoxes
  /\ \A n \in Names : box[n] # NoBox => box[n].id \in 1..boxes

(* No container is removed that the program did not make, whatever was     *)
(* made under its name by hand, and the periodic clean-up removes none but *)
(* ephemeral ones that are past their time.                                *)
OnlyOwnRemoved == \A r \in removed : r[2] /\ (r[4] = "stale" => r[1] \in Ephemeral /\ r[3])
=============================================================================
