--------------------------- MODULE ModelBackends ---------------------------
(***************************************************************************)
(* The service with the backend its configuration asks for (helpers/       *)
(* backends/factory.py): processes, which it shares with the setup engine, *)
(* containers, or remote servers.                                          *)
(***************************************************************************)
EXTENDS SetupEngine, ContainerBackends

CONSTANTS
  Wanted,      \* what "backend" may say: "auto" or one of the three
  RemoteHosts  \* lmm_hosts is configured

VARIABLE backend

BackendTypes == {"subprocess", "docker", "remote"}
ASSUME BackendAssumption == Wanted \subseteq {"auto"} \cup BackendTypes
DetectBackend == IF RemoteHosts THEN "remote" ELSE "subprocess"
CreateBackend(wanted) == IF wanted = "auto" THEN DetectBackend ELSE wanted

FleetInit ==
  /\ Init /\ ContainerInit
  /\ \E w \in Wanted : backend = CreateBackend(w)
FleetNext ==
  /\ UNCHANGED backend
  /\ \/ backend = "subprocess" /\ Next /\ UNCHANGED containerVars
     \/ backend = "docker" /\ Docker /\ UNCHANGED vars
     \/ backend = "remote" /\ Remote /\ UNCHANGED vars
FleetSpec == FleetInit /\ [][FleetNext]_<<vars, containerVars, backend>>

FleetTypeOK == TypeOK /\ ContainerTypeOK /\ backend \in BackendTypes

(* Whatever backend runs the models, the program ends no process and       *)
(* removes no container that it did not start itself: not after a pid or a *)
(* name was used again, nor on a record that has gone stale (GOALS.md: it  *)
(* "never stops an unverified process").                                   *)
OnlyOwnEnded == OnlyOwnStopped /\ OnlyOwnRemoved
=============================================================================
