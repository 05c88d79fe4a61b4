-------------------------- MODULE ModelProcesses ---------------------------
(***************************************************************************)
(* Who may stop which llama-server (helpers/backends/subprocess_backend.py *)
(* and the ownership record it shares with setup/engine.py): processes of  *)
(* the machine, whose pids are used again, the slots of the service's      *)
(* backend, and the one file that survives a restart of the service.       *)
(*                                                                         *)
(* A process is known by its pid and the time it was created; both, with   *)
(* its executable and its model, are compared before it is stopped.  born  *)
(* is that time.  A foreign process is any that the program did not start: *)
(* another llama-server with the same model is the hardest to tell apart.  *)
(***************************************************************************)
EXTENDS Integers, FiniteSets

CONSTANTS
  Slots,       \* the slots of the service's backend
  SlotPort, SlotModel,
  SlotNamed,   \* slots whose command line names the model (a router preset may not)
  Adopted,     \* the slots adopted at startup: the Hermes GPU slot, if any
  Ports, Models, Pids,
  Nothing,     \* no process, no record, no model, no slot
  MaxBirths    \* bound: how many processes there are in all

Setup == "setup"      \* the starter of what the setup engine starts
Foreign == "foreign"

ASSUME ProcessAssumption ==
  /\ SlotPort \in [Slots -> Ports] /\ SlotModel \in [Slots -> Models]
  /\ SlotNamed \subseteq Slots /\ Adopted \subseteq Slots
  /\ Nothing \notin Slots \cup Models /\ MaxBirths \in Nat
  /\ Slots \cap {Setup, Foreign} = {}

VARIABLES
  proc,     \* proc[p]: the process with pid p, or Nothing
  record,   \* runtime-process.json, or Nothing
  held,     \* held[s]: the process the service's backend tracks for s, or Nothing
  doing,    \* doing[s]: "idle", "starting" (waiting for health) or "stopping"
  births,   \* how many processes there have been (the clock of creation times)
  ended     \* ghost: <<starter, asker>> of every process the program ended

host == <<proc, births>>
processVars == <<proc, record, held, doing, births, ended>>

Handles == [pid : Pids, born : 1..MaxBirths]

Alive(h) == h # Nothing /\ proc[h.pid] # Nothing /\ proc[h.pid].born = h.born
PortOpen(port) == \E p \in Pids : proc[p] # Nothing /\ proc[p].port = port /\ proc[p].serving
Serves(port, m) == \E p \in Pids : proc[p] # Nothing /\ proc[p].port = port /\ proc[p].serving /\ proc[p].model = m

(* Popen: a process with a free pid, that still has its model to load.     *)
Spawned(p, by, port, m) ==
  /\ births < MaxBirths /\ proc[p] = Nothing
  /\ births' = births + 1
  /\ proc' = [proc EXCEPT ![p] = [born |-> births + 1, by |-> by, port |-> port, model |-> m, serving |-> FALSE]]
\* mutated: the creation time is read before the process exists
NewHandleEarly(p) == [pid |-> p, born |-> births]
NewHandle(p) == [pid |-> p, born |-> births + 1]

(* Its end, asked for by the program on behalf of who.                     *)
Terminated(p, who) ==
  /\ proc' = [proc EXCEPT ![p] = Nothing]
  /\ ended' = ended \cup {<<proc[p].by, who>>}
  /\ UNCHANGED births

(* The comparison of a saved pid with the process that has it now.         *)
\* mutated: the pid alone is compared
SameProcessByPid(r) == proc[r.pid] # Nothing
SameProcess(r) ==
  /\ proc[r.pid] # Nothing
  /\ proc[r.pid].born = r.born
  /\ proc[r.pid].model = r.model

RecordFor(h, s, port, m) == [pid |-> h.pid, born |-> h.born, slot |-> s, port |-> port, model |-> m]
RemovedFor(pid) == IF record # Nothing /\ record.pid = pid THEN Nothing ELSE record

-----------------------------------------------------------------------------
(* The machine: a loading server binds its port, or finds it taken and     *)
(* exits; a process exits or is killed; anybody starts one.                *)

Loads(p) ==
  /\ proc[p] # Nothing /\ ~proc[p].serving
  /\ proc' = [proc EXCEPT ![p] = IF PortOpen(proc[p].port) THEN Nothing ELSE [@ EXCEPT !.serving = TRUE]]
  /\ UNCHANGED <<record, held, doing, births, ended>>

Exits(p) ==
  /\ proc[p] # Nothing
  /\ proc' = [proc EXCEPT ![p] = Nothing]
  /\ UNCHANGED <<record, held, doing, births, ended>>

ForeignStarts(p, port, m) ==
  /\ Spawned(p, Foreign, port, m)
  /\ UNCHANGED <<record, held, doing, ended>>

-----------------------------------------------------------------------------
(* The service's backend.  BackendManager lets one operation at a time     *)
(* work on a slot; different slots, and the setup engine, interleave.      *)

(* start_slot: nothing when the tracked process still runs; else what is   *)
(* tracked is dropped, and unless the model is missing or the port taken a *)
(* process is spawned, and recorded before it is waited for.               *)
CommandModel(s) == IF s \in SlotNamed THEN SlotModel[s] ELSE Nothing

StartRefused(s) ==
  /\ doing[s] = "idle" /\ held[s] # Nothing /\ ~Alive(held[s])
  /\ held' = [held EXCEPT ![s] = Nothing]
  /\ UNCHANGED <<proc, record, doing, births, ended>>

Start(s, p) ==
  /\ doing[s] = "idle" /\ ~Alive(held[s]) /\ ~PortOpen(SlotPort[s])
  /\ Spawned(p, s, SlotPort[s], CommandModel(s))
  /\ held' = [held EXCEPT ![s] = NewHandle(p)]
  /\ record' = RecordFor(NewHandle(p), s, SlotPort[s], SlotModel[s])
  /\ doing' = [doing EXCEPT ![s] = "starting"]
  /\ UNCHANGED ended

(* The record could not be written: the new process is ended again.        *)
StartUnrecorded(s) ==
  /\ doing[s] = "idle" /\ ~Alive(held[s]) /\ ~PortOpen(SlotPort[s])
  /\ births < MaxBirths /\ \E p \in Pids : proc[p] = Nothing
  /\ births' = births + 1
  /\ held' = [held EXCEPT ![s] = Nothing]
  /\ ended' = ended \cup {<<s, s>>}
  /\ UNCHANGED <<proc, record, doing>>

(* The wait ends when somebody answers on the port, when the process has   *)
(* exited (only then is its record removed), or at the timeout.            *)
StartEnds(s) ==
  /\ doing[s] = "starting"
  /\ doing' = [doing EXCEPT ![s] = "idle"]
  /\ record' = IF Alive(held[s]) THEN record ELSE RemovedFor(held[s].pid)
  /\ UNCHANGED <<proc, held, births, ended>>

(* stop_slot refuses a process it cannot identify; the bookkeeping follows *)
(* the wait for the process to end.                                        *)
StopBegins(s) ==
  /\ doing[s] = "idle" /\ Alive(held[s])
  /\ doing' = [doing EXCEPT ![s] = "stopping"]
  /\ Terminated(held[s].pid, s)
  /\ UNCHANGED <<record, held>>
StopEnds(s) ==
  /\ doing[s] = "stopping"
  /\ doing' = [doing EXCEPT ![s] = "idle"]
  /\ held' = [held EXCEPT ![s] = Nothing]
  /\ record' = RemovedFor(held[s].pid)
  /\ UNCHANGED <<proc, births, ended>>

(* adopt_slot, when the service starts. *)
\* mutated: whatever was recorded last is adopted
MayAdoptAnySlot(s) == s \in Adopted /\ record # Nothing /\ SameProcess(record)
MayAdopt(s) ==
  /\ s \in Adopted /\ record # Nothing
  /\ record.slot = s /\ record.port = SlotPort[s]
  /\ SameProcess(record) /\ record.model = SlotModel[s]

(* The service dies, processes stay, and it is started again.              *)
ServiceRestarts ==
  /\ held' = [s \in Slots |-> IF MayAdopt(s) THEN [pid |-> record.pid, born |-> record.born] ELSE Nothing]
  /\ doing' = [s \in Slots |-> "idle"]
  /\ UNCHANGED <<proc, record, births, ended>>

-----------------------------------------------------------------------------
ProcessInit ==
  /\ proc = [p \in Pids |-> Nothing] /\ record = Nothing
  /\ held = [s \in Slots |-> Nothing] /\ doing = [s \in Slots |-> "idle"]
  /\ births = 0 /\ ended = {}

Machine ==
  \/ \E p \in Pids : Loads(p) \/ Exits(p)
  \/ \E p \in Pids, port \in Ports, m \in Models : ForeignStarts(p, port, m)
Backend ==
  \E s \in Slots : \/ StartRefused(s) \/ StartUnrecorded(s) \/ StartEnds(s)
                   \/ StopBegins(s) \/ StopEnds(s)
                   \/ \E p \in Pids : Start(s, p)

-----------------------------------------------------------------------------
ProcessTypeOK ==
  /\ births \in 0..MaxBirths
  /\ \A p \in Pids : proc[p] # Nothing =>
          /\ proc[p].born \in 1..births /\ proc[p].serving \in BOOLEAN
          /\ proc[p].by \in Slots \cup {Setup, Foreign}
  /\ record # Nothing => record.pid \in Pids /\ record.born \in 1..births
  /\ held \in [Slots -> Handles \cup {Nothing}]
  /\ doing \in [Slots -> {"idle", "starting", "stopping"}]

ProcessSpec == ProcessInit /\ [][Machine \/ Backend \/ ServiceRestarts]_processVars

(* No process is ended by the program that the program did not start, and a *)
(* slot ends no process but its own: not after a pid was used again, not on *)
(* a stale record, not after a restart of the service (the identity checks  *)
(* of stop_slot, adopt_slot and stop_managed).                              *)
OnlyOwnStopped == \A e \in ended : e[1] # Foreign /\ (e[2] \in Slots => e[1] = e[2])

(* What the service tracks for a slot, and still runs, was started for that *)
(* slot: the record adopted at startup is never somebody else's.            *)
TrackedIsItsSlot == \A s \in Slots : Alive(held[s]) => proc[held[s].pid].by = s

(* A service that starts again takes up the process of a slot it adopts,   *)
(* if it still runs: the ownership record is written before the load "so a *)
(* restarted router can still adopt and stop this exact process"           *)
(* (subprocess_backend.py:188).                                            *)
RestartAdopts == [][ServiceRestarts => \A s \in Adopted : Alive(held[s]) => held'[s] = held[s]]_processVars
=============================================================================
