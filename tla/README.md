# A formal model of local-model-router

TLA+ specifications of the router's concurrent core, of its routing, its setup
and its ticket coordinator, TLC configurations that check them on small
instances, and TLAPS proofs of the results that do not depend on the size of
the instance.

- [1. The system](#1-the-system): components, state, interactions, what is hard
- [2. Modules](#2-modules): what each module models and how it corresponds to the code
- [3. Runs](#3-runs): what each run asks, its bounds and why they are enough
- [4. Fairness](#4-fairness)
- [5. Proofs](#5-proofs)
- [6. Disagreements between the code and what is said of it](#6-disagreements-between-the-code-and-what-is-said-of-it)
- [7. Not modelled](#7-not-modelled)
- [8. Plan](#8-plan)

To check a run: `tlc -workers 2 -config FleetQueue.cfg MCFleetQueue`. To check
proofs: `tlapm FleetQueueProofs.tla`. `PROJECT.json` names, for every run, its
module, configuration and properties; for every definition, the source lines it
models; for every property, a plausible bug in the code (a *mutant*, written
beside the definition it breaks as an operator with a longer name) that makes
TLC report it.

## 1. The system

The router is one asyncio process (`service/app.py`) that accepts OpenAI-style
requests, decides where each goes (a local llama.cpp *slot* it manages, or an
*upstream* provider), admits it through a bounded *lane*, forwards it, streams
the answer, and records everything in SQLite. Beside the requests run a restart
monitor, a watcher that swaps the model of the Hermes GPU slot, a reaper of
sub-agent terminals, the control calls of dashboard, harness and MCP, a thread
of the setup engine, and a coordinator that hands tickets to agents.

Because everything but setup runs on one event loop, code between two `await`s
is atomic. The modules of the concurrent core therefore have one action per
stretch of code from one await to the next, and all their nondeterminism is in
what happens *at* the awaits: which task runs next, what a backend, a probe or a
client answers, and where `CancelledError` lands. Setup runs in threads of its
own and shares files with the command line, without locks: there every wait is an
action, and so is every read, write and replacement of a file that another thread
or process may change meanwhile (what is taken in one step all the same is listed
with the module, in section 2). The coordinator's handlers never await, so they do not
interleave, but each is several transactions and file writes between which the
service may die.

| component | state it keeps | operations | behaviours that are hard | what makes it correct |
|---|---|---|---|---|
| admission lanes, `fleet_manager.FleetQueue` | counter, sorted waiter list, futures | `acquire`, `release`, cancellation handler | cancel before or after the grant; cancelled entries still listed; priorities | permits neither leak nor double; bounds; priority order; no lost wakeup |
| chat ingress, `app.chat_completions`, `forward_to_upstream`, streaming | telemetry row, `finished`, tracked slot, permit | open, route, `admit`, forward, stream, `finish` | cancellation at every await, failing telemetry, clients that leave mid-stream | whatever path it takes, a request gives back its lease and permit exactly once |
| embeddings ingress, `app.embeddings` | none | route, forward | no lease, so invisible to a drain | see section 6 |
| slot coordination, `llama_cpp_manager.BackendManager` | phase, epoch, leases, `manual_stop`, restart counters | `start_slot`, `stop_slot`, `stop_all`, restart monitor, `try_begin_slot_request` | four owners compete for a slot; evidence gathered before an await is used after it; `stop_all` cancels the monitor | one owner at a time; drains wait; no request reaches a process other than the one it was routed to; Stop sticks; operations end |
| routing, failover and health cache: `routing/catalog.py`, `service/routing_intent.py`, `helpers/smart_router/` | cached verdicts with their age | needs, ranking, the walk over the failover chain, probes | a verdict may be older than what it says; two probes of one slot overlap; three orders (ranking, chain, upstreams) meet; pins, targets and privacy may be asked for in several places | a slot known to be down is not chosen; no slot of the chain is skipped; private requests stay; every request is decided |
| disclosure policy, `disclosure/` | rules, loaded once | load, classify, scan, allow, check a brief | overrides that do not validate; a text of several classes | the strictest class that matches decides; nothing reaches an executor trusted less |
| Hermes watcher, `hermes_model_watcher` | desired / loaded / last working / published model, failed target, attempts, swap task | `refresh_desired`, `_swap_loop`, restore, harness sync | reads that span a swap; retries while the target changes; failed restorations; Stop racing a swap | bounded retries, no silent substitution, published = loaded, failed stays failed, settles |
| swarm gate, `swarm_gate.SwarmTerminalRegistry` | terminal table, heartbeat times | `spawn`, `heartbeat`, `release`, `sweep_forever` | spawn decides after awaiting a snapshot; time in which nobody ran | bound holds, no record overwritten, silent terminals reaped, live ones spared |
| fleet control, `fleet_control` | none | start, stop, restart, `prepare_shutdown` | sequences of manager calls others interleave with | inherited from slot coordination |
| process backend, `subprocess_backend` | process table, one ownership file | start, stop, health, adopt | pids that are used again, a restart of the service, a record shared by all slots and by setup | never ends a process it did not start; never tracks another slot's |
| container and remote backends | containers by name and id, status | start, stop, health, list, clean up | containers removed or replaced by hand | never removes a container it did not make |
| setup engine, `setup/engine.py` | the apply under way, configuration and its temporary file, manifest, models, partial downloads | plan, apply, cancel, repair, update, rollback, models folder | every step may fail, be cancelled or be cut short; other threads and the command line read, change and replace the same files | the configured slot is that of the last success, but for lost updates; nothing foreign is ended |
| agent orchestrator, `service/agent_orchestrator.py` | plans, tickets, leases (SQLite), marker files | create, claim, renew, finish, submit, refresh | two workers on a ticket, expired leases, lost answers, death between two transactions | one holder per ticket; dependencies first; plan, tickets and files agree |
| execution profiles, `execution/` | catalogue | filter, decide, gate | a decision that does not fit what is loaded | a plan keeps the request's constraints |
| usage ledger and budget | ledger file | record, prune, sum, compare | rolling windows, rounding, sources that raise | a reached cap excludes; pruning is unseen |
| prompt cache | dictionary | get, put | expiry, eviction at the limit | bounds |
| upstream registry, profiles, observer, hardware, statistics | configuration | pure decisions and reports | none of state | agreement with a reference definition |

How they interact: a chat request captures a slot's *epoch* (coordination),
awaits the routing decision (failover, health cache; disclosure and budget when
an upstream is involved), queues in a lane (admission), for the Hermes profile
awaits a refresh (watcher), takes a *lease* under phase and epoch checks
(coordination), and gives lease and permit back in `finish`. Control calls and
the watcher's swap take the slot's *phase*, drain its leases and call the
backend; the restart monitor does the same from a status snapshot. The setup
engine starts processes with a backend of its own and shares the ownership file
with the service's. The hazards these interactions create are listed, each at
its line and with the properties that would catch it, under `hazards` in
`PROJECT.json`.

## 2. Modules

```
AdmissionLane  <--implements--  FleetQueue  <--INSTANCE--  ChatRequest
                                FleetQueueProofs  <------  ChatRequestProofs
SlotCoordination                SwarmGate                  HermesWatcher
SlotCoordinationProofs          SwarmGateProofs            HermesWatcherProofs

RoutingCatalog, Disclosure  <--EXTENDS--  SlotRouting  <--  MCSlotRouting
                                                            (INSTANCE UsageBudget)
SlotRoutingProofs (of SlotRouting, Disclosure and UsageBudget)

AgentOrchestrator  <--  MCAgentOrchestrator  (INSTANCE ExecutionPolicy)
AgentOrchestratorProofs (of AgentOrchestrator and ExecutionPolicy)

SetupPlan, ModelProcesses  <--EXTENDS--  SetupEngine
SetupEngine, ContainerBackends  <--EXTENDS--  ModelBackends
                                              ModelBackendsProofs

MC<module>: the small instances for TLC
```

The pure modules (RoutingCatalog, Disclosure, UsageBudget, ExecutionPolicy,
SetupPlan) are operators over what the code reads. They are used by the state
machines, evaluated over many inputs by the `ASSUME`s of the MC modules, which
every run of those modules checks, and, where the answer does not depend on the
size of the input, proved about.

**AdmissionLane** is the abstract promise of a lane: a set of permit owners, a
set of waiting tasks, and a `Return` that hands the permit at once to the best
waiter. It has no list, no futures, no cancelled entries.

**FleetQueue** is `FleetQueue.acquire`/`release`. The list `_waiters` is sorted
by `(-rank, sequence)` with distinct sequence numbers, so it is a set of tasks
and the order is the relation `Before`. Where a task stands (`pc`) distinguishes
a pending future, a granted one whose task has not run, and the two kinds of
cancellation: before the grant (`cancelled`; the handler removes the entry) and
after it (`revoked`; the handler returns the permit). `HandOver` is
`_release_locked`, which drops the cancelled entries ahead of the one it serves.
The refinement maps permit owners to `Occupying` and waiting tasks to `Live`.

**SlotCoordination** is `BackendManager`'s coordination record and everybody who
uses it: control calls (`StartBegin`/`StartFinish`, `StopBegin`/`StopDrained`/
`StopFinish`, `StopAll...`), the restart monitor from its status poll
(`MonitorPoll`, one `MonitorProbe` per slot) through its walk and its restarts to
its cancellation (`MonitorEnds`), and forwarded requests (`PreRoute` when the
slot is known before the decision, `Choose`/`Decide` for the decision, `Lease`,
`Finish`). `gen` is a ghost: the number of processes spawned for a slot, against
which the epoch is judged. Backend outcomes (healthy, stays unhealthy, dies;
refuses or fails to stop) are nondeterministic.

**ChatRequest** is `chat_completions` from `create_request` to the end of the
task, over one lane (an `INSTANCE` of FleetQueue: its actions are conjuncts of
this module's) and, for a local lane, one slot under leases. `step` names the
await a request stands at. `Finish` is the `finish()` closure: row, lease,
permit, in that order, once. A telemetry write may fail at every call
(`SetRow`). A stream is `sending` (outside the generator) or `reading` (inside):
a client that leaves while sending reaches the local response's `on_close` but,
on an upstream stream, only `GeneratorExit`.

**SwarmGate** keeps time as durations: the age of each heartbeat and the time
since the reaper woke. `Tick` is time in which tasks run, `Stall` time in which
nobody does (a sleeping host, a blocked loop). `Credit` is what `sweep_forever`
gives back. `passes` is a ghost that counts reaper turns since a heartbeat.

**HermesWatcher** is `HermesModelWatcher`: `refresh_desired` split at the awaits
of `read_loaded` (`Refresh`, `Inspect`, `ProbeHealth`, `Resume`, all ending in
`Conclude`), run by the watcher's task `Tick` and by requests; the swap task
(`SwapBegin` to `SwapRestored`, one value of `swap.pc` per await); and the other
owners of the slot (`Control...`, `Monitor...`), reduced to what the watcher can
see of them. `starts` is a ghost that counts swap starts since the budget was
renewed, and saturates at `MaxAttempts + 1`.
Nobody waits for a `read_loaded` that is under way: a swap drains leases, not
reads, so a read may span the drain, the stop and the load of another model, and
what it saw is assigned all the same when its task runs again (line 613). Two
ghosts say when. `late` has the reads under way that the end of a drain, or a
process started for another model, has overtaken. `misled` says that a model
found by such a read was taken for the loaded one, and that no read between swaps
has put it right; the requests let through meanwhile join `late`.

**RoutingCatalog** is `routing/aliases.py` and `routing/catalog.py`: what a body
asks for (`Needs`), which candidate passes the gates, its score and the order
(`Rankings`: the sequences that hold every candidate once and descend by score
and name, of which there is one). Scores are the code's times 10 000, so that
they are integers; names are numbers in their text order, which is what ties are
broken by.

**SlotRouting** is the way of a request to its model: the pin of a harness, the
upstream it names, or `RoutingIntentHandler`'s decision, which reads the health
of all slots (`reading`), ranks, walks the failover chain (`walking`: the
ranked slots in front of those of the role's chain, `RankedChain`) and reads
the chosen slot once more (`snapshot`). A health check that finds a fresh entry
does not suspend, so `loop` names the task that runs; a probe frees the loop
(`ProbeBegins`), sees the endpoint at one moment (`ProbeSees`) and returns at a
later one or at its timeout (`ProbeEnds`), overwriting whatever another request
stored in between. `down` counts for how long a slot has been down and saturates
just above what the cache and a probe may hide. What goes to an upstream passes
`MayForward` of **Disclosure**: the rules of the file or, when it does not
validate, of the package; classification by keywords; forbidden patterns;
comparison of trust ranks. Which upstreams are `funded` is a choice;
**UsageBudget** says how the ledger and the caps make it, and MCSlotRouting
checks that every subset can come about. `RoutingAssumption` says that the slots
are finite and that no chain names a slot twice, which would be walked in a
circle; `RoleAssumption` that every role that is asked for has a chain;
`PolicyAssumption` that the rules in use are on the trust ladder, which loading
them establishes (`LoadedRulesOnLadder`).

**UsageBudget** is the ledger (what is recorded, pruned and counted in a rolling
window), the comparison with declared caps or a live reading, with the code's
rounding, and what remains a candidate.

**ModelProcesses** is the process backend and the ownership record. A process is
a pid with the time it was created; pids are used again and anybody may start a
server (`ForeignStarts`). `SameProcess` is the code's comparison before it ends
or adopts. `start_slot` is spawn and record (`Start`), the failed record
(`StartUnrecorded`) and the wait (`StartEnds`); `stop_slot` is `StopBegins` and
`StopEnds`. `ended` remembers who started what the program ended.

**SetupPlan** is what the setup engine decides before it changes anything.
**SetupEngine** is the apply of a plan over the files: one action per step of
`apply` and per file that a step writes, the undo in its three parts
(`UndoStart`, `UndoUnlinks`, `UndoConfig`), and beside it the cancel button, the
models folder page, the command line's stop, update and rollback, and a restart of
the service. A partial download is nothing, some of the file, or all of it.
The folder page, update, rollback and the apply's own install step all edit the
configuration without the lock of `apply`: `edit` has who is editing it and how
far he is. First the folder and its settings or the manifest are saved
(`SetModelsDir`, `ManifestSaved`), then the configuration is read (`ConfigRead`),
a changed copy written (`CopyWritten`) and put in place (`ConfigReplaced`).
`write_config` has the last two as well (`WriteConfig`, `ConfigWritten`), and all
of them write the same `.tmp` file, `temp`: whoever replaces the configuration
installs what is in it, or fails because somebody else already has. The ghosts
`lost` and `torn` say that an edit put another slot in place than it found.
In one step all the same: saving the folder and its settings; reading and writing
the manifest (an apply installs where there is no runtime, update and rollback
where there is one, so two of them overlap only on the command line); what
`write_config` reads and the writing of a temporary file. There is one folder
edit and one command-line edit at a time, and `SameProcess` compares birth times
exactly where the code allows 2 s (`subprocess_backend.py:382`, `engine.py:1113`,
`1181`).

**ContainerBackends** is the Docker backend over a daemon whose containers
outlive the service and change under it, and the remote backend over servers
that come and go. **ModelBackends** is the service with the backend its
configuration asks for: one of the three for the life of the process.

**AgentOrchestrator** is the ticket coordinator. `busy` is the handler under way
and where it stands between its transactions and files: a submission marks,
commits, refreshes the tickets that waited, writes `WAKE.json` and then the
plan's row. `Fails` ends it anywhere. `told` is what each worker believes of its
lease: an answer may get lost, and what it counts on is then no more than it
asked for.

**ExecutionPolicy** is the dry-run planner: the catalogue, the filter, the
built-in provider, and the gate between any provider's decision and the plan.

## 3. Runs

| run | asks | instance | states |
|---|---|---|---|
| `fleet_queue` | `TypeOK`, `PermitsSound`, `GrantsFollowPriority`, `WaiterAnswered`, `ImplementsLane` | 5 tasks, 2 permits, 2 queue places, 2 ranks | |
| `slot_coordination` | `TypeOK`, `Coordinated`, `StopsDrained`, `LeaseMatchesRoute`, `StopSticks`, `OperationEnds` | 2 slots, 1 request, 2 callers, 2 commands, 1 crash, 1 automatic restart | 940 000 |
| `slot_embeddings` | `DrainWaitsForAll` (violated) | 1 slot, 1 request, 2 callers | |
| `chat_request` | `TypeOK`, `HeldWhileAnswered`, `RowFinal`, `OperationEnds`, `KeepsLaneAssumptions` | 3 requests, 1 permit, 1 queue place, local and upstream lanes, 1 slot operation | 574 000 |
| `upstream_stream` | `PermitReturned` (violated) | 2 requests, upstream lane | |
| `swarm_gate` | `TypeOK`, `SlotsBounded`, `NoOverwrite`, `ReapedAfterSilence`, `ZombieReaped` | 2 ids, 2 spawners, 1 slot, ttl 6, interval 1, stalls of 3 and 9 | |
| `hermes_watcher` | `TypeOK`, `StartsBounded`, `AnsweredByAsked`, `PublishedIsLoaded`, `FailedStaysFailed`, `Settles` | 2 profiles, 1 request and the watcher, 2 attempts, 1 session change, 1 Start or Stop, 1 crash | 2 954 000 |
| `hermes_stop` | `StopStaysStopped` (violated) | the same, with 2 session changes | |
| `slot_routing` | `TypeOK`, `PrivacyKept`, `DownNotSelected`, `FailoverInOrder`, `EveryRequestDecided` | 2 tasks, 2 slots and a name without one, 1 upstream, 7 kinds of request, 1 change of an endpoint | 176 000 |
| `agent_orchestrator` | `TypeOK`, `LeaseExclusive`, `DependenciesFirst`, `PlanAgrees` | 2 plans, 3 tickets, 2 workers, leases of 1 and 2, 2 claims, 3 submissions, 2 failures | 4 209 000 |
| `setup` | `FleetTypeOK`, `ConfigCommitted`, `OnlyOwnEnded`, `TrackedIsItsSlot` | 1 slot, 2 pids, 2 births, 1 port, 2 models, a fresh or an updated machine, 2 applies or edits in all, 3 containers, all three backends | 2 828 000 |
| `restart_adopts` | `RestartAdopts` (violated) | 2 slots, 3 pids | |

Several invariants are stated as one where they make one claim together:
`PermitsSound` is the counter, the two bounds and "no permit idle beside a
waiter"; `Coordinated` is leases counted, one owner per slot, running slots
watched; `HeldWhileAnswered` is that permit and lease are held exactly as long
as somebody is being answered; `PlanAgrees` is tables with tables and tables
with files; `PrivacyKept` is the client's wish and the operator's rules.

Why these bounds reach the interesting cases:

- *Lanes.* With two permits and two places, five tasks give: two holders, a full
  list, and one task to be rejected or to arrive after a cancellation; two live
  waiters of different rank behind a cancelled entry; two grants revoked at once.
  The safety half is proved for all bounds (section 5), so the run matters for
  liveness and for the refinement's fairness.
- *Slots.* Two slots and two callers let a `stop_all` over both race a start and
  a stop, and the monitor it cancels can be polling, draining or restarting; one
  request meets a stop and a start inside its wait. Several leases on a slot at
  once only lengthen its drain, and the proof covers any number.
- *Requests.* Three requests on one permit and one place meet every branch of
  `admit` at once (one inside, one queued, one rejected), and a request that is
  cancelled leaves the others to take its place. A second slot operation starts
  from the same state as the first.
- *Swarm.* One slot and two spawners are the race for the last slot. The stalls
  straddle the threshold of two intervals above which `Credit` gives time back.
- *Hermes.* Two models make every swap, restoration and change of mind; a third
  is only another "not that one". Two attempts tell the first from the last. A
  session may be there from the start, and one change lets the target change or
  the session grow old during a swap; changing back meanwhile is left to the
  proofs, which have no bound. One Start or Stop and one crash are each a single disturbance, and the swap itself
  meets arbitrary failures beyond that bound.
- *Routing.* Two tasks are two probes of one slot under way at once, which is
  what makes an old answer overwrite a new one; the slots start in any state, so
  one change gives each of a slot that comes, goes, or was never there. The chain
  has a name that no slot has; the requests cover every way to an upstream with
  and without privacy and enforcement.
- *Tickets.* A chain of three has a ticket with two dependencies. Two claims of
  a ticket are a takeover; two failures cut two submissions short, and the third
  submission is the one that repairs. A second plan of the same name and one that
  uses another's ticket are the creations that fail.
- *Setup.* Two turns are an apply that commits and one that fails on top of it,
  or an apply and one edit (the folder, an update or a rollback) that reads,
  writes and replaces between its steps. The updated machine has a model, a
  configuration, a runtime and a previous one, for which a fresh machine would
  need three turns.
  Two pids and two births let a pid be used again while a record of its first
  process lives. The one port is the slot's own, so setup and the service always
  want the same; on different ports they share only the ownership record, which
  the proofs cover for any ports. The run takes one backend for its whole life, as the service does.

Symmetry is used in `agent_orchestrator` (workers) and `setup` (pids), which
have no liveness property. `Setup.cfg` and `ModelProcesses.cfg` switch deadlock
checking off, because the bounds on processes, applies and edits may leave
nothing to do. In the other modules deadlock is checked: where a system may come
to rest the module says so with an explicit step.

Each passing run fires every action of its module that its bounds allow, and
together they fire all of them.

## 4. Fairness

Fairness is stated for what the event loop and timeouts guarantee and for
nothing that a user, a client or a crash must do.

- *FleetQueue*: a task whose future is done runs (`Resume`), a cancelled one runs
  its handler (`LeaveQueue`, `ReturnGrant`), a holder releases (`Release`).
  `KeepsLaneAssumptions` of ChatRequest discharges these assumptions for a local
  lane: in the end nobody stays granted, holding, cancelled or revoked. An
  upstream lane may lose a permit for ever, which is what `upstream_stream` shows.
- *SlotCoordination*: control calls and the monitor go on (backend calls carry
  timeouts), a lease ends.
- *ChatRequest*: ready tasks run; a forwarded stream ends (`SF`, because the
  forward timeout is the total of the stream, so chunks cannot keep it alive);
  the client of a stream reads or leaves. The last is an assumption about
  clients: nothing in the code bounds how long a client may hold an unread
  response open, and a drain waits for it.
- *SlotRouting*: time passes whenever the loop is free, and the event loop, which
  is fair, runs whoever can run (`SF` of `Tick` and of each task's `Step`: a task
  is able to run again and again rather than always, because others take the loop
  in between). That a probe ends is then the probe's timeout, not an assumption.
- *SwarmGate*: time passes and the reaper runs; that it outlives an error is its
  `except` clause (`swarm_gate.py:304`), which is not modelled.
- *HermesWatcher*: the watcher's task ticks, reads end, swap and control
  operations go on, a forwarded request ends. `Settles` further supposes that
  from some moment a session is recent. Without one the desired model follows
  what is loaded, so each failed swap changes it, renews the budget, and two
  failing models may alternate for ever.

AgentOrchestrator and the setup modules state no fairness: workers, people and
machines owe nothing, so these runs check safety only.

## 5. Proofs

**FleetQueueProofs**, from `QueueAssumption` alone, for any set of tasks
(infinite ones too), any number of permits and places and any ranks:

- `QueueInvariant`: `IInv` is inductive. `SlotsAccounted` is not inductive by
  itself: that a hand-over keeps the count needs to know that the served task is
  not yet an occupier, that entries belong to tasks that wait or were cancelled
  (`EntriesMatch`), and that the waiter list is finite (`QueueBounded`);
  `NoIdlePermit` needs `SlotsAccounted` to know that the releasing task really
  held one of `MaxActive` permits. So `IInv` is the conjunction of `TypeOK`,
  `EntriesMatch`, `SlotsAccounted`, `QueueBounded` and `NoIdlePermit`. The proof
  has one lemma per action; the three uses of `HandOver` share one.
- `QueueTypeCorrect`, `PermitsAccounted`, `AdmissionBounded`, `WaitersBounded`,
  `NoLostWakeup`: its conjuncts and consequences; `QueuePermitsSound` puts them
  together.
- `PriorityOrder`: the action property, from the invariant at each step.
- `QueueImplementsLane`: `Spec => Lane!LaneSpec`. Each step maps to an abstract
  step or a stutter: `Resume` and `LeaveQueue` stutter, `Cancel` of a granted
  task stutters, `ReturnGrant` is the abstract `Return`. The argument needs
  `NoIdlePermit`: without it the fast path and the abstract `Admit` would
  disagree about when a task may pass.

**SwarmGateProofs**, from `SwarmAssumption`, for any ids, any number of
concurrent spawns, any ttl, interval and pauses:

- `SwarmInvariant`: `TypeOK` and the bound with finiteness of `live`, which the
  cardinality of `live \cup {i}` needs.
- `SwarmTypeCorrect` (its last conjunct says that no live terminal is past its
  ttl right after a turn of the reaper), `SwarmSlotsBounded`, `SwarmNoOverwrite`.
- `SwarmReapsTheSilent`, the action property `ReapedAfterSilence`, needs a second
  invariant, `Charged`: a terminal is charged three intervals at most for each
  turn of the reaper since its heartbeat, and the time since the last turn. A
  turn keeps it, because its credit leaves no more than three intervals of that
  time on any account (`CreditLeavesThree`), however long the pause was.

**SlotCoordinationProofs**, from `CoordinationAssumption`, for any slots, any
callers, any finite set of requests and any number of commands, crashes and
automatic restarts:

- `SlotInvariant`: `IInv` is the conjunction of `TypeOK`, `CallShape`,
  `MonitorShape`, `OneOwner`, `LeasesAccounted`, `StopPrepared`, `SpawnAllowed`,
  `RequestShape`, `EpochTells` and `MonitorWatches`. The heart of it is
  `OneOwner`, which is `OneOperation` without cardinalities: a slot is not idle
  exactly while one control call or the monitor works on it. Leases are only
  granted on an idle slot, so a stop that has drained meets none for as long as
  it owns the slot (`StopPrepared`); and `manual_stop` is only written by the
  slot's owner, so a spawn finds what its owner saw when it began
  (`SpawnAllowed`). `EpochTells` says that a captured epoch is never ahead of
  the slot's and that, while the two are equal, no process was spawned: every
  spawn ends its operation, which moves the epoch, in the same step.
  `MonitorShape` says that a cancelled monitor has a `stop_all` waiting for it
  with every slot still to visit, which `MonitorWatches` needs in the steps that
  end the monitor, and that a restart began with attempts left.
- `SlotTypeCorrect`, `SlotLeasesAccounted`, `SlotMonitorWatches`: conjuncts.
  `SlotOneOperation`: from `OneOwner`, with the cardinalities of the empty set
  and of a singleton. `SlotCoordinated` puts them together.
- `SlotStopsDrained`, `SlotStopSticks`, `SlotLeaseMatchesRoute`: the action
  properties, from the invariant at each step.

The proof has one lemma per conjunct, each by cases on the actions that can
disturb it, and frame lemmas that say what the steps of requests, of calls and
of the monitor leave alone.

So the safety half of the run `slot_coordination` holds beyond its bounds;
`OperationEnds` stays with TLC.

**AgentOrchestratorProofs**, from `OrchestratorAssumption`, for any workers,
tickets, drafts of plans, lengths of leases, and any number of claims, lost
answers and deaths of the service:

- `OrchestratorInvariant`: `IInv` is the conjunction of `TypeOK`, `Shape`,
  `Believed`, `Reached` and `DependenciesFirst`. `LeaseExclusive` follows from
  `Believed`: who counts on a ticket is the owner in its row, and for no longer
  than the row's lease; a ticket that is not given out has no owner, so a claim
  meets nobody who still counts on it. `DependenciesFirst` needs `Reached`, that
  a completed ticket was achieved, for the step that makes waiting tickets ready.
- `OrchestratorTypeCorrect`, `OrchestratorLeaseExclusive`,
  `OrchestratorDependenciesFirst`: conjuncts and consequences.
- `OrchestratorPlanAgrees` needs a second invariant, `AInv`, relative to the
  first: how far the handler under way has got. A plan counts as torn from the
  commit of a submission until the plan's row is written; from the refresh on its
  tickets are settled (`Underway`), and the files come before the rows that they
  are compared with (`FilesAgree`). The lemma `SameView` carries a plan over the
  steps in which its tickets go on without reaching an end.

**ModelBackendsProofs**, from `ProcessAssumption`, for any slots, pids, ports,
models, machines, requests and configurations, any number of processes and
containers, and all three backends:

- `BackendsInvariant`: what is tracked for a slot (`HeldOwn`), recorded
  (`RecordOwn`), kept by the setup engine (`MineOwn`) or remembered of a container
  (`KeptOwn`) is one's own, if it is still there. That this survives the reuse of a
  pid rests on the order of births: a handle is never younger than the newest
  process, and a new process is (`SpawnKeeps`); likewise for containers and their
  ids (`BoxType`). `Keeps` says what any step does to old handles; each of them is
  carried over by it, and each action's lemma only deals with what it writes.
- `BackendsEndTheirOwn`, `BackendsTrackTheirOwn`: the two safety properties of the
  run `setup` about processes and containers.
- `EngineInvariant`, with `EngineAssumption`: what the apply under way keeps of the
  configuration, has written and has still to do, at each of its steps, and what
  the edits hold in their copies and in the temporary file (`EditsOK`, `OwnEdit`).
  `ConfigCommitted` is about the moments between two applies and is not inductive:
  that a failed or cancelled apply ends with the slot of the last success
  rests on what it kept for its undo being the committed one from its first step
  on, on the configured slot being that one as long as nothing was written, and on
  its being the requested one afterwards (`CommitOK`), each unless an edit lost an
  update. An edit that installs the slot it finds disturbs none of them; one that
  does not is recorded by the step that does it. The last part needs that the
  smoke test comes after `write_config` (`ToWrite`, kept by `TailToWrite` while the
  plan is worked off). That a plan only has steps the engine knows is `PlanIsPlan`.
- `ConfigAllOrNothing`: `ConfigCommitted`, for any catalogue, requests, machines,
  installations and interleavings of edits, with one apply at a time.
- `BackendsTypeCorrect`, with `BackendAssumption`: the type invariant of the run,
  from a further invariant, `TInv`, of the tables of processes and containers.

**ChatRequestProofs**, from `ChatAssumption`, for any set of requests (infinite
ones too), any lane and any number of slot operations:

- `ChatInvariant`: `IInv` is the invariant of the lane, proved in FleetQueueProofs
  and taken over by an `INSTANCE` of that module, with three relations: where a
  request stands and what it has of the lane (`StepFollowsPlace`), who has a lease
  and what the slot's operation may do (`LeasesMatch`), and which rows are closed
  (`RowsMatch`). Every step of a request is a step of the lane or leaves it alone,
  so the lane's part costs nothing (`LaneStep`); what is left is that its other
  steps move nobody else (`HandedOver`).
- `RequestsUseLane`: the behaviours of the requests are behaviours of FleetQueue,
  the first half of `KeepsLaneAssumptions`. The second half, that the fairness
  FleetQueue assumes is discharged, is liveness and stays with TLC.
- `HeldExactlyWhileAnswered`, `ChatTypeCorrect` (a lease is taken under a permit, so
  leases are bounded by permits), `ClosedRowsFinal`.

**SlotRoutingProofs**, from `RoutingAssumption`, `RoleAssumption`,
`HintAssumption` (hints and sizes are what their parsers return) and
`PolicyAssumption`, for any finite set of slots and upstreams, any chains,
requests, rules, and any number of requests that share the health cache:

- `RoutingInvariant`: `SInv` is about the health cache (`HealthOK`) and about each
  request (`TasksOK`). The heart of the first is that the time a slot has been
  down and what is left of the life of a cached "healthy" never exceed the cache
  time and the probe timeout together; a probe that saw the slot up has its age to
  pay for that (`Fits`), which also covers an old answer that overwrites a newer
  one. The heart of the second is `InOrder`: between the first slot the walk
  looked at and the one it is at, it has left none of its chain out.
- `DownNeverSelected`, `FailoverOrdered`: the action properties. `PrivacyAlwaysKept`:
  a request that ends at an upstream may leave and passed the rules, whether it
  named the upstream, was pinned to it, or fell back to it.
  `RoutingTypeCorrect`: the types. `ChainOfRanked`: the chain that is made of the
  ranked candidates names configured slots, each once, so the walk ends.
- `RankingIsDetermined`: `Rankings` holds exactly one sequence, for whatever health
  was read and whichever upstreams are funded. A candidate's place is how many are
  not after it; `Outranks` is a strict total order, so places are distinct, make a
  ranking, and any ranking has each candidate at its place.
- `HealthyStaysLocal`: under the default strategy a healthy slot the gates admit
  keeps the decision local; its least score is 6075 of 10 000, and an upstream's
  greatest is 5725.

The pure modules have no behaviour: their theorems are about operators, for
every input. Those of Disclosure are about rules whose classes and default tier
are on the trust ladder (`OnLadder`):

- `LoadedRulesOnLadder`: loading ends with such rules whatever the override
  holds, if the packaged ones validate (`AcceptedRulesOnLadder` is the step from
  the validation to the ladder).
- `StrictestMatchWins`: of the classes a text matches, the one that is inferred
  has the strictest cap. The classes are finitely many and totally ordered, so one
  of them leads; the proof is by induction on their number, written as a smallest
  counterexample.
- `GateShelters`: with enforcement, an upstream that is let through is trusted
  enough for every class that matches, not only for the inferred one, and only
  the most trusted sees a blocking pattern. This is the second half of
  `PrivacyKept`, for all rules.
- `TrustIsMonotone`, `MoreContentNeverWidens`: more trust never receives less; a
  text that matched already never goes further for having more in it.

Those of UsageBudget are `PruningIsUnseen` (hence pruning may happen at any time),
`ReachedCapIsExhausted`, `ExhaustedIsNearCap` (99.95 %). Those of ExecutionPolicy,
in AgentOrchestratorProofs, hold for any catalogue, request, inventory and
decision, also of a provider that decides nonsense: `PlanIsEligible`,
`PlanKeepsConstraints`, `PlanIsConfident`. The argument is one lemma about the
gate, label by label: what it gives is an offered lane or nothing.

**HermesWatcherProofs**, from `WatcherAssumption`, for any profiles, any number of
requests and attempts, and whatever sessions, operators and processes do:

- `WatcherInvariant`: `SInv` is `TypeOK`, the shape of a swap (`SwapShape`), the
  count of its starts (`StartsCounted`) and what a blocked target holds off
  (`BlockedHeld`). `StartsBounded` is not inductive: a start is
  counted against the attempts of the swap while the desired model is the swap's
  target, the count is zero while it is another, and it may only be carried out of
  a swap by a model that is blocked, so that no swap is created for it.
- `WatcherTypeCorrect`, `StartsAreBounded`: consequences. `FailedStays`: outside a
  swap only an explicit Start and the restart monitor spawn a process, and when
  either took the slot nothing was blocked.
- `ModelInvariant`: `MInv` relates what is published, loaded, configured and
  running at every step of a swap (`LoadedKnown`, `SwapKnown`) to what the reads
  under way saw and the requests let through asked for (`ReadsAgree`,
  `ReadsLoaded`). `ReadsAgree` holds of the reads and requests that nothing has
  overtaken, misled or not, since it is about them and the process only; the rest
  holds while the watcher is not misled. A read that nothing has overtaken
  publishes what runs (`ConcludeAgrees`, from any state between swaps, which is how
  a misled watcher recovers), and from the end of a drain on every read is
  overtaken and nobody is let through (`Quiet`).
- `AnsweredByAskedHolds`, `PublishedAlwaysLoaded`: consequences, for every schedule.
  That they need their exceptions is in section 6.

So every invariant that a run checks is proved, and every action property. Only
model-checked are the liveness properties (`WaiterAnswered`, `OperationEnds`,
`ZombieReaped`, `Settles`, `EveryRequestDecided`), the fairness half of the
refinement (`ImplementsLane`) and of `KeepsLaneAssumptions`: they rest on `ENABLED`
and fairness, which the prover does not handle. What `SetupPlan`,
`RoutingCatalog` and the built-in provider of `ExecutionPolicy` answer is only
evaluated, over bounded inputs, apart from the lemmas that the proofs above use.

## 6. Disagreements between the code and what is said of it

Four are runs that TLC finds violated:

- `upstream_stream`, `PermitReturned`. `CHANGELOG.md:193` says streaming holds
  admission "until completion, failure, or client disconnect". The generator of
  an upstream stream (`app.py:2055`) has no `finally`, and its response has no
  `on_close`: a client that leaves while a chunk is being sent closes the
  generator with `GeneratorExit`, `finish` is not called, and the lane's permit
  is not returned.
- `slot_embeddings`, `DrainWaitsForAll`. `CHANGELOG.md:105` says draining "waits
  until every accepted normal or streaming request finishes or disconnects". An
  embeddings request is forwarded (`app.py:2289`) without a lease, so a drain
  does not see it and a Stop ends the process under it.
- `hermes_stop`, `StopStaysStopped`. `docs/adr/0015` says that a manual Stop
  remains stopped until an explicit Start. A refresh that reads the slot after
  Stop killed the process and before it set `manual_stop` creates a swap task;
  the task's first step (`hermes_model_watcher.py:658`) does not look at
  `manual_stop` again and starts a model.
- `restart_adopts`, `RestartAdopts`. The comment at `subprocess_backend.py:188`
  says that ownership is recorded before the load "so a restarted router can
  still adopt and stop this exact process". There is one record for all slots,
  which each start overwrites, and only the GPU slot is adopted
  (`app.py:669-671`): every other process runs on without an owner.

Others were met while modelling and are not runs. In the concurrent core:

- A `read_loaded` that outlasts the drain of a swap resumes with an observation
  made before the swap, assigns it and publishes it, slot configuration included,
  in the middle of the swap or after it (`hermes_model_watcher.py:613`); the
  comment at 608-610 says it "must not publish a half-finished load". With no
  lease to wait for, a drain takes no time, and a health probe up to 5 s. Until
  the next read between swaps the harness may then be told a model that does not
  run, and a request be let through to another one than it asked for.
  HermesWatcher has these behaviours, and `PublishedIsLoaded` and `AnsweredByAsked`
  except exactly them (`misled`, `late`): without the exceptions both are false.
- `swarm_gate.py:287` says a stall is not charged to the terminals; stalls of up
  to two intervals are. `ReapedAfterSilence` states the bound that does hold.
- A request cancelled during the Hermes refresh or the routing decision
  (`app.py:2564`) leaves its telemetry row open (`Drop` in ChatRequest).
- `load_swarm_policy` formats `exc.message`, which a `ValidationError` lacks.

In routing, disclosure, execution and budget:

- `catalog.py:353` says that a healthy local slot always outranks the upstreams
  under every strategy. Of the default one that is proved (`HealthyStaysLocal`);
  under each of the three others an upstream outranks a healthy slot that is slow,
  costly and of another role (an `ASSUME` of MCSlotRouting).
- A pinned, healthy slot is refused as `harness_model_unavailable` when another
  slot outranks it through evaluated hints (`app.py:2779`;
  `docs/HARNESSES.md:104` has it for an unavailable target).
- When an upstream is ranked first, the walk begins at the preferred slot: the
  slots ahead of it in the chain are never tried, and a preferred slot that the
  capability gates had removed may be taken. When ranking leaves nothing, the
  chain of the role is walked without regard to capabilities.
- The disclosure rules do not check that the default tier is the least trusted
  one (`trust.py` says it is), nor a severity: a misspelt one never blocks. A text
  without any keyword gets the default class, so one harmless keyword may let it
  go further. A brief's declared class counts in the command-line check and not
  at the gate.
- The review gate is a fallback whatever its own confidence minimum; when the
  larger lanes ask for more confidence than there is, a hard coding task falls
  back to the fast lane; a reserved class keeps a worker out of the class, not
  out of the model when another class lists it; a model that is loaded must have
  its memory free once more.
- A share is rounded before it is compared, so 99.95 % counts as exhausted
  (`docs/COMPUTE-BUDGET.md:143` says "at or above 100%"); streamed answers never
  reach the ledger; a window longer than 35 days misses what was pruned; one
  source that raises leaves no budget data for any upstream.

In setup and the backends:

- A download that was cancelled after its last byte, or cut off before the
  rename, leaves a whole `.part` file. The next try asks for the bytes behind it,
  is refused (416), and so is every later one until the file is deleted by hand
  (`engine.py:844`; the dashboard says that downloads resume).
- From the 201st event on, all events have the same id (`engine.py:126`).
- An installed model that fits the graphics memory only is recommended and then
  refused, because the plan assesses it for the processor (`engine.py:650`).
- The models folder page, update and rollback read, change and replace the
  configuration without the lock of `apply` and through the same temporary file
  (`engine.py:377-395`, `971-986`, `1077-1079`). One that read what a failing apply
  wrote puts it back after the undo; one that read what was there before an apply
  takes the slot of the apply back; a replacement may install the other's file,
  and the other's then fails. Setup has these behaviours, and `ConfigCommitted`
  excepts them (`lost`, `torn`).
- A failed apply puts the configuration back and keeps the installed runtime and
  its manifest; it also takes back a models folder that was changed meanwhile. A
  cancellation while the plan is made is lost, one after the downloads ignored.
- `stop_managed` unlinks the ownership record whatever it says by then, and
  leaves its own process alone when there is none. A service that dies between
  setup's spawn and its record leaves a server that blocks the port.
- `_wait_healthy` may take another server's answer on the port for its own.
- Docker: a container that was removed by hand makes the next start raise
  (`docker_backend.py:82`); a failed removal forgets the container. Remote: a
  stopped slot is revived by its next health check (`remote_backend.py:131`).

In the orchestrator:

- A submission cut short after its first commit leaves the tickets behind it
  pending until another submission to the plan, and its worker cannot repeat it,
  because it no longer owns the ticket. A creation that fails leaves its folder,
  so that the id can never be used. `WAKE.json` stays when a plan is open again.
- The handlers run their SQLite calls on the event loop, which they block.

## 7. Not modelled

- *Formatting and translation*: request bodies, headers, error texts, prompts,
  dashboards, telemetry other than the status of a row. No property is about them.
- *External services*: the llama.cpp processes, Docker, remote hosts and
  upstream providers are the nondeterministic answers of their calls.
- *Without state of their own*: the parsing of the upstream registry, harness and
  application profiles, observer, readiness, hardware probes, A2A card, usage
  statistics. The prompt cache is a bounded dictionary behind one lock, off by
  default; its answer is one of the ways a request of ChatRequest may end.
- *Dead code*: the cooldown of slots. Nothing calls `mark_slot_error`, so no slot
  ever enters it, and a model of it would describe no behaviour.
- *Within the modelled components*: in SlotCoordination, `start_all` (concurrent
  `start_slot`s); in HermesWatcher, the reload of the profile file (it renews the
  budget as an explicit Start does), the speculative flags, `prepare_shutdown`
  (which ends the watcher), the state file (its content is the arbitrary initial
  `lastWorking`), epochs and the monitor's attempt limit (both in
  SlotCoordination); in SlotRouting, where evaluated hints come from; in the
  orchestrator, the instances that workers report (their rows are independent of
  the tickets', and double the state space) and the listings; in setup, events,
  the GGUF header reader, archive extraction and the hardware scan.
- *A second setup process*: `imperium setup --plan`, `--repair` and
  `--start-runtime` (`cli.py:515-531`) run an apply or a start of their own, whose
  lock is one of their own process. Two applies at once are not modelled, so
  nothing here says that they keep from undoing each other: what is checked and
  proved of `apply` supposes that the command line runs no other one meanwhile.
- *Errors that no input was found for*: the disclosure gate of an upstream lets a
  request through when its evaluation raises (`app.py:1944`); `MayForward` leaves
  that out, because rules that were validated have not been seen to raise.
- *Only in part*: the limit of automatic restarts is checked as a bound on the
  counter (`TypeOK` of SlotCoordination), not against a reset on wrong evidence.
  The reaper of SwarmGate cannot raise, so that it outlives errors
  (`swarm_gate.py:304`) is assumed by its fairness and not shown. Chains that name
  a slot twice are excluded by `RoutingAssumption`; nothing in the code does.

## 8. Plan

Done: admission, slot coordination, chat ingress, swarm gate, Hermes watcher,
routing with failover and disclosure, the process, container and remote
backends, setup, tickets, execution profiles, budget. The proofs cover the safety
properties of all of them.

Next, in order of what a failure would cost:

1. SlotCoordination's `BackendStart` and `BackendStop` shown to be an abstraction
   of ModelProcesses.
2. The slot of HermesWatcher and of ChatRequest shown to be an abstraction of
   SlotCoordination's.
3. The instances of agents, the prompt cache, and the parsing of the upstream
   registry.
