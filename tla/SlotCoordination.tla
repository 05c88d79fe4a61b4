-------------------------- MODULE SlotCoordination --------------------------
(***************************************************************************)
(* helpers/llama_cpp_manager.py, class BackendManager: the coordinator of  *)
(* every managed llama.cpp slot.  Start, Stop, Stop-all and the restart    *)
(* monitor take turns on a slot through its phase; forwarded chat requests *)
(* take leases on it; the epoch tells a queued request that the process it *)
(* was routed to may be gone.                                              *)
(*                                                                         *)
(* Every method that holds _coordination_lock has no await inside and is   *)
(* one atomic step.  The awaits between them are where callers interleave: *)
(* the poll of wait_for_slot_idle, the backend's start and stop, the       *)
(* status snapshot of the restart monitor, the lane a routed request waits *)
(* in.  A control call is not cancelled when its client goes away; the     *)
(* restart monitor is cancelled by stop_all.                               *)
(***************************************************************************)
EXTENDS Naturals, FiniteSets

CONSTANTS
  Slots,        (* ids of _slot_configs                                       *)
  Requests,     (* requests that will be forwarded to a local slot            *)
  Callers,      (* concurrent control calls (start_slot, stop_slot, stop_all) *)
  NoSlot,       (* no slot                                                    *)
  MaxAttempts,  (* max_restart_attempts                                       *)
  MaxCommands,  (* bound: number of control calls in a behaviour              *)
  MaxCrashes    (* bound: number of process failures in a behaviour           *)

ASSUME CoordinationAssumption ==
  /\ NoSlot \notin Slots
  /\ IsFiniteSet(Requests)
  /\ MaxAttempts \in Nat
  /\ MaxCommands \in Nat
  /\ MaxCrashes \in Nat

VARIABLES
  phase,        (* phase of a slot's coordination record                      *)
  leases,       (* active_requests                                            *)
  epoch,        (* epoch                                                      *)
  manualStop,   (* manual_stop                                                *)
  attempts,     (* _restart_attempts, 0 when absent                           *)
  proc,         (* the slot's process as the backend reports it               *)
  gen,          (* ghost: how many processes were spawned for the slot        *)
  call,         (* what each control call is doing                            *)
  mon,          (* the restart monitor                                        *)
  req,          (* the forwarded requests                                     *)
  commands, crashes

coordVars == <<phase, leases, epoch, manualStop>>
vars == <<phase, leases, epoch, manualStop, attempts, proc, gen, call, mon, req,
          commands, crashes>>

Phases == {"idle", "starting", "draining", "waiting_for_requests", "stopping",
           "auto_restarting"}

(* absent: the backend does not list it; down: listed, not running; sick:     *)
(* running, health check failing                                              *)
ProcStates == {"absent", "down", "up", "sick"}

NoCall == [kind |-> "none", slot |-> NoSlot, step |-> "none", todo |-> {}]
Calls ==
  [kind : {"none", "start", "stop", "stop_all"},
   slot : Slots \cup {NoSlot},
   step : {"none", "drain", "backend", "cancelling", "next"},
   todo : SUBSET Slots]

(* pc off: no task; sleep: between passes; poll: health checks are out; walk: *)
(* going through their answers `seen`; drain, backend: restarting `slot`.     *)
(* cancelled: task.cancel() was called, CancelledError is due at the await    *)
Monitors ==
  [pc : {"off", "sleep", "poll", "walk", "drain", "backend"},
   slot : Slots \cup {NoSlot},
   todo : SUBSET Slots,
   seen : [Slots -> ProcStates],
   cancelled : BOOLEAN]
MonitorOff ==
  [pc |-> "off", slot |-> NoSlot, todo |-> {},
   seen |-> [s \in Slots |-> "absent"], cancelled |-> FALSE]

(* new: accepted; choosing: inside the routing decision, the slot chosen;     *)
(* prerouted: slot and epoch known before the decision; routed: waiting for   *)
(* its lane; leased: forwarded under a lease; direct: forwarded without one   *)
(* (embeddings); over: answered or refused                                    *)
Req(pc, slot, ep, g, pinned) ==
  [pc |-> pc, slot |-> slot, epoch |-> ep, gen |-> g, pinned |-> pinned]
NewReq == Req("new", NoSlot, 0, 0, FALSE)
OverReq == Req("over", NoSlot, 0, 0, FALSE)
ReqRecords ==
  [pc : {"new", "choosing", "prerouted", "routed", "leased", "direct", "over"},
   slot : Slots \cup {NoSlot}, epoch : Nat, gen : Nat, pinned : BOOLEAN]

Init ==
  /\ phase = [s \in Slots |-> "idle"]
  /\ leases = [s \in Slots |-> 0]
  /\ epoch = [s \in Slots |-> 0]
  /\ manualStop = [s \in Slots |-> FALSE]
  /\ attempts = [s \in Slots |-> 0]
  /\ proc = [s \in Slots |-> "absent"]
  /\ gen = [s \in Slots |-> 0]
  /\ call = [c \in Callers |-> NoCall]
  /\ mon = MonitorOff
  /\ req = [r \in Requests |-> NewReq]
  /\ commands = 0
  /\ crashes = 0

-----------------------------------------------------------------------------
(* The coordination record. *)

(* begin_slot_operation succeeds only on an idle slot *)
CanBegin(s) == phase[s] = "idle"
BeginOperation(s, p) == CanBegin(s) /\ phase' = [phase EXCEPT ![s] = p]

(* mutated: the epoch is not bumped *)
FinishOperationSilently(s) ==
  /\ phase' = [phase EXCEPT ![s] = "idle"]
  /\ UNCHANGED epoch

FinishOperation(s) ==
  /\ phase' = [phase EXCEPT ![s] = "idle"]
  /\ epoch' = [epoch EXCEPT ![s] = @ + 1]

(* mutated: the poll gives up after the notice *)
DrainedOrNoticed(s) == leases[s] = 0 \/ phase[s] = "waiting_for_requests"

(* wait_for_slot_idle returns *)
Drained(s) == leases[s] = 0

(* wait_for_slot_idle after notice_seconds: the phase tells that it waits *)
Notice(s) ==
  /\ phase[s] \in {"draining", "auto_restarting"}
  /\ ~Drained(s)
  /\ \/ \E c \in Callers : call[c].slot = s /\ call[c].step = "drain"
     \/ mon.pc = "drain" /\ mon.slot = s /\ ~mon.cancelled
  /\ phase' = [phase EXCEPT ![s] = "waiting_for_requests"]
  /\ UNCHANGED <<leases, epoch, manualStop, attempts, proc, gen, call, mon, req,
                 commands, crashes>>

-----------------------------------------------------------------------------
(* backend.start_slot: a running process is only health-checked; otherwise a  *)
(* process is spawned and becomes healthy, stays up without becoming healthy  *)
(* (health_timeout) or dies (start_failed, model_missing, port_in_use)        *)
BackendStart(s) ==
  \/ proc[s] \in {"up", "sick"} /\ UNCHANGED <<proc, gen>>
  \/ /\ proc[s] \in {"absent", "down"}
     /\ \E outcome \in {"up", "sick"} : proc' = [proc EXCEPT ![s] = outcome]
     /\ gen' = [gen EXCEPT ![s] = @ + 1]
  \/ /\ proc[s] \in {"absent", "down"}
     /\ proc' = [proc EXCEPT ![s] = "down"]
     /\ UNCHANGED gen

(* mutated: the monitor is not looked after when a slot starts *)
ReviveMonitorNever == UNCHANGED mon

(* _start_restart_monitor: a task that is done is replaced; one that is being *)
(* cancelled is not done yet                                                  *)
ReviveMonitor ==
  mon' = IF mon.pc = "off" THEN [MonitorOff EXCEPT !.pc = "sleep"] ELSE mon

(* set_manual_stop(name, False) of start_slot *)
ClearManualStop(s) == manualStop' = [manualStop EXCEPT ![s] = FALSE]

StartBegin(c, s) ==
  /\ call[c] = NoCall
  /\ commands < MaxCommands
  /\ BeginOperation(s, "starting")
  /\ ClearManualStop(s)
  /\ call' = [call EXCEPT ![c] =
       [kind |-> "start", slot |-> s, step |-> "backend", todo |-> {}]]
  /\ commands' = commands + 1
  /\ UNCHANGED <<leases, epoch, attempts, proc, gen, mon, req, crashes>>

StartFinish(c) ==
  LET s == call[c].slot
  IN  /\ call[c].kind = "start"
      /\ BackendStart(s)
      /\ attempts' = IF proc'[s] = "up" THEN [attempts EXCEPT ![s] = 0] ELSE attempts
      /\ ReviveMonitor
      /\ FinishOperation(s)
      /\ call' = [call EXCEPT ![c] = NoCall]
      /\ UNCHANGED <<leases, manualStop, req, commands, crashes>>

-----------------------------------------------------------------------------
(* stop_slot: drain, then stop the process.  The backend refuses a process it *)
(* does not track or can no longer identify, and the stop may fail.           *)
BackendStop(s) ==
  \/ UNCHANGED proc
  \/ proc[s] # "absent" /\ proc' = [proc EXCEPT ![s] = "absent"]

StopBegin(c, s) ==
  /\ call[c] = NoCall
  /\ commands < MaxCommands
  /\ BeginOperation(s, "draining")
  /\ call' = [call EXCEPT ![c] =
       [kind |-> "stop", slot |-> s, step |-> "drain", todo |-> {}]]
  /\ commands' = commands + 1
  /\ UNCHANGED <<leases, epoch, manualStop, attempts, proc, gen, mon, req, crashes>>

StopDrained(c) ==
  LET s == call[c].slot
  IN  /\ call[c].step = "drain"
      /\ Drained(s)
      /\ phase' = [phase EXCEPT ![s] = "stopping"]
      /\ call' = [call EXCEPT ![c].step = "backend"]
      /\ UNCHANGED <<leases, epoch, manualStop, attempts, proc, gen, mon, req,
                     commands, crashes>>

(* set_manual_stop(name, True), whether or not the process stopped *)
RememberStop(s) == manualStop' = [manualStop EXCEPT ![s] = TRUE]

(* mutated: a failed stop leaves before it gives the slot back *)
StopFinishNoFinally(c) ==
  LET s == call[c].slot
  IN  /\ call[c].kind \in {"stop", "stop_all"} /\ call[c].step = "backend"
      /\ BackendStop(s)
      /\ RememberStop(s)
      /\ IF proc'[s] = "absent" THEN FinishOperation(s) ELSE UNCHANGED <<phase, epoch>>
      /\ call' = [call EXCEPT ![c] =
           IF @.kind = "stop" THEN NoCall ELSE [@ EXCEPT !.slot = NoSlot, !.step = "next"]]
      /\ UNCHANGED <<leases, attempts, gen, mon, req, commands, crashes>>

StopFinish(c) ==
  LET s == call[c].slot
  IN  /\ call[c].kind \in {"stop", "stop_all"} /\ call[c].step = "backend"
      /\ BackendStop(s)
      /\ RememberStop(s)
      /\ FinishOperation(s)
      /\ call' = [call EXCEPT ![c] =
           IF @.kind = "stop" THEN NoCall ELSE [@ EXCEPT !.slot = NoSlot, !.step = "next"]]
      /\ UNCHANGED <<leases, attempts, gen, mon, req, commands, crashes>>

(* stop_all cancels the restart monitor and waits for it to end *)
StopAllBegin(c) ==
  /\ call[c] = NoCall
  /\ commands < MaxCommands
  /\ call' = [call EXCEPT ![c] =
       [kind |-> "stop_all", slot |-> NoSlot, todo |-> Slots,
        step |-> IF mon.pc = "off" THEN "next" ELSE "cancelling"]]
  /\ mon' = IF mon.pc = "off" THEN mon ELSE [mon EXCEPT !.cancelled = TRUE]
  /\ commands' = commands + 1
  /\ UNCHANGED <<phase, leases, epoch, manualStop, attempts, proc, gen, req, crashes>>

(* the next slot of stop_all: stop_slot begins, or is refused because another *)
(* operation owns the slot and the result says busy                           *)
StopAllNext(c, s) ==
  /\ call[c].step = "next"
  /\ s \in call[c].todo
  /\ \/ /\ BeginOperation(s, "draining")
        /\ call' = [call EXCEPT ![c].slot = s, ![c].step = "drain", ![c].todo = @ \ {s}]
     \/ /\ ~CanBegin(s)
        /\ call' = [call EXCEPT ![c].todo = @ \ {s}]
        /\ UNCHANGED phase
  /\ UNCHANGED <<leases, epoch, manualStop, attempts, proc, gen, mon, req,
                 commands, crashes>>

StopAllEnd(c) ==
  /\ call[c].step = "next" /\ call[c].todo = {}
  /\ call' = [call EXCEPT ![c] = NoCall]
  /\ UNCHANGED <<phase, leases, epoch, manualStop, attempts, proc, gen, mon, req,
                 commands, crashes>>

-----------------------------------------------------------------------------
(* The restart monitor: _restart_loop and _restart_unhealthy_slots. *)

(* status(): one health check per listed slot, answered in any order; the     *)
(* pass begins when all have answered and works on what they said             *)
MonitorPoll ==
  /\ mon.pc = "sleep" /\ ~mon.cancelled
  /\ mon' = [MonitorOff EXCEPT !.pc = "poll", !.todo = {s \in Slots : proc[s] # "absent"}]
  /\ UNCHANGED <<phase, leases, epoch, manualStop, attempts, proc, gen, call, req,
                 commands, crashes>>

MonitorProbe(s) ==
  /\ mon.pc = "poll" /\ ~mon.cancelled /\ s \in mon.todo
  /\ mon' = [mon EXCEPT !.seen[s] = IF proc[s] = "absent" THEN "down" ELSE proc[s],
                        !.todo = @ \ {s}]
  /\ UNCHANGED <<phase, leases, epoch, manualStop, attempts, proc, gen, call, req,
                 commands, crashes>>

MonitorWalk ==
  /\ mon.pc = "poll" /\ ~mon.cancelled /\ mon.todo = {}
  /\ mon' = [mon EXCEPT !.pc = "walk", !.todo = {s \in Slots : mon.seen[s] # "absent"}]
  /\ UNCHANGED <<phase, leases, epoch, manualStop, attempts, proc, gen, call, req,
                 commands, crashes>>

(* mutated: `>` for `>=` in the attempt limit *)
MayRestartOnceMore(s) ==
  /\ mon.seen[s] = "down"
  /\ CanBegin(s) /\ ~manualStop[s]
  /\ attempts[s] <= MaxAttempts

(* mutated: an operator's Stop is not looked at *)
MayRestartStopped(s) ==
  /\ mon.seen[s] = "down"
  /\ CanBegin(s)
  /\ attempts[s] < MaxAttempts

MayRestart(s) ==
  /\ mon.seen[s] = "down"
  /\ CanBegin(s) /\ ~manualStop[s]
  /\ attempts[s] < MaxAttempts

(* healthy in the snapshot: the attempts are forgotten; otherwise the slot is *)
(* passed over, or its restart begins                                         *)
MonitorVisit(s) ==
  /\ mon.pc = "walk" /\ ~mon.cancelled /\ s \in mon.todo
  /\ attempts' = IF mon.seen[s] = "up" THEN [attempts EXCEPT ![s] = 0] ELSE attempts
  /\ \/ /\ MayRestart(s)
        /\ phase' = [phase EXCEPT ![s] = "auto_restarting"]
        /\ mon' = [mon EXCEPT !.pc = "drain", !.slot = s, !.todo = @ \ {s}]
     \/ /\ ~MayRestart(s)
        /\ mon' = [mon EXCEPT !.todo = @ \ {s}]
        /\ UNCHANGED phase
  /\ UNCHANGED <<leases, epoch, manualStop, proc, gen, call, req, commands, crashes>>

MonitorPassEnds ==
  /\ mon.pc = "walk" /\ ~mon.cancelled /\ mon.todo = {}
  /\ mon' = [MonitorOff EXCEPT !.pc = "sleep"]
  /\ UNCHANGED <<phase, leases, epoch, manualStop, attempts, proc, gen, call, req,
                 commands, crashes>>

MonitorDrained ==
  /\ mon.pc = "drain" /\ ~mon.cancelled
  /\ Drained(mon.slot)
  /\ attempts' = [attempts EXCEPT ![mon.slot] = @ + 1]
  /\ mon' = [mon EXCEPT !.pc = "backend"]
  /\ UNCHANGED <<phase, leases, epoch, manualStop, proc, gen, call, req, commands, crashes>>

(* the backend's start returns, or raises and the pass is abandoned *)
MonitorRestarted ==
  /\ mon.pc = "backend" /\ ~mon.cancelled
  /\ BackendStart(mon.slot)
  /\ FinishOperation(mon.slot)
  /\ mon' \in {[mon EXCEPT !.pc = "walk", !.slot = NoSlot],
               [MonitorOff EXCEPT !.pc = "sleep"]}
  /\ UNCHANGED <<leases, manualStop, attempts, call, req, commands, crashes>>

(* CancelledError reaches the monitor: an operation under way is finished in  *)
(* its `finally`; a start that was interrupted may have spawned its process;  *)
(* the stop_all calls that waited for the task go on                          *)
MonitorEnds ==
  /\ mon.cancelled
  /\ IF mon.pc = "backend" THEN BackendStart(mon.slot) ELSE UNCHANGED <<proc, gen>>
  /\ IF mon.pc \in {"drain", "backend"}
     THEN FinishOperation(mon.slot)
     ELSE UNCHANGED <<phase, epoch>>
  /\ mon' = MonitorOff
  /\ call' = [c \in Callers |->
       IF call[c].step = "cancelling" THEN [call[c] EXCEPT !.step = "next"] ELSE call[c]]
  /\ UNCHANGED <<leases, manualStop, attempts, req, commands, crashes>>

-----------------------------------------------------------------------------
(* The requests: service/app.py, chat_completions and embeddings. *)

(* the slot is known before the routing decision (a pinned model, the GPU     *)
(* profile, a preferred slot, the only slot of the role): its epoch is        *)
(* captured first, and a slot under an operation refuses at once              *)
PreRoute(r, s) ==
  /\ req[r].pc = "new"
  /\ req' = [req EXCEPT ![r] =
       IF phase[s] = "idle" THEN Req("prerouted", s, epoch[s], gen[s], TRUE) ELSE OverReq]
  /\ UNCHANGED <<phase, leases, epoch, manualStop, attempts, proc, gen, call, mon,
                 commands, crashes>>

(* the routing decision picks a slot: the one known before, or any that its   *)
(* health evidence, which may be stale, offers                                *)
Choose(r, s) ==
  /\ req[r].pc \in {"new", "prerouted"}
  /\ req' = [req EXCEPT ![r] =
       IF req[r].pc = "prerouted" /\ s = req[r].slot
       THEN [@ EXCEPT !.pc = "choosing"]
       ELSE Req("choosing", s, 0, gen[s], FALSE)]
  /\ UNCHANGED <<phase, leases, epoch, manualStop, attempts, proc, gen, call, mon,
                 commands, crashes>>

(* the decision returned: an early epoch is kept, a missing one is captured *)
Decide(r) ==
  LET s == req[r].slot
  IN  /\ req[r].pc = "choosing"
      /\ req' = [req EXCEPT ![r] =
           IF phase[s] = "idle"
           THEN [@ EXCEPT !.pc = "routed",
                          !.epoch = IF req[r].pinned THEN req[r].epoch ELSE epoch[s]]
           ELSE OverReq]
      /\ UNCHANGED <<phase, leases, epoch, manualStop, attempts, proc, gen, call, mon,
                     commands, crashes>>

(* try_begin_slot_request: gpu_swap_in_progress, gpu_model_changed or ok *)
LeaseAvailable(r) ==
  /\ phase[req[r].slot] = "idle"
  /\ epoch[req[r].slot] = req[r].epoch

Lease(r) ==
  /\ req[r].pc = "routed"
  /\ \/ /\ LeaseAvailable(r)
        /\ leases' = [leases EXCEPT ![req[r].slot] = @ + 1]
        /\ req' = [req EXCEPT ![r].pc = "leased"]
     \/ /\ ~LeaseAvailable(r)
        /\ req' = [req EXCEPT ![r] = OverReq]
        /\ UNCHANGED leases
  /\ UNCHANGED <<phase, epoch, manualStop, attempts, proc, gen, call, mon,
                 commands, crashes>>

(* finish(): the response was sent, failed, or the client left *)
Finish(r) ==
  /\ req[r].pc = "leased"
  /\ leases' = [leases EXCEPT ![req[r].slot] = IF @ > 0 THEN @ - 1 ELSE 0]
  /\ req' = [req EXCEPT ![r] = OverReq]
  /\ UNCHANGED <<phase, epoch, manualStop, attempts, proc, gen, call, mon,
                 commands, crashes>>

(* a request that fails before it holds a lease: no slot available, the lane  *)
(* is full, the client left                                                   *)
GiveUp(r) ==
  /\ req[r].pc \in {"new", "choosing", "prerouted", "routed"}
  /\ req' = [req EXCEPT ![r] = OverReq]
  /\ UNCHANGED <<phase, leases, epoch, manualStop, attempts, proc, gen, call, mon,
                 commands, crashes>>

(* embeddings: forwarded to the chosen slot, no phase, epoch or lease *)
ForwardDirect(r) ==
  /\ req[r].pc = "choosing"
  /\ req' = [req EXCEPT ![r].pc = "direct"]
  /\ UNCHANGED <<phase, leases, epoch, manualStop, attempts, proc, gen, call, mon,
                 commands, crashes>>

EndDirect(r) ==
  /\ req[r].pc = "direct"
  /\ req' = [req EXCEPT ![r] = OverReq]
  /\ UNCHANGED <<phase, leases, epoch, manualStop, attempts, proc, gen, call, mon,
                 commands, crashes>>

-----------------------------------------------------------------------------
(* A model process exits, or stops answering its health check. *)
Crash(s) ==
  /\ crashes < MaxCrashes
  /\ \/ proc[s] \in {"up", "sick"} /\ proc' = [proc EXCEPT ![s] = "down"]
     \/ proc[s] = "up" /\ proc' = [proc EXCEPT ![s] = "sick"]
  /\ crashes' = crashes + 1
  /\ UNCHANGED <<phase, leases, epoch, manualStop, attempts, gen, call, mon, req, commands>>

CallStep(c) ==
  \/ StartFinish(c) \/ StopDrained(c) \/ StopFinish(c)
  \/ StopAllEnd(c)
  \/ \E s \in Slots : StopAllNext(c, s)

MonitorStep ==
  \/ MonitorPoll \/ MonitorWalk \/ MonitorPassEnds \/ MonitorDrained \/ MonitorRestarted \/ MonitorEnds
  \/ \E s \in Slots : MonitorProbe(s) \/ MonitorVisit(s)

(* everything is over and nobody watches the slots *)
Rest ==
  /\ commands = MaxCommands /\ mon.pc = "off"
  /\ \A c \in Callers : call[c] = NoCall
  /\ \A r \in Requests : req[r].pc = "over"
  /\ UNCHANGED vars

Next ==
  \/ \E c \in Callers, s \in Slots : StartBegin(c, s) \/ StopBegin(c, s)
  \/ \E c \in Callers : StopAllBegin(c) \/ CallStep(c)
  \/ MonitorStep
  \/ \E r \in Requests, s \in Slots : PreRoute(r, s) \/ Choose(r, s)
  \/ \E r \in Requests :
       \/ Decide(r) \/ Lease(r) \/ Finish(r) \/ GiveUp(r)
       \/ ForwardDirect(r) \/ EndDirect(r)
  \/ \E s \in Slots : Notice(s) \/ Crash(s)
  \/ Rest

Spec == Init /\ [][Next]_vars

(* Tasks run, backend calls return (they carry timeouts) and a forwarded      *)
(* request ends (the forward timeout).  Nobody has to call, crash or give up. *)
Fairness ==
  /\ \A c \in Callers : WF_vars(CallStep(c))
  /\ WF_vars(MonitorStep)
  /\ \A r \in Requests : WF_vars(Finish(r))

FairSpec == Spec /\ Fairness

-----------------------------------------------------------------------------
(* Properties *)

LeasedOn(s) == {r \in Requests : req[r].pc = "leased" /\ req[r].slot = s}

Operating(c, s) == call[c].slot = s /\ call[c].step \in {"drain", "backend"}
MonitorOperating(s) == mon.slot = s /\ mon.pc \in {"drain", "backend"}

(* The state has its shape, no slot is leased more often than there are       *)
(* requests, and the monitor never counts more than max_restart_attempts      *)
(* automatic restarts of a slot since it was last seen healthy.               *)
TypeOK ==
  /\ phase \in [Slots -> Phases]
  /\ leases \in [Slots -> 0..Cardinality(Requests)]
  /\ epoch \in [Slots -> Nat]
  /\ manualStop \in [Slots -> BOOLEAN]
  /\ attempts \in [Slots -> 0..MaxAttempts]
  /\ proc \in [Slots -> ProcStates]
  /\ gen \in [Slots -> Nat]
  /\ call \in [Callers -> Calls]
  /\ mon \in Monitors
  /\ req \in [Requests -> ReqRecords]
  /\ commands \in 0..MaxCommands
  /\ crashes \in 0..MaxCrashes

(* active_requests of a slot is exactly the requests being forwarded to it    *)
(* under a lease: finish() gives back every lease once, never another's.      *)
LeasesAccounted == \A s \in Slots : leases[s] = Cardinality(LeasedOn(s))

(* A slot is under an operation exactly while one control call, or the        *)
(* restart monitor, works on it: nobody works on a slot another one owns, and *)
(* no operation leaves its phase behind.                                      *)
OneOperation ==
  \A s \in Slots :
    LET owners == {c \in Callers : Operating(c, s)}
    IN  Cardinality(owners) + (IF MonitorOperating(s) THEN 1 ELSE 0)
          = IF phase[s] = "idle" THEN 0 ELSE 1

(* A Stop never takes a model process from under a request that holds a       *)
(* lease on its slot.                                                         *)
StopsDrained ==
  [][\A s \in Slots :
       proc[s] # "absent" /\ proc'[s] = "absent" => LeasedOn(s) = {}]_vars

(* A request whose slot was known before its routing decision is only         *)
(* forwarded to the very process that was there then: if the slot was started *)
(* again while the request was in the decision or waited for its lane, it is  *)
(* refused with gpu_model_changed.                                            *)
LeaseMatchesRoute ==
  [][\A r \in Requests :
       req[r].pc = "routed" /\ req'[r].pc = "leased" /\ req[r].pinned
         => gen[req[r].slot] = req[r].gen]_vars

(* Manual Stop remains stopped: no process is spawned for a slot that was     *)
(* stopped by hand since its last explicit Start.                             *)
StopSticks ==
  [][\A s \in Slots : gen'[s] # gen[s] => ~manualStop[s]]_vars

(* A running slot that was not stopped by hand is watched by the restart      *)
(* monitor, whatever starts and stop_alls raced, unless a stop_all that will  *)
(* still come to the slot has cancelled it.                                   *)
MonitorWatches ==
  \A s \in Slots :
    proc[s] \in {"up", "sick"} /\ ~manualStop[s] /\ mon.pc = "off"
      => \/ \E c \in Callers : call[c].kind = "stop_all" /\ s \in call[c].todo
         \/ \E c \in Callers : Operating(c, s)

(* Requests, control calls and the monitor agree on every slot: the leases    *)
(* counted, one owner of a slot under an operation, running slots watched.    *)
Coordinated == LeasesAccounted /\ OneOperation /\ MonitorWatches

(* Every operation on a slot ends: the drain waits for leases that all end,   *)
(* while no new one is granted.                                               *)
OperationEnds == \A s \in Slots : phase[s] # "idle" ~> phase[s] = "idle"

(* "Slot draining closes ingress and waits until every accepted normal or     *)
(* streaming request finishes or disconnects" (CHANGELOG.md): a Stop takes no *)
(* process from under a request that is being forwarded to its slot.          *)
DrainWaitsForAll ==
  [][\A s \in Slots :
       proc[s] # "absent" /\ proc'[s] = "absent"
         => ~\E r \in Requests : req[r].slot = s /\ req[r].pc \in {"leased", "direct"}]_vars
=============================================================================
