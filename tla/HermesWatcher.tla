---------------------------- MODULE HermesWatcher ----------------------------
(***************************************************************************)
(* service/hermes_model_watcher.py: the watcher that keeps the model of    *)
(* the Hermes GPU slot at the one the newest Hermes session wants.         *)
(*                                                                         *)
(* refresh_desired is run by the watcher's own task (Tick, which always    *)
(* probes between swaps) and by every Hermes request (which probes only    *)
(* while nothing is known to be loaded); it creates the swap task.  The    *)
(* swap task stops the running model, tries the target up to               *)
(* max_start_attempts times, and restores the original once.  It shares    *)
(* the slot with explicit Start and Stop and with the restart monitor of   *)
(* SlotCoordination, of which this module keeps the operation in progress, *)
(* manual_stop and the leases of the Hermes requests.                      *)
(*                                                                         *)
(* Every step runs from one await to the next.  A read_loaded is three of  *)
(* them (the process list, the health probe, what the task does when it    *)
(* runs again), and nobody waits for it: a swap may take, drain and reload *)
(* the slot meanwhile, and what was read is acted on all the same.  The    *)
(* ghosts late and misled say when that happened.  prepare_shutdown, which *)
(* ends the watcher, and a changed profile file, which resets the budget   *)
(* as an explicit Start does, are left out.                                *)
(***************************************************************************)
EXTENDS Naturals, FiniteSets

CONSTANTS
  Profiles,     (* the GPU profiles                                           *)
  Default,      (* default_profile                                            *)
  NoProfile,    (* None                                                       *)
  Tick,         (* the watcher's task                                         *)
  Requests,     (* concurrent Hermes requests                                 *)
  MaxAttempts,  (* max_start_attempts                                         *)
  MaxWishes,    (* bound: changes of the sessions                             *)
  MaxControls,  (* bound: explicit Starts and Stops                           *)
  MaxCrashes    (* bound: failures of a model process outside a swap          *)

ASSUME WatcherAssumption ==
  /\ Default \in Profiles
  /\ NoProfile \notin Profiles
  /\ Tick \notin Requests
  /\ MaxAttempts \in Nat \ {0}
  /\ MaxWishes \in Nat /\ MaxControls \in Nat /\ MaxCrashes \in Nat

VARIABLES
  proc,         (* the process on the slot's port                             *)
  config,       (* the profile of the slot's config                           *)
  op,           (* the operation that owns the slot, or "idle"                *)
  manualStop, suppressed,     (* manual_stop, restart_suppressed              *)
  wish,         (* the model of the newest session, if one is recent          *)
  desired, loaded, lastWorking, published, blocked, attempt,
  swap,         (* the swap task                                              *)
  ref,          (* the refreshes under way, and the requests they let through *)
  starts,       (* ghost: starts of swap targets since the budget was renewed, *)
                (* counted up to one more than MaxAttempts                    *)
  late,         (* ghost: the reads under way that a swap, or the start of    *)
                (* another model, has overtaken, and the requests let through *)
                (* while misled                                               *)
  misled,       (* ghost: a model that an overtaken read found was taken for  *)
                (* the loaded one; no read between swaps has put it right yet *)
  wishes, controls, crashes

slotVars == <<proc, config, op, manualStop, suppressed>>
modelVars == <<desired, loaded, lastWorking, published, blocked, attempt>>
bounds == <<wishes, controls, crashes>>
reads == <<ref, late, misled>>
vars == <<slotVars, wish, modelVars, swap, reads, starts, bounds>>

Maybe == Profiles \cup {NoProfile}

(* down: started by the manager and exited; loading, up, sick: alive. A       *)
(* process that is not owned was not started, nor adopted, by the manager     *)
Proc(m, s, o) == [model |-> m, state |-> s, owned |-> o]
Absent == Proc(NoProfile, "absent", FALSE)
Down == Proc(NoProfile, "down", FALSE)
Procs == {Absent, Down} \cup
  {Proc(m, s, o) : m \in Profiles, s \in {"loading", "up", "sick"}, o \in BOOLEAN}

NoSwap == [pc |-> "none", target |-> NoProfile, original |-> NoProfile,
           restore |-> NoProfile, stopped |-> FALSE]
Swaps ==
  [pc : {"none", "created", "drain", "stop", "start", "load", "verify", "cleanup",
         "restore", "restoring"},
   target : Maybe, original : Maybe, restore : Maybe, stopped : BOOLEAN]

Ref(pc, hint, asked) == [pc |-> pc, hint |-> hint, asked |-> asked]
NoRef == Ref("idle", NoProfile, NoProfile)
Refs == [pc : {"idle", "inspect", "probe", "resume", "forwarded"}, hint : Maybe, asked : Maybe]

Refreshers == Requests \cup {Tick}

Alive == proc.state \in {"loading", "up", "sick"}
OwnsProcess == Alive /\ proc.owned
Swapping == swap.pc # "none"
Forwarded == {r \in Requests : ref[r].pc = "forwarded"}

(* the reads under way, those that know what the process list said, and those *)
(* of them that saw another model than m                                      *)
Underway == {r \in Refreshers : ref[r].pc \notin {"idle", "forwarded"}}
Reading(r) == ref[r].pc \in {"probe", "resume"}
SawOther(m) == {r \in Refreshers : Reading(r) /\ ref[r].hint # m}

Init ==
  /\ proc \in {Absent} \cup {Proc(m, "up", o) : m \in Profiles, o \in BOOLEAN}
  /\ lastWorking \in Maybe
  /\ config = IF lastWorking = NoProfile THEN Default ELSE lastWorking
  /\ op = "idle" /\ manualStop = FALSE /\ suppressed = FALSE
  /\ wish \in Maybe
  /\ desired = NoProfile /\ loaded = NoProfile /\ published = NoProfile
  /\ blocked = NoProfile /\ attempt = 0
  /\ swap = NoSwap
  /\ ref = [r \in Refreshers |-> NoRef]
  /\ starts = 0 /\ late = {} /\ misled = FALSE
  /\ wishes = 0 /\ controls = 0 /\ crashes = 0

-----------------------------------------------------------------------------
(* refresh_desired *)

(* read_desired: the recent session, else what is loaded, else the default *)
ReadDesired(seen) ==
  CASE wish # NoProfile -> wish
    [] wish = NoProfile /\ seen # NoProfile -> seen
    [] OTHER -> Default

(* retry_response is None and try_begin_slot_request says ok *)
LetThrough == ~manualStop /\ op = "idle" /\ swap'.pc = "none" /\ desired' = loaded'

(* what follows read_loaded, up to the next await; `seen` is what is loaded   *)
(* now, `probed` whether the slot was read                                    *)
Conclude(r, seen, probed) ==
  LET found == probed /\ seen # NoProfile
      chosen == ReadDesired(seen)
      renewed == ~manualStop /\ chosen # desired
  IN  /\ loaded' = seen
      /\ lastWorking' = IF found THEN seen ELSE lastWorking
      /\ config' = IF found THEN seen ELSE config
      /\ published' = IF probed THEN seen ELSE published
      /\ desired' = chosen
      /\ blocked' = IF renewed THEN NoProfile ELSE blocked
      /\ suppressed' = (suppressed /\ ~renewed)
      /\ starts' = IF chosen # desired THEN 0 ELSE starts
      /\ swap' = IF ~manualStop /\ ~Swapping /\ chosen # seen /\ blocked' # chosen
                 THEN [NoSwap EXCEPT !.pc = "created", !.target = chosen]
                 ELSE swap
      /\ ref' = [ref EXCEPT ![r] =
           IF r \in Requests /\ LetThrough THEN Ref("forwarded", NoProfile, chosen) ELSE NoRef]
      /\ misled' = ((found /\ r \in late) \/ (misled /\ (Swapping \/ ~probed)))
      /\ late' = (late \ {r}) \cup
           IF misled' THEN {s \in Requests : ref'[s].pc = "forwarded"} ELSE {}
      /\ UNCHANGED <<proc, op, manualStop, wish, attempt, bounds>>

(* the watcher probes between swaps; a request only while nothing is loaded *)
Probes(r) == ~Swapping /\ (r = Tick \/ loaded = NoProfile)

Refresh(r) ==
  /\ ref[r].pc = "idle"
  /\ IF Probes(r)
     THEN /\ ref' = [ref EXCEPT ![r].pc = "inspect"]
          /\ UNCHANGED <<slotVars, wish, modelVars, swap, starts, late, misled, bounds>>
     ELSE Conclude(r, loaded, FALSE)

(* read_loaded: the process list names the model, or there is no process and  *)
(* the read ends                                                              *)
Inspect(r) ==
  /\ ref[r].pc = "inspect"
  /\ ref' = [ref EXCEPT ![r].pc = IF Alive THEN "probe" ELSE "resume",
                        ![r].hint = IF Alive THEN proc.model ELSE NoProfile]
  /\ UNCHANGED <<slotVars, wish, modelVars, swap, starts, late, misled, bounds>>

(* /health is answered; an unhealthy answer ends the read, a healthy one is   *)
(* followed by the requests for the context size                              *)
ProbeHealth(r) ==
  /\ ref[r].pc = "probe"
  /\ ref' = [ref EXCEPT ![r].pc = "resume",
                        ![r].hint = IF proc.state = "up" THEN @ ELSE NoProfile]
  /\ UNCHANGED <<slotVars, wish, modelVars, swap, starts, late, misled, bounds>>

(* the task runs again, whatever has become of the slot since *)
Resume(r) ==
  /\ ref[r].pc = "resume"
  /\ Conclude(r, ref[r].hint, TRUE)

(* the forwarded request gives its lease back *)
EndForward(r) ==
  /\ ref[r].pc = "forwarded"
  /\ ref' = [ref EXCEPT ![r] = NoRef]
  /\ late' = late \ {r}
  /\ UNCHANGED <<slotVars, wish, modelVars, swap, starts, misled, bounds>>

RefreshStep(r) == Inspect(r) \/ ProbeHealth(r) \/ Resume(r)

-----------------------------------------------------------------------------
(* _swap_loop *)

(* mutated: the failed target is not remembered *)
EndFailedUnblocked(target) ==
  /\ blocked' = NoProfile
  /\ suppressed' = FALSE
  /\ op' = "idle"
  /\ swap' = NoSwap

(* the except and finally clauses after a failure: the target is blocked, the *)
(* restart monitor held off, the slot given back                              *)
EndFailed(target) ==
  /\ blocked' = target
  /\ suppressed' = TRUE
  /\ op' = "idle"
  /\ swap' = NoSwap

(* a SwapFailure: the original is restored if it was stopped *)
Fail(target) ==
  IF swap.stopped
  THEN /\ swap' = [swap EXCEPT !.pc = "restore", !.target = target]
       /\ UNCHANGED <<blocked, suppressed, op>>
  ELSE EndFailed(target)

(* the slot is taken, or owned by another operation; the target's files are   *)
(* there or missing                                                           *)
SwapBegin ==
  /\ swap.pc = "created"
  /\ LET original == IF loaded # NoProfile THEN loaded ELSE lastWorking
     IN  \/ /\ op # "idle"
            /\ swap' = NoSwap
            /\ UNCHANGED <<op, attempt, blocked, suppressed>>
         \/ /\ op = "idle" /\ op' = "swap"
            /\ attempt' = 0
            /\ swap' = [swap EXCEPT !.pc = "drain", !.original = original,
                          !.restore = IF loaded # NoProfile THEN config ELSE original]
            /\ UNCHANGED <<blocked, suppressed>>
         \/ /\ op = "idle"
            /\ attempt' = 0
            /\ EndFailed(swap.target)
  /\ UNCHANGED <<proc, config, manualStop, wish, desired, loaded, lastWorking, published,
                 reads, starts, bounds>>

(* mutated: the leases are not waited for *)
SwapDrainedAtOnce ==
  /\ swap.pc = "drain"
  /\ IF OwnsProcess \/ (loaded = NoProfile /\ ~Alive)
     THEN /\ swap' = [swap EXCEPT !.pc = IF OwnsProcess THEN "stop" ELSE "start"]
          /\ late' = late \cup Underway
          /\ UNCHANGED <<blocked, suppressed, op>>
     ELSE Fail(swap.target) /\ UNCHANGED late
  /\ UNCHANGED <<proc, config, manualStop, wish, desired, loaded, lastWorking, published,
                 attempt, ref, starts, misled, bounds>>

(* the slot is drained: its process is stopped if it is ours; a foreign one,  *)
(* or a loaded model without process, is port_in_use                          *)
SwapDrained ==
  /\ swap.pc = "drain"
  /\ Forwarded = {}
  /\ IF OwnsProcess \/ (loaded = NoProfile /\ ~Alive)
     THEN /\ swap' = [swap EXCEPT !.pc = IF OwnsProcess THEN "stop" ELSE "start"]
          /\ late' = late \cup Underway
          /\ UNCHANGED <<blocked, suppressed, op>>
     ELSE Fail(swap.target) /\ UNCHANGED late
  /\ UNCHANGED <<proc, config, manualStop, wish, desired, loaded, lastWorking, published,
                 attempt, ref, starts, misled, bounds>>

(* _stop_slot_unlocked refuses or fails; or the process is gone, and its port *)
(* free or still held                                                         *)
SwapStopped ==
  /\ swap.pc = "stop"
  /\ \/ /\ Fail(swap.target)
        /\ UNCHANGED <<proc, loaded, published>>
     \/ /\ proc' = Absent
        /\ loaded' = NoProfile /\ published' = NoProfile
        /\ \E next \in {"start", "restore"} :
             swap' = [swap EXCEPT !.pc = next, !.stopped = TRUE]
        /\ UNCHANGED <<blocked, suppressed, op>>
  /\ UNCHANGED <<config, manualStop, wish, desired, lastWorking, attempt, reads, starts, bounds>>

(* the next attempt: at the model that is desired by now, with attempts of    *)
(* its own; its files may be missing (_validate_profile), and the backend may *)
(* refuse to start a process, for a reason that is worth a retry or not       *)
SwapStart ==
  LET changed == desired # swap.target
      target == IF changed THEN desired ELSE swap.target
  IN  /\ swap.pc = "start"
      /\ \/ /\ attempt' = IF changed THEN 1 ELSE attempt + 1
            /\ starts' = IF starts > MaxAttempts THEN starts ELSE starts + 1
            /\ config' = target
            /\ proc' = Proc(target, "loading", TRUE)
            /\ swap' = [swap EXCEPT !.pc = "load", !.target = target]
            /\ UNCHANGED <<blocked, suppressed, op>>
         \/ /\ attempt' = IF changed THEN 1 ELSE attempt + 1
            /\ config' = target
            /\ \E next \in {"cleanup", "restore"} :
                 swap' = [swap EXCEPT !.pc = next, !.target = target]
            /\ UNCHANGED <<proc, starts, blocked, suppressed, op>>
         \/ /\ changed
            /\ attempt' = 0
            /\ Fail(target)
            /\ UNCHANGED <<proc, starts, config>>
      /\ UNCHANGED <<manualStop, wish, desired, loaded, lastWorking, published, reads, bounds>>

(* _start_slot_unlocked: the process becomes healthy, stays without becoming  *)
(* healthy, or exits                                                          *)
SwapLoaded ==
  /\ swap.pc = "load"
  /\ \E state \in {"up", "sick", "down"} :
       /\ proc' = IF state = "down" \/ ~Alive THEN Down ELSE [proc EXCEPT !.state = state]
       /\ swap' = [swap EXCEPT !.pc = IF proc'.state = "up" THEN "verify" ELSE "cleanup"]
  /\ UNCHANGED <<config, op, manualStop, suppressed, wish, modelVars, reads, starts, bounds>>

(* read_loaded agrees, and the target is loaded; or it does not (the process  *)
(* is unhealthy again, or its identity is not recognised)                     *)
SwapVerified ==
  /\ swap.pc = "verify"
  /\ \/ /\ proc.state = "up"
        /\ loaded' = swap.target /\ lastWorking' = swap.target /\ published' = swap.target
        /\ blocked' = NoProfile /\ suppressed' = FALSE
        /\ starts' = 0
        /\ op' = "idle"
        /\ swap' = NoSwap
     \/ /\ published' = NoProfile
        /\ swap' = [swap EXCEPT !.pc = "cleanup"]
        /\ UNCHANGED <<loaded, lastWorking, blocked, suppressed, starts, op>>
  /\ UNCHANGED <<proc, config, manualStop, wish, desired, attempt, reads, bounds>>

(* mutated: the last attempt is not the last *)
LastAttemptLate == attempt > MaxAttempts

LastAttempt == attempt >= MaxAttempts

(* the failed process is stopped if it is alive: another attempt after the    *)
(* backoff, or the restoration; a stop that fails or a port that stays held   *)
(* ends the attempts                                                          *)
SwapCleanup ==
  /\ swap.pc = "cleanup"
  /\ \/ /\ proc' = IF OwnsProcess THEN Absent ELSE proc
        /\ swap' = [swap EXCEPT !.pc = IF LastAttempt THEN "restore" ELSE "start"]
     \/ /\ proc' \in {proc, Absent} /\ Alive
        /\ swap' = [swap EXCEPT !.pc = "restore"]
  /\ UNCHANGED <<config, op, manualStop, suppressed, wish, modelVars, reads, starts, bounds>>

(* _restore_original failed, or there is no original: nothing is loaded       *)
RestoreFailed ==
  /\ loaded' = NoProfile /\ published' = NoProfile
  /\ EndFailed(swap.target)

(* what is left of the target is stopped first, then the original is started *)
SwapRestore ==
  /\ swap.pc = "restore"
  /\ \/ /\ swap.original = NoProfile
        /\ EndFailed(swap.target)
        /\ UNCHANGED <<proc, config, loaded, published>>
     \/ /\ swap.original # NoProfile /\ OwnsProcess
        /\ proc' = Absent
        /\ UNCHANGED <<config, loaded, published, swap, blocked, suppressed, op>>
     \/ /\ swap.original # NoProfile
        /\ RestoreFailed
        /\ config' \in {config, swap.restore}
        /\ UNCHANGED proc
     \/ /\ swap.original # NoProfile /\ ~OwnsProcess
        /\ config' = swap.restore
        /\ proc' = Proc(swap.restore, "loading", TRUE)
        /\ swap' = [swap EXCEPT !.pc = "restoring"]
        /\ UNCHANGED <<loaded, published, blocked, suppressed, op>>
  /\ UNCHANGED <<manualStop, wish, desired, lastWorking, attempt, reads, starts, bounds>>

(* mutated: the identity of the restored original is not published *)
SwapRestoredSilently ==
  /\ swap.pc = "restoring"
  /\ \/ /\ Alive /\ proc.model = swap.original
        /\ proc' = [proc EXCEPT !.state = "up"]
        /\ loaded' = swap.original /\ lastWorking' = swap.original
        /\ EndFailed(swap.target)
        /\ UNCHANGED published
     \/ /\ proc' \in {Absent, Down} \cup
             (IF Alive THEN {[proc EXCEPT !.state = s] : s \in {"up", "sick"}} ELSE {})
        /\ RestoreFailed
        /\ UNCHANGED lastWorking
  /\ UNCHANGED <<config, manualStop, wish, desired, attempt, reads, starts, bounds>>

(* the original is up and recognised; or what was started is stopped, if the  *)
(* stop succeeds, and nothing is loaded                                       *)
SwapRestored ==
  /\ swap.pc = "restoring"
  /\ \/ /\ Alive /\ proc.model = swap.original
        /\ proc' = [proc EXCEPT !.state = "up"]
        /\ loaded' = swap.original /\ lastWorking' = swap.original /\ published' = swap.original
        /\ EndFailed(swap.target)
     \/ /\ proc' \in {Absent, Down} \cup
             (IF Alive THEN {[proc EXCEPT !.state = s] : s \in {"up", "sick"}} ELSE {})
        /\ RestoreFailed
        /\ UNCHANGED lastWorking
  /\ UNCHANGED <<config, manualStop, wish, desired, attempt, reads, starts, bounds>>

SwapStep ==
  \/ SwapBegin \/ SwapDrained \/ SwapStopped \/ SwapStart \/ SwapLoaded \/ SwapVerified
  \/ SwapCleanup \/ SwapRestore \/ SwapRestored

-----------------------------------------------------------------------------
(* The other owners of the slot. *)

(* start_slot of the backend on the slot's config: a process that is alive is *)
(* only asked for its health                                                  *)
Started(state) ==
  IF Alive THEN proc
  ELSE IF state = "down" THEN Down ELSE Proc(config, state, TRUE)

(* _run_control: the budget is renewed, then start_slot takes the slot unless *)
(* another operation owns it                                                  *)
ControlStart ==
  /\ controls < MaxControls
  /\ controls' = controls + 1
  /\ blocked' = NoProfile /\ attempt' = 0 /\ suppressed' = FALSE
  /\ starts' = 0
  /\ op' = IF op = "idle" THEN "start" ELSE op
  /\ manualStop' = (manualStop /\ op # "idle")
  /\ UNCHANGED <<proc, config, wish, desired, loaded, lastWorking, published, swap, reads,
                 wishes, crashes>>

ControlStarted ==
  /\ op = "start"
  /\ proc' \in {Started(state) : state \in {"up", "sick", "down"}}
  /\ op' = "idle"
  /\ late' = IF Alive THEN late ELSE late \cup SawOther(config)
  /\ UNCHANGED <<config, manualStop, suppressed, wish, modelVars, swap, ref, misled, starts,
                 bounds>>

ControlStop ==
  /\ controls < MaxControls /\ op = "idle"
  /\ controls' = controls + 1
  /\ op' = "stop"
  /\ UNCHANGED <<proc, config, manualStop, suppressed, wish, modelVars, swap, reads, starts,
                 wishes, crashes>>

(* drained; the process is gone, or the backend refuses to stop it *)
ControlKill ==
  /\ op = "stop" /\ Forwarded = {}
  /\ proc' \in IF OwnsProcess \/ proc = Down THEN {Absent, proc} ELSE {proc}
  /\ op' = "stopped"
  /\ UNCHANGED <<config, manualStop, suppressed, wish, modelVars, swap, reads, starts, bounds>>

ControlStopped ==
  /\ op = "stopped"
  /\ manualStop' = TRUE
  /\ op' = "idle"
  /\ UNCHANGED <<proc, config, suppressed, wish, modelVars, swap, reads, starts, bounds>>

(* mutated: a slot that failed is restarted all the same *)
MayRestartSuppressed == proc = Down /\ op = "idle" /\ ~manualStop

(* _restart_unhealthy_slots *)
MayRestart == proc = Down /\ op = "idle" /\ ~manualStop /\ ~suppressed

MonitorBegin ==
  /\ MayRestart
  /\ op' = "monitor"
  /\ UNCHANGED <<proc, config, manualStop, suppressed, wish, modelVars, swap, reads, starts, bounds>>

MonitorRestarted ==
  /\ op = "monitor" /\ Forwarded = {}
  /\ \E state \in {"up", "sick", "down"} :
       /\ proc' = Started(state)
       /\ state = "up" \/ crashes < MaxCrashes
       /\ crashes' = IF state = "up" THEN crashes ELSE crashes + 1
  /\ op' = "idle"
  /\ late' = IF Alive THEN late ELSE late \cup SawOther(config)
  /\ UNCHANGED <<config, manualStop, suppressed, wish, modelVars, swap, ref, misled, starts,
                 wishes, controls>>

OperationStep == ControlStarted \/ ControlKill \/ ControlStopped \/ MonitorRestarted

-----------------------------------------------------------------------------
(* The environment: sessions come, change and grow old; processes fail. *)
Wish ==
  /\ wishes < MaxWishes
  /\ wishes' = wishes + 1
  /\ wish' \in Maybe \ {wish}
  /\ UNCHANGED <<slotVars, modelVars, swap, reads, starts, controls, crashes>>

Crash ==
  /\ crashes < MaxCrashes
  /\ proc.state = "up"
  /\ proc' \in {[proc EXCEPT !.state = "sick"], IF proc.owned THEN Down ELSE Absent}
  /\ crashes' = crashes + 1
  /\ UNCHANGED <<config, op, manualStop, suppressed, wish, modelVars, swap, reads, starts, wishes,
                 controls>>

Next ==
  \/ \E r \in Refreshers : Refresh(r) \/ RefreshStep(r)
  \/ \E r \in Requests : EndForward(r)
  \/ SwapStep
  \/ ControlStart \/ ControlStop \/ OperationStep
  \/ MonitorBegin
  \/ Wish \/ Crash

Spec == Init /\ [][Next]_vars

(* The event loop runs every task, the watcher's task never ends, the calls   *)
(* of the backend and the probes carry timeouts, and a forwarded request      *)
(* ends.  Nobody has to send a request, change a session or press a button,   *)
(* and the restart monitor is not needed.                                     *)
Fairness ==
  /\ WF_vars(Refresh(Tick))
  /\ \A r \in Refreshers : WF_vars(RefreshStep(r))
  /\ \A r \in Requests : WF_vars(EndForward(r))
  /\ WF_vars(SwapStep)
  /\ WF_vars(OperationStep)

FairSpec == Spec /\ Fairness

-----------------------------------------------------------------------------
(* Properties *)

(* The state has its shape, a swap never makes more than max_start_attempts   *)
(* starts in a row, and the slot belongs to the swap task exactly while it is *)
(* past its first step.                                                       *)
TypeOK ==
  /\ proc \in Procs
  /\ config \in Profiles
  /\ op \in {"idle", "swap", "start", "stop", "stopped", "monitor"}
  /\ manualStop \in BOOLEAN /\ suppressed \in BOOLEAN
  /\ wish \in Maybe /\ desired \in Maybe /\ loaded \in Maybe /\ lastWorking \in Maybe
  /\ published \in Maybe /\ blocked \in Maybe
  /\ attempt \in 0..MaxAttempts
  /\ swap \in Swaps
  /\ (op = "swap") = (swap.pc \notin {"none", "created"})
  /\ ref \in [Refreshers -> Refs]
  /\ starts \in Nat /\ late \subseteq Refreshers /\ misled \in BOOLEAN
  /\ wishes \in 0..MaxWishes /\ controls \in 0..MaxControls /\ crashes \in 0..MaxCrashes

(* "A target gets at most three starts" (ADR 0015): whatever sequence of      *)
(* swaps, busy slots and refreshes, a desired model is not started more than  *)
(* max_start_attempts times without a success, a change of the desired model  *)
(* or an explicit Start.                                                      *)
StartsBounded == starts <= MaxAttempts

(* "It is never answered silently by the restored model" (ADR 0015): as long  *)
(* as a Hermes request holds its lease, the process that answers it runs the  *)
(* model that was desired when the request was let through, whatever swaps,   *)
(* restorations, Starts and restarts happen.  The exception is the request    *)
(* that was let through, or held its lease, while an overtaken read had its   *)
(* way (line 613 assigns what was read, whatever has happened since).         *)
AnsweredByAsked ==
  \A r \in Requests \ late :
    ref[r].pc = "forwarded" /\ Alive => proc.model = ref[r].asked

(* Between swaps, what is published to the harness is what is loaded, and the *)
(* process on the port, if one is alive, runs that model: a failed swap or    *)
(* restoration leaves no claim behind.  Only a read that a swap or another    *)
(* start has overtaken can break this, until a read between swaps that was    *)
(* not: lines 608-610 say that no half-finished load is published at all.     *)
PublishedIsLoaded ==
  ~Swapping /\ ~misled =>
    /\ published = loaded
    /\ loaded # NoProfile /\ Alive => proc.model = loaded

(* Exhausted retries leave a stable failed state: while the desired model is  *)
(* blocked, nobody spawns a process on the slot, the restart monitor neither. *)
FailedStaysFailed ==
  [][~Alive /\ Alive' /\ ~Swapping => blocked # desired \/ blocked = NoProfile]_vars

(* Once the sessions, the operator and the processes are quiet and a session  *)
(* is recent, the watcher comes to rest: its model is loaded or blocked, or   *)
(* the slot was stopped by hand.  Without a recent session the desired model  *)
(* follows what is loaded and the failures of two models may alternate.       *)
Settles ==
  <>[](wish # NoProfile)
    => <>[](~Swapping /\ (manualStop \/ loaded = desired \/ blocked = desired))

(* "Manual Stop remains stopped until an explicit Start" (ADR 0015): no       *)
(* process is spawned on a slot that was stopped by hand.                     *)
StopStaysStopped == [][~Alive /\ Alive' => ~manualStop]_vars
=============================================================================
