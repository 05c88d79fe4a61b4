------------------------ MODULE HermesWatcherProofs ------------------------
(***************************************************************************)
(* Theorems about the watcher of the Hermes slot, for any profiles, any    *)
(* number of requests, attempts and swaps, and whatever sessions,          *)
(* operators, processes and probes of any speed do.  What is said of       *)
(* models names the reads that a swap or another start has overtaken.      *)
(***************************************************************************)
EXTENDS HermesWatcher, TLAPS

-----------------------------------------------------------------------------
(* The swap task, its retries and the failed state. *)

Taking == {"drain", "stop", "start", "load", "verify", "cleanup", "restore", "restoring"}

(* A swap has a target, and knows what to put back if there was something;    *)
(* it has stopped nothing before it took the slot and drained it.             *)
SwapShape ==
  /\ desired = NoProfile => ~Swapping
  /\ Swapping <=> swap.target # NoProfile
  /\ swap.original # NoProfile => swap.restore # NoProfile
  /\ swap.pc \in {"none", "created", "drain", "stop"} => ~swap.stopped
  /\ swap.pc = "restoring" => swap.original # NoProfile

(* Starts count against the attempts of the target; a desired model whose     *)
(* attempts are used up is blocked, so that no swap is created for it.        *)
StartsCounted ==
  /\ starts <= MaxAttempts
  /\ swap.pc \in {"drain", "stop"} => attempt = 0
  /\ swap.pc = "start" => attempt < MaxAttempts
  /\ swap.pc = "created" => starts = 0
  /\ swap.pc \in Taking =>
       IF desired = swap.target THEN starts <= attempt ELSE starts = 0
  /\ ~Swapping /\ starts > 0 => blocked = desired

(* A blocked target holds the restart monitor off, and whoever starts a       *)
(* process outside a swap began when nothing was blocked.                     *)
BlockedHeld ==
  /\ blocked # NoProfile => suppressed
  /\ op \in {"start", "monitor"} => blocked = NoProfile

SInv == TypeOK /\ SwapShape /\ StartsCounted /\ BlockedHeld

(* What is known of the slot's model. *)
Before == swap.pc \in {"none", "created", "drain", "stop"}
Saw(r) == Reading(r) /\ ref[r].hint # NoProfile

(* After the drain of a swap nobody is let through, and whoever reads has     *)
(* been overtaken.                                                           *)
Quiet ==
  \A r \in Refreshers : ref[r].pc = "idle" \/ (ref[r].pc # "forwarded" /\ r \in late)

(* Reads that were not overtaken and requests let through agree on the model, *)
(* with each other and with the process; who was let through while misled     *)
(* counts as overtaken.                                                      *)
ReadsAgree ==
  /\ ref[Tick].pc # "forwarded"
  /\ \A r \in Refreshers \ late : Saw(r) /\ Alive => proc.model = ref[r].hint
  /\ \A r, s \in Refreshers \ late : Saw(r) /\ Saw(s) => ref[r].hint = ref[s].hint
  /\ \A r \in Refreshers \ late, s \in Requests \ late :
       Saw(r) /\ ref[s].pc = "forwarded" => ref[r].hint = ref[s].asked
  /\ \A s \in Requests \ late : ref[s].pc = "forwarded" =>
       config = ref[s].asked /\ (Alive => proc.model = ref[s].asked)
  /\ misled => Forwarded \subseteq late
  /\ swap.pc \notin {"none", "created", "drain"} => Quiet

(* What is published is what is loaded; until a swap has stopped it, that is  *)
(* what the process runs and the configuration says, later it is nothing.     *)
LoadedKnown ==
  /\ published = loaded
  /\ Before /\ loaded # NoProfile => config = loaded /\ (Alive => proc.model = loaded)
  /\ ~Before => loaded = NoProfile

(* What a swap starts is what it configured.                                 *)
SwapKnown ==
  /\ Swapping /\ swap.original # NoProfile => swap.restore = swap.original
  /\ swap.pc \in {"load", "verify"} => config = swap.target /\ (Alive => proc.model = swap.target)
  /\ swap.pc = "restoring" => config = swap.restore

ModelKnown == LoadedKnown /\ SwapKnown

(* Who reads sees what is loaded.                                            *)
ReadsLoaded ==
  \A r \in Refreshers \ late : Saw(r) /\ loaded # NoProfile => ref[r].hint = loaded

MInv == ReadsAgree /\ (~misled => ModelKnown /\ ReadsLoaded)

SwapPcs == {"none", "created"} \cup Taking

LEMMA Known ==
  /\ Default \in Profiles /\ NoProfile \notin Profiles /\ Profiles \subseteq Maybe
  /\ NoProfile \in Maybe /\ Tick \in Refreshers /\ Requests \subseteq Refreshers
  /\ Tick \notin Requests /\ MaxAttempts \in Nat /\ MaxAttempts >= 1
  /\ MaxWishes \in Nat /\ MaxControls \in Nat /\ MaxCrashes \in Nat
BY WatcherAssumption DEF Maybe, Refreshers

LEMMA NoSwapFields ==
  /\ NoSwap \in Swaps /\ NoSwap.pc = "none" /\ NoSwap.target = NoProfile
  /\ NoSwap.original = NoProfile /\ NoSwap.restore = NoProfile /\ NoSwap.stopped = FALSE
BY Known DEF NoSwap, Swaps

LEMMA ProcFields ==
  /\ \A m, s, o : Proc(m, s, o).model = m /\ Proc(m, s, o).state = s /\ Proc(m, s, o).owned = o
  /\ \A m \in Profiles, s \in {"loading", "up", "sick"}, o \in BOOLEAN : Proc(m, s, o) \in Procs
  /\ Absent \in Procs /\ Down \in Procs /\ Absent.state = "absent" /\ Down.state = "down"
  /\ Absent # Down
  /\ \A q \in Procs : q.state \in {"loading", "up", "sick"} =>
       /\ q.model \in Profiles
       /\ \A s \in {"loading", "up", "sick"} :
            [q EXCEPT !.state = s] = Proc(q.model, s, q.owned) /\ [q EXCEPT !.state = s] \in Procs
<1>1. \A m, s, o : Proc(m, s, o).model = m /\ Proc(m, s, o).state = s /\ Proc(m, s, o).owned = o
  BY DEF Proc
<1>3. Absent.state = "absent" /\ Down.state = "down" /\ Absent # Down
  BY DEF Absent, Down, Proc
<1>2. ASSUME NEW q \in Procs, q.state \in {"loading", "up", "sick"}, NEW s
      PROVE  /\ [q EXCEPT !.state = s] = Proc(q.model, s, q.owned)
             /\ q.model \in Profiles /\ q.owned \in BOOLEAN
  <2>1. PICK m \in Profiles, t \in {"loading", "up", "sick"}, o \in BOOLEAN : q = Proc(m, t, o)
    BY <1>2, <1>3 DEF Procs
  <2> QED
    BY <2>1 DEF Proc
<1> QED
  <2>1. \A m \in Profiles, s \in {"loading", "up", "sick"}, o \in BOOLEAN : Proc(m, s, o) \in Procs
    BY DEF Procs
  <2>2. Absent \in Procs /\ Down \in Procs
    BY DEF Procs
  <2>3. \A q \in Procs : q.state \in {"loading", "up", "sick"} =>
          /\ q.model \in Profiles
          /\ \A s \in {"loading", "up", "sick"} :
               [q EXCEPT !.state = s] = Proc(q.model, s, q.owned) /\ [q EXCEPT !.state = s] \in Procs
    BY <1>2, <2>1
  <2> QED
    BY <1>1, <1>3, <2>1, <2>2, <2>3

LEMMA RefFields ==
  /\ NoRef \in Refs /\ NoRef.pc = "idle"
  /\ \A pc \in {"idle", "inspect", "probe", "resume", "forwarded"}, hint, asked \in Maybe :
       /\ Ref(pc, hint, asked) \in Refs
       /\ Ref(pc, hint, asked).pc = pc /\ Ref(pc, hint, asked).hint = hint
       /\ Ref(pc, hint, asked).asked = asked
BY Known DEF NoRef, Ref, Refs

LEMMA InitSInv == Init => SInv
<1> SUFFICES ASSUME Init PROVE SInv
  OBVIOUS
<1>1. TypeOK
  <2>1. proc \in Procs
    BY ProcFields DEF Init
  <2>2. config \in Profiles
    BY Known DEF Init, Maybe
  <2>3. ref \in [Refreshers -> Refs]
    BY RefFields DEF Init
  <2>4. (op = "swap") = (swap.pc \notin {"none", "created"})
    BY NoSwapFields DEF Init
  <2>5. /\ op \in {"idle", "swap", "start", "stop", "stopped", "monitor"}
        /\ wish \in Maybe /\ desired \in Maybe /\ loaded \in Maybe /\ lastWorking \in Maybe
        /\ published \in Maybe /\ blocked \in Maybe
    BY Known DEF Init
  <2>7. manualStop \in BOOLEAN /\ suppressed \in BOOLEAN
    BY DEF Init
  <2>6. /\ attempt \in 0..MaxAttempts /\ swap \in Swaps /\ starts \in Nat
        /\ wishes \in 0..MaxWishes /\ controls \in 0..MaxControls /\ crashes \in 0..MaxCrashes
    BY Known, NoSwapFields DEF Init
  <2>8. late \subseteq Refreshers /\ misled \in BOOLEAN
    BY DEF Init
  <2> QED
    BY <2>1, <2>2, <2>3, <2>4, <2>5, <2>6, <2>7, <2>8 DEF TypeOK
<1>2. SwapShape /\ StartsCounted /\ BlockedHeld
  BY Known, NoSwapFields DEF Init, SwapShape, StartsCounted, BlockedHeld, Swapping, Taking
<1> QED
  BY <1>1, <1>2 DEF SInv

-----------------------------------------------------------------------------
(* Refreshes. *)

LEMMA ConcludeKeeps ==
  ASSUME SInv, NEW r \in Refreshers, NEW seen \in Maybe, NEW probed \in BOOLEAN,
         Conclude(r, seen, probed)
  PROVE  SInv'
<1> DEFINE chosen == ReadDesired(seen)
           created == [NoSwap EXCEPT !.pc = "created", !.target = chosen]
<1>1. chosen \in Profiles /\ chosen \in Maybe /\ chosen # NoProfile
  BY Known DEF ReadDesired, SInv, TypeOK, Maybe
<1>2. /\ desired' = chosen /\ loaded' = seen
      /\ lastWorking' \in {seen, lastWorking}
      /\ config' \in Profiles
      /\ published' \in {seen, published}
      /\ UNCHANGED <<proc, op, manualStop, wish, attempt, bounds>>
      /\ ref' \in [Refreshers -> Refs]
      /\ late' \subseteq Refreshers /\ misled' \in BOOLEAN
  <2>1. Ref("forwarded", NoProfile, chosen) \in Refs /\ NoRef \in Refs
    BY <1>1, RefFields, Known
  <2>2. ref \in [Refreshers -> Refs] /\ config \in Profiles
    BY DEF SInv, TypeOK
  <2>3. \E v \in {Ref("forwarded", NoProfile, chosen), NoRef} : ref' = [ref EXCEPT ![r] = v]
    BY DEF Conclude
  <2>4. ref' \in [Refreshers -> Refs]
    BY <2>1, <2>2, <2>3
  <2>5. config' \in Profiles
    BY <2>2 DEF Conclude, Maybe
  <2>6. late \subseteq Refreshers /\ misled \in BOOLEAN
    BY DEF SInv, TypeOK
  <2>7. late' \subseteq Refreshers
    BY <2>6, Known DEF Conclude
  <2>8. misled' \in BOOLEAN
    BY <2>6 DEF Conclude
  <2> QED
    BY <2>4, <2>5, <2>7, <2>8 DEF Conclude
<1>3. \/ manualStop /\ blocked' = blocked /\ suppressed' = suppressed
           /\ starts' = IF chosen # desired THEN 0 ELSE starts
      \/ ~manualStop /\ chosen # desired /\ blocked' = NoProfile /\ suppressed' = FALSE /\ starts' = 0
      \/ ~manualStop /\ chosen = desired /\ blocked' = blocked /\ suppressed' = suppressed
           /\ starts' = starts
  BY DEF Conclude, SInv, TypeOK
<1>4. \/ swap' = swap
      \/ ~Swapping /\ blocked' # chosen /\ swap' = created
  BY DEF Conclude
<1>5. /\ created \in Swaps /\ created.pc = "created" /\ created.target = chosen
      /\ created.original = NoProfile /\ created.stopped = FALSE
  BY <1>1, NoSwapFields DEF Swaps
<1> HIDE DEF chosen, created
<1>6. TypeOK'
  <2>1. /\ wish' \in Maybe /\ desired' \in Maybe /\ loaded' \in Maybe /\ lastWorking' \in Maybe
        /\ published' \in Maybe /\ blocked' \in Maybe
    BY <1>1, <1>2, <1>3, Known DEF SInv, TypeOK
  <2>2. suppressed' \in BOOLEAN
    BY <1>3 DEF SInv, TypeOK
  <2>3. swap' \in Swaps /\ (op = "swap")' = (swap.pc \notin {"none", "created"})'
    BY <1>2, <1>4, <1>5 DEF SInv, TypeOK, Swapping
  <2>4. starts' \in Nat
    BY <1>3 DEF SInv, TypeOK
  <2> QED
    BY <1>2, <2>1, <2>2, <2>3, <2>4 DEF SInv, TypeOK, bounds
<1>7. SwapShape'
  BY <1>1, <1>2, <1>4, <1>5 DEF SInv, SwapShape, Swapping
<1>8. StartsCounted'
  <2>1. CASE swap' = swap
    <3>1. Swapping' <=> Swapping
      BY <2>1 DEF Swapping
    <3> QED
      BY <1>1, <1>2, <1>3, <2>1, <3>1, Known DEF SInv, TypeOK, StartsCounted
  <2>2. CASE ~Swapping /\ blocked' # chosen /\ swap' = created
    <3>1. starts' = 0
      BY <1>3, <2>2, Known DEF SInv, TypeOK, StartsCounted
    <3> QED
      BY <1>2, <1>5, <2>2, <3>1, Known DEF StartsCounted, Taking, Swapping
  <2> QED
    BY <1>4, <2>1, <2>2
<1>9. BlockedHeld'
  BY <1>2, <1>3 DEF SInv, BlockedHeld
<1> QED
  BY <1>6, <1>7, <1>8, <1>9 DEF SInv

(* What leaves the swap task and its budget alone keeps what is said of them. *)
LEMMA BudgetKeeps ==
  ASSUME SInv, UNCHANGED <<swap, desired, blocked, attempt, starts, suppressed>>
  PROVE  SwapShape' /\ StartsCounted' /\ (blocked # NoProfile => suppressed)'
BY DEF SInv, SwapShape, StartsCounted, BlockedHeld, Swapping

LEMMA RefreshKeeps ==
  ASSUME SInv, NEW r \in Refreshers, Refresh(r) \/ RefreshStep(r)
  PROVE  SInv'
<1> USE DEF SInv
<1>1. ref \in [Refreshers -> Refs] /\ proc \in Procs /\ loaded \in Maybe /\ ref[r].hint \in Maybe
  BY DEF TypeOK, Refs
<1>2. ASSUME NEW v \in Refs, ref' = [ref EXCEPT ![r] = v],
             UNCHANGED <<slotVars, wish, modelVars, swap, starts, late, misled, bounds>>
      PROVE  SInv'
  <2>1. ref' \in [Refreshers -> Refs]
    BY <1>1, <1>2
  <2>2. SwapShape' /\ StartsCounted' /\ BlockedHeld'
    BY <1>2, BudgetKeeps DEF BlockedHeld, slotVars, modelVars
  <2> QED
    BY <1>2, <2>1, <2>2 DEF TypeOK, slotVars, modelVars, bounds
<1>3. CASE Refresh(r)
  <2>1. CASE Probes(r)
    <3> DEFINE v == [ref[r] EXCEPT !.pc = "inspect"]
    <3>1. v \in Refs
      BY <1>1 DEF Refs
    <3>2. ref' = [ref EXCEPT ![r] = v]
      BY <1>1, <1>3, <2>1 DEF Refresh
    <3> QED
      BY <1>2, <1>3, <2>1, <3>1, <3>2 DEF Refresh
  <2>2. CASE ~Probes(r)
    BY <1>1, <1>3, <2>2, ConcludeKeeps DEF Refresh
  <2> QED
    BY <2>1, <2>2
<1>4. CASE Inspect(r)
  <2> DEFINE v == [ref[r] EXCEPT !.pc = IF Alive THEN "probe" ELSE "resume",
                                 !.hint = IF Alive THEN proc.model ELSE NoProfile]
  <2>1. (IF Alive THEN proc.model ELSE NoProfile) \in Maybe
    BY <1>1, ProcFields, Known DEF Alive
  <2>2. v \in Refs
    BY <1>1, <2>1 DEF Refs
  <2>3. ref' = [ref EXCEPT ![r] = v]
    BY <1>1, <1>4 DEF Inspect
  <2> QED
    BY <1>2, <1>4, <2>2, <2>3 DEF Inspect
<1>5. CASE ProbeHealth(r)
  <2> DEFINE v == [ref[r] EXCEPT !.pc = "resume",
                                 !.hint = IF proc.state = "up" THEN @ ELSE NoProfile]
  <2>1. v \in Refs
    BY <1>1, Known DEF Refs
  <2>2. ref' = [ref EXCEPT ![r] = v]
    BY <1>1, <1>5 DEF ProbeHealth
  <2> QED
    BY <1>2, <1>5, <2>1, <2>2 DEF ProbeHealth
<1>6. CASE Resume(r)
  BY <1>1, <1>6, ConcludeKeeps DEF Resume
<1> QED
  BY <1>3, <1>4, <1>5, <1>6 DEF RefreshStep

LEMMA EndForwardKeeps ==
  ASSUME SInv, NEW r \in Requests, EndForward(r)
  PROVE  SInv'
<1>1. ref' \in [Refreshers -> Refs] /\ late' \subseteq Refreshers
  BY RefFields, Known DEF EndForward, SInv, TypeOK
<1>2. SwapShape' /\ StartsCounted' /\ BlockedHeld'
  BY BudgetKeeps DEF SInv, EndForward, BlockedHeld, slotVars, modelVars
<1> QED
  BY <1>1, <1>2 DEF SInv, EndForward, TypeOK, slotVars, modelVars, bounds

-----------------------------------------------------------------------------
(* The swap task. *)

(* What steps of the swap task may write beside the swap, and what they leave. *)
Written ==
  /\ proc' \in Procs /\ config' \in Profiles /\ loaded' \in Maybe /\ lastWorking' \in Maybe
  /\ published' \in Maybe /\ attempt' \in 0..MaxAttempts
  /\ late' \subseteq Refreshers
  /\ UNCHANGED <<manualStop, wish, desired, ref, misled, bounds>>

(* A swap under way, whose starts have been counted so far. *)
Swap(w) ==
  /\ w \in Swaps /\ w.pc \in Taking /\ w.target \in Profiles
  /\ w.original # NoProfile => w.restore # NoProfile
  /\ w.pc \in {"drain", "stop"} => ~w.stopped
  /\ w.pc = "restoring" => w.original # NoProfile
Counted(w, n, k) ==
  /\ w.pc \in {"drain", "stop"} => k = 0
  /\ w.pc = "start" => k < MaxAttempts
  /\ IF desired = w.target THEN n <= k ELSE n = 0

LEMMA SwapKnownShape ==
  ASSUME SInv, swap.pc \in Taking
  PROVE  /\ Swap(swap) /\ Counted(swap, starts, attempt) /\ op = "swap" /\ desired \in Profiles
         /\ starts \in Nat /\ attempt \in 0..MaxAttempts /\ blocked \in Maybe
         /\ swap.original \in Maybe /\ swap.restore \in Maybe
<1>1. swap \in Swaps /\ Swapping /\ swap.pc \notin {"none", "created"}
  BY DEF SInv, TypeOK, Swapping, Taking
<1>2. swap.target \in Maybe /\ swap.original \in Maybe /\ swap.restore \in Maybe
  BY <1>1 DEF Swaps
<1>3. Swap(swap)
  BY <1>1, <1>2 DEF SInv, SwapShape, Swap, Maybe
<1>4. Counted(swap, starts, attempt)
  BY DEF SInv, StartsCounted, Counted
<1> QED
  BY <1>1, <1>2, <1>3, <1>4 DEF SInv, TypeOK, SwapShape, Maybe

LEMMA GoesOn ==
  ASSUME SInv, Written, NEW w, Swap(w), swap' = w, op' = "swap", desired \in Profiles,
         UNCHANGED <<blocked, suppressed>>, starts' \in Nat, Counted(w, starts', attempt')
  PROVE  SInv'
<1>1. w.pc \in SwapPcs \ {"none", "created"} /\ w.target # NoProfile
  BY Known DEF Swap, SwapPcs, Taking
<1>2. TypeOK'
  <2>1. (op = "swap")' = (swap.pc \notin {"none", "created"})'
    BY <1>1
  <2> QED
    BY <2>1 DEF SInv, TypeOK, Written, Swap, bounds
<1>3. Swapping'
  BY <1>1 DEF Swapping
<1>4. SwapShape'
  BY <1>1, <1>3, Known DEF SwapShape, Swap, Written
<1>5. StartsCounted'
  <2>1. starts' <= MaxAttempts
    BY Known DEF Counted, Written
  <2>2. attempt' \in Nat
    BY Known DEF Written
  <2> QED
    BY <1>1, <1>3, <2>1, <2>2 DEF StartsCounted, Counted, Swap, Written, Taking
<1>6. BlockedHeld'
  BY DEF SInv, BlockedHeld
<1> QED
  BY <1>2, <1>4, <1>5, <1>6 DEF SInv

LEMMA EndFailedKeeps ==
  ASSUME SInv, Written, NEW target \in Profiles, EndFailed(target), starts' = starts,
         starts > 0 => target = desired
  PROVE  SInv'
<1>1. blocked' = target /\ suppressed' = TRUE /\ op' = "idle" /\ swap' = NoSwap
  BY DEF EndFailed
<1>2. TypeOK'
  <2>1. blocked' \in Maybe /\ suppressed' \in BOOLEAN
    BY <1>1, Known
  <2>2. (op = "swap")' = (swap.pc \notin {"none", "created"})' /\ swap' \in Swaps
    BY <1>1, NoSwapFields
  <2> QED
    BY <1>1, <2>1, <2>2 DEF SInv, TypeOK, Written, bounds
<1>3. ~Swapping'
  BY <1>1, NoSwapFields DEF Swapping
<1>4. SwapShape'
  BY <1>1, <1>3, NoSwapFields DEF SwapShape
<1>5. StartsCounted'
  BY <1>1, <1>3, NoSwapFields DEF SInv, StartsCounted, Taking, Written
<1>6. BlockedHeld'
  BY <1>1 DEF BlockedHeld
<1> QED
  BY <1>2, <1>4, <1>5, <1>6 DEF SInv

LEMMA FailKeeps ==
  ASSUME SInv, swap.pc \in Taking, Written, NEW target \in Profiles, Fail(target), starts' = starts,
         IF desired = target THEN starts <= attempt' ELSE starts = 0
  PROVE  SInv'
<1>1. /\ Swap(swap) /\ op = "swap" /\ desired \in Profiles /\ starts \in Nat
      /\ swap.original \in Maybe /\ swap.restore \in Maybe
  BY SwapKnownShape
<1>2. CASE swap.stopped
  <2> DEFINE w == [swap EXCEPT !.pc = "restore", !.target = target]
  <2>1. swap' = w /\ UNCHANGED <<blocked, suppressed, op>>
    BY <1>2 DEF Fail
  <2>2. /\ w \in Swaps /\ w.pc = "restore" /\ w.target = target /\ w.original = swap.original
        /\ w.restore = swap.restore
    BY <1>1, Known DEF Swap, Swaps
  <2> HIDE DEF w
  <2>3. Swap(w) /\ Counted(w, starts', attempt')
    BY <1>1, <2>2 DEF Swap, Counted, Taking
  <2> QED
    BY <1>1, <2>1, <2>3, GoesOn
<1>3. CASE ~swap.stopped
  <2>1. EndFailed(target)
    BY <1>3 DEF Fail
  <2> QED
    BY <1>1, <2>1, EndFailedKeeps
<1> QED
  BY <1>2, <1>3

LEMMA TakingOnly ==
  \A pc \in Taking : pc \notin {"none", "created"}
BY DEF Taking

LEMMA SwapBeginKeeps == SInv /\ SwapBegin => SInv'
<1> SUFFICES ASSUME SInv, SwapBegin PROVE SInv'
  OBVIOUS
<1> DEFINE original == IF loaded # NoProfile THEN loaded ELSE lastWorking
           w == [swap EXCEPT !.pc = "drain", !.original = original,
                   !.restore = IF loaded # NoProfile THEN config ELSE original]
<1>1. /\ swap.pc = "created"
      /\ UNCHANGED <<proc, config, manualStop, wish, desired, loaded, lastWorking, published,
                     reads, starts, bounds>>
      /\ \/ op # "idle" /\ swap' = NoSwap /\ UNCHANGED <<op, attempt, blocked, suppressed>>
         \/ op' = "swap" /\ attempt' = 0 /\ swap' = w /\ UNCHANGED <<blocked, suppressed>>
         \/ attempt' = 0 /\ EndFailed(swap.target)
  BY DEF SwapBegin
<1>2. /\ TypeOK /\ swap \in Swaps /\ Swapping /\ starts = 0 /\ ~swap.stopped
      /\ swap.target \in Profiles /\ desired \in Profiles
  <2>1. swap \in Swaps /\ swap.target \in Maybe /\ Swapping
    BY <1>1 DEF SInv, TypeOK, Swaps, Swapping
  <2> QED
    BY <1>1, <2>1 DEF SInv, TypeOK, SwapShape, StartsCounted, Maybe
<1>3. Written
  BY <1>1, <1>2, Known DEF TypeOK, Written, reads
<1>4. CASE op # "idle" /\ swap' = NoSwap /\ UNCHANGED <<op, attempt, blocked, suppressed>>
  <2>1. (op = "swap")' = (swap.pc \notin {"none", "created"})' /\ swap' \in Swaps
    BY <1>1, <1>2, <1>4, NoSwapFields DEF TypeOK
  <2>2. TypeOK'
    BY <1>1, <1>2, <1>4, <2>1 DEF TypeOK, bounds, reads
  <2>3. ~Swapping'
    BY <1>4, NoSwapFields DEF Swapping
  <2>4. SwapShape' /\ StartsCounted'
    BY <1>1, <1>2, <1>4, <2>3, NoSwapFields, Known DEF SwapShape, StartsCounted, Taking
  <2>5. BlockedHeld'
    BY <1>4 DEF SInv, BlockedHeld
  <2> QED
    BY <2>2, <2>4, <2>5 DEF SInv
<1>5. CASE op' = "swap" /\ attempt' = 0 /\ swap' = w /\ UNCHANGED <<blocked, suppressed>>
  <2>1. original \in Maybe /\ (original # NoProfile /\ loaded = NoProfile => original \in Profiles)
        /\ config \in Profiles /\ config \in Maybe /\ config # NoProfile
    BY <1>2, Known DEF TypeOK, Maybe
  <2>2. /\ w \in Swaps /\ w.pc = "drain" /\ w.target = swap.target /\ w.original = original
        /\ w.restore = IF loaded # NoProfile THEN config ELSE original
        /\ w.stopped = swap.stopped
    BY <1>2, <2>1 DEF Swaps
  <2> HIDE DEF w
  <2>3. Swap(w) /\ Counted(w, starts', attempt')
    BY <1>1, <1>2, <1>5, <2>1, <2>2, Known DEF Swap, Counted, Taking
  <2>4. starts' \in Nat
    BY <1>1, <1>2
  <2> QED
    BY <1>2, <1>3, <1>5, <2>3, <2>4, GoesOn
<1>6. CASE attempt' = 0 /\ EndFailed(swap.target)
  BY <1>1, <1>2, <1>3, <1>6, EndFailedKeeps
<1> QED
  BY <1>1, <1>4, <1>5, <1>6

LEMMA SwapDrainedKeeps == SInv /\ SwapDrained => SInv'
<1> SUFFICES ASSUME SInv, SwapDrained PROVE SInv'
  OBVIOUS
<1> DEFINE next == IF OwnsProcess THEN "stop" ELSE "start"
           w == [swap EXCEPT !.pc = next]
<1>1. /\ swap.pc = "drain"
      /\ UNCHANGED <<proc, config, manualStop, wish, desired, loaded, lastWorking, published,
                     attempt, ref, misled, starts, bounds>>
      /\ late' \in {late, late \cup Underway}
      /\ \/ swap' = w /\ UNCHANGED <<blocked, suppressed, op>>
         \/ Fail(swap.target)
  BY DEF SwapDrained
<1>2. swap.pc \in Taking /\ Written
  BY <1>1 DEF Taking, SInv, TypeOK, Written, Underway
<1>3. /\ Swap(swap) /\ Counted(swap, starts, attempt) /\ op = "swap" /\ desired \in Profiles
      /\ starts \in Nat
  BY <1>2, SwapKnownShape
<1>4. CASE swap' = w /\ UNCHANGED <<blocked, suppressed, op>>
  <2>1. /\ w \in Swaps /\ w.pc \in {"stop", "start"} /\ w.target = swap.target
        /\ w.original = swap.original /\ w.restore = swap.restore /\ w.stopped = swap.stopped
    BY <1>3 DEF Swap, Swaps
  <2> HIDE DEF w
  <2>2. Swap(w) /\ Counted(w, starts', attempt')
    BY <1>1, <1>3, <2>1, Known DEF Swap, Counted, Taking
  <2> QED
    BY <1>1, <1>2, <1>3, <1>4, <2>2, GoesOn
<1>5. CASE Fail(swap.target)
  BY <1>1, <1>2, <1>3, <1>5, FailKeeps DEF Swap, Counted
<1> QED
  BY <1>1, <1>4, <1>5

LEMMA SwapStoppedKeeps == SInv /\ SwapStopped => SInv'
<1> SUFFICES ASSUME SInv, SwapStopped PROVE SInv'
  OBVIOUS
<1>1. /\ swap.pc = "stop"
      /\ UNCHANGED <<config, manualStop, wish, desired, lastWorking, attempt, reads, starts, bounds>>
      /\ \/ Fail(swap.target) /\ UNCHANGED <<proc, loaded, published>>
         \/ /\ proc' = Absent /\ loaded' = NoProfile /\ published' = NoProfile
            /\ \E next \in {"start", "restore"} :
                 swap' = [swap EXCEPT !.pc = next, !.stopped = TRUE]
            /\ UNCHANGED <<blocked, suppressed, op>>
  BY DEF SwapStopped
<1>2. swap.pc \in Taking
  BY <1>1 DEF Taking
<1>3. Written
  BY <1>1, ProcFields, Known DEF SInv, TypeOK, Written, reads
<1>4. /\ Swap(swap) /\ Counted(swap, starts, attempt) /\ op = "swap" /\ desired \in Profiles
      /\ starts \in Nat
  BY <1>2, SwapKnownShape
<1>5. CASE Fail(swap.target)
  BY <1>1, <1>2, <1>3, <1>4, <1>5, FailKeeps DEF Swap, Counted
<1>6. ASSUME NEW next \in {"start", "restore"},
             swap' = [swap EXCEPT !.pc = next, !.stopped = TRUE], UNCHANGED <<blocked, suppressed, op>>
      PROVE  SInv'
  <2> DEFINE w == [swap EXCEPT !.pc = next, !.stopped = TRUE]
  <2>1. /\ w \in Swaps /\ w.pc = next /\ w.target = swap.target
        /\ w.original = swap.original /\ w.restore = swap.restore
    BY <1>4 DEF Swap, Swaps
  <2>2. swap' = w
    BY <1>6
  <2> HIDE DEF w
  <2>3. Swap(w) /\ Counted(w, starts', attempt')
    BY <1>1, <1>4, <2>1, Known DEF Swap, Counted, Taking
  <2> QED
    BY <1>1, <1>3, <1>4, <1>6, <2>2, <2>3, GoesOn
<1> QED
  BY <1>1, <1>5, <1>6

LEMMA SwapStartKeeps == SInv /\ SwapStart => SInv'
<1> SUFFICES ASSUME SInv, SwapStart PROVE SInv'
  OBVIOUS
<1> DEFINE changed == desired # swap.target
           target == IF changed THEN desired ELSE swap.target
           next == IF changed THEN 1 ELSE attempt + 1
<1>1. /\ swap.pc = "start"
      /\ UNCHANGED <<manualStop, wish, desired, loaded, lastWorking, published, reads, bounds>>
      /\ \/ /\ attempt' = next
            /\ starts' = IF starts > MaxAttempts THEN starts ELSE starts + 1
            /\ config' = target /\ proc' = Proc(target, "loading", TRUE)
            /\ swap' = [swap EXCEPT !.pc = "load", !.target = target]
            /\ UNCHANGED <<blocked, suppressed, op>>
         \/ /\ attempt' = next /\ config' = target
            /\ \E pc \in {"cleanup", "restore"} : swap' = [swap EXCEPT !.pc = pc, !.target = target]
            /\ UNCHANGED <<proc, starts, blocked, suppressed, op>>
         \/ changed /\ attempt' = 0 /\ Fail(target) /\ UNCHANGED <<proc, starts, config>>
  BY DEF SwapStart
<1>2. swap.pc \in Taking
  BY <1>1 DEF Taking
<1>3. /\ Swap(swap) /\ Counted(swap, starts, attempt) /\ op = "swap" /\ desired \in Profiles
      /\ starts \in Nat /\ attempt \in 0..MaxAttempts
  BY <1>2, SwapKnownShape
<1>4. target = desired
  OBVIOUS
<1> HIDE DEF target
<1>5. /\ next \in 0..MaxAttempts /\ starts + 1 <= next /\ ~(starts > MaxAttempts)
      /\ (changed => starts = 0)
  BY <1>1, <1>3, Known DEF Counted
<1>6. Proc(desired, "loading", TRUE) \in Procs
  BY <1>3, ProcFields
<1>7. Written
  <2>1. attempt' \in 0..MaxAttempts
    <3> HIDE DEF next
    <3>1. attempt' = next \/ attempt' = 0
      BY <1>1, Zenon
    <3> QED
      BY <1>5, <3>1, Known
  <2>2. config' \in Profiles
    BY <1>1, <1>3, <1>4 DEF SInv, TypeOK
  <2>3. proc' \in Procs
    BY <1>1, <1>4, <1>6 DEF SInv, TypeOK
  <2>4. loaded \in Maybe /\ lastWorking \in Maybe /\ published \in Maybe
    BY DEF SInv, TypeOK
  <2>5. late \subseteq Refreshers
    BY DEF SInv, TypeOK
  <2> QED
    BY <1>1, <2>1, <2>2, <2>3, <2>4, <2>5 DEF Written, reads
<1>8. ASSUME NEW pc \in {"load", "cleanup", "restore"}, swap' = [swap EXCEPT !.pc = pc, !.target = target],
             attempt' = next, starts' \in {starts, starts + 1}, UNCHANGED <<blocked, suppressed, op>>
      PROVE  SInv'
  <2> DEFINE w == [swap EXCEPT !.pc = pc, !.target = desired]
  <2>1. /\ w \in Swaps /\ w.pc = pc /\ w.target = desired
        /\ w.original = swap.original /\ w.restore = swap.restore
    <3>1. swap \in Swaps /\ desired \in Maybe
      BY <1>3, Known DEF Swap
    <3> QED
      BY <3>1 DEF Swaps
  <2>2. swap' = w
    BY <1>4, <1>8
  <2> HIDE DEF w
  <2>3. Swap(w)
    BY <1>3, <2>1, Known DEF Swap, Taking
  <2>4. Counted(w, starts', attempt') /\ starts' \in Nat
    BY <1>3, <1>5, <1>8, <2>1, Known DEF Counted
  <2> QED
    BY <1>3, <1>7, <1>8, <2>2, <2>3, <2>4, GoesOn
<1>9. CASE changed /\ attempt' = 0 /\ Fail(target) /\ UNCHANGED <<proc, starts, config>>
  BY <1>2, <1>3, <1>4, <1>5, <1>7, <1>9, FailKeeps
<1> QED
  BY <1>1, <1>5, <1>8, <1>9

(* The swap goes on to its next step with its attempts as they are. *)
LEMMA TurnsTo ==
  ASSUME SInv, swap.pc \in Taking, Written,
         NEW pc \in {"start", "verify", "cleanup", "restore", "restoring"},
         swap' = [swap EXCEPT !.pc = pc], UNCHANGED <<op, attempt, starts, blocked, suppressed>>,
         pc = "start" => attempt < MaxAttempts, pc = "restoring" => swap.original # NoProfile
  PROVE  SInv'
<1> DEFINE w == [swap EXCEPT !.pc = pc]
<1>1. /\ Swap(swap) /\ Counted(swap, starts, attempt) /\ op = "swap" /\ desired \in Profiles
      /\ starts \in Nat
  BY SwapKnownShape
<1>2. /\ w \in Swaps /\ w.pc = pc /\ w.target = swap.target /\ w.original = swap.original
      /\ w.restore = swap.restore
  BY <1>1 DEF Swap, Swaps
<1>3. swap' = w
  OBVIOUS
<1> HIDE DEF w
<1>4. Swap(w)
  BY <1>1, <1>2 DEF Swap, Taking
<1>5. Counted(w, starts', attempt')
  BY <1>1, <1>2 DEF Counted
<1> QED
  BY <1>1, <1>3, <1>4, <1>5, GoesOn

(* The swap gives up: its target is blocked. *)
LEMMA EndsFailed ==
  ASSUME SInv, swap.pc \in Taking, Written, EndFailed(swap.target), starts' = starts
  PROVE  SInv'
<1>1. Swap(swap) /\ Counted(swap, starts, attempt) /\ starts \in Nat
  BY SwapKnownShape
<1>2. swap.target \in Profiles /\ (starts > 0 => swap.target = desired)
  BY <1>1 DEF Swap, Counted
<1> QED
  BY <1>2, EndFailedKeeps

LEMMA SwapLoadedKeeps == SInv /\ SwapLoaded => SInv'
<1> SUFFICES ASSUME SInv, SwapLoaded PROVE SInv'
  OBVIOUS
<1>1. PICK state \in {"up", "sick", "down"} :
        /\ proc' = IF state = "down" \/ ~Alive THEN Down ELSE [proc EXCEPT !.state = state]
        /\ swap' = [swap EXCEPT !.pc = IF proc'.state = "up" THEN "verify" ELSE "cleanup"]
  BY DEF SwapLoaded
<1>2. swap.pc = "load" /\ swap.pc \in Taking
  BY DEF SwapLoaded, Taking
<1>3. proc' \in Procs
  <2>1. proc \in Procs
    BY DEF SInv, TypeOK
  <2>2. CASE state = "down" \/ ~Alive
    BY <1>1, <2>2, ProcFields
  <2>3. CASE state # "down" /\ Alive
    BY <1>1, <2>1, <2>3, ProcFields DEF Alive
  <2> QED
    BY <2>2, <2>3
<1>4. Written
  BY <1>3 DEF SwapLoaded, SInv, TypeOK, Written, modelVars, reads
<1> DEFINE pc == IF proc'.state = "up" THEN "verify" ELSE "cleanup"
<1>5. pc \in {"verify", "cleanup"} /\ swap' = [swap EXCEPT !.pc = pc]
  BY <1>1
<1>6. UNCHANGED <<op, attempt, starts, blocked, suppressed>>
  BY DEF SwapLoaded, modelVars
<1> HIDE DEF pc
<1> QED
  BY <1>2, <1>4, <1>5, <1>6, TurnsTo

LEMMA SwapVerifiedKeeps == SInv /\ SwapVerified => SInv'
<1> SUFFICES ASSUME SInv, SwapVerified PROVE SInv'
  OBVIOUS
<1>1. swap.pc = "verify" /\ swap.pc \in Taking
  BY DEF SwapVerified, Taking
<1>2. Swap(swap)
  BY <1>1, SwapKnownShape
<1>3. swap.target \in Maybe
  BY <1>2, Known DEF Swap
<1>4. Written
  BY <1>3, Known DEF SwapVerified, SInv, TypeOK, Written, reads
<1>5. CASE /\ loaded' = swap.target /\ lastWorking' = swap.target /\ published' = swap.target
           /\ blocked' = NoProfile /\ suppressed' = FALSE
           /\ starts' = 0
           /\ op' = "idle"
           /\ swap' = NoSwap
  <2>1. (op = "swap")' = (swap.pc \notin {"none", "created"})' /\ swap' \in Swaps
    BY <1>5, NoSwapFields
  <2>2. TypeOK'
    BY <1>4, <1>5, <2>1, Known DEF SInv, TypeOK, Written, bounds
  <2>3. ~Swapping'
    BY <1>5, NoSwapFields DEF Swapping
  <2>4. SwapShape' /\ StartsCounted' /\ BlockedHeld'
    BY <1>5, <2>3, NoSwapFields, Known DEF SwapShape, StartsCounted, BlockedHeld, Taking
  <2> QED
    BY <2>2, <2>4 DEF SInv
<1>6. CASE /\ swap' = [swap EXCEPT !.pc = "cleanup"]
           /\ UNCHANGED <<loaded, lastWorking, blocked, suppressed, starts, op>>
  <2>1. attempt' = attempt
    BY DEF SwapVerified
  <2> QED
    BY <1>1, <1>4, <1>6, <2>1, TurnsTo
<1> QED
  BY <1>5, <1>6 DEF SwapVerified

LEMMA SwapCleanupKeeps == SInv /\ SwapCleanup => SInv'
<1> SUFFICES ASSUME SInv, SwapCleanup PROVE SInv'
  OBVIOUS
<1> DEFINE pc == IF LastAttempt THEN "restore" ELSE "start"
<1>1. swap.pc = "cleanup" /\ swap.pc \in Taking
  BY DEF SwapCleanup, Taking
<1>2. UNCHANGED <<op, attempt, starts, blocked, suppressed>>
  BY DEF SwapCleanup, modelVars
<1>3. proc' \in Procs
  BY ProcFields DEF SwapCleanup, SInv, TypeOK
<1>4. Written
  BY <1>3 DEF SwapCleanup, SInv, TypeOK, Written, modelVars, reads
<1>5. pc = "start" => attempt < MaxAttempts
  BY Known DEF LastAttempt, SInv, TypeOK
<1>6. swap' = [swap EXCEPT !.pc = pc] \/ swap' = [swap EXCEPT !.pc = "restore"]
  BY DEF SwapCleanup
<1>7. pc \in {"start", "restore"}
  OBVIOUS
<1> HIDE DEF pc
<1> QED
  BY <1>1, <1>2, <1>4, <1>5, <1>6, <1>7, TurnsTo

LEMMA SwapRestoreKeeps == SInv /\ SwapRestore => SInv'
<1> SUFFICES ASSUME SInv, SwapRestore PROVE SInv'
  OBVIOUS
<1>1. swap.pc = "restore" /\ swap.pc \in Taking
  BY DEF SwapRestore, Taking
<1>2. UNCHANGED <<manualStop, wish, desired, lastWorking, attempt, reads, starts, bounds>>
  BY DEF SwapRestore
<1>3. Swap(swap) /\ swap.restore \in Maybe
  BY <1>1, SwapKnownShape
<1>4. swap.original # NoProfile => swap.restore \in Profiles
  BY <1>3 DEF Swap, Maybe
<1>5. \/ /\ EndFailed(swap.target)
         /\ UNCHANGED <<proc, config, loaded, published>>
      \/ /\ swap.original # NoProfile /\ OwnsProcess
         /\ proc' = Absent
         /\ UNCHANGED <<config, loaded, published, swap, blocked, suppressed, op>>
      \/ /\ swap.original # NoProfile
         /\ RestoreFailed
         /\ config' \in {config, swap.restore}
         /\ UNCHANGED proc
      \/ /\ swap.original # NoProfile
         /\ config' = swap.restore
         /\ proc' = Proc(swap.restore, "loading", TRUE)
         /\ swap' = [swap EXCEPT !.pc = "restoring"]
         /\ UNCHANGED <<loaded, published, blocked, suppressed, op>>
  BY DEF SwapRestore
<1>6. Written
  <2>1. config' \in Profiles
    BY <1>4, <1>5 DEF SInv, TypeOK
  <2>2. proc' \in Procs
    BY <1>4, <1>5, ProcFields DEF SInv, TypeOK
  <2>3. loaded' \in Maybe /\ published' \in Maybe
    BY <1>5, Known DEF SInv, TypeOK, RestoreFailed
  <2> QED
    BY <1>2, <2>1, <2>2, <2>3 DEF SInv, TypeOK, Written, reads
<1>7. CASE EndFailed(swap.target)
  BY <1>1, <1>2, <1>6, <1>7, EndsFailed
<1>8. CASE UNCHANGED <<swap, blocked, suppressed, op>>
  <2>1. swap' \in Swaps /\ (op = "swap")' = (swap.pc \notin {"none", "created"})'
    BY <1>8 DEF SInv, TypeOK
  <2>2. TypeOK'
    BY <1>2, <1>6, <1>8, <2>1 DEF SInv, TypeOK, Written, bounds
  <2>3. SwapShape' /\ StartsCounted' /\ BlockedHeld'
    BY <1>2, <1>8, BudgetKeeps DEF SInv, BlockedHeld
  <2> QED
    BY <2>2, <2>3 DEF SInv
<1>9. CASE /\ swap.original # NoProfile /\ swap' = [swap EXCEPT !.pc = "restoring"]
           /\ UNCHANGED <<blocked, suppressed, op>>
  BY <1>1, <1>2, <1>6, <1>9, TurnsTo
<1> QED
  BY <1>5, <1>7, <1>8, <1>9 DEF RestoreFailed

LEMMA SwapRestoredKeeps == SInv /\ SwapRestored => SInv'
<1> SUFFICES ASSUME SInv, SwapRestored PROVE SInv'
  OBVIOUS
<1>1. swap.pc = "restoring" /\ swap.pc \in Taking
  BY DEF SwapRestored, Taking
<1>2. EndFailed(swap.target)
  BY DEF SwapRestored, RestoreFailed
<1>3. swap.original \in Maybe
  BY <1>1, SwapKnownShape
<1>4. proc \in Procs
  BY DEF SInv, TypeOK
<1>5. proc' \in Procs
  <2>1. Alive => [proc EXCEPT !.state = "up"] \in Procs /\ [proc EXCEPT !.state = "sick"] \in Procs
    BY <1>4, ProcFields DEF Alive
  <2> QED
    BY <2>1, ProcFields DEF SwapRestored
<1>6. Written
  BY <1>3, <1>5, Known DEF SwapRestored, RestoreFailed, SInv, TypeOK, Written, reads
<1>7. starts' = starts
  BY DEF SwapRestored
<1> QED
  BY <1>1, <1>2, <1>6, <1>7, EndsFailed

LEMMA SwapStepKeeps == SInv /\ SwapStep => SInv'
BY SwapBeginKeeps, SwapDrainedKeeps, SwapStoppedKeeps, SwapStartKeeps, SwapLoadedKeeps,
   SwapVerifiedKeeps, SwapCleanupKeeps, SwapRestoreKeeps, SwapRestoredKeeps DEF SwapStep

-----------------------------------------------------------------------------
(* The other owners of the slot, and the environment. *)

(* Steps that leave the swap task, its budget and the refreshes alone, and    *)
(* pass the slot from one explicit operation to the next.                     *)
LEMMA OthersKeep ==
  ASSUME SInv, proc' \in Procs, wish' \in Maybe, manualStop' \in BOOLEAN,
         UNCHANGED <<config, suppressed, modelVars, swap, ref, misled, starts>>,
         late' \subseteq Refreshers,
         \/ op' = op
         \/ op # "swap" /\ op' \in {"idle", "start", "stop", "stopped", "monitor"},
         op' \in {"start", "monitor"} => op' = op \/ blocked = NoProfile,
         wishes' \in 0..MaxWishes, controls' \in 0..MaxControls, crashes' \in 0..MaxCrashes
  PROVE  SInv'
<1>1. (op = "swap")' = (swap.pc \notin {"none", "created"})'
  BY DEF SInv, TypeOK
<1>2. TypeOK'
  BY <1>1 DEF SInv, TypeOK, modelVars
<1>3. SwapShape' /\ StartsCounted' /\ (blocked # NoProfile => suppressed)'
  BY BudgetKeeps DEF modelVars
<1>4. BlockedHeld'
  BY <1>3 DEF SInv, BlockedHeld, modelVars
<1> QED
  BY <1>2, <1>3, <1>4 DEF SInv

LEMMA StartedKnown ==
  ASSUME SInv, NEW state \in {"up", "sick", "down"}
  PROVE  Started(state) \in Procs
BY ProcFields DEF Started, SInv, TypeOK

(* An explicit Start renews the budget before it takes the slot. *)
LEMMA ControlStartKeeps == SInv /\ ControlStart => SInv'
<1> SUFFICES ASSUME SInv, ControlStart PROVE SInv'
  OBVIOUS
<1>1. /\ blocked' = NoProfile /\ attempt' = 0 /\ suppressed' = FALSE /\ starts' = 0
      /\ op' = (IF op = "idle" THEN "start" ELSE op)
      /\ UNCHANGED <<proc, config, wish, desired, loaded, lastWorking, published, swap, reads,
                     wishes, crashes>>
  BY DEF ControlStart
<1>2. manualStop' \in BOOLEAN /\ controls' \in 0..MaxControls
  BY Known DEF ControlStart, SInv, TypeOK
<1>3. (op = "swap")' = (swap.pc \notin {"none", "created"})'
  BY <1>1 DEF SInv, TypeOK
<1>4. TypeOK'
  <2>1. blocked' \in Maybe /\ attempt' \in 0..MaxAttempts /\ starts' \in Nat
    BY <1>1, Known
  <2>3. suppressed' \in BOOLEAN
    BY <1>1
  <2>2. op' \in {"idle", "swap", "start", "stop", "stopped", "monitor"}
    BY <1>1 DEF SInv, TypeOK
  <2> QED
    BY <1>1, <1>2, <1>3, <2>1, <2>2, <2>3 DEF SInv, TypeOK, reads
<1>5. SwapShape' /\ (Swapping' <=> Swapping)
  BY <1>1 DEF SInv, SwapShape, Swapping
<1>6. StartsCounted' /\ BlockedHeld'
  BY <1>1, Known DEF StartsCounted, BlockedHeld
<1> QED
  BY <1>4, <1>5, <1>6 DEF SInv

LEMMA OperationKeeps ==
  ASSUME SInv, ControlStart \/ ControlStop \/ OperationStep \/ MonitorBegin
  PROVE  SInv'
<1>0. /\ proc \in Procs /\ wish \in Maybe /\ manualStop \in BOOLEAN /\ suppressed \in BOOLEAN
      /\ wishes \in 0..MaxWishes /\ controls \in 0..MaxControls /\ crashes \in 0..MaxCrashes
      /\ late \subseteq Refreshers /\ SawOther(config) \subseteq Refreshers
  BY DEF SInv, TypeOK, SawOther
<1>1. CASE ControlStart
  BY <1>1, ControlStartKeeps
<1>2. CASE ControlStarted
  <2>1. proc' \in Procs /\ late' \subseteq Refreshers
    BY <1>0, <1>2, StartedKnown DEF ControlStarted
  <2>2. op = "start" /\ op' = "idle"
    BY <1>2 DEF ControlStarted
  <2>3. UNCHANGED <<config, manualStop, suppressed, wish, modelVars, swap, ref, misled, starts, bounds>>
    BY <1>2 DEF ControlStarted
  <2> QED
    BY <1>0, <2>1, <2>2, <2>3, OthersKeep DEF bounds, reads
<1>3. CASE ControlStop
  <2>1. controls' \in 0..MaxControls
    BY <1>0, <1>3, Known DEF ControlStop
  <2>2. op = "idle" /\ op' = "stop"
    BY <1>3 DEF ControlStop
  <2>3. UNCHANGED <<proc, config, manualStop, suppressed, wish, modelVars, swap, reads, starts,
                    wishes, crashes>>
    BY <1>3 DEF ControlStop
  <2> QED
    BY <1>0, <2>1, <2>2, <2>3, OthersKeep DEF reads
<1>4. CASE ControlKill
  <2>1. proc' \in Procs
    BY <1>0, <1>4, ProcFields DEF ControlKill
  <2>2. op = "stop" /\ op' = "stopped"
    BY <1>4 DEF ControlKill
  <2>3. UNCHANGED <<config, manualStop, suppressed, wish, modelVars, swap, reads, starts, bounds>>
    BY <1>4 DEF ControlKill
  <2> QED
    BY <1>0, <2>1, <2>2, <2>3, OthersKeep DEF bounds, reads
<1>5. CASE ControlStopped
  <2>1. op = "stopped" /\ op' = "idle" /\ manualStop' = TRUE
    BY <1>5 DEF ControlStopped
  <2>2. UNCHANGED <<proc, config, suppressed, wish, modelVars, swap, reads, starts, bounds>>
    BY <1>5 DEF ControlStopped
  <2> QED
    BY <1>0, <2>1, <2>2, OthersKeep DEF bounds, reads
<1>6. CASE MonitorRestarted
  <2>1. proc' \in Procs /\ late' \subseteq Refreshers
    BY <1>0, <1>6, StartedKnown DEF MonitorRestarted
  <2>2. op = "monitor" /\ op' = "idle"
    BY <1>6 DEF MonitorRestarted
  <2>3. UNCHANGED <<config, manualStop, suppressed, wish, modelVars, swap, ref, misled, starts, wishes,
                    controls>>
    BY <1>6 DEF MonitorRestarted
  <2>4. crashes' \in 0..MaxCrashes
    BY <1>0, <1>6, Known DEF MonitorRestarted
  <2> QED
    BY <1>0, <2>1, <2>2, <2>3, <2>4, OthersKeep DEF reads
<1>7. CASE MonitorBegin
  <2>1. op = "idle" /\ op' = "monitor" /\ ~suppressed
    BY <1>7 DEF MonitorBegin, MayRestart
  <2>2. UNCHANGED <<proc, config, manualStop, suppressed, wish, modelVars, swap, reads, starts, bounds>>
    BY <1>7 DEF MonitorBegin
  <2>3. blocked = NoProfile
    BY <2>1 DEF SInv, BlockedHeld
  <2> QED
    BY <1>0, <2>1, <2>2, <2>3, OthersKeep DEF bounds, reads
<1> QED
  BY <1>1, <1>2, <1>3, <1>4, <1>5, <1>6, <1>7 DEF OperationStep

LEMMA EnvironmentKeeps ==
  ASSUME SInv, Wish \/ Crash
  PROVE  SInv'
<1>0. /\ proc \in Procs /\ wish \in Maybe /\ manualStop \in BOOLEAN
      /\ wishes \in 0..MaxWishes /\ controls \in 0..MaxControls /\ crashes \in 0..MaxCrashes
      /\ op \in {"idle", "swap", "start", "stop", "stopped", "monitor"}
      /\ late \subseteq Refreshers
  BY DEF SInv, TypeOK
<1>1. CASE Wish
  <2>1. wishes' \in 0..MaxWishes /\ wish' \in Maybe
    BY <1>0, <1>1, Known DEF Wish
  <2> QED
    BY <1>0, <1>1, <2>1, OthersKeep DEF Wish, slotVars, reads
<1>2. CASE Crash
  <2>1. crashes' \in 0..MaxCrashes
    BY <1>0, <1>2, Known DEF Crash
  <2>2. proc' \in Procs
    BY <1>0, <1>2, ProcFields DEF Crash
  <2> QED
    BY <1>0, <1>2, <2>1, <2>2, OthersKeep DEF Crash, reads
<1> QED
  BY <1>1, <1>2

LEMMA NextKeeps == SInv /\ [Next]_vars => SInv'
<1> SUFFICES ASSUME SInv, [Next]_vars PROVE SInv'
  OBVIOUS
<1>1. CASE UNCHANGED vars
  <2>1. TypeOK'
    BY <1>1 DEF SInv, TypeOK, vars, slotVars, modelVars, reads, bounds
  <2>2. SwapShape' /\ StartsCounted' /\ BlockedHeld'
    BY <1>1, BudgetKeeps DEF SInv, BlockedHeld, vars, slotVars, modelVars
  <2> QED
    BY <2>1, <2>2 DEF SInv
<1>2. CASE Next
  BY <1>2, RefreshKeeps, EndForwardKeeps, SwapStepKeeps, OperationKeeps, EnvironmentKeeps DEF Next
<1> QED
  BY <1>1, <1>2

(* The swap task keeps its shape and its count, whatever is interleaved.      *)
THEOREM WatcherInvariant == Spec => []SInv
<1>1. Init => SInv
  BY InitSInv
<1>2. SInv /\ [Next]_vars => SInv'
  BY NextKeeps
<1> QED
  BY <1>1, <1>2, PTL DEF Spec

(* The state has its shape, an attempt counter never passes                   *)
(* max_start_attempts, and the slot belongs to the swap task exactly while it *)
(* is past its first step.                                                    *)
THEOREM WatcherTypeCorrect == Spec => []TypeOK
<1>1. SInv => TypeOK
  BY DEF SInv
<1> QED
  BY <1>1, WatcherInvariant, PTL

(* "A target gets at most three starts": for any budget and any sequence of   *)
(* swaps, restorations, changes of mind and explicit operations, the starts   *)
(* of a desired model since its budget was renewed stay within it.            *)
THEOREM StartsAreBounded == Spec => []StartsBounded
<1>1. SInv => StartsBounded
  BY DEF SInv, StartsCounted, StartsBounded
<1> QED
  BY <1>1, WatcherInvariant, PTL

(* Outside a swap a process is spawned by an explicit Start or by the restart *)
(* monitor only, and neither has anything blocked when it does.               *)
LEMMA SpawnedUnblocked ==
  SInv /\ [Next]_vars => (~Alive /\ Alive' /\ ~Swapping => blocked # desired \/ blocked = NoProfile)
<1> SUFFICES ASSUME SInv, [Next]_vars, ~Alive, Alive', ~Swapping PROVE blocked = NoProfile
  OBVIOUS
<1>0. swap.pc = "none"
  BY DEF Swapping
<1>1. proc' # proc
  BY DEF Alive
<1>2. ASSUME NEW r \in Refreshers, Refresh(r) \/ RefreshStep(r) \/ EndForward(r) PROVE FALSE
  BY <1>1, <1>2 DEF Refresh, RefreshStep, Inspect, ProbeHealth, Resume, EndForward, Conclude, slotVars
<1>3. ~SwapStep
  BY <1>0 DEF SwapStep, SwapBegin, SwapDrained, SwapStopped, SwapStart, SwapLoaded, SwapVerified,
              SwapCleanup, SwapRestore, SwapRestored
<1>4. ~(ControlStart \/ ControlStop \/ ControlStopped \/ MonitorBegin \/ Wish \/ UNCHANGED vars)
  BY <1>1 DEF ControlStart, ControlStop, ControlStopped, MonitorBegin, Wish, vars, slotVars
<1>5. ~ControlKill
  BY <1>1, ProcFields DEF ControlKill, Alive
<1>6. ~Crash
  BY DEF Crash, Alive
<1>7. op \in {"start", "monitor"}
  BY <1>2, <1>3, <1>4, <1>5, <1>6, Known DEF Next, OperationStep, ControlStarted, MonitorRestarted
<1> QED
  BY <1>7 DEF SInv, BlockedHeld

(* Exhausted retries leave a stable failed state: while the desired model is  *)
(* blocked, neither a refresh nor the restart monitor spawns a process.       *)
THEOREM FailedStays == Spec => FailedStaysFailed
<1>1. SInv /\ [Next]_vars =>
        [~Alive /\ Alive' /\ ~Swapping => blocked # desired \/ blocked = NoProfile]_vars
  BY SpawnedUnblocked
<1> QED
  BY <1>1, WatcherInvariant, PTL DEF Spec, FailedStaysFailed

-----------------------------------------------------------------------------
(* Which model is loaded. *)

LEMMA InitMInv == Init => MInv
<1> SUFFICES ASSUME Init PROVE MInv
  OBVIOUS
<1>1. /\ \A r \in Refreshers : ref[r].pc = "idle"
      /\ swap.pc = "none" /\ ~misled
  BY RefFields, NoSwapFields DEF Init
<1>2. ReadsAgree /\ ReadsLoaded
  BY <1>1, Known DEF ReadsAgree, ReadsLoaded, Saw, Reading
<1>3. LoadedKnown /\ SwapKnown
  BY NoSwapFields DEF Init, LoadedKnown, SwapKnown, Before
<1> QED
  BY <1>2, <1>3 DEF MInv, ModelKnown

(* After the drain nobody is let through and nobody reads in time.            *)
LEMMA QuietAgrees ==
  ASSUME Quiet', UNCHANGED misled
  PROVE  ReadsAgree' /\ ReadsLoaded'
<1>1. \A r \in Refreshers : ref'[r].pc # "forwarded" /\ (Reading(r)' => r \in late')
  BY DEF Quiet, Reading
<1>2. \A s \in Requests : ref'[s].pc # "forwarded"
  BY <1>1, Known
<1>3. (misled => Forwarded \subseteq late)'
  BY <1>2 DEF Forwarded
<1> QED
  BY <1>1, <1>2, <1>3, Known DEF ReadsAgree, ReadsLoaded, Saw

(* A process that changes without a swap: it keeps its model, dies, or is     *)
(* started for the configured model, and reads that saw another are overtaken. *)
LEMMA ProcessAgrees ==
  ASSUME SInv, MInv, UNCHANGED <<config, loaded, published, swap, ref, misled>>,
         late \subseteq late',
         Alive' => \/ Alive /\ proc'.model = proc.model
                   \/ /\ swap.pc \in {"none", "created"} /\ proc'.model = config
                      /\ \A r \in Refreshers \ late' : Saw(r) => ref[r].hint = config
  PROVE  MInv'
<1>0. \A r : Saw(r)' <=> Saw(r)
  BY DEF Saw, Reading
<1>1. ~misled => LoadedKnown'
  <2>1. Before' <=> Before
    BY DEF Before
  <2> HIDE DEF Before
  <2> QED
    BY <2>1 DEF MInv, ModelKnown, LoadedKnown
<1>2. ~misled => SwapKnown'
  BY DEF MInv, ModelKnown, SwapKnown, Swapping
<1>3. ~misled => ReadsLoaded'
  BY <1>0 DEF MInv, ReadsLoaded
<1>4. ReadsAgree'
  <2>2. ASSUME NEW r \in Refreshers \ late', Saw(r), Alive' PROVE proc'.model = ref[r].hint
    BY <2>2 DEF MInv, ReadsAgree
  <2>3. ASSUME NEW s \in Requests \ late', ref[s].pc = "forwarded", Alive' PROVE proc'.model = ref[s].asked
    BY <2>3 DEF MInv, ReadsAgree
  <2>4. (swap.pc \notin {"none", "created", "drain"} => Quiet)'
    BY DEF MInv, ReadsAgree, Quiet
  <2>5. (misled => Forwarded \subseteq late)'
    BY DEF MInv, ReadsAgree, Forwarded
  <2> QED
    BY <1>0, <2>2, <2>3, <2>4, <2>5 DEF MInv, ReadsAgree
<1> QED
  BY <1>1, <1>2, <1>3, <1>4 DEF MInv, ModelKnown

-----------------------------------------------------------------------------
(* Refreshes. *)

(* What a refresh concludes, if it is anything, is what the configuration     *)
(* says from then on, what the process runs, and what all others saw.         *)
Agreed(seen) ==
  seen # NoProfile =>
    /\ Before
    /\ Alive => proc.model = seen
    /\ \A s \in Refreshers \ late : Saw(s) => ref[s].hint = seen
    /\ \A s \in Requests \ late : ref[s].pc = "forwarded" => ref[s].asked = seen

(* A read in time that is over, or a refresh without one, finds everybody     *)
(* agreed.                                                                    *)
LEMMA SoundAgrees ==
  ASSUME MInv, NEW r \in Refreshers, NEW seen,
         \/ ~misled /\ seen = loaded
         \/ r \notin late /\ Reading(r) /\ seen = ref[r].hint
         \/ seen = NoProfile
  PROVE  Agreed(seen)
<1> SUFFICES ASSUME seen # NoProfile PROVE Agreed(seen)
  BY DEF Agreed
<1>1. CASE ~misled /\ seen = loaded
  <2>1. Before /\ config = seen /\ (Alive => proc.model = seen)
    BY <1>1 DEF MInv, ModelKnown, LoadedKnown
  <2>2. \A s \in Refreshers \ late : Saw(s) => ref[s].hint = seen
    BY <1>1 DEF MInv, ReadsLoaded
  <2>3. \A s \in Requests \ late : ref[s].pc = "forwarded" => ref[s].asked = seen
    BY <2>1 DEF MInv, ReadsAgree
  <2> QED
    BY <2>1, <2>2, <2>3 DEF Agreed
<1>2. CASE r \notin late /\ Reading(r) /\ seen = ref[r].hint
  <2>1. Saw(r) /\ r \in Refreshers \ late
    BY <1>2 DEF Saw
  <2>2. ~Quiet
    BY <1>2 DEF Quiet, Reading
  <2>3. Before
    BY <2>2 DEF MInv, ReadsAgree, Before
  <2> QED
    BY <1>2, <2>1, <2>3 DEF Agreed, MInv, ReadsAgree
<1> QED
  BY <1>1, <1>2

LEMMA ConcludeAgrees ==
  ASSUME SInv, MInv, NEW r \in Refreshers, NEW seen \in Maybe, NEW probed \in BOOLEAN,
         Conclude(r, seen, probed),
         ~probed => seen = loaded,
         probed => Reading(r) /\ seen = ref[r].hint
  PROVE  MInv'
<1> DEFINE chosen == ReadDesired(seen)
           created == [NoSwap EXCEPT !.pc = "created", !.target = chosen]
           through == Ref("forwarded", NoProfile, chosen)
<1>1. chosen \in Maybe /\ chosen # NoProfile
  BY Known DEF ReadDesired, SInv, TypeOK, Maybe
<1>2. /\ loaded' = seen /\ proc' = proc /\ desired' = chosen
      /\ published' = IF probed THEN seen ELSE published
      /\ config' = IF probed /\ seen # NoProfile THEN seen ELSE config
      /\ misled' = ((probed /\ seen # NoProfile /\ r \in late) \/ (misled /\ (Swapping \/ ~probed)))
      /\ late' = (late \ {r}) \cup
           IF misled' THEN {s \in Requests : ref'[s].pc = "forwarded"} ELSE {}
  BY DEF Conclude
<1>4. swap' = swap \/ (~Swapping /\ swap' = created)
  BY DEF Conclude
<1>5. created.pc = "created"
  BY NoSwapFields DEF NoSwap
<1>6. /\ ref \in [Refreshers -> Refs]
      /\ \/ ref' = [ref EXCEPT ![r] = NoRef]
         \/ /\ r \in Requests /\ swap'.pc = "none" /\ chosen = seen
            /\ ref' = [ref EXCEPT ![r] = through]
  BY <1>2 DEF Conclude, LetThrough, SInv, TypeOK
<1>7. /\ \A s \in Refreshers : s # r => ref'[s] = ref[s]
      /\ \/ ref'[r] = NoRef
         \/ r \in Requests /\ swap'.pc = "none" /\ chosen = seen /\ ref'[r] = through
  BY <1>6
<1>8. through.pc = "forwarded" /\ through.asked = chosen /\ NoRef.pc = "idle"
  BY <1>1, RefFields, Known
<1> HIDE DEF chosen, created, through
<1>9. ~Before' => ~Before /\ swap' = swap
  BY <1>4, <1>5 DEF Before
<1>10. ASSUME NEW s \in Refreshers \ late', Saw(s)'
       PROVE  s \in Refreshers \ late /\ Saw(s) /\ ref'[s] = ref[s]
  <2>1. s # r
    BY <1>7, <1>8, <1>10 DEF Saw, Reading
  <2> QED
    BY <1>2, <1>7, <1>10, <2>1 DEF Saw, Reading
<1>11. /\ ref'[Tick].pc # "forwarded"
       /\ (misled => Forwarded \subseteq late)'
       /\ (swap.pc \notin {"none", "created", "drain"} => Quiet)'
  <2>1. ref'[Tick].pc # "forwarded"
    BY <1>7, <1>8, Known DEF MInv, ReadsAgree
  <2>2. (misled => Forwarded \subseteq late)'
    BY <1>2 DEF Forwarded
  <2>3. ASSUME swap'.pc \notin {"none", "created", "drain"} PROVE Quiet'
    <3>1. Quiet
      BY <1>4, <1>5, <2>3 DEF MInv, ReadsAgree
    <3>2. ref'[r].pc = "idle"
      BY <1>7, <1>8, <2>3
    <3>3. \A s \in Refreshers : s # r => ref'[s] = ref[s] /\ (s \in late => s \in late')
      BY <1>2, <1>7
    <3> QED
      BY <3>1, <3>2, <3>3 DEF Quiet
  <2> QED
    BY <2>1, <2>2, <2>3
<1>12. CASE misled'
  <2>1. \A s \in Requests \ late' : ref'[s].pc # "forwarded"
    BY <1>2, <1>12
  <2>2. \A s \in Refreshers \ late' : Saw(s)' /\ Alive' => proc'.model = ref'[s].hint
    BY <1>2, <1>10 DEF MInv, ReadsAgree, Alive
  <2>3. \A s, t \in Refreshers \ late' : Saw(s)' /\ Saw(t)' => ref'[s].hint = ref'[t].hint
    BY <1>10 DEF MInv, ReadsAgree
  <2>4. ReadsAgree'
    BY <1>11, <2>1, <2>2, <2>3 DEF ReadsAgree
  <2> QED
    BY <1>12, <2>4 DEF MInv
<1>13. CASE ~misled'
  <2>0. /\ probed => seen = NoProfile \/ r \notin late
        /\ ~probed => ~misled
        /\ ~misled \/ ~Swapping
        /\ late' = late \ {r}
    BY <1>2, <1>13 DEF SInv, TypeOK
  <2>1. Agreed(seen)
    BY <2>0, SoundAgrees
  <2>2. ~probed /\ seen # NoProfile => config = seen
    BY <2>0, <2>1 DEF Agreed, MInv, ModelKnown, LoadedKnown
  <2>3. published' = seen
    BY <1>2, <2>0 DEF MInv, ModelKnown, LoadedKnown
  <2>4. config' = IF seen # NoProfile THEN seen ELSE config
    BY <1>2, <2>2
  <2>5. LoadedKnown'
    <3>1. Before' /\ loaded' # NoProfile => config' = loaded' /\ (Alive' => proc'.model = loaded')
      BY <1>2, <2>1, <2>4 DEF Agreed, Alive
    <3>2. ~Before' => loaded' = NoProfile
      BY <1>2, <1>9, <2>1 DEF Agreed
    <3> QED
      BY <1>2, <2>3, <3>1, <3>2 DEF LoadedKnown
  <2>6. SwapKnown'
    <3>1. CASE swap' = created
      <4>1. created.original = NoProfile
        BY NoSwapFields DEF created, NoSwap
      <4> QED
        BY <1>5, <3>1, <4>1 DEF SwapKnown
    <3>2. CASE swap' = swap /\ ~Swapping
      BY <3>2 DEF SwapKnown, Swapping
    <3>3. CASE swap' = swap /\ ~misled
      <4>1. swap.pc \in {"load", "verify", "restoring"} => config' = config
        BY <2>1, <2>4 DEF Agreed, Before
      <4> QED
        BY <1>2, <3>3, <4>1 DEF MInv, ModelKnown, SwapKnown, Alive, Swapping
    <3> QED
      BY <1>4, <2>0, <3>1, <3>2, <3>3
  <2>7. ReadsLoaded'
    BY <1>2, <1>10, <2>1 DEF ReadsLoaded, Agreed
  <2>8. ReadsAgree'
    <3>1. ASSUME NEW s \in Requests \ late', ref'[s].pc = "forwarded"
          PROVE  \/ s \in Requests \ late /\ ref'[s] = ref[s] /\ ref[s].pc = "forwarded"
                 \/ seen # NoProfile /\ ref'[s].asked = seen
      BY <1>1, <1>7, <1>8, <2>0, <3>1, Known
    <3>2. \A s \in Refreshers \ late' : Saw(s)' /\ Alive' => proc'.model = ref'[s].hint
      BY <1>2, <1>10 DEF MInv, ReadsAgree, Alive
    <3>3. \A s, t \in Refreshers \ late' : Saw(s)' /\ Saw(t)' => ref'[s].hint = ref'[t].hint
      BY <1>10 DEF MInv, ReadsAgree
    <3>4. \A s \in Refreshers \ late', t \in Requests \ late' :
            Saw(s)' /\ ref'[t].pc = "forwarded" => ref'[s].hint = ref'[t].asked
      BY <1>10, <2>1, <3>1 DEF MInv, ReadsAgree, Agreed
    <3>5. \A s \in Requests \ late' : ref'[s].pc = "forwarded" =>
            config' = ref'[s].asked /\ (Alive' => proc'.model = ref'[s].asked)
      BY <1>2, <2>1, <2>4, <3>1 DEF MInv, ReadsAgree, Agreed, Alive
    <3> QED
      BY <1>11, <3>2, <3>3, <3>4, <3>5 DEF ReadsAgree
  <2> QED
    BY <2>5, <2>6, <2>7, <2>8 DEF MInv, ModelKnown
<1> QED
  BY <1>12, <1>13

(* A read that goes on, or a request whose answer has ended.                  *)
LEMMA OneRefAgrees ==
  ASSUME SInv, MInv, NEW r \in Refreshers, NEW v, ref' = [ref EXCEPT ![r] = v],
         UNCHANGED <<proc, config, loaded, published, swap, misled>>,
         v.pc # "forwarded",
         late' = late \/ (v.pc = "idle" /\ late' = late \ {r}),
         v.pc = "idle" \/ ~Swapping \/ ref[r].pc \notin {"idle", "forwarded"},
         v.pc \in {"probe", "resume"} /\ v.hint # NoProfile =>
           \/ Reading(r) /\ v.hint = ref[r].hint
           \/ Alive /\ v.hint = proc.model /\ ref[r].pc # "idle"
  PROVE  MInv'
<1>1. /\ \A s \in Refreshers : s # r => ref'[s] = ref[s]
      /\ ref'[r] = v
  BY DEF SInv, TypeOK
<1>2. ~misled => ModelKnown'
  <2>1. (Before' <=> Before) /\ (Alive' <=> Alive) /\ (Swapping' <=> Swapping)
    BY DEF Before, Alive, Swapping
  <2> HIDE DEF Before, Alive, Swapping
  <2> QED
    BY <2>1 DEF MInv, ModelKnown, LoadedKnown, SwapKnown
<1>3. ASSUME NEW s \in Refreshers \ late', Saw(s)'
      PROVE  /\ s \in Refreshers \ late
             /\ \/ Saw(s) /\ ref'[s].hint = ref[s].hint
                \/ Alive /\ ref'[s].hint = proc.model /\ Before
  <2>1. s \in Refreshers \ late
    BY <1>1, <1>3 DEF Saw, Reading
  <2>2. CASE s # r
    BY <1>1, <1>3, <2>1, <2>2 DEF Saw, Reading
  <2>3. CASE s = r
    <3>1. ref[r].pc # "idle" => ~Quiet
      BY <2>1, <2>3 DEF Quiet
    <3>2. ref[r].pc # "idle" => Before
      BY <3>1 DEF MInv, ReadsAgree, Before
    <3> QED
      BY <1>1, <1>3, <2>1, <2>3, <3>2 DEF Saw, Reading
  <2> QED
    BY <2>2, <2>3
<1>4. ~misled => ReadsLoaded'
  BY <1>3 DEF MInv, ModelKnown, ReadsLoaded, LoadedKnown
<1>5. ReadsAgree'
  <2>1. ref'[Tick].pc # "forwarded"
    BY <1>1, Known DEF MInv, ReadsAgree
  <2>2. ASSUME NEW s \in Requests, ref'[s].pc = "forwarded"
        PROVE  ref'[s] = ref[s] /\ (s \in late' <=> s \in late)
    BY <1>1, <2>2, Known
  <2>3. \A s \in Refreshers \ late' : Saw(s)' /\ Alive' => proc'.model = ref'[s].hint
    BY <1>3 DEF MInv, ReadsAgree, Alive
  <2>4. \A s, t \in Refreshers \ late' : Saw(s)' /\ Saw(t)' => ref'[s].hint = ref'[t].hint
    BY <1>3 DEF MInv, ReadsAgree
  <2>5. \A s \in Refreshers \ late', t \in Requests \ late' :
          Saw(s)' /\ ref'[t].pc = "forwarded" => ref'[s].hint = ref'[t].asked
    BY <1>3, <2>2 DEF MInv, ReadsAgree
  <2>6. \A s \in Requests \ late' : ref'[s].pc = "forwarded" =>
          config' = ref'[s].asked /\ (Alive' => proc'.model = ref'[s].asked)
    BY <2>2 DEF MInv, ReadsAgree, Alive
  <2>7. (misled => Forwarded \subseteq late)'
    BY <2>2 DEF MInv, ReadsAgree, Forwarded
  <2>8. ASSUME swap'.pc \notin {"none", "created", "drain"} PROVE Quiet'
    <3>1. Quiet
      BY <2>8 DEF MInv, ReadsAgree
    <3>2. Swapping
      BY <2>8 DEF Swapping
    <3> QED
      BY <1>1, <3>1, <3>2 DEF Quiet
  <2> QED
    BY <2>1, <2>3, <2>4, <2>5, <2>6, <2>7, <2>8 DEF ReadsAgree
<1> QED
  BY <1>2, <1>4, <1>5 DEF MInv

LEMMA RefreshAgrees ==
  ASSUME SInv, MInv, NEW r \in Refreshers, Refresh(r) \/ RefreshStep(r)
  PROVE  MInv'
<1>1. ref \in [Refreshers -> Refs] /\ proc \in Procs /\ loaded \in Maybe /\ ref[r].hint \in Maybe
  BY DEF SInv, TypeOK, Refs
<1>2. ref[r] \in Refs
  BY <1>1
<1>3. CASE Refresh(r) /\ Probes(r)
  <2> DEFINE v == [ref[r] EXCEPT !.pc = "inspect"]
  <2>1. v.pc = "inspect"
    BY <1>2 DEF Refs
  <2>2. ref' = [ref EXCEPT ![r] = v]
    BY <1>1, <1>3 DEF Refresh
  <2>3. UNCHANGED <<proc, config, loaded, published, swap, late, misled>> /\ ~Swapping
    BY <1>3 DEF Refresh, Probes, slotVars, modelVars
  <2> HIDE DEF v
  <2> QED
    BY <2>1, <2>2, <2>3, OneRefAgrees
<1>4. CASE Refresh(r) /\ ~Probes(r)
  BY <1>1, <1>4, ConcludeAgrees DEF Refresh
<1>5. CASE Inspect(r)
  <2> DEFINE v == [ref[r] EXCEPT !.pc = IF Alive THEN "probe" ELSE "resume",
                                 !.hint = IF Alive THEN proc.model ELSE NoProfile]
  <2>1. v.pc \in {"probe", "resume"} /\ (v.hint # NoProfile => Alive /\ v.hint = proc.model)
    BY <1>2 DEF Refs
  <2>2. ref' = [ref EXCEPT ![r] = v] /\ ref[r].pc = "inspect"
    BY <1>1, <1>5 DEF Inspect
  <2>3. UNCHANGED <<proc, config, loaded, published, swap, late, misled>>
    BY <1>5 DEF Inspect, slotVars, modelVars
  <2> HIDE DEF v
  <2> QED
    BY <2>1, <2>2, <2>3, OneRefAgrees
<1>6. CASE ProbeHealth(r)
  <2> DEFINE v == [ref[r] EXCEPT !.pc = "resume",
                                 !.hint = IF proc.state = "up" THEN @ ELSE NoProfile]
  <2>1. v.pc = "resume" /\ (v.hint # NoProfile => v.hint = ref[r].hint)
    BY <1>2 DEF Refs
  <2>2. ref' = [ref EXCEPT ![r] = v] /\ ref[r].pc = "probe" /\ Reading(r)
    BY <1>1, <1>6 DEF ProbeHealth, Reading
  <2>3. UNCHANGED <<proc, config, loaded, published, swap, late, misled>>
    BY <1>6 DEF ProbeHealth, slotVars, modelVars
  <2> HIDE DEF v
  <2> QED
    BY <2>1, <2>2, <2>3, OneRefAgrees
<1>7. CASE Resume(r)
  BY <1>1, <1>7, ConcludeAgrees DEF Resume, Reading
<1> QED
  BY <1>3, <1>4, <1>5, <1>6, <1>7 DEF RefreshStep

LEMMA EndForwardAgrees ==
  ASSUME SInv, MInv, NEW r \in Requests, EndForward(r)
  PROVE  MInv'
BY OneRefAgrees, RefFields, Known DEF EndForward, slotVars, modelVars

-----------------------------------------------------------------------------
(* The swap task. *)

(* What has to be seen of a step of the swap task.                           *)
LEMMA AfterDrain ==
  ASSUME published' = loaded',
         Before' /\ loaded' # NoProfile =>
           config' = loaded' /\ (Alive' => proc'.model = loaded'),
         ~Before' => loaded' = NoProfile,
         SwapKnown'
  PROVE  ModelKnown'
BY DEF ModelKnown, LoadedKnown

(* A failure leaves the model and the configuration as they are. *)
LEMMA FailKnown ==
  ASSUME SInv, Swapping, NEW target, Fail(target) \/ EndFailed(target), SwapKnown
  PROVE  SwapKnown' /\ (Before' => swap' = NoSwap)
<1>1. CASE EndFailed(target)
  BY <1>1, NoSwapFields DEF EndFailed, SwapKnown, Swapping
<1>2. CASE Fail(target)
  <2>1. CASE swap.stopped
    <3> DEFINE w == [swap EXCEPT !.pc = "restore", !.target = target]
    <3>1. swap' = w
      BY <1>2, <2>1 DEF Fail
    <3>2. w.pc = "restore" /\ w.original = swap.original /\ w.restore = swap.restore
      BY DEF SInv, TypeOK, Swaps
    <3> HIDE DEF w
    <3> QED
      BY <3>1, <3>2 DEF SwapKnown, Swapping, Before
  <2>2. CASE ~swap.stopped
    BY <1>2, <2>2, NoSwapFields DEF Fail, EndFailed, SwapKnown, Swapping
  <2> QED
    BY <2>1, <2>2
<1> QED
  BY <1>1, <1>2

LEMMA SwapBeginAgrees == SInv /\ ModelKnown /\ SwapBegin => ModelKnown'
<1> SUFFICES ASSUME SInv, ModelKnown, SwapBegin PROVE ModelKnown'
  OBVIOUS
<1> DEFINE original == IF loaded # NoProfile THEN loaded ELSE lastWorking
           restore == IF loaded # NoProfile THEN config ELSE original
           w == [swap EXCEPT !.pc = "drain", !.original = original, !.restore = restore]
<1>1. /\ swap.pc = "created" /\ UNCHANGED <<proc, config, loaded, published>>
      /\ swap' \in {NoSwap, w}
  BY DEF SwapBegin, EndFailed
<1>2. w.pc = "drain" /\ w.original = original /\ w.restore = restore
  BY DEF SInv, TypeOK, Swaps
<1>3. restore = original
  BY <1>1 DEF ModelKnown, LoadedKnown, Before
<1> HIDE DEF original, restore, w
<1>4. swap'.pc \in {"none", "drain"} /\ (swap'.original # NoProfile => swap'.restore = swap'.original)
  BY <1>1, <1>2, <1>3, NoSwapFields
<1>5. LoadedKnown'
  BY <1>1, <1>4 DEF ModelKnown, LoadedKnown, Before, Alive
<1>6. SwapKnown'
  BY <1>4 DEF SwapKnown, Swapping
<1> QED
  BY <1>5, <1>6 DEF ModelKnown

LEMMA SwapDrainedAgrees == SInv /\ ModelKnown /\ SwapDrained => ModelKnown'
<1> SUFFICES ASSUME SInv, ModelKnown, SwapDrained PROVE ModelKnown'
  OBVIOUS
<1>1. swap.pc = "drain" /\ UNCHANGED <<proc, config, loaded, published>>
  BY DEF SwapDrained
<1>4. SwapKnown' /\ (~Before' => loaded = NoProfile)
  <2>1. CASE Fail(swap.target)
    <3>1. EndFailed(swap.target)
      BY <1>1, <2>1 DEF Fail, SInv, SwapShape
    <3>2. SwapKnown' /\ swap' = NoSwap
      BY <1>1, <3>1, FailKnown DEF Swapping, ModelKnown, EndFailed
    <3> QED
      BY <3>2, NoSwapFields DEF Before
  <2>2. CASE /\ OwnsProcess \/ loaded = NoProfile
             /\ swap' = [swap EXCEPT !.pc = IF OwnsProcess THEN "stop" ELSE "start"]
    <3>1. /\ swap'.pc = IF OwnsProcess THEN "stop" ELSE "start"
          /\ swap'.original = swap.original /\ swap'.restore = swap.restore
      BY <2>2 DEF SInv, TypeOK, Swaps
    <3> QED
      BY <1>1, <2>2, <3>1 DEF ModelKnown, SwapKnown, Swapping, Before
  <2> QED
    BY <2>1, <2>2 DEF SwapDrained
<1> QED
  BY <1>1, <1>4, AfterDrain DEF ModelKnown, LoadedKnown, Before, Alive

LEMMA SwapStoppedAgrees == SInv /\ ModelKnown /\ SwapStopped => ModelKnown'
<1> SUFFICES ASSUME SInv, ModelKnown, SwapStopped PROVE ModelKnown'
  OBVIOUS
<1>1. swap.pc = "stop" /\ UNCHANGED config
  BY DEF SwapStopped
<1>2. CASE Fail(swap.target) /\ UNCHANGED <<proc, loaded, published>>
  <2>1. EndFailed(swap.target)
    BY <1>1, <1>2 DEF Fail, SInv, SwapShape
  <2>2. SwapKnown' /\ Before'
    BY <1>1, <2>1, FailKnown, NoSwapFields DEF Swapping, ModelKnown, EndFailed, Before
  <2>3. published' = loaded' /\ (loaded' # NoProfile =>
          config' = loaded' /\ (Alive' => proc'.model = loaded'))
    BY <1>1, <1>2 DEF ModelKnown, LoadedKnown, Before, Alive
  <2> QED
    BY <1>1, <2>2, <2>3, AfterDrain
<1>3. ASSUME NEW next \in {"start", "restore"}, swap' = [swap EXCEPT !.pc = next, !.stopped = TRUE],
             loaded' = NoProfile, published' = NoProfile
      PROVE  ModelKnown'
  <2>1. swap'.pc = next /\ swap'.original = swap.original /\ swap'.restore = swap.restore
    BY <1>3 DEF SInv, TypeOK, Swaps
  <2>2. SwapKnown'
    BY <1>1, <2>1 DEF ModelKnown, SwapKnown, Swapping
  <2> QED
    BY <1>1, <1>3, <2>2, AfterDrain
<1> QED
  BY <1>2, <1>3 DEF SwapStopped

LEMMA SwapStartAgrees == SInv /\ ModelKnown /\ SwapStart => ModelKnown'
<1> SUFFICES ASSUME SInv, ModelKnown, SwapStart PROVE ModelKnown'
  OBVIOUS
<1> DEFINE changed == desired # swap.target
           target == IF changed THEN desired ELSE swap.target
<1>1. swap.pc = "start" /\ UNCHANGED <<loaded, published>>
  BY DEF SwapStart
<1>2. loaded = NoProfile /\ published = NoProfile
  BY <1>1 DEF ModelKnown, LoadedKnown, Before
<1>3. \/ /\ config' = target /\ proc' = Proc(target, "loading", TRUE)
         /\ swap' = [swap EXCEPT !.pc = "load", !.target = target]
      \/ \E pc \in {"cleanup", "restore"} : swap' = [swap EXCEPT !.pc = pc, !.target = target]
      \/ Fail(target)
  BY DEF SwapStart
<1>4. swap \in Swaps
  BY DEF SInv, TypeOK
<1> HIDE DEF target
<1>5. SwapKnown'
  <2>1. ASSUME NEW pc \in {"load", "cleanup", "restore"}, swap' = [swap EXCEPT !.pc = pc, !.target = target],
               pc = "load" => config' = target /\ proc' = Proc(target, "loading", TRUE)
        PROVE  SwapKnown'
    <3>1. /\ swap'.pc = pc /\ swap'.target = target
          /\ swap'.original = swap.original /\ swap'.restore = swap.restore
      BY <1>4, <2>1 DEF Swaps
    <3>2. pc = "load" => config' = target /\ proc'.model = target
      BY <2>1 DEF Proc
    <3> QED
      BY <1>1, <3>1, <3>2 DEF ModelKnown, SwapKnown, Swapping
  <2>2. CASE Fail(target)
    BY <1>1, <2>2, FailKnown DEF Swapping, ModelKnown
  <2> QED
    BY <1>3, <2>1, <2>2
<1> QED
  BY <1>1, <1>2, <1>5, AfterDrain

LEMMA SwapLoadedAgrees == SInv /\ ModelKnown /\ SwapLoaded => ModelKnown'
<1> SUFFICES ASSUME SInv, ModelKnown, SwapLoaded PROVE ModelKnown'
  OBVIOUS
<1>1. swap.pc = "load" /\ UNCHANGED <<config, loaded, published>>
  BY DEF SwapLoaded, modelVars
<1>2. loaded = NoProfile /\ published = NoProfile
  BY <1>1 DEF ModelKnown, LoadedKnown, Before
<1>3. Alive' => Alive /\ proc'.model = proc.model
  BY ProcFields DEF SwapLoaded, Alive, SInv, TypeOK
<1>4. /\ swap'.pc \in {"verify", "cleanup"} /\ swap'.target = swap.target
      /\ swap'.original = swap.original /\ swap'.restore = swap.restore
  BY DEF SwapLoaded, SInv, TypeOK, Swaps
<1>5. SwapKnown'
  BY <1>1, <1>3, <1>4 DEF ModelKnown, SwapKnown, Swapping
<1> QED
  BY <1>1, <1>2, <1>5, AfterDrain

LEMMA SwapVerifiedAgrees == SInv /\ ModelKnown /\ SwapVerified => ModelKnown'
<1> SUFFICES ASSUME SInv, ModelKnown, SwapVerified PROVE ModelKnown'
  OBVIOUS
<1>1. swap.pc = "verify" /\ UNCHANGED <<proc, config>>
  BY DEF SwapVerified
<1>2. loaded = NoProfile /\ config = swap.target /\ (Alive => proc.model = swap.target)
  BY <1>1 DEF ModelKnown, LoadedKnown, Before, SwapKnown, Swapping
<1>3. CASE loaded' = swap.target /\ published' = swap.target /\ swap' = NoSwap
  <2>1. SwapKnown' /\ Before'
    BY <1>3, NoSwapFields DEF SwapKnown, Swapping, Before
  <2>2. Alive' <=> Alive
    BY <1>1 DEF Alive
  <2> QED
    BY <1>1, <1>2, <1>3, <2>1, <2>2, AfterDrain
<1>4. CASE published' = NoProfile /\ swap' = [swap EXCEPT !.pc = "cleanup"] /\ UNCHANGED loaded
  <2>1. swap'.pc = "cleanup" /\ swap'.original = swap.original /\ swap'.restore = swap.restore
    BY <1>4 DEF SInv, TypeOK, Swaps
  <2>2. SwapKnown'
    BY <1>1, <2>1 DEF ModelKnown, SwapKnown, Swapping
  <2> QED
    BY <1>1, <1>2, <1>4, <2>2, AfterDrain
<1> QED
  BY <1>3, <1>4 DEF SwapVerified

LEMMA SwapCleanupAgrees == SInv /\ ModelKnown /\ SwapCleanup => ModelKnown'
<1> SUFFICES ASSUME SInv, ModelKnown, SwapCleanup PROVE ModelKnown'
  OBVIOUS
<1>1. swap.pc = "cleanup" /\ UNCHANGED <<config, loaded, published>>
  BY DEF SwapCleanup, modelVars
<1>2. loaded = NoProfile /\ published = NoProfile
  BY <1>1 DEF ModelKnown, LoadedKnown, Before
<1>3. /\ swap'.pc \in {"start", "restore"}
      /\ swap'.original = swap.original /\ swap'.restore = swap.restore
  BY DEF SwapCleanup, SInv, TypeOK, Swaps
<1>4. SwapKnown'
  BY <1>1, <1>3 DEF ModelKnown, SwapKnown, Swapping
<1> QED
  BY <1>1, <1>2, <1>4, AfterDrain

LEMMA SwapRestoreAgrees == SInv /\ ModelKnown /\ SwapRestore => ModelKnown'
<1> SUFFICES ASSUME SInv, ModelKnown, SwapRestore PROVE ModelKnown'
  OBVIOUS
<1>1. swap.pc = "restore"
  BY DEF SwapRestore
<1>2. loaded = NoProfile /\ published = NoProfile
  BY <1>1 DEF ModelKnown, LoadedKnown, Before
<1>3. loaded' = NoProfile /\ published' = NoProfile
  BY <1>2 DEF SwapRestore, RestoreFailed
<1>4. SwapKnown'
  <2>1. CASE EndFailed(swap.target)
    BY <1>1, <2>1, FailKnown DEF Swapping, ModelKnown
  <2>2. CASE swap' = swap
    BY <1>1, <2>2 DEF ModelKnown, SwapKnown, Swapping
  <2>3. CASE config' = swap.restore /\ swap' = [swap EXCEPT !.pc = "restoring"]
    <3>1. swap'.pc = "restoring" /\ swap'.original = swap.original /\ swap'.restore = swap.restore
      BY <2>3 DEF SInv, TypeOK, Swaps
    <3> QED
      BY <1>1, <2>3, <3>1 DEF ModelKnown, SwapKnown, Swapping
  <2> QED
    BY <2>1, <2>2, <2>3 DEF SwapRestore, RestoreFailed
<1> QED
  BY <1>1, <1>3, <1>4, AfterDrain

LEMMA SwapRestoredAgrees == SInv /\ ModelKnown /\ SwapRestored => ModelKnown'
<1> SUFFICES ASSUME SInv, ModelKnown, SwapRestored PROVE ModelKnown'
  OBVIOUS
<1>1. swap.pc = "restoring" /\ UNCHANGED config /\ EndFailed(swap.target)
  BY DEF SwapRestored, RestoreFailed
<1>2. SwapKnown' /\ Before'
  BY <1>1, FailKnown, NoSwapFields DEF Swapping, ModelKnown, EndFailed, Before
<1>3. swap.original # NoProfile /\ config = swap.original
  BY <1>1 DEF SInv, SwapShape, ModelKnown, SwapKnown, Swapping
<1>4. CASE /\ Alive /\ proc.model = swap.original /\ proc' = [proc EXCEPT !.state = "up"]
           /\ loaded' = swap.original /\ published' = swap.original
  <2>1. proc'.model = proc.model
    BY <1>4, ProcFields DEF SInv, TypeOK, Alive
  <2> QED
    BY <1>1, <1>2, <1>3, <1>4, <2>1, AfterDrain
<1>5. CASE RestoreFailed
  BY <1>1, <1>2, <1>5, AfterDrain DEF RestoreFailed
<1> QED
  BY <1>4, <1>5 DEF SwapRestored

LEMMA SwapStepKnown == SInv /\ ModelKnown /\ SwapStep => ModelKnown'
BY SwapBeginAgrees, SwapDrainedAgrees, SwapStoppedAgrees, SwapStartAgrees, SwapLoadedAgrees,
   SwapVerifiedAgrees, SwapCleanupAgrees, SwapRestoreAgrees, SwapRestoredAgrees DEF SwapStep

(* Before the drain the swap task leaves the process alone; the drain         *)
(* overtakes the reads, and has waited for the requests.                      *)
LEMMA SwapStepReads ==
  ASSUME SInv, MInv, SwapStep
  PROVE  ReadsAgree' /\ misled' = misled /\ (~misled => ReadsLoaded')
<1>1. CASE SwapBegin
  <2>1. /\ UNCHANGED <<proc, config, loaded, reads>>
        /\ swap'.pc \in {"none", "drain"}
    BY <1>1, NoSwapFields DEF SwapBegin, EndFailed, SInv, TypeOK, Swaps
  <2>2. ReadsAgree'
    BY <2>1 DEF MInv, ReadsAgree, Saw, Reading, Alive, Forwarded, reads
  <2>3. ~misled => ReadsLoaded'
    BY <2>1 DEF MInv, ReadsLoaded, Saw, Reading, reads
  <2> QED
    BY <2>1, <2>2, <2>3 DEF reads
<1>2. CASE SwapDrained
  <2>1. /\ UNCHANGED <<proc, config, loaded, ref, misled>> /\ Forwarded = {}
        /\ late' = late \/ late' = late \cup Underway
    BY <1>2 DEF SwapDrained
  <2>2. CASE late' = late \cup Underway
    <3>1. Quiet'
      BY <2>1, <2>2, Known DEF Quiet, Underway, Forwarded, MInv, ReadsAgree, Refreshers
    <3> QED
      BY <2>1, <3>1, QuietAgrees
  <2>3. CASE late' = late /\ Fail(swap.target)
    <3>1. swap'.pc = "none"
      BY <1>2, <2>3, NoSwapFields DEF SwapDrained, Fail, EndFailed, SInv, SwapShape
    <3>2. ReadsAgree'
      BY <2>1, <2>3, <3>1 DEF MInv, ReadsAgree, Saw, Reading, Alive, Forwarded
    <3>3. ~misled => ReadsLoaded'
      BY <2>1, <2>3 DEF MInv, ReadsLoaded, Saw, Reading
    <3> QED
      BY <2>1, <3>2, <3>3
  <2> QED
    BY <1>2, <2>2, <2>3 DEF SwapDrained
<1>3. CASE swap.pc \notin {"none", "created", "drain"} /\ UNCHANGED reads
  <2>1. Quiet' /\ UNCHANGED misled
    BY <1>3 DEF MInv, ReadsAgree, Quiet, reads
  <2> QED
    BY <2>1, QuietAgrees
<1>4. SwapStep => SwapBegin \/ SwapDrained \/
        (swap.pc \notin {"none", "created", "drain"} /\ UNCHANGED reads)
  BY DEF SwapStep, SwapStopped, SwapStart, SwapLoaded, SwapVerified, SwapCleanup, SwapRestore,
         SwapRestored
<1> QED
  BY <1>1, <1>2, <1>3, <1>4

LEMMA SwapStepAgrees == SInv /\ MInv /\ SwapStep => MInv'
BY SwapStepKnown, SwapStepReads DEF MInv

-----------------------------------------------------------------------------
(* The other owners of the slot, and the environment. *)

LEMMA OthersAgree ==
  ASSUME SInv, MInv,
         ControlStart \/ ControlStop \/ OperationStep \/ MonitorBegin \/ Wish \/ Crash
  PROVE  MInv'
<1>1. UNCHANGED <<config, loaded, published, swap, ref, misled>>
  BY DEF ControlStart, ControlStop, OperationStep, ControlStarted, ControlKill, ControlStopped,
         MonitorRestarted, MonitorBegin, Wish, Crash, modelVars, slotVars, reads
<1>2. CASE UNCHANGED <<proc, late>>
  BY <1>1, <1>2, ProcessAgrees DEF Alive
<1>3. ASSUME NEW state, proc' = Started(state), op \in {"start", "monitor"},
             late' = IF Alive THEN late ELSE late \cup SawOther(config)
      PROVE  MInv'
  <2>1. swap.pc \in {"none", "created"}
    BY <1>3 DEF SInv, TypeOK
  <2>2. CASE Alive
    BY <1>1, <1>3, <2>2, ProcessAgrees DEF Started
  <2>3. CASE ~Alive
    <3>1. /\ late \subseteq late'
          /\ \A r \in Refreshers \ late' : Saw(r) => ref[r].hint = config
      BY <1>3, <2>3 DEF SawOther, Saw
    <3>2. Alive' => proc'.model = config
      <4>1. proc' = Down \/ proc' = Proc(config, state, TRUE)
        BY <1>3, <2>3 DEF Started
      <4>2. Proc(config, state, TRUE).model = config
        BY DEF Proc
      <4> QED
        BY <4>1, <4>2, ProcFields DEF Alive
    <3> QED
      BY <1>1, <2>1, <3>1, <3>2, ProcessAgrees
  <2> QED
    BY <2>2, <2>3
<1>4. CASE ControlStarted
  BY <1>3, <1>4 DEF ControlStarted, Alive
<1>5. CASE MonitorRestarted
  BY <1>3, <1>5 DEF MonitorRestarted
<1>6. CASE ControlKill
  <2>1. Alive' => Alive /\ proc'.model = proc.model
    BY <1>6, ProcFields DEF ControlKill, Alive
  <2> QED
    BY <1>1, <1>6, <2>1, ProcessAgrees DEF ControlKill, reads
<1>7. CASE Crash
  <2>1. [proc EXCEPT !.state = "sick"].model = proc.model /\ Alive
    BY <1>7, ProcFields DEF Crash, Alive, SInv, TypeOK
  <2>2. Alive' => Alive /\ proc'.model = proc.model
    BY <1>7, <2>1, ProcFields DEF Crash, Alive
  <2> QED
    BY <1>1, <1>7, <2>2, ProcessAgrees DEF Crash, reads
<1> QED
  BY <1>2, <1>4, <1>5, <1>6, <1>7
     DEF OperationStep, ControlStart, ControlStop, ControlStopped, MonitorBegin, Wish, slotVars, reads

LEMMA NextAgrees == SInv /\ MInv /\ [Next]_vars => MInv'
<1> SUFFICES ASSUME SInv, MInv, [Next]_vars PROVE MInv'
  OBVIOUS
<1>1. CASE UNCHANGED vars
  BY <1>1, ProcessAgrees DEF vars, slotVars, modelVars, reads, Alive
<1>2. CASE Next
  BY <1>2, RefreshAgrees, EndForwardAgrees, SwapStepAgrees, OthersAgree DEF Next
<1> QED
  BY <1>1, <1>2

(* What is published, loaded, configured, read and answered agree at every    *)
(* moment, but for what an overtaken read has found and its consequences.     *)
THEOREM ModelInvariant == Spec => [](SInv /\ MInv)
<1>1. Init => SInv /\ MInv
  BY InitSInv, InitMInv
<1>2. SInv /\ MInv /\ [Next]_vars => (SInv /\ MInv)'
  BY NextKeeps, NextAgrees
<1> QED
  BY <1>1, <1>2, PTL DEF Spec

(* "It is never answered silently by the restored model": any number of       *)
(* concurrent requests, swaps, failed restorations, Starts and restarts, and  *)
(* probes of any speed; only an overtaken read can lead a request astray.     *)
THEOREM AnsweredByAskedHolds == Spec => []AnsweredByAsked
<1>1. SInv /\ MInv => AnsweredByAsked
  BY DEF MInv, ReadsAgree, AnsweredByAsked
<1> QED
  BY <1>1, ModelInvariant, PTL

(* Between swaps, what is published is what is loaded, and a live process on  *)
(* the port runs it, unless an overtaken read was believed; and then until    *)
(* the next read that was not overtaken.                                      *)
THEOREM PublishedAlwaysLoaded == Spec => []PublishedIsLoaded
<1>1. SInv /\ MInv => PublishedIsLoaded
  <2>1. ~Swapping => Before
    BY DEF Swapping, Before
  <2> QED
    BY <2>1 DEF MInv, ModelKnown, LoadedKnown, PublishedIsLoaded
<1> QED
  BY <1>1, ModelInvariant, PTL
=============================================================================
