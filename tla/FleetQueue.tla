----------------------------- MODULE FleetQueue -----------------------------
(***************************************************************************)
(* service/fleet_manager.py, class FleetQueue: the bounded asynchronous    *)
(* admission controller in front of every upstream lane of the router.     *)
(*                                                                         *)
(* Every body guarded by self._lock contains no await, so on the event     *)
(* loop each is one atomic step and the lock is never contended.  What     *)
(* interleaves is the rest: a task between appending itself and being      *)
(* woken, a task.cancel() that lands before or after release() granted the *)
(* waiter, and the CancelledError handler that runs some time later.       *)
(*                                                                         *)
(* The list _waiters is kept sorted by (-rank, sequence) and the sequence  *)
(* numbers are distinct, so it is represented by the SET of its tasks: its *)
(* order is the relation Before.                                           *)
(*                                                                         *)
(* A task makes one acquire() call in its life.                            *)
(***************************************************************************)
EXTENDS Naturals, FiniteSets

CONSTANTS
  Tasks,      (* the request tasks                                  *)
  MaxActive,  (* max_active                                         *)
  MaxQueue,   (* max_queue                                          *)
  Ranks       (* the values of _PRIORITY_RANK                       *)

ASSUME QueueAssumption ==
  /\ MaxActive \in Nat \ {0}
  /\ MaxQueue \in Nat
  /\ Ranks \in SUBSET Nat
  /\ 0 \in Ranks

VARIABLES
  active,     (* self._active                                                *)
  sequence,   (* self._sequence                                              *)
  waiters,    (* the tasks whose entry is in self._waiters                   *)
  pc,         (* where each task stands, see Stages                          *)
  rank,       (* the rank in a task's entry                                  *)
  ticket      (* the sequence number in a task's entry                       *)

vars == <<active, sequence, waiters, pc, rank, ticket>>

Stages ==
  { "idle",       (* before acquire()                                            *)
    "waiting",    (* suspended at `await future`, the future is pending          *)
    "granted",    (* the future has its result, the task has not run yet         *)
    "holding",    (* acquire() returned                                          *)
    "cancelled",  (* task.cancel() cancelled the pending future                  *)
    "revoked",    (* task.cancel() came after the grant                          *)
    "rejected",   (* acquire() raised QueueFull                                  *)
    "done" }      (* released, or CancelledError propagated                      *)

(* an entry whose future is not cancelled *)
Live == {t \in waiters : pc[t] = "waiting"}

(* mutated: first come, first served whatever the priority *)
BeforeFifo(t, u) == ticket[t] < ticket[u]

(* the order of the sort key (-rank, sequence) *)
Before(t, u) ==
  \/ rank[t] > rank[u]
  \/ rank[t] = rank[u] /\ ticket[t] < ticket[u]

(* the tasks a unit of `active` stands for *)
Occupying == {t \in Tasks : pc[t] \in {"granted", "holding", "revoked"}}

Init ==
  /\ active = 0
  /\ sequence = 0
  /\ waiters = {}
  /\ pc = [t \in Tasks |-> "idle"]
  /\ rank = [t \in Tasks |-> 0]
  /\ ticket = [t \in Tasks |-> 0]

(* mutated: one permit too many *)
FastPathOffByOne == active <= MaxActive /\ waiters = {}

(* the fast path takes a free permit only when nobody is queued *)
FastPath == active < MaxActive /\ waiters = {}

AcquireNow(t) ==
  /\ pc[t] = "idle"
  /\ FastPath
  /\ active' = active + 1
  /\ pc' = [pc EXCEPT ![t] = "holding"]
  /\ UNCHANGED <<sequence, waiters, rank, ticket>>

(* len(_waiters) counts entries whose future is already cancelled *)
QueueIsFull == Cardinality(waiters) >= MaxQueue

Reject(t) ==
  /\ pc[t] = "idle"
  /\ ~FastPath
  /\ QueueIsFull
  /\ pc' = [pc EXCEPT ![t] = "rejected"]
  /\ UNCHANGED <<active, sequence, waiters, rank, ticket>>

Enqueue(t) ==
  /\ pc[t] = "idle"
  /\ ~FastPath
  /\ ~QueueIsFull
  /\ sequence' = sequence + 1
  /\ waiters' = waiters \cup {t}
  /\ pc' = [pc EXCEPT ![t] = "waiting"]
  /\ \E r \in Ranks : rank' = [rank EXCEPT ![t] = r]
  /\ ticket' = [ticket EXCEPT ![t] = sequence + 1]
  /\ UNCHANGED active

(* mutated: one entry is popped, live or not (`continue` lost) *)
HandOverOnePop(t) ==
  LET freed == IF active > 0 THEN active - 1 ELSE active
      front(w) == \A u \in waiters \ {w} : Before(w, u)
  IN  /\ \/ /\ \A w \in waiters : front(w) => w \notin Live
            /\ active' = freed
            /\ waiters' = {w \in waiters : ~front(w)}
            /\ pc' = [pc EXCEPT ![t] = "done"]
         \/ \E w \in Live :
              /\ front(w)
              /\ active' = freed + 1
              /\ waiters' = waiters \ {w}
              /\ pc' = [pc EXCEPT ![t] = "done", ![w] = "granted"]
      /\ UNCHANGED <<sequence, rank, ticket>>

(* mutated: nobody is woken *)
HandOverSilent(t) ==
  /\ active' = IF active > 0 THEN active - 1 ELSE active
  /\ pc' = [pc EXCEPT ![t] = "done"]
  /\ UNCHANGED <<sequence, waiters, rank, ticket>>

(* _release_locked: give the permit back and hand it to the first entry whose *)
(* future is not cancelled; the cancelled entries ahead of it are dropped     *)
HandOver(t) ==
  LET freed == IF active > 0 THEN active - 1 ELSE active
  IN  /\ \/ /\ Live = {}
            /\ active' = freed
            /\ waiters' = {}
            /\ pc' = [pc EXCEPT ![t] = "done"]
         \/ \E w \in Live :
              /\ \A u \in Live \ {w} : Before(w, u)
              /\ active' = freed + 1
              /\ waiters' = {u \in waiters : Before(w, u)}
              /\ pc' = [pc EXCEPT ![t] = "done", ![w] = "granted"]
      /\ UNCHANGED <<sequence, rank, ticket>>

(* the task runs again after the grant and acquire() returns *)
Resume(t) ==
  /\ pc[t] = "granted"
  /\ pc' = [pc EXCEPT ![t] = "holding"]
  /\ UNCHANGED <<active, sequence, waiters, rank, ticket>>

Release(t) ==
  /\ pc[t] = "holding"
  /\ HandOver(t)

(* task.cancel() cancels a pending future; a future that has its result stays *)
(* as it is, and CancelledError is raised when the task runs                  *)
Cancel(t) ==
  /\ \/ pc[t] = "waiting" /\ pc' = [pc EXCEPT ![t] = "cancelled"]
     \/ pc[t] = "granted" /\ pc' = [pc EXCEPT ![t] = "revoked"]
  /\ UNCHANGED <<active, sequence, waiters, rank, ticket>>

(* mutated: a cancelled waiter returns a permit it never had *)
LeaveQueueReleasing(t) ==
  /\ pc[t] = "cancelled"
  /\ HandOver(t)

(* the handler of a cancelled waiter: it removes its entry; when release()    *)
(* already dropped the entry the future is cancelled and nothing is returned  *)
LeaveQueue(t) ==
  /\ pc[t] = "cancelled"
  /\ waiters' = waiters \ {t}
  /\ pc' = [pc EXCEPT ![t] = "done"]
  /\ UNCHANGED <<active, sequence, rank, ticket>>

(* the handler of a task cancelled after its grant returns the permit *)
ReturnGrant(t) ==
  /\ pc[t] = "revoked"
  /\ HandOver(t)

Ended == \A t \in Tasks : pc[t] \in {"done", "rejected"}

(* every task is over: the lane rests *)
Rest == Ended /\ UNCHANGED vars

Next ==
  \/ \E t \in Tasks :
       \/ AcquireNow(t) \/ Reject(t) \/ Enqueue(t)
       \/ Resume(t) \/ Release(t)
       \/ Cancel(t) \/ LeaveQueue(t) \/ ReturnGrant(t)
  \/ Rest

Spec == Init /\ [][Next]_vars

(* the event loop runs every ready task, and a holder finishes its request;   *)
(* nothing says that a caller ever calls acquire() or cancels                 *)
Fairness ==
  \A t \in Tasks :
    /\ WF_vars(Resume(t))
    /\ WF_vars(Release(t))
    /\ WF_vars(LeaveQueue(t))
    /\ WF_vars(ReturnGrant(t))

FairSpec == Spec /\ Fairness

-----------------------------------------------------------------------------
(* The counter and the queue stay within their bounds: active is the number   *)
(* snapshot() reports (FleetQueue.acquire, FleetQueue._release_locked).       *)
TypeOK ==
  /\ active \in 0..MaxActive
  /\ sequence \in Nat
  /\ waiters \in SUBSET Tasks
  /\ pc \in [Tasks -> Stages]
  /\ rank \in [Tasks -> Ranks]
  /\ ticket \in [Tasks -> Nat]

(* No permit leaks and none is returned twice, however cancellations race     *)
(* with grants: the counter is the number of tasks that own a permit or will  *)
(* return one (the CancelledError handler of acquire).                        *)
SlotsAccounted == IsFiniteSet(Occupying) /\ active = Cardinality(Occupying)

(* Never more than max_active tasks are past admission at once.               *)
ActiveBounded == IsFiniteSet(Occupying) /\ Cardinality(Occupying) <= MaxActive

(* The list never grows beyond max_queue entries, and the entry of a live     *)
(* waiter is never lost: every task suspended in acquire is still in it.      *)
QueueBounded ==
  /\ IsFiniteSet(waiters) /\ Cardinality(waiters) <= MaxQueue
  /\ {t \in Tasks : pc[t] = "waiting"} \subseteq waiters

(* No lost wakeup: while an entry is queued every permit is in use, so a      *)
(* waiter is never stranded beside a free permit, even when release() meets   *)
(* cancelled entries whose handlers have not run.                             *)
NoIdlePermit == waiters # {} => active = MaxActive

(* Permits and queue agree in every interleaving of arrivals, cancellations   *)
(* and hand-overs: the four parts above.                                      *)
PermitsSound == SlotsAccounted /\ ActiveBounded /\ QueueBounded /\ NoIdlePermit

(* A permit never passes over a live waiter that asked with a higher          *)
(* priority, or with the same one and earlier (the sort in acquire).          *)
GrantsFollowPriority ==
  [][\A t, u \in Tasks :
       /\ pc[t] = "waiting" /\ pc'[t] = "granted"
       /\ pc[u] = "waiting" /\ u # t
       => \/ rank[t] > rank[u]
          \/ rank[t] = rank[u] /\ ticket[t] < ticket[u]]_vars

(* Every queued task is eventually granted a permit or cancelled, and every   *)
(* cancelled one leaves (release and the handler of acquire).                 *)
WaiterAnswered ==
  \A t \in Tasks :
    /\ pc[t] = "waiting" ~> pc[t] # "waiting"
    /\ pc[t] \in {"cancelled", "revoked"} ~> pc[t] = "done"

Lane == INSTANCE AdmissionLane WITH
          inUse <- Occupying, waiting <- Live, arrival <- ticket

(* The queue implements the abstract lane: cancelled entries still in the     *)
(* list are invisible, and a granted task owns the permit before it runs.     *)
ImplementsLane == Lane!LaneFairSpec
=============================================================================
