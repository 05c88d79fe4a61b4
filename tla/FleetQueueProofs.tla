-------------------------- MODULE FleetQueueProofs --------------------------
(***************************************************************************)
(* Proofs about FleetQueue, for every set of tasks (finite or not), every  *)
(* MaxActive > 0, every MaxQueue and every set of ranks.                   *)
(***************************************************************************)
EXTENDS FleetQueue, FiniteSetTheorems, TLAPS

(* An entry belongs to a task that is suspended or whose handler is due, and  *)
(* every live waiter has its entry; tickets already issued are not reissued.  *)
EntriesMatch ==
  /\ \A t \in waiters : pc[t] \in {"waiting", "cancelled"}
  /\ \A t \in Tasks : pc[t] = "waiting" => t \in waiters
  /\ \A t \in Tasks : ticket[t] <= sequence

(* The inductive invariant.  TypeOK bounds active only together with the      *)
(* accounting of Occupying, and a release keeps the lane full only because    *)
(* EntriesMatch says that an empty Live means no suspended waiter.            *)
IInv ==
  /\ TypeOK
  /\ EntriesMatch
  /\ SlotsAccounted
  /\ QueueBounded
  /\ NoIdlePermit

(***************************************************************************)
(* How Occupying changes: the three facts about cardinality every action   *)
(* needs.                                                                  *)
(***************************************************************************)

(* A task that starts to occupy a permit adds one to the count. *)
LEMMA OccupyOne ==
  ASSUME IsFiniteSet(Occupying), NEW t \in Tasks, t \notin Occupying,
         Occupying' = Occupying \cup {t}
  PROVE  /\ IsFiniteSet(Occupying')
         /\ Cardinality(Occupying') = Cardinality(Occupying) + 1
BY FS_AddElement

(* A task that gives its permit back takes one from the count. *)
LEMMA VacateOne ==
  ASSUME IsFiniteSet(Occupying), NEW t \in Tasks, t \in Occupying,
         Occupying' = Occupying \ {t}
  PROVE  /\ IsFiniteSet(Occupying')
         /\ Cardinality(Occupying') = Cardinality(Occupying) - 1
         /\ Cardinality(Occupying) \in Nat
         /\ Cardinality(Occupying) > 0
<1>1. Cardinality(Occupying) \in Nat
  BY FS_CardinalityType
<1>2. Cardinality(Occupying) # 0
  BY FS_EmptySet
<1> QED
  BY <1>1, <1>2, FS_RemoveElement

(* A permit handed from one task to another leaves the count alone. *)
LEMMA ExchangeOne ==
  ASSUME IsFiniteSet(Occupying),
         NEW t \in Tasks, t \in Occupying,
         NEW w \in Tasks, w \notin Occupying,
         Occupying' = (Occupying \ {t}) \cup {w}
  PROVE  /\ IsFiniteSet(Occupying')
         /\ Cardinality(Occupying') = Cardinality(Occupying)
         /\ Cardinality(Occupying) \in Nat
         /\ Cardinality(Occupying) > 0
<1>1. /\ Cardinality(Occupying) \in Nat
      /\ Cardinality(Occupying) > 0
  BY FS_CardinalityType, FS_EmptySet
<1>2. /\ IsFiniteSet(Occupying \ {t})
      /\ Cardinality(Occupying \ {t}) = Cardinality(Occupying) - 1
  BY FS_RemoveElement
<1>3. w \notin Occupying \ {t}
  OBVIOUS
<1> QED
  BY <1>1, <1>2, <1>3, FS_AddElement

(* A set of waiters that loses elements stays within the bound. *)
LEMMA FewerWaiters ==
  ASSUME IsFiniteSet(waiters), Cardinality(waiters) <= MaxQueue,
         waiters' \subseteq waiters
  PROVE  IsFiniteSet(waiters') /\ Cardinality(waiters') <= MaxQueue
<1>1. /\ IsFiniteSet(waiters')
      /\ Cardinality(waiters') <= Cardinality(waiters)
  BY FS_Subset
<1>2. Cardinality(waiters) \in Nat /\ Cardinality(waiters') \in Nat
  BY <1>1, FS_CardinalityType
<1> QED
  BY <1>1, <1>2, QueueAssumption

-----------------------------------------------------------------------------
(* The initial state satisfies the invariant. *)
LEMMA InitIInv == Init => IInv
<1> SUFFICES ASSUME Init PROVE IInv
  OBVIOUS
<1>1. TypeOK
  BY QueueAssumption DEF Init, TypeOK, Stages
<1>2. EntriesMatch
  BY DEF Init, EntriesMatch
<1>3. Occupying = {}
  BY DEF Init, Occupying
<1>4. SlotsAccounted
  BY <1>3, FS_EmptySet DEF Init, SlotsAccounted
<1>5. QueueBounded
  BY FS_EmptySet, QueueAssumption DEF Init, QueueBounded
<1>6. NoIdlePermit
  BY DEF Init, NoIdlePermit
<1> QED
  BY <1>1, <1>2, <1>4, <1>5, <1>6 DEF IInv

(* Handing a permit over keeps the invariant, for whichever of its owners     *)
(* (a holder that releases, a task revoked after its grant) does it.          *)
LEMMA HandOverIInv ==
  ASSUME IInv, NEW t \in Tasks, pc[t] \in {"holding", "revoked"}, HandOver(t)
  PROVE  IInv'
<1> USE DEF IInv
<1>1. t \in Occupying /\ t \notin waiters
  BY DEF Occupying, EntriesMatch
<1>2. active > 0 /\ active \in Nat
  BY <1>1, VacateOne, FS_EmptySet, FS_CardinalityType, QueueAssumption
     DEF SlotsAccounted, TypeOK
<1>3. CASE Live = {} /\ active' = active - 1 /\ waiters' = {}
           /\ pc' = [pc EXCEPT ![t] = "done"]
  <2> USE <1>3
  <2>1. TypeOK'
    BY <1>2, QueueAssumption DEF TypeOK, HandOver, Stages
  <2>2. \A u \in Tasks : pc[u] # "waiting"
    BY DEF Live, EntriesMatch
  <2>3. EntriesMatch'
    BY <2>2 DEF EntriesMatch, HandOver, TypeOK
  <2>4. Occupying' = Occupying \ {t}
    BY DEF Occupying, TypeOK
  <2>5. SlotsAccounted'
    BY <1>1, <1>2, <2>4, VacateOne DEF SlotsAccounted
  <2>6. QueueBounded'
    BY <2>2, FS_EmptySet, QueueAssumption DEF QueueBounded, TypeOK
  <2>7. NoIdlePermit'
    BY DEF NoIdlePermit
  <2> QED
    BY <2>1, <2>3, <2>5, <2>6, <2>7
<1>4. ASSUME NEW w \in Live,
             \A u \in Live \ {w} : Before(w, u),
             active' = active - 1 + 1,
             waiters' = {u \in waiters : Before(w, u)},
             pc' = [pc EXCEPT ![t] = "done", ![w] = "granted"]
      PROVE  IInv'
  <2> USE <1>4
  <2>1. w \in Tasks /\ w # t /\ pc[w] = "waiting" /\ w \in waiters
    BY <1>1 DEF Live, TypeOK
  <2>2. active' = active
    BY <1>2
  <2>3. TypeOK'
    BY <2>1, <2>2 DEF TypeOK, HandOver, Stages
  <2>4. \A u \in Tasks : u # t /\ u # w => pc'[u] = pc[u]
    BY DEF TypeOK
  <2>5. pc'[t] = "done" /\ pc'[w] = "granted"
    BY <2>1 DEF TypeOK
  <2>6. ~ Before(w, w)
    <3>1. rank[w] \in Nat /\ ticket[w] \in Nat
      BY <2>1, QueueAssumption DEF TypeOK
    <3> QED
      BY <3>1 DEF Before
  <2>7. waiters' \subseteq waiters /\ w \notin waiters' /\ t \notin waiters'
    BY <1>1, <2>6
  <2>8. \A u \in Tasks : pc'[u] = "waiting" => u \in waiters'
    <3> SUFFICES ASSUME NEW u \in Tasks, pc'[u] = "waiting" PROVE u \in waiters'
      OBVIOUS
    <3>1. u # t /\ u # w /\ pc[u] = "waiting"
      BY <2>4, <2>5
    <3>2. u \in Live \ {w}
      BY <3>1 DEF Live, EntriesMatch
    <3> QED
      BY <3>2 DEF Live
  <2>9. EntriesMatch'
    BY <2>4, <2>7, <2>8 DEF EntriesMatch, HandOver, TypeOK
  <2>10. Occupying' = (Occupying \ {t}) \cup {w}
    BY <2>1, <2>4, <2>5 DEF Occupying
  <2>11. w \notin Occupying
    BY <2>1 DEF Occupying
  <2>12. SlotsAccounted'
    BY <1>1, <2>1, <2>2, <2>10, <2>11, ExchangeOne DEF SlotsAccounted
  <2>13. QueueBounded'
    BY <2>7, <2>8, FewerWaiters DEF QueueBounded
  <2>14. NoIdlePermit'
    BY <2>1, <2>2 DEF NoIdlePermit
  <2> QED
    BY <2>3, <2>9, <2>12, <2>13, <2>14
<1> QED
  BY <1>2, <1>3, <1>4 DEF HandOver

(* Every step keeps the invariant. *)
LEMMA NextIInv == IInv /\ [Next]_vars => IInv'
<1> SUFFICES ASSUME IInv, [Next]_vars PROVE IInv'
  OBVIOUS
<1> USE DEF IInv
<1>0. /\ Cardinality(Occupying) \in Nat
      /\ Cardinality(waiters) \in Nat
  BY FS_CardinalityType DEF SlotsAccounted, QueueBounded
<1>1. ASSUME NEW t \in Tasks, AcquireNow(t) PROVE IInv'
  <2> USE <1>1 DEF AcquireNow, FastPath
  <2>1. TypeOK'
    BY QueueAssumption DEF TypeOK, Stages
  <2>2. EntriesMatch'
    BY DEF EntriesMatch, TypeOK
  <2>3. t \notin Occupying /\ Occupying' = Occupying \cup {t}
    BY DEF Occupying, TypeOK
  <2>4. SlotsAccounted'
    BY <2>3, OccupyOne DEF SlotsAccounted
  <2>5. QueueBounded'
    BY DEF QueueBounded, TypeOK
  <2>6. NoIdlePermit'
    BY DEF NoIdlePermit
  <2> QED
    BY <2>1, <2>2, <2>4, <2>5, <2>6
<1>2. ASSUME NEW t \in Tasks, Reject(t) PROVE IInv'
  <2> USE <1>2 DEF Reject
  <2>1. TypeOK' /\ EntriesMatch' /\ NoIdlePermit'
    BY DEF TypeOK, Stages, EntriesMatch, NoIdlePermit
  <2>2. Occupying' = Occupying
    BY DEF Occupying, TypeOK
  <2>3. SlotsAccounted' /\ QueueBounded'
    BY <2>2 DEF SlotsAccounted, QueueBounded, TypeOK
  <2> QED
    BY <2>1, <2>3
<1>3. ASSUME NEW t \in Tasks, Enqueue(t) PROVE IInv'
  <2> USE <1>3 DEF Enqueue
  <2>1. TypeOK'
    BY DEF TypeOK, Stages
  <2>2. EntriesMatch'
    BY DEF EntriesMatch, TypeOK
  <2>3. Occupying' = Occupying
    BY DEF Occupying, TypeOK
  <2>4. SlotsAccounted'
    BY <2>3 DEF SlotsAccounted
  <2>5. t \notin waiters
    BY DEF EntriesMatch
  <2>6. /\ IsFiniteSet(waiters')
        /\ Cardinality(waiters') = Cardinality(waiters) + 1
    BY <2>5, FS_AddElement DEF QueueBounded
  <2>7. Cardinality(waiters') <= MaxQueue
    BY <1>0, <2>6, QueueAssumption DEF QueueIsFull
  <2>8. QueueBounded'
    BY <2>2, <2>6, <2>7 DEF QueueBounded, EntriesMatch
  <2>9. NoIdlePermit'
    BY QueueAssumption DEF NoIdlePermit, FastPath, TypeOK
  <2> QED
    BY <2>1, <2>2, <2>4, <2>8, <2>9
<1>4. ASSUME NEW t \in Tasks, Resume(t) \/ Cancel(t) PROVE IInv'
  <2> USE <1>4 DEF Resume, Cancel
  <2>1. TypeOK' /\ EntriesMatch' /\ NoIdlePermit'
    BY DEF TypeOK, Stages, EntriesMatch, NoIdlePermit
  <2>2. Occupying' = Occupying
    BY DEF Occupying, TypeOK
  <2>3. SlotsAccounted' /\ QueueBounded'
    BY <2>2 DEF SlotsAccounted, QueueBounded, TypeOK
  <2> QED
    BY <2>1, <2>3
<1>5. ASSUME NEW t \in Tasks, Release(t) \/ ReturnGrant(t) PROVE IInv'
  BY <1>5, HandOverIInv DEF Release, ReturnGrant
<1>6. ASSUME NEW t \in Tasks, LeaveQueue(t) PROVE IInv'
  <2> USE <1>6 DEF LeaveQueue
  <2>1. TypeOK' /\ EntriesMatch' /\ NoIdlePermit'
    BY DEF TypeOK, Stages, EntriesMatch, NoIdlePermit
  <2>2. Occupying' = Occupying
    BY DEF Occupying, TypeOK
  <2>3. SlotsAccounted'
    BY <2>2 DEF SlotsAccounted
  <2>4. QueueBounded'
    BY <2>1, FewerWaiters DEF QueueBounded, EntriesMatch
  <2> QED
    BY <2>1, <2>3, <2>4
<1>7. CASE UNCHANGED vars
  <2> USE <1>7 DEF vars
  <2>1. TypeOK' /\ EntriesMatch' /\ NoIdlePermit'
    BY DEF TypeOK, EntriesMatch, NoIdlePermit
  <2>2. Occupying' = Occupying
    BY DEF Occupying
  <2>3. SlotsAccounted' /\ QueueBounded'
    BY <2>2 DEF SlotsAccounted, QueueBounded
  <2> QED
    BY <2>1, <2>3
<1> QED
  BY <1>1, <1>2, <1>3, <1>4, <1>5, <1>6, <1>7 DEF Next, Rest

(* The invariant holds in every reachable state. *)
THEOREM QueueInvariant == Spec => []IInv
BY InitIInv, NextIInv, PTL DEF Spec

(* The counter and the list keep their bounds. *)
THEOREM QueueTypeCorrect == Spec => []TypeOK
<1>1. IInv => TypeOK
  BY DEF IInv
<1> QED
  BY <1>1, QueueInvariant, PTL

(* Permits are neither leaked nor duplicated. *)
THEOREM PermitsAccounted == Spec => []SlotsAccounted
<1>1. IInv => SlotsAccounted
  BY DEF IInv
<1> QED
  BY <1>1, QueueInvariant, PTL

(* At most MaxActive tasks are past admission. *)
THEOREM AdmissionBounded == Spec => []ActiveBounded
<1>1. IInv => ActiveBounded
  BY QueueAssumption DEF IInv, ActiveBounded, SlotsAccounted, TypeOK
<1> QED
  BY <1>1, QueueInvariant, PTL

(* The list keeps to max_queue and loses no suspended task. *)
THEOREM WaitersBounded == Spec => []QueueBounded
<1>1. IInv => QueueBounded
  BY DEF IInv
<1> QED
  BY <1>1, QueueInvariant, PTL

(* No waiter is stranded beside a free permit. *)
THEOREM NoLostWakeup == Spec => []NoIdlePermit
<1>1. IInv => NoIdlePermit
  BY DEF IInv
<1> QED
  BY <1>1, QueueInvariant, PTL

(* Permits and queue agree: the parts together.                               *)
THEOREM QueuePermitsSound == Spec => []PermitsSound
<1>1. SlotsAccounted /\ ActiveBounded /\ QueueBounded /\ NoIdlePermit => PermitsSound
  BY DEF PermitsSound
<1> QED
  BY PermitsAccounted, AdmissionBounded, WaitersBounded, NoLostWakeup, <1>1, PTL

-----------------------------------------------------------------------------
(* A grant follows the sort key, whatever cancellations are under way. *)
THEOREM PriorityOrder == Spec => GrantsFollowPriority
<1> DEFINE InOrder ==
      \A t, u \in Tasks :
        /\ pc[t] = "waiting" /\ pc'[t] = "granted"
        /\ pc[u] = "waiting" /\ u # t
        => \/ rank[t] > rank[u]
           \/ rank[t] = rank[u] /\ ticket[t] < ticket[u]
<1>1. IInv /\ [Next]_vars => [InOrder]_vars
  <2> SUFFICES ASSUME IInv, Next,
                      NEW t \in Tasks, NEW u \in Tasks,
                      pc[t] = "waiting", pc'[t] = "granted",
                      pc[u] = "waiting", u # t
               PROVE  Before(t, u)
    BY DEF Before
  <2>1. PICK o \in Tasks : Release(o) \/ ReturnGrant(o)
    BY DEF Next, AcquireNow, Reject, Enqueue, Resume, Cancel, LeaveQueue, Rest,
           vars, IInv, TypeOK
  <2>2. PICK w \in Live :
             /\ \A v \in Live \ {w} : Before(w, v)
             /\ pc' = [pc EXCEPT ![o] = "done", ![w] = "granted"]
    BY <2>1 DEF Release, ReturnGrant, HandOver, IInv, TypeOK
  <2>3. w = t
    BY <2>2 DEF IInv, TypeOK
  <2>4. u \in Live
    BY DEF IInv, EntriesMatch, Live
  <2> QED
    BY <2>2, <2>3, <2>4
<1> QED
  BY <1>1, QueueInvariant, PTL DEF Spec, GrantsFollowPriority

(* The lane counts its permits with the same operator as the queue. *)
LEMMA LaneCardinality ==
  ASSUME NEW S PROVE Lane!Cardinality(S) = Cardinality(S)
BY DEF Cardinality, Lane!Cardinality

(* The queue implements the safety part of the abstract lane: every step maps *)
(* to a step of the lane or leaves its variables alone.                       *)
THEOREM QueueImplementsLane == Spec => Lane!LaneSpec
<1>1. Init => Lane!LaneInit
  <2> SUFFICES ASSUME Init PROVE Lane!LaneInit
    OBVIOUS
  <2>1. Occupying = {} /\ Live = {}
    BY DEF Init, Occupying, Live
  <2> QED
    BY <2>1 DEF Init, Lane!LaneInit
<1>2. IInv /\ [Next]_vars => [Lane!LaneNext]_(Lane!laneVars)
  <2> SUFFICES ASSUME IInv, [Next]_vars
               PROVE  [Lane!LaneNext]_(Lane!laneVars)
    OBVIOUS
  <2> USE DEF IInv
  <2>0. /\ Live \subseteq Tasks
        /\ Live = {t \in Tasks : pc[t] = "waiting"}
    BY DEF Live, EntriesMatch, TypeOK
  <2>1. ASSUME NEW t \in Tasks, AcquireNow(t) PROVE Lane!Admit(t)
    <3> USE <2>1 DEF AcquireNow, FastPath
    <3>1. t \notin Occupying /\ Occupying' = Occupying \cup {t}
      BY DEF Occupying, TypeOK
    <3>2. Live = {} /\ Live' = {} /\ UNCHANGED <<rank, ticket>>
      BY DEF Live
    <3>3. Cardinality(Occupying) < MaxActive
      BY DEF SlotsAccounted
    <3> QED
      BY <3>1, <3>2, <3>3, LaneCardinality DEF Lane!Admit, Lane!Free
  <2>2. ASSUME NEW t \in Tasks, Reject(t) PROVE UNCHANGED Lane!laneVars
    BY <2>2 DEF Reject, Lane!laneVars, Occupying, Live, TypeOK, EntriesMatch
  <2>3. ASSUME NEW t \in Tasks, Enqueue(t) PROVE Lane!Wait(t)
    <3> USE <2>3 DEF Enqueue
    <3>1. t \notin Occupying /\ t \notin Live /\ Occupying' = Occupying
      BY DEF Occupying, Live, TypeOK
    <3>2. Live' = Live \cup {t}
      BY DEF Live, TypeOK, EntriesMatch
    <3>3. ~(Cardinality(Occupying) < MaxActive)
      BY QueueAssumption DEF SlotsAccounted, NoIdlePermit, FastPath, TypeOK
    <3>4. ticket'[t] = sequence + 1 /\ \A u \in Live : ticket[u] < ticket'[t]
      BY <2>0 DEF TypeOK, EntriesMatch
    <3>5. \A u \in Tasks \ {t} : rank'[u] = rank[u] /\ ticket'[u] = ticket[u]
      BY DEF TypeOK
    <3> QED
      BY <3>1, <3>2, <3>3, <3>4, <3>5, LaneCardinality DEF Lane!Wait, Lane!Free
  <2>4. ASSUME NEW t \in Tasks, Resume(t) PROVE UNCHANGED Lane!laneVars
    BY <2>4 DEF Resume, Lane!laneVars, Occupying, Live, TypeOK, EntriesMatch
  <2>5. ASSUME NEW t \in Tasks, Release(t) \/ ReturnGrant(t)
        PROVE  Lane!Return(t)
    <3>1. t \in Occupying /\ t \notin waiters /\ HandOver(t)
      BY <2>5 DEF Release, ReturnGrant, Occupying, EntriesMatch
    <3>2. CASE Live = {} /\ waiters' = {} /\ pc' = [pc EXCEPT ![t] = "done"]
      <4>1. Occupying' = Occupying \ {t} /\ Live' = {}
        BY <3>2 DEF Occupying, Live, TypeOK
      <4> QED
        BY <3>1, <3>2, <4>1 DEF Lane!Return, HandOver
    <3>3. ASSUME NEW w \in Live,
                 \A u \in Live \ {w} : Before(w, u),
                 waiters' = {u \in waiters : Before(w, u)},
                 pc' = [pc EXCEPT ![t] = "done", ![w] = "granted"]
          PROVE  Lane!Return(t)
      <4> USE <3>3
      <4>1. w \in Tasks /\ w # t /\ pc[w] = "waiting"
        BY <3>1 DEF Live, TypeOK
      <4>2. Occupying' = (Occupying \ {t}) \cup {w}
        BY <4>1 DEF Occupying, TypeOK
      <4>3. Live' = Live \ {w}
        BY <3>1, <4>1 DEF Live, TypeOK
      <4>4. \A u \in Live \ {w} : Lane!ServedBefore(w, u)
        BY DEF Before, Lane!ServedBefore
      <4> QED
        BY <3>1, <4>2, <4>3, <4>4 DEF Lane!Return, HandOver
    <3> QED
      BY <3>1, <3>2, <3>3 DEF HandOver
  <2>6. ASSUME NEW t \in Tasks, Cancel(t)
        PROVE  Lane!Leave(t) \/ UNCHANGED Lane!laneVars
    <3>1. CASE pc[t] = "waiting" /\ pc' = [pc EXCEPT ![t] = "cancelled"]
      <4>1. Live' = Live \ {t} /\ t \in Live /\ Occupying' = Occupying
        BY <2>6, <3>1 DEF Cancel, Live, Occupying, TypeOK, EntriesMatch
      <4> QED
        BY <2>6, <4>1 DEF Cancel, Lane!Leave
    <3>2. CASE pc[t] = "granted" /\ pc' = [pc EXCEPT ![t] = "revoked"]
      BY <2>6, <3>2 DEF Cancel, Lane!laneVars, Occupying, Live, TypeOK, EntriesMatch
    <3> QED
      BY <2>6, <3>1, <3>2 DEF Cancel
  <2>7. ASSUME NEW t \in Tasks, LeaveQueue(t) PROVE UNCHANGED Lane!laneVars
    BY <2>7 DEF LeaveQueue, Lane!laneVars, Occupying, Live, TypeOK, EntriesMatch
  <2>8. CASE UNCHANGED vars
    BY <2>8 DEF vars, Lane!laneVars, Occupying, Live
  <2> QED
    BY <2>1, <2>2, <2>3, <2>4, <2>5, <2>6, <2>7, <2>8
       DEF Next, Rest, Lane!LaneNext
<1> QED
  BY <1>1, <1>2, QueueInvariant, PTL DEF Spec, Lane!LaneSpec
=============================================================================
