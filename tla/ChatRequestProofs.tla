-------------------------- MODULE ChatRequestProofs --------------------------
(***************************************************************************)
(* Proofs about ChatRequest, for every set of requests (finite or not) and *)
(* every lane: the requests use the lane as FleetQueue has its tasks do, so *)
(* what is proved there of the lane (module FleetQueueProofs) holds here;   *)
(* and a request holds permit and lease exactly while it is answered.       *)
(***************************************************************************)
EXTENDS ChatRequest, FiniteSetTheorems, TLAPS

(* the theorems about the lane, for the lane of these requests *)
Lane == INSTANCE FleetQueueProofs WITH Tasks <- Requests, pc <- place

(* the steps of a request that was not admitted yet and is not in the queue *)
BeforeLane == {"new", "routing", "dropped"}

(* How the step of a request goes with its place in the lane and with the     *)
(* first call of finish().  An upstream stream whose client left is over and  *)
(* still holds (ClientLeaves): hence the last but one conjunct.               *)
StepFollowsPlace ==
  \A r \in Requests :
    /\ step[r] \in BeforeLane => place[r] = "idle" /\ r \notin finished
    /\ step[r] = "queued" =>
         /\ place[r] \in {"waiting", "granted", "cancelled", "revoked"}
         /\ r \notin finished
    /\ step[r] \in {"admitted", "preparing", "posting"} =>
         place[r] = "holding" /\ r \notin finished
    /\ step[r] \in Streaming \cup {"over"} =>
         r \in finished \/ place[r] = "holding"
    /\ step[r] = "closing" => r \in finished
    /\ step[r] = "over" => r \in finished \/ lane = "upstream"
    /\ r \in finished => place[r] \in {"idle", "done", "rejected"}

(* Who has a lease on the slot, and when the slot may be stopped.             *)
LeasesMatch ==
  /\ IsFiniteSet(tracked) /\ leases = Cardinality(tracked)
  /\ \A r \in tracked :
       /\ lane = "local" /\ r \notin finished
       /\ place[r] = "holding" /\ step[r] \in Forwarded
  /\ \A r \in Requests :
       lane = "local" /\ step[r] \in Forwarded => r \in tracked \cup finished
  /\ phase # "idle" => lane = "local"
  /\ phase = "stopping" => leases = 0

(* A row is closed by finish() only.                                          *)
RowsMatch == \A r \in Requests : row[r] \in ClosedRows => r \in finished

ShapeOK ==
  /\ lane \in Lanes
  /\ step \in [Requests -> Steps]
  /\ row \in [Requests -> Rows]
  /\ finished \subseteq Requests /\ tracked \subseteq Requests
  /\ phase \in {"idle", "draining", "stopping"}
  /\ ops \in 0..MaxOps

(* The inductive invariant: the lane's own, and the four parts above.         *)
IInv ==
  /\ Lane!IInv
  /\ ShapeOK
  /\ StepFollowsPlace
  /\ LeasesMatch
  /\ RowsMatch

-----------------------------------------------------------------------------
(* The lane of this module is the lane of FleetQueueProofs. *)
LEMMA SameLane ==
  /\ Queue!Init = Lane!Init
  /\ Queue!Next = Lane!Next
  /\ Queue!vars = Lane!vars
<1>1. Queue!Init = Lane!Init /\ Queue!vars = Lane!vars
  BY DEF Queue!Init, Lane!Init, Queue!vars, Lane!vars
<1>2. \A t \in Requests :
        /\ Queue!AcquireNow(t) = Lane!AcquireNow(t)
        /\ Queue!Reject(t) = Lane!Reject(t)
        /\ Queue!Enqueue(t) = Lane!Enqueue(t)
        /\ Queue!Resume(t) = Lane!Resume(t)
        /\ Queue!Cancel(t) = Lane!Cancel(t)
        /\ Queue!LeaveQueue(t) = Lane!LeaveQueue(t)
  BY DEF Queue!AcquireNow, Lane!AcquireNow, Queue!FastPath, Lane!FastPath,
         Queue!Reject, Lane!Reject, Queue!QueueIsFull, Lane!QueueIsFull,
         Cardinality, Queue!Cardinality, Lane!Cardinality,
         Queue!Enqueue, Lane!Enqueue, Queue!Resume, Lane!Resume,
         Queue!Cancel, Lane!Cancel, Queue!LeaveQueue, Lane!LeaveQueue
<1>3. \A t \in Requests : Queue!HandOver(t) = Lane!HandOver(t)
  BY DEF Queue!HandOver, Lane!HandOver, Queue!Live, Lane!Live,
         Queue!Before, Lane!Before
<1>4. \A t \in Requests :
        /\ Queue!Release(t) = Lane!Release(t)
        /\ Queue!ReturnGrant(t) = Lane!ReturnGrant(t)
  BY <1>3 DEF Queue!Release, Lane!Release, Queue!ReturnGrant, Lane!ReturnGrant
<1>5. Queue!Rest = Lane!Rest
  BY DEF Queue!Rest, Lane!Rest, Queue!Ended, Lane!Ended, Queue!vars, Lane!vars
<1>6. Queue!Next = Lane!Next
  BY <1>2, <1>4, <1>5 DEF Queue!Next, Lane!Next
<1> QED
  BY <1>1, <1>6

(* What the proofs below need of the lane's invariant. *)
LEMMA LaneFacts ==
  ASSUME Lane!IInv
  PROVE  /\ place \in [Requests -> Queue!Stages]
         /\ waiters \subseteq Requests
         /\ IsFiniteSet(Queue!Occupying)
         /\ Cardinality(Queue!Occupying) = active
         /\ active \in 0..MaxActive
<1>1. /\ Lane!Stages = Queue!Stages /\ Lane!Occupying = Queue!Occupying
      /\ Lane!Cardinality(Lane!Occupying) = Cardinality(Queue!Occupying)
      /\ Lane!IsFiniteSet(Lane!Occupying) = IsFiniteSet(Queue!Occupying)
  BY DEF Lane!Stages, Queue!Stages, Lane!Occupying, Queue!Occupying,
         Lane!Cardinality, Cardinality, Lane!IsFiniteSet, IsFiniteSet
<1> QED
  BY <1>1 DEF Lane!IInv, Lane!TypeOK, Lane!SlotsAccounted

(* A step of the lane keeps the lane's invariant (FleetQueueProofs). *)
LEMMA LaneStep ==
  ASSUME Lane!IInv, [Queue!Next]_(Queue!vars)
  PROVE  Lane!IInv'
<1>1. [Lane!Next]_(Lane!vars)
  BY SameLane DEF Queue!vars, Lane!vars
<1> QED
  BY <1>1, ChatAssumption, Lane!NextIInv

(* A permit that is given back moves nobody but the one who gives it and the  *)
(* waiter who gets it.                                                        *)
LEMMA HandedOver ==
  ASSUME Lane!IInv, NEW r \in Requests, place[r] \in {"holding", "revoked"},
         Queue!HandOver(r)
  PROVE  /\ place'[r] = "done"
         /\ \A u \in Requests \ {r} :
              \/ place'[u] = place[u]
              \/ place[u] = "waiting" /\ place'[u] = "granted"
<1>1. place \in [Requests -> Queue!Stages] /\ waiters \subseteq Requests
  BY LaneFacts
<1>2. CASE place' = [place EXCEPT ![r] = "done"]
  BY <1>1, <1>2
<1>3. CASE \E w \in Queue!Live : place' = [place EXCEPT ![r] = "done", ![w] = "granted"]
  <2>1. PICK w \in Queue!Live : place' = [place EXCEPT ![r] = "done", ![w] = "granted"]
    BY <1>3
  <2>2. w \in Requests /\ place[w] = "waiting" /\ w # r
    BY <1>1 DEF Queue!Live
  <2> QED
    BY <1>1, <2>1, <2>2
<1> QED
  BY <1>2, <1>3 DEF Queue!HandOver

-----------------------------------------------------------------------------
(* The first call of finish() closes the row or leaves it, takes the request  *)
(* off the slot's count and gives its permit back; a later one does nothing.  *)
LEMMA FinishEffect ==
  ASSUME IInv, NEW r \in Requests, NEW status \in ClosedRows, Finish(r, status)
  PROVE  /\ finished' = finished \cup {r}
         /\ tracked' = tracked \ {r}
         /\ IsFiniteSet(tracked') /\ leases' = Cardinality(tracked')
         /\ row' \in [Requests -> Rows]
         /\ \A u \in Requests \ {r} : row'[u] = row[u]
         /\ r \in finished => row' = row
         /\ [Queue!Next]_(Queue!vars)
         /\ r \in finished \/ place[r] # "holding" => place'[r] = place[r]
         /\ r \notin finished /\ place[r] = "holding" => place'[r] = "done"
         /\ \A u \in Requests \ {r} :
              \/ place'[u] = place[u]
              \/ place[u] = "waiting" /\ place'[u] = "granted"
<1>1. CASE r \in finished
  BY <1>1 DEF Finish, IInv, LeasesMatch, ShapeOK, queueVars, Queue!vars
<1>2. CASE r \notin finished
  <2>1. /\ finished' = finished \cup {r} /\ tracked' = tracked \ {r}
        /\ SetRow(r, status)
        /\ leases' = IF r \in tracked /\ leases > 0 THEN leases - 1 ELSE leases
        /\ IF place[r] = "holding" THEN Queue!Release(r) ELSE UNCHANGED queueVars
    BY <1>2 DEF Finish
  <2>2. IsFiniteSet(tracked') /\ leases' = Cardinality(tracked')
    <3>1. IsFiniteSet(tracked) /\ leases = Cardinality(tracked) /\ leases \in Nat
      BY FS_CardinalityType DEF IInv, LeasesMatch
    <3>2. CASE r \in tracked
      <4>1. leases # 0
        BY <3>1, <3>2, FS_EmptySet
      <4> QED
        BY <2>1, <3>1, <3>2, <4>1, FS_RemoveElement
    <3>3. CASE r \notin tracked
      <4>1. tracked' = tracked
        BY <2>1, <3>3
      <4> QED
        BY <2>1, <3>1, <3>3, <4>1
    <3> QED
      BY <3>2, <3>3
  <2>3. row' \in [Requests -> Rows] /\ \A u \in Requests \ {r} : row'[u] = row[u]
    BY <2>1 DEF SetRow, Updated, ClosedRows, Rows, IInv, ShapeOK
  <2>4. CASE place[r] = "holding"
    <3>1. Queue!Release(r)
      BY <2>1, <2>4
    <3>2. Queue!Next
      BY <3>1 DEF Queue!Next
    <3>3. Queue!HandOver(r)
      BY <3>1 DEF Queue!Release
    <3> QED
      BY <1>2, <2>1, <2>2, <2>3, <2>4, <3>2, <3>3, HandedOver DEF IInv
  <2>5. CASE place[r] # "holding"
    <3>1. UNCHANGED Queue!vars /\ place' = place
      BY <2>1, <2>5 DEF queueVars, Queue!vars
    <3> QED
      BY <1>2, <2>1, <2>2, <2>3, <2>5, <3>1
  <2> QED
    BY <2>4, <2>5
<1> QED
  BY <1>1, <1>2

(* A handler that calls finish() and ends the await it stands in keeps the    *)
(* invariant.                                                                 *)
LEMMA FinishKeeps ==
  ASSUME IInv, NEW r \in Requests, NEW status \in ClosedRows, Finish(r, status),
         NEW s \in {"over", "closing", "sending"}, Goto(r, s),
         step[r] \in {"routing", "admitted", "preparing"} \cup Forwarded,
         UNCHANGED <<lane, phase, ops>>
  PROVE  IInv' /\ [Queue!Next]_(Queue!vars)
<1> USE DEF IInv
<1>1. /\ finished' = finished \cup {r}
      /\ tracked' = tracked \ {r}
      /\ IsFiniteSet(tracked') /\ leases' = Cardinality(tracked')
      /\ row' \in [Requests -> Rows]
      /\ \A u \in Requests \ {r} : row'[u] = row[u]
      /\ [Queue!Next]_(Queue!vars)
      /\ r \in finished \/ place[r] # "holding" => place'[r] = place[r]
      /\ r \notin finished /\ place[r] = "holding" => place'[r] = "done"
      /\ \A u \in Requests \ {r} :
           \/ place'[u] = place[u]
           \/ place[u] = "waiting" /\ place'[u] = "granted"
  BY FinishEffect
<1>2. Lane!IInv'
  BY <1>1, LaneStep
<1>3. /\ step' \in [Requests -> Steps] /\ step'[r] = s
      /\ \A u \in Requests \ {r} : step'[u] = step[u]
  BY DEF Goto, ShapeOK, Steps
<1>4. ShapeOK'
  BY <1>1, <1>3 DEF ShapeOK
<1>5. place'[r] \in {"idle", "done", "rejected"}
  BY <1>1 DEF StepFollowsPlace, BeforeLane, Forwarded, Streaming
<1>6. StepFollowsPlace'
  <2> SUFFICES ASSUME NEW u \in Requests PROVE StepFollowsPlace!(u)'
    BY DEF StepFollowsPlace
  <2>1. CASE u = r
    BY <1>1, <1>3, <1>5, <2>1 DEF BeforeLane, Streaming
  <2>2. CASE u # r
    <3>1. StepFollowsPlace!(u)
      BY DEF StepFollowsPlace
    <3>2. u \in finished' <=> u \in finished
      BY <1>1, <2>2
    <3>3. step'[u] = step[u] /\ lane' = lane
      BY <1>3, <2>2
    <3>4. CASE place'[u] = place[u]
      BY <3>1, <3>2, <3>3, <3>4
    <3>5. CASE place[u] = "waiting" /\ place'[u] = "granted"
      <4>1. u \notin finished
        BY <3>1, <3>5
      <4> QED
        BY <3>1, <3>2, <3>3, <3>5, <4>1 DEF BeforeLane, Streaming
    <3> QED
      BY <1>1, <2>2, <3>4, <3>5
  <2> QED
    BY <2>1, <2>2
<1>7. LeasesMatch'
  <2>1. \A u \in tracked' :
          /\ lane' = "local" /\ u \notin finished'
          /\ place'[u] = "holding" /\ step'[u] \in Forwarded
    BY <1>1, <1>3 DEF LeasesMatch, ShapeOK
  <2>2. \A u \in Requests :
          lane' = "local" /\ step'[u] \in Forwarded => u \in tracked' \cup finished'
    BY <1>1, <1>3 DEF LeasesMatch
  <2>3. phase' = "stopping" => leases' = 0
    <3> SUFFICES ASSUME phase = "stopping" PROVE leases' = 0
      OBVIOUS
    <3>1. tracked = {}
      BY FS_EmptySet DEF LeasesMatch
    <3> QED
      BY <1>1, <3>1, FS_EmptySet
  <2> QED
    BY <1>1, <2>1, <2>2, <2>3 DEF LeasesMatch
<1>8. RowsMatch'
  BY <1>1 DEF RowsMatch
<1> QED
  BY <1>1, <1>2, <1>4, <1>6, <1>7, <1>8

(* A step that takes and gives back no lease keeps the invariant when the     *)
(* request it moves stands where its new step says.                           *)
LEMMA MoveKeeps ==
  ASSUME IInv, NEW r \in Requests, NEW s \in Steps, Goto(r, s),
         [Queue!Next]_(Queue!vars),
         \A u \in Requests \ {r} :
           \/ place'[u] = place[u]
           \/ place[u] = "waiting" /\ place'[u] = "granted",
         finished' \in {finished, finished \cup {r}},
         NEW status \in Rows, SetRow(r, status),
         status \in ClosedRows => r \in finished',
         UNCHANGED <<tracked, slotVars>>,
         StepFollowsPlace!(r)',
         r \in tracked => place'[r] = place[r] /\ s \in Forwarded /\ finished' = finished,
         lane = "local" /\ s \in Forwarded => r \in tracked \cup finished
  PROVE  IInv'
<1> USE DEF IInv
<1>1. Lane!IInv'
  BY LaneStep
<1>2. /\ step' \in [Requests -> Steps] /\ step'[r] = s
      /\ \A u \in Requests \ {r} : step'[u] = step[u]
  BY DEF Goto, ShapeOK
<1>3. /\ row' \in [Requests -> Rows] /\ row'[r] \in {status, row[r]}
      /\ \A u \in Requests \ {r} : row'[u] = row[u]
  BY DEF SetRow, Updated, ShapeOK
<1>4. ShapeOK'
  BY <1>2, <1>3 DEF ShapeOK, slotVars
<1>5. StepFollowsPlace'
  <2> SUFFICES ASSUME NEW u \in Requests PROVE StepFollowsPlace!(u)'
    BY DEF StepFollowsPlace
  <2>1. CASE u = r
    BY <2>1
  <2>2. CASE u # r
    <3>1. StepFollowsPlace!(u)
      BY DEF StepFollowsPlace
    <3>2. /\ u \in finished' <=> u \in finished
          /\ step'[u] = step[u] /\ lane' = lane
      BY <1>2, <2>2 DEF slotVars
    <3>3. CASE place'[u] = place[u]
      BY <3>1, <3>2, <3>3
    <3>4. CASE place[u] = "waiting" /\ place'[u] = "granted"
      <4>1. u \notin finished
        BY <3>1, <3>4
      <4> QED
        BY <3>1, <3>2, <3>4, <4>1 DEF BeforeLane, Streaming
    <3> QED
      BY <2>2, <3>3, <3>4
  <2> QED
    BY <2>1, <2>2
<1>6. LeasesMatch'
  <2>1. tracked' = tracked /\ leases' = leases /\ lane' = lane /\ phase' = phase
    BY DEF slotVars
  <2>2. \A u \in tracked' :
          /\ lane' = "local" /\ u \notin finished'
          /\ place'[u] = "holding" /\ step'[u] \in Forwarded
    BY <1>2, <2>1 DEF LeasesMatch, ShapeOK
  <2>3. \A u \in Requests :
          lane' = "local" /\ step'[u] \in Forwarded => u \in tracked' \cup finished'
    BY <1>2, <2>1 DEF LeasesMatch
  <2> QED
    BY <2>1, <2>2, <2>3 DEF LeasesMatch
<1>7. RowsMatch'
  BY <1>3 DEF RowsMatch
<1> QED
  BY <1>1, <1>4, <1>5, <1>6, <1>7

(* The initial states satisfy the invariant. *)
LEMMA InitIInv == Init => IInv
<1> SUFFICES ASSUME Init PROVE IInv
  OBVIOUS
<1>1. Lane!IInv
  BY SameLane, ChatAssumption, Lane!InitIInv DEF Init
<1>2. ShapeOK
  BY ChatAssumption DEF Init, ShapeOK, Steps, Rows
<1>3. StepFollowsPlace
  BY DEF Init, StepFollowsPlace, Queue!Init, BeforeLane, Streaming
<1>4. LeasesMatch
  BY FS_EmptySet DEF Init, LeasesMatch, Forwarded, Streaming
<1>5. RowsMatch
  BY DEF Init, RowsMatch, ClosedRows
<1> QED
  BY <1>1, <1>2, <1>3, <1>4, <1>5 DEF IInv

-----------------------------------------------------------------------------
(* The steps that leave the lane, the row and the lease alone. *)
LEMMA PlainKeeps ==
  ASSUME IInv, NEW r \in Requests, NEW s \in Steps, Goto(r, s),
         UNCHANGED <<queueVars, row, finished, tracked, slotVars>>,
         \/ step[r] \in BeforeLane /\ s \in BeforeLane
         \/ step[r] = "admitted" /\ s = "preparing"
         \/ step[r] = "admitted" /\ s = "posting" /\ lane = "upstream"
         \/ step[r] \in Forwarded /\ s \in Streaming
         \/ step[r] = "sending" /\ s = "over" /\ lane = "upstream"
         \/ step[r] = "closing" /\ s = "over"
  PROVE  IInv'
<1> USE DEF IInv
<1>1. UNCHANGED Queue!vars /\ place' = place /\ lane' = lane
  BY DEF queueVars, Queue!vars, slotVars
<1>2. SetRow(r, row[r]) /\ row[r] \in Rows
  BY DEF SetRow, ShapeOK
<1>3. step'[r] = s
  BY DEF Goto, ShapeOK
<1>4. StepFollowsPlace!(r)'
  BY <1>1, <1>3 DEF StepFollowsPlace, BeforeLane, Forwarded, Streaming
<1>5. r \in tracked => s \in Forwarded
  BY DEF LeasesMatch, BeforeLane, Forwarded, Streaming
<1>6. lane = "local" /\ s \in Forwarded => r \in tracked \cup finished
  BY DEF LeasesMatch, BeforeLane, Forwarded, Streaming
<1> QED
  BY <1>1, <1>2, <1>4, <1>5, <1>6, MoveKeeps DEF RowsMatch

(* The steps into and out of the lane: what each of them does to the place of *)
(* the request and to that of the others.                                     *)
LEMMA LaneMoves ==
  ASSUME IInv, NEW r \in Requests
  PROVE  /\ Queue!AcquireNow(r) => place' = [place EXCEPT ![r] = "holding"]
         /\ Queue!Reject(r) => place' = [place EXCEPT ![r] = "rejected"]
         /\ Queue!Enqueue(r) => place' = [place EXCEPT ![r] = "waiting"]
         /\ Queue!Resume(r) => place' = [place EXCEPT ![r] = "holding"]
         /\ Queue!LeaveQueue(r) => place' = [place EXCEPT ![r] = "done"]
         /\ Queue!Cancel(r) => \/ place' = [place EXCEPT ![r] = "cancelled"]
                               \/ place' = [place EXCEPT ![r] = "revoked"]
         /\ \/ Queue!AcquireNow(r) \/ Queue!Reject(r) \/ Queue!Enqueue(r)
            \/ Queue!Resume(r) \/ Queue!LeaveQueue(r) \/ Queue!Cancel(r)
            \/ Queue!ReturnGrant(r)
            => Queue!Next
         /\ place \in [Requests -> Queue!Stages]
<1>1. place \in [Requests -> Queue!Stages]
  BY LaneFacts DEF IInv
<1> QED
  BY <1>1 DEF Queue!AcquireNow, Queue!Reject, Queue!Enqueue, Queue!Resume,
              Queue!LeaveQueue, Queue!Cancel, Queue!Next

(* Every step keeps the invariant and is a step of the lane or leaves the     *)
(* lane alone.                                                                *)
LEMMA NextIInv == IInv /\ [Next]_vars => IInv' /\ [Queue!Next]_(Queue!vars)
<1> SUFFICES ASSUME IInv, [Next]_vars PROVE IInv' /\ [Queue!Next]_(Queue!vars)
  OBVIOUS
<1>0. /\ place \in [Requests -> Queue!Stages]
      /\ step \in [Requests -> Steps] /\ row \in [Requests -> Rows]
      /\ finished \subseteq Requests /\ tracked \subseteq Requests
      /\ StepFollowsPlace /\ LeasesMatch /\ RowsMatch
  BY LaneFacts DEF IInv, ShapeOK
<1>1. ASSUME NEW r \in Requests,
             \/ Open(r) \/ Drop(r) \/ Prepare(r) \/ ForwardUpstream(r)
             \/ StreamBegins(r) \/ ClientReads(r) \/ ChunkArrives(r) \/ Closed(r)
      PROVE  IInv' /\ [Queue!Next]_(Queue!vars)
  <2>1. UNCHANGED Queue!vars
    BY <1>1 DEF Open, Drop, Prepare, ForwardUpstream, StreamBegins, ClientReads,
                ChunkArrives, Closed, queueVars, Queue!vars
  <2>2. CASE Open(r)
    <3>1. SetRow(r, "created")
      BY <2>2 DEF Open, Created, SetRow, Updated
    <3>2. place' = place /\ lane' = lane /\ step'[r] = "routing"
      BY <1>0, <2>2 DEF Open, queueVars, slotVars, Goto
    <3>3. StepFollowsPlace!(r)'
      BY <1>0, <2>2, <3>2 DEF Open, StepFollowsPlace, BeforeLane, Streaming
    <3>4. r \notin tracked
      BY <1>0, <2>2 DEF Open, LeasesMatch, Forwarded, Streaming
    <3> QED
      BY <2>1, <2>2, <3>1, <3>2, <3>3, <3>4, MoveKeeps
         DEF Open, Steps, Rows, ClosedRows, Forwarded, Streaming
  <2>3. CASE \/ Drop(r) \/ Prepare(r) \/ ForwardUpstream(r)
             \/ StreamBegins(r) \/ ClientReads(r) \/ ChunkArrives(r) \/ Closed(r)
    <3>1. PICK s \in Steps :
            /\ Goto(r, s)
            /\ UNCHANGED <<queueVars, row, finished, tracked, slotVars>>
            /\ \/ step[r] \in BeforeLane /\ s \in BeforeLane
               \/ step[r] = "admitted" /\ s = "preparing"
               \/ step[r] = "admitted" /\ s = "posting" /\ lane = "upstream"
               \/ step[r] \in Forwarded /\ s \in Streaming
               \/ step[r] = "closing" /\ s = "over"
      BY <2>3 DEF Drop, Prepare, ForwardUpstream, StreamBegins, ClientReads,
                  ChunkArrives, Closed, Steps, BeforeLane, Forwarded, Streaming
    <3> QED
      BY <2>1, <3>1, PlainKeeps
  <2> QED
    BY <1>1, <2>2, <2>3
<1>2. ASSUME NEW r \in Requests,
             \/ Refuse(r) \/ EndAdmitted(r) \/ Answered(r) \/ StreamEnds(r)
             \/ StreamBreaks(r) \/ CancelReading(r)
             \/ ClientLeaves(r) /\ lane # "upstream"
      PROVE  IInv' /\ [Queue!Next]_(Queue!vars)
  <2>1. PICK status \in ClosedRows, s \in {"over", "closing", "sending"} :
          /\ Finish(r, status) /\ Goto(r, s)
          /\ step[r] \in {"routing", "admitted", "preparing"} \cup Forwarded
          /\ UNCHANGED <<lane, phase, ops>>
    BY <1>2 DEF Refuse, EndAdmitted, Answered, StreamEnds, StreamBreaks,
                CancelReading, ClientLeaves, EndWith, ClosedRows, Forwarded, Streaming
  <2> QED
    BY <2>1, FinishKeeps
<1>3. ASSUME NEW r \in Requests, ClientLeaves(r), lane = "upstream"
      PROVE  IInv' /\ [Queue!Next]_(Queue!vars)
  <2>1. UNCHANGED Queue!vars
    BY <1>3 DEF ClientLeaves, queueVars, Queue!vars
  <2> QED
    BY <1>3, <2>1, PlainKeeps DEF ClientLeaves, slotVars, Steps
<1>4. ASSUME NEW r \in Requests, NEW s \in Steps, Goto(r, s),
             \/ AdmitNow(r) /\ s = "admitted"
             \/ AdmitFull(r) /\ s = "over"
             \/ AdmitLater(r) /\ s = "queued"
             \/ Admitted(r) /\ s = "admitted"
             \/ CancelQueued(r) /\ s = "queued"
             \/ QueuedGone(r) /\ s = "over"
      PROVE  IInv' /\ [Queue!Next]_(Queue!vars)
  <2>1. /\ \/ Queue!AcquireNow(r) \/ Queue!Reject(r) \/ Queue!Enqueue(r)
           \/ Queue!Resume(r) \/ Queue!LeaveQueue(r) \/ Queue!Cancel(r)
           \/ Queue!ReturnGrant(r)
        /\ UNCHANGED <<tracked, slotVars>>
        /\ step[r] \in {"routing", "queued"}
    BY <1>4 DEF AdmitNow, AdmitFull, AdmitLater, Admitted, CancelQueued, QueuedGone
  <2>2. Queue!Next
    BY <2>1, LaneMoves
  <2>3. /\ \A u \in Requests \ {r} :
             \/ place'[u] = place[u]
             \/ place[u] = "waiting" /\ place'[u] = "granted"
        /\ AdmitNow(r) \/ Admitted(r) => place'[r] = "holding"
        /\ AdmitFull(r) => place'[r] = "rejected"
        /\ AdmitLater(r) => place'[r] = "waiting"
        /\ CancelQueued(r) => place'[r] \in {"cancelled", "revoked"}
        /\ QueuedGone(r) => place'[r] = "done"
    <3>1. CASE Queue!ReturnGrant(r)
      <4>1. place[r] = "revoked" /\ Queue!HandOver(r)
        BY <3>1 DEF Queue!ReturnGrant
      <4>2. ~ ( \/ AdmitNow(r) \/ AdmitFull(r) \/ AdmitLater(r) \/ Admitted(r)
                \/ CancelQueued(r) )
        BY <4>1 DEF AdmitNow, AdmitFull, AdmitLater, Admitted, CancelQueued,
           Queue!AcquireNow, Queue!Reject, Queue!Enqueue, Queue!Resume, Queue!Cancel
      <4> QED
        BY <4>1, <4>2, HandedOver DEF IInv
    <3>2. CASE ~Queue!ReturnGrant(r)
      BY <1>4, <3>2, LaneMoves
         DEF AdmitNow, AdmitFull, AdmitLater, Admitted, CancelQueued, QueuedGone
    <3> QED
      BY <3>1, <3>2
  <2>4. PICK status \in Rows :
          /\ SetRow(r, status)
          /\ finished' \in {finished, finished \cup {r}}
          /\ status \in ClosedRows => r \in finished'
          /\ s = "over" => finished' = finished \cup {r}
          /\ s # "over" => finished' = finished
    BY <1>0, <1>4 DEF AdmitNow, AdmitFull, AdmitLater, Admitted, CancelQueued, QueuedGone,
       SetRow, Updated, Rows, ClosedRows, RowsMatch
  <2>5. step'[r] = s /\ r \notin tracked /\ s \notin Forwarded /\ r \notin finished
    BY <1>0, <1>4, <2>1 DEF Goto, LeasesMatch, Forwarded, Streaming, StepFollowsPlace,
       BeforeLane
  <2>6. StepFollowsPlace!(r)'
    BY <1>4, <2>3, <2>4, <2>5 DEF BeforeLane, Streaming
  <2> QED
    BY <1>4, <2>1, <2>2, <2>3, <2>4, <2>5, <2>6, MoveKeeps
<1>5. ASSUME NEW r \in Requests,
             \/ AdmitNow(r) \/ AdmitFull(r) \/ AdmitLater(r) \/ Admitted(r)
             \/ CancelQueued(r) \/ QueuedGone(r)
      PROVE  IInv' /\ [Queue!Next]_(Queue!vars)
  <2>1. CASE CancelQueued(r)
    <3>1. Goto(r, "queued")
      BY <1>0, <2>1 DEF CancelQueued, Goto
    <3> QED
      BY <1>4, <2>1, <3>1 DEF Steps
  <2>2. CASE ~CancelQueued(r)
    BY <1>4, <1>5, <2>2 DEF AdmitNow, AdmitFull, AdmitLater, Admitted, QueuedGone, Steps
  <2> QED
    BY <2>1, <2>2
<1>6. ASSUME NEW r \in Requests, ForwardLocal(r)
      PROVE  IInv' /\ [Queue!Next]_(Queue!vars)
  <2> USE <1>6 DEF ForwardLocal
  <2>1. UNCHANGED Queue!vars /\ place' = place
    BY DEF queueVars, Queue!vars
  <2>2. Lane!IInv'
    BY <2>1, LaneStep DEF IInv
  <2>3. /\ step'[r] = "posting"
        /\ \A u \in Requests \ {r} : step'[u] = step[u]
        /\ step' \in [Requests -> Steps]
    BY <1>0 DEF Goto, Steps
  <2>4. ShapeOK'
    BY <2>3 DEF IInv, ShapeOK
  <2>5. StepFollowsPlace'
    BY <1>0, <2>1, <2>3 DEF StepFollowsPlace, BeforeLane, Streaming
  <2>6. r \notin tracked /\ r \notin finished /\ place[r] = "holding"
    BY <1>0 DEF LeasesMatch, StepFollowsPlace, Forwarded, Streaming
  <2>7. IsFiniteSet(tracked') /\ leases' = Cardinality(tracked')
    BY <1>0, <2>6, FS_AddElement DEF LeasesMatch
  <2>8. LeasesMatch'
    <3>1. \A u \in tracked' :
            /\ lane' = "local" /\ u \notin finished'
            /\ place'[u] = "holding" /\ step'[u] \in Forwarded
      BY <1>0, <2>1, <2>3, <2>6 DEF LeasesMatch, Forwarded
    <3>2. \A u \in Requests :
            lane' = "local" /\ step'[u] \in Forwarded => u \in tracked' \cup finished'
      BY <1>0, <2>3 DEF LeasesMatch
    <3> QED
      BY <2>7, <3>1, <3>2 DEF LeasesMatch
  <2>9. RowsMatch'
    BY <1>0 DEF RowsMatch
  <2> QED
    BY <2>1, <2>2, <2>4, <2>5, <2>8, <2>9 DEF IInv
<1>7. CASE OpBegin \/ OpDrained \/ OpEnd \/ UNCHANGED vars
  <2>1. /\ UNCHANGED Queue!vars
        /\ UNCHANGED <<place, step, row, finished, tracked, lane, leases>>
    BY <1>7 DEF OpBegin, OpDrained, OpEnd, vars, queueVars, Queue!vars
  <2>2. Lane!IInv'
    BY <2>1, LaneStep DEF IInv
  <2>3. ShapeOK'
    BY <1>7, <2>1, ChatAssumption DEF OpBegin, OpDrained, OpEnd, vars, IInv, ShapeOK
  <2>4. StepFollowsPlace' /\ RowsMatch'
    BY <1>0, <2>1 DEF StepFollowsPlace, RowsMatch
  <2>5. LeasesMatch'
    BY <1>0, <1>7, <2>1 DEF OpBegin, OpDrained, OpEnd, vars, LeasesMatch
  <2> QED
    BY <2>1, <2>2, <2>3, <2>4, <2>5 DEF IInv
<1> QED
  BY <1>1, <1>2, <1>3, <1>5, <1>6, <1>7 DEF Next, Proceed, Rest

(* Spec implies that the requests are tasks of FleetQueue in every behaviour: *)
(* the safety half of KeepsLaneAssumptions.                                   *)
THEOREM RequestsUseLane == Spec => Queue!Spec
<1>1. Init => Queue!Init
  BY DEF Init
<1> QED
  BY <1>1, InitIInv, NextIInv, PTL DEF Spec, Queue!Spec

(* The invariant holds in every reachable state. *)
THEOREM ChatInvariant == Spec => []IInv
BY InitIInv, NextIInv, PTL DEF Spec

(* Every lease is taken under a permit, so the slot has at most as many as    *)
(* the lane has permits (try_begin_slot_request after admit()).               *)
THEOREM ChatTypeCorrect == Spec => []TypeOK
<1>1. IInv => TypeOK
  <2> SUFFICES ASSUME IInv PROVE TypeOK
    OBVIOUS
  <2>1. /\ place \in [Requests -> Queue!Stages] /\ active \in 0..MaxActive
        /\ IsFiniteSet(Queue!Occupying) /\ Cardinality(Queue!Occupying) = active
    BY LaneFacts DEF IInv
  <2>2. tracked \subseteq Queue!Occupying
    BY DEF IInv, ShapeOK, LeasesMatch, Queue!Occupying
  <2>3. /\ Cardinality(tracked) \in Nat
        /\ Cardinality(tracked) <= Cardinality(Queue!Occupying)
    BY <2>1, <2>2, FS_Subset, FS_CardinalityType
  <2> QED
    BY <2>1, <2>3, ChatAssumption DEF IInv, ShapeOK, LeasesMatch, TypeOK
<1> QED
  BY <1>1, ChatInvariant, PTL

(* Permit and lease are held exactly as long as the request is answered, by   *)
(* whatever path it ends (finish, admit, the streams' generators).            *)
THEOREM HeldExactlyWhileAnswered == Spec => []HeldWhileAnswered
<1>1. IInv => HeldWhileAnswered
  <2> SUFFICES ASSUME IInv PROVE HeldWhileAnswered
    OBVIOUS
  <2> USE DEF IInv, ShapeOK
  <2>1. FinishedHoldsNothing
    BY DEF FinishedHoldsNothing, StepFollowsPlace, LeasesMatch, Queue!Occupying
  <2>2. LeaseUnderPermit
    BY DEF LeaseUnderPermit, LeasesMatch
  <2>3. EndedHoldsNothing
    <3> SUFFICES ASSUME lane = "local",
                        NEW r \in Requests, step[r] \in {"over", "dropped"}
                 PROVE  /\ r \notin Queue!Occupying /\ r \notin tracked
                        /\ step[r] = "over" => r \in finished
      BY DEF EndedHoldsNothing
    <3>1. r \notin tracked
      BY DEF LeasesMatch, Forwarded, Streaming
    <3>2. /\ place[r] \in {"idle", "done", "rejected"}
          /\ step[r] = "over" => r \in finished
      BY DEF StepFollowsPlace, BeforeLane
    <3> QED
      BY <3>1, <3>2 DEF Queue!Occupying
  <2>4. StopFindsNobody
    <3> SUFFICES ASSUME phase = "stopping",
                        NEW r \in Requests, step[r] \in Forwarded
                 PROVE  r \in finished
      BY DEF StopFindsNobody
    <3>1. tracked = {}
      BY FS_EmptySet DEF LeasesMatch
    <3> QED
      BY <3>1 DEF LeasesMatch
  <2> QED
    BY <2>1, <2>2, <2>3, <2>4 DEF HeldWhileAnswered
<1> QED
  BY <1>1, ChatInvariant, PTL

(* A row that finish() closed is not written again.                           *)
THEOREM ClosedRowsFinal == Spec => RowFinal
<1> DEFINE Kept == \A r \in Requests : row[r] \in ClosedRows => row'[r] = row[r]
<1>1. IInv /\ [Next]_vars => [Kept]_vars
  <2> SUFFICES ASSUME IInv, Next, NEW r \in Requests, row[r] \in ClosedRows
               PROVE  row'[r] = row[r]
    OBVIOUS
  <2> USE DEF IInv
  <2>0. /\ r \in finished /\ row \in [Requests -> Rows]
        /\ step[r] \notin {"new", "routing", "queued"}
    BY DEF RowsMatch, ShapeOK, StepFollowsPlace, BeforeLane
  <2>1. ASSUME NEW u \in Requests, u # r, NEW status, SetRow(u, status)
        PROVE  row'[r] = row[r]
    BY <2>0, <2>1 DEF SetRow, Updated
  <2>2. ASSUME NEW u \in Requests,
               \/ Open(u) \/ AdmitNow(u) \/ AdmitFull(u) \/ Admitted(u) \/ QueuedGone(u)
        PROVE  row'[r] = row[r]
    <3>1. u # r
      BY <2>0, <2>2 DEF Open, AdmitNow, AdmitFull, Admitted, QueuedGone
    <3> QED
      BY <2>0, <2>1, <2>2, <3>1
         DEF Open, Created, AdmitNow, AdmitFull, Admitted, QueuedGone
  <2>3. ASSUME NEW u \in Requests, NEW status, Finish(u, status)
        PROVE  row'[r] = row[r]
    BY <2>0, <2>1, <2>3 DEF Finish
  <2>4. ASSUME NEW u \in Requests,
               \/ Refuse(u) \/ EndAdmitted(u) \/ Answered(u) \/ StreamEnds(u)
               \/ StreamBreaks(u) \/ CancelReading(u) \/ ClientLeaves(u)
        PROVE  row'[r] = row[r]
    BY <2>3, <2>4 DEF Refuse, EndAdmitted, Answered, StreamEnds, StreamBreaks,
                      CancelReading, ClientLeaves, EndWith
  <2> QED
    BY <2>2, <2>4 DEF Next, Proceed, Drop, AdmitLater, CancelQueued, Prepare,
       ForwardUpstream, ForwardLocal, StreamBegins, ClientReads, ChunkArrives, Closed,
       OpBegin, OpDrained, OpEnd, Rest, vars
<1> QED
  BY <1>1, ChatInvariant, PTL DEF Spec, RowFinal
=============================================================================
