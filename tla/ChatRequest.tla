----------------------------- MODULE ChatRequest -----------------------------
(***************************************************************************)
(* service/app.py, chat_completions: the life of the chat requests that    *)
(* share one admission lane, from the telemetry row that is opened for     *)
(* each to the `finish` that closes it, gives back the lease on the slot   *)
(* and gives back the permit of the lane.                                  *)
(*                                                                         *)
(* The lane is module FleetQueue.  For a local lane the requests are       *)
(* forwarded under a lease to one managed slot, on which operations that   *)
(* drain it may be started (module SlotCoordination has them in full); an  *)
(* upstream lane has no slot.  Between two awaits a request runs without   *)
(* interleaving; its awaits are the values of `step`.                      *)
(***************************************************************************)
EXTENDS Naturals, FiniteSets

CONSTANTS
  Requests,   (* the request tasks                                          *)
  MaxActive, MaxQueue, Ranks,       (* of the lane, see FleetQueue          *)
  Lanes,      (* the kinds of lane to consider, see lane                    *)
  MaxOps      (* bound: number of operations on the slot in a behaviour     *)

ASSUME ChatAssumption ==
  /\ MaxActive \in Nat \ {0} /\ MaxQueue \in Nat
  /\ Ranks \in SUBSET Nat /\ 0 \in Ranks
  /\ Lanes \subseteq {"local", "upstream"} /\ MaxOps \in Nat

VARIABLES
  lane,       (* local: one managed slot; upstream: forward_to_upstream     *)
  active, sequence, waiters, place, rank, ticket,   (* the lane's queue     *)
  step,       (* where each request stands, see Steps                       *)
  row,        (* status of its telemetry row                                *)
  finished,   (* the requests whose `finished` is set                       *)
  tracked,    (* the requests whose tracked_slot_id is set                  *)
  leases,     (* active_requests of the slot                                *)
  phase,      (* the slot: idle, draining or stopping                       *)
  ops         (* operations begun on the slot                               *)

queueVars == <<active, sequence, waiters, place, rank, ticket>>
slotVars == <<lane, leases, phase, ops>>
vars == <<lane, active, sequence, waiters, place, rank, ticket, step, row, finished,
          tracked, leases, phase, ops>>

Queue == INSTANCE FleetQueue WITH Tasks <- Requests, pc <- place

Steps ==
  { "new",        (* before store.create_request                               *)
    "routing",    (* awaits the Hermes refresh or the routing decision         *)
    "queued",     (* inside admit(): awaits the lane                           *)
    "admitted",   (* admit() returned                                          *)
    "preparing",  (* local: awaits the second Hermes refresh                   *)
    "posting",    (* awaits the answer of the slot or the upstream             *)
    "sending",    (* streaming: awaits the client, outside the generator       *)
    "reading",    (* streaming: awaits a chunk, inside the generator           *)
    "closing",    (* the generator ended, the last body message is sent        *)
    "dropped",    (* cancelled while routing: nothing closed the row           *)
    "over" }      (* the task ended                                            *)

Rows == {"none", "created", "admitted", "completed", "failed", "rejected"}
ClosedRows == {"completed", "failed", "rejected"}

Streaming == {"sending", "reading"}
Forwarded == {"posting"} \cup Streaming

Init ==
  /\ lane \in Lanes
  /\ Queue!Init
  /\ step = [r \in Requests |-> "new"]
  /\ row = [r \in Requests |-> "none"]
  /\ finished = {} /\ tracked = {}
  /\ leases = 0 /\ phase = "idle" /\ ops = 0

Goto(r, s) == step' = [step EXCEPT ![r] = s]

(* store.create_request, and store.update_request whatever the row says; the   *)
(* store may fail and the row is then left as it is                           *)
Created(r) == [row EXCEPT ![r] = "created"]
Updated(r, status) == [row EXCEPT ![r] = status]
SetRow(r, status) == row' \in {Updated(r, status), row}

-----------------------------------------------------------------------------
(* finish() *)

(* mutated: a second call is not noticed *)
FinishAgain(r, status) ==
  /\ finished' = finished \cup {r}
  /\ SetRow(r, status)
  /\ tracked' = tracked \ {r}
  /\ leases' = IF r \in tracked /\ leases > 0 THEN leases - 1 ELSE leases
  /\ IF place[r] = "holding" THEN Queue!Release(r) ELSE UNCHANGED queueVars

(* mutated: the permit is only given back when the row could be written *)
FinishIfWritten(r, status) ==
  IF r \in finished
  THEN UNCHANGED <<row, finished, tracked, leases, queueVars>>
  ELSE /\ finished' = finished \cup {r}
       /\ SetRow(r, status)
       /\ IF row'[r] = status
          THEN /\ tracked' = tracked \ {r}
               /\ leases' = IF r \in tracked /\ leases > 0 THEN leases - 1 ELSE leases
               /\ IF place[r] = "holding" THEN Queue!Release(r) ELSE UNCHANGED queueVars
          ELSE UNCHANGED <<tracked, leases, queueVars>>

(* the row, then the lease, then the permit, at the first call only and       *)
(* whether or not the store works                                             *)
Finish(r, status) ==
  IF r \in finished
  THEN UNCHANGED <<row, finished, tracked, leases, queueVars>>
  ELSE /\ finished' = finished \cup {r}
       /\ SetRow(r, status)
       /\ tracked' = tracked \ {r}
       /\ leases' = IF r \in tracked /\ leases > 0 THEN leases - 1 ELSE leases
       /\ IF place[r] = "holding" THEN Queue!Release(r) ELSE UNCHANGED queueVars

(* finish() before the request asked for a permit or got its lease *)
EndWith(r, status) ==
  /\ Finish(r, status)
  /\ Goto(r, "over")
  /\ UNCHANGED <<lane, phase, ops>>

-----------------------------------------------------------------------------
(* Before admission. *)

(* create_request, and the refusals that need no await: local_only, a slot    *)
(* under an operation, an unknown pinned model                                *)
Open(r) ==
  /\ step[r] = "new"
  /\ row' = Created(r)
  /\ Goto(r, "routing")
  /\ UNCHANGED <<queueVars, finished, tracked, slotVars>>

(* the refresh or the decision ends the request *)
Refuse(r) ==
  /\ step[r] = "routing"
  /\ \E status \in {"failed", "rejected"} : EndWith(r, status)

(* CancelledError in an await no handler surrounds *)
Drop(r) ==
  /\ step[r] = "routing"
  /\ Goto(r, "dropped")
  /\ UNCHANGED <<queueVars, row, finished, tracked, slotVars>>

-----------------------------------------------------------------------------
(* admit(): acquire() of the lane, and what follows when it returns.          *)

(* the row says admitted, unless the store fails: then finish() is called     *)
AdmitNow(r) ==
  /\ step[r] = "routing"
  /\ Queue!AcquireNow(r)
  /\ SetRow(r, "admitted")
  /\ Goto(r, "admitted")
  /\ UNCHANGED <<finished, tracked, slotVars>>

(* mutated: a full lane is ignored *)
AdmitFullAnyway(r) ==
  /\ step[r] = "routing"
  /\ ~Queue!FastPath /\ Queue!QueueIsFull
  /\ SetRow(r, "admitted")
  /\ Goto(r, "admitted")
  /\ UNCHANGED <<queueVars, finished, tracked, slotVars>>

AdmitFull(r) ==
  /\ step[r] = "routing"
  /\ Queue!Reject(r)
  /\ SetRow(r, "rejected")
  /\ finished' = finished \cup {r}
  /\ Goto(r, "over")
  /\ UNCHANGED <<tracked, slotVars>>

AdmitLater(r) ==
  /\ step[r] = "routing"
  /\ Queue!Enqueue(r)
  /\ Goto(r, "queued")
  /\ UNCHANGED <<row, finished, tracked, slotVars>>

Admitted(r) ==
  /\ step[r] = "queued"
  /\ Queue!Resume(r)
  /\ SetRow(r, "admitted")
  /\ Goto(r, "admitted")
  /\ UNCHANGED <<finished, tracked, slotVars>>

CancelQueued(r) ==
  /\ step[r] = "queued"
  /\ Queue!Cancel(r)
  /\ UNCHANGED <<step, row, finished, tracked, slotVars>>

(* acquire() cleans up after itself and admit() closes the row *)
QueuedGone(r) ==
  /\ step[r] = "queued"
  /\ Queue!LeaveQueue(r) \/ Queue!ReturnGrant(r)
  /\ SetRow(r, "failed")
  /\ finished' = finished \cup {r}
  /\ Goto(r, "over")
  /\ UNCHANGED <<tracked, slotVars>>

-----------------------------------------------------------------------------
(* From the admission to the answer. *)

(* the store fails in admit(), disclosure denies the upstream, the prompt     *)
(* cache answers, or the preparation raises                                   *)
EndAdmitted(r) ==
  /\ step[r] \in {"admitted", "preparing"}
  /\ \E status \in {"completed", "failed", "rejected"} : EndWith(r, status)

Prepare(r) ==
  /\ lane = "local"
  /\ step[r] = "admitted"
  /\ Goto(r, "preparing")
  /\ UNCHANGED <<queueVars, row, finished, tracked, slotVars>>

ForwardUpstream(r) ==
  /\ lane = "upstream"
  /\ step[r] = "admitted"
  /\ Goto(r, "posting")
  /\ UNCHANGED <<queueVars, row, finished, tracked, slotVars>>

(* try_begin_slot_request; what it refuses ends in EndAdmitted *)
ForwardLocal(r) ==
  /\ lane = "local"
  /\ step[r] \in {"admitted", "preparing"}
  /\ phase = "idle"
  /\ leases' = leases + 1
  /\ tracked' = tracked \cup {r}
  /\ Goto(r, "posting")
  /\ UNCHANGED <<queueVars, row, finished, lane, phase, ops>>

(* the answer came whole, or was an error, timed out, or the task was         *)
(* cancelled: every branch calls finish()                                     *)
Answered(r) ==
  /\ step[r] = "posting"
  /\ \E status \in {"completed", "failed"} : EndWith(r, status)

(* the response of a streaming request is returned: its headers are sent *)
StreamBegins(r) ==
  /\ step[r] = "posting"
  /\ Goto(r, "sending")
  /\ UNCHANGED <<queueVars, row, finished, tracked, slotVars>>

(* the client took what was sent and the generator asks for the next chunk *)
ClientReads(r) ==
  /\ step[r] = "sending"
  /\ Goto(r, "reading")
  /\ UNCHANGED <<queueVars, row, finished, tracked, slotVars>>

ChunkArrives(r) ==
  /\ step[r] = "reading"
  /\ Goto(r, "sending")
  /\ UNCHANGED <<queueVars, row, finished, tracked, slotVars>>

(* the upstream closes the stream, complete or not, or fails: finish() inside *)
(* the generator                                                              *)
StreamEnds(r) ==
  /\ step[r] = "reading"
  /\ \E status \in {"completed", "failed"} : Finish(r, status)
  /\ Goto(r, "closing")
  /\ UNCHANGED <<lane, phase, ops>>

(* a failure that still has an error event to send *)
StreamBreaks(r) ==
  /\ step[r] = "reading"
  /\ Finish(r, "failed")
  /\ Goto(r, "sending")
  /\ UNCHANGED <<lane, phase, ops>>

Closed(r) ==
  /\ step[r] = "closing"
  /\ Goto(r, "over")
  /\ UNCHANGED <<queueVars, row, finished, tracked, slotVars>>

(* CancelledError reaches the generator at its await: both generators handle it *)
CancelReading(r) ==
  /\ step[r] = "reading"
  /\ EndWith(r, "failed")

(* mutated: a plain StreamingResponse for the local stream *)
ClientLeavesPlain(r) ==
  /\ step[r] = "sending"
  /\ Goto(r, "over")
  /\ UNCHANGED <<queueVars, row, finished, tracked, slotVars>>

(* the client leaves while the response is being sent, maybe before the       *)
(* generator has started: the generator is only closed (GeneratorExit), which *)
(* the upstream generator does not handle; the local response calls on_close  *)
ClientLeaves(r) ==
  /\ step[r] = "sending"
  /\ Goto(r, "over")
  /\ UNCHANGED <<lane, phase, ops>>
  /\ IF lane = "upstream"
     THEN UNCHANGED <<queueVars, row, finished, tracked, leases>>
     ELSE Finish(r, "failed")

-----------------------------------------------------------------------------
(* An operation that drains the slot: begin_slot_operation, wait_for_slot_idle *)
(* and set_slot_phase, finish_slot_operation.                                 *)
OpBegin ==
  /\ lane = "local"
  /\ phase = "idle" /\ ops < MaxOps
  /\ phase' = "draining" /\ ops' = ops + 1
  /\ UNCHANGED <<queueVars, step, row, finished, tracked, lane, leases>>

OpDrained ==
  /\ phase = "draining"
  /\ leases = 0
  /\ phase' = "stopping"
  /\ UNCHANGED <<queueVars, step, row, finished, tracked, lane, leases, ops>>

OpEnd ==
  /\ phase = "stopping"
  /\ phase' = "idle"
  /\ UNCHANGED <<queueVars, step, row, finished, tracked, lane, leases, ops>>

Ended == \A r \in Requests : step[r] \in {"over", "dropped"}
Rest == Ended /\ phase = "idle" /\ UNCHANGED vars

(* the steps of a request that end its current await or follow from it *)
Proceed(r) ==
  \/ Refuse(r) \/ AdmitNow(r) \/ AdmitFull(r) \/ AdmitLater(r) \/ Admitted(r)
  \/ QueuedGone(r) \/ EndAdmitted(r) \/ Prepare(r) \/ ForwardUpstream(r)
  \/ ForwardLocal(r) \/ Answered(r) \/ StreamBegins(r) \/ Closed(r)

Next ==
  \/ \E r \in Requests :
       \/ Open(r) \/ Drop(r) \/ CancelQueued(r) \/ Proceed(r)
       \/ ClientReads(r) \/ ChunkArrives(r) \/ StreamEnds(r) \/ StreamBreaks(r)
       \/ CancelReading(r) \/ ClientLeaves(r)
  \/ OpBegin \/ OpDrained \/ OpEnd
  \/ Rest

Spec == Init /\ [][Next]_vars

(* Ready tasks run and every forwarded call ends (_FORWARD_TIMEOUT_SECONDS is *)
(* the total of a stream too, so it cannot go on for ever).  The client of a  *)
(* stream reads or leaves: nothing in the code makes it.                      *)
Fairness ==
  /\ \A r \in Requests :
       /\ WF_vars(Proceed(r))
       /\ SF_vars(StreamEnds(r))
       /\ WF_vars(ClientReads(r) \/ ClientLeaves(r))
  /\ WF_vars(OpDrained \/ OpEnd)

FairSpec == Spec /\ Fairness

-----------------------------------------------------------------------------
(* Properties *)

(* The state has its shape; the slot is never leased more often than the lane *)
(* has permits, because every lease is taken under one.                       *)
TypeOK ==
  /\ lane \in Lanes
  /\ active \in 0..MaxActive /\ place \in [Requests -> Queue!Stages]
  /\ step \in [Requests -> Steps]
  /\ row \in [Requests -> Rows]
  /\ finished \subseteq Requests /\ tracked \subseteq Requests
  /\ leases \in 0..MaxActive
  /\ phase \in {"idle", "draining", "stopping"}
  /\ ops \in 0..MaxOps

(* When finish() has run for a request, by whatever path and even if the      *)
(* telemetry store failed, the request holds no permit and no lease.          *)
FinishedHoldsNothing ==
  \A r \in finished : r \notin Queue!Occupying /\ r \notin tracked

(* A lease is only held under a permit of the lane, by a request that is      *)
(* still being forwarded, and the slot's counter counts exactly the holders.  *)
LeaseUnderPermit ==
  /\ leases = Cardinality(tracked)
  /\ \A r \in tracked : place[r] = "holding" /\ step[r] \in Forwarded

(* The task of a local request never ends with the permit or the lease in     *)
(* hand: not when its client leaves while the response is being sent, not     *)
(* when it was cancelled in the queue after its grant.                        *)
EndedHoldsNothing ==
  lane = "local" =>
    \A r \in Requests : step[r] \in {"over", "dropped"} =>
      /\ r \notin Queue!Occupying /\ r \notin tracked
      /\ step[r] = "over" => r \in finished

(* While an operation stops the slot's process no request is being answered   *)
(* by it: the drain waited for streams that are still being sent too.         *)
StopFindsNobody ==
  phase = "stopping" => \A r \in Requests : step[r] \in Forwarded => r \in finished

(* Permit and lease are held exactly as long as the request is answered: no   *)
(* longer, by whatever path it ends, and no shorter.                          *)
HeldWhileAnswered ==
  FinishedHoldsNothing /\ LeaseUnderPermit /\ EndedHoldsNothing /\ StopFindsNobody

(* "close telemetry exactly once" (CHANGELOG.md): a closed row is not         *)
(* written again, even when the client leaves after a failure was recorded.   *)
RowFinal ==
  [][\A r \in Requests : row[r] \in ClosedRows => row'[r] = row[r]]_vars

(* A drain of the slot ends, whatever the requests in flight do: each of them *)
(* ends and gives its lease back.                                             *)
OperationEnds == phase # "idle" ~> phase = "idle"

(* The requests use the lane as FleetQueue has its tasks do, and on a local   *)
(* lane with the fairness it assumes: in the end whoever was granted a permit *)
(* has returned it, and whoever was cancelled has left.  Hence what FleetQueue *)
(* promises its waiters.                                                      *)
KeepsLaneAssumptions ==
  /\ Queue!Spec
  /\ <>[](lane = "local" =>
          \A r \in Requests : place[r] \notin {"granted", "holding", "cancelled", "revoked"})

(* "streaming holds admission until completion, failure, or client            *)
(* disconnect" (CHANGELOG.md): a request that is over has given its permit    *)
(* back.                                                                      *)
PermitReturned ==
  \A r \in Requests : step[r] = "over" => r \notin Queue!Occupying
=============================================================================
