----------------------- MODULE SlotCoordinationProofs -----------------------
(***************************************************************************)
(* Theorems about SlotCoordination, for any slots, any control calls, any  *)
(* finite set of requests and any number of commands, crashes and          *)
(* automatic restarts.                                                     *)
(***************************************************************************)
EXTENDS SlotCoordination, FiniteSetTheorems, TLAPS

(* A control call's step tells what it does, and whether it owns a slot. *)
CallShape ==
  \A c \in Callers :
    /\ call[c].kind = "none" => call[c] = NoCall
    /\ call[c].step = "none" => call[c].kind = "none"
    /\ call[c].slot # NoSlot <=> call[c].step \in {"drain", "backend"}
    /\ call[c].kind = "start" => call[c].step = "backend"
    /\ call[c].kind = "stop" => call[c].step \in {"drain", "backend"}
    /\ call[c].step = "cancelling" => call[c].todo = Slots

(* So does the monitor's; and it is only being cancelled while a stop_all     *)
(* that has not come to any slot yet waits for its end.                       *)
MonitorShape ==
  /\ mon.slot # NoSlot <=> mon.pc \in {"drain", "backend"}
  /\ mon.cancelled => mon.pc # "off" /\ \E c \in Callers : call[c].step = "cancelling"
  /\ mon.pc = "drain" => attempts[mon.slot] < MaxAttempts

(* OneOperation without cardinalities. *)
OneOwner ==
  /\ \A s \in Slots, c, d \in Callers : Operating(c, s) /\ Operating(d, s) => c = d
  /\ \A s \in Slots, c \in Callers : ~(Operating(c, s) /\ MonitorOperating(s))
  /\ \A s \in Slots :
       phase[s] # "idle" <=> MonitorOperating(s) \/ \E c \in Callers : Operating(c, s)

(* A stop that is past its drain meets no lease. *)
StopPrepared ==
  \A c \in Callers :
    call[c].kind \in {"stop", "stop_all"} /\ call[c].step = "backend"
      => leases[call[c].slot] = 0

(* Whoever is about to spawn a process works on a slot that is not stopped by *)
(* hand.                                                                      *)
SpawnAllowed ==
  /\ \A c \in Callers : call[c].kind = "start" => ~manualStop[call[c].slot]
  /\ mon.pc \in {"drain", "backend"} => ~manualStop[mon.slot]

(* A request past its choice has a slot. *)
RequestShape ==
  \A r \in Requests :
    /\ req[r].pc \in {"choosing", "prerouted", "routed", "leased", "direct"}
         => req[r].slot \in Slots
    /\ req[r].pinned => req[r].slot \in Slots

(* The epoch of a slot has not gone back since a request captured it, and as  *)
(* long as it is the same no process was spawned.                             *)
EpochTells ==
  \A r \in Requests :
    req[r].pinned =>
      /\ req[r].epoch <= epoch[req[r].slot]
      /\ req[r].epoch = epoch[req[r].slot] => req[r].gen = gen[req[r].slot]

IInv ==
  /\ TypeOK
  /\ CallShape
  /\ MonitorShape
  /\ OneOwner
  /\ LeasesAccounted
  /\ StopPrepared
  /\ SpawnAllowed
  /\ RequestShape
  /\ EpochTells
  /\ MonitorWatches

-----------------------------------------------------------------------------
(* The initial state satisfies the invariant. *)
LEMMA InitIInv == Init => IInv
<1> SUFFICES ASSUME Init PROVE IInv
  OBVIOUS
<1> USE CoordinationAssumption
<1>1. Cardinality(Requests) \in Nat
  BY FS_CardinalityType
<1>2. MonitorOff \in Monitors /\ NoCall \in Calls /\ NewReq \in ReqRecords
  BY DEF MonitorOff, Monitors, NoCall, Calls, NewReq, Req, ReqRecords, ProcStates
<1>3. TypeOK
  BY <1>1, <1>2 DEF Init, TypeOK, Phases, ProcStates
<1>4. \A s \in Slots : LeasedOn(s) = {}
  BY DEF Init, LeasedOn, NewReq, Req
<1>5. LeasesAccounted
  BY <1>4, FS_EmptySet DEF Init, LeasesAccounted
<1>6. CallShape /\ StopPrepared
  BY DEF Init, CallShape, StopPrepared, NoCall
<1>7. MonitorShape
  BY DEF Init, MonitorShape, MonitorOff
<1>8. OneOwner /\ SpawnAllowed
  BY DEF Init, OneOwner, SpawnAllowed, Operating, MonitorOperating, NoCall, MonitorOff
<1>9. RequestShape /\ EpochTells
  BY DEF Init, RequestShape, EpochTells, NewReq, Req
<1>10. MonitorWatches
  BY DEF Init, MonitorWatches
<1> QED
  BY <1>3, <1>5, <1>6, <1>7, <1>8, <1>9, <1>10 DEF IInv

-----------------------------------------------------------------------------
(* What the steps of the requests leave alone: all but the leases and their   *)
(* own records.                                                               *)
RequestStep ==
  \/ \E r \in Requests, s \in Slots : PreRoute(r, s) \/ Choose(r, s)
  \/ \E r \in Requests :
       \/ Decide(r) \/ Lease(r) \/ Finish(r) \/ GiveUp(r)
       \/ ForwardDirect(r) \/ EndDirect(r)

LEMMA RequestFrame ==
  RequestStep =>
    UNCHANGED <<phase, epoch, manualStop, attempts, proc, gen, call, mon, commands, crashes>>
BY DEF RequestStep, PreRoute, Choose, Decide, Lease, Finish, GiveUp, ForwardDirect, EndDirect

(* Conversely, nobody else touches them. *)
OtherStep ==
  \/ \E c \in Callers, s \in Slots : StartBegin(c, s) \/ StopBegin(c, s)
  \/ \E c \in Callers : StopAllBegin(c) \/ CallStep(c)
  \/ MonitorStep
  \/ \E s \in Slots : Notice(s) \/ Crash(s)
  \/ UNCHANGED vars

LEMMA OtherFrame == OtherStep => UNCHANGED <<leases, req>>
BY DEF OtherStep, CallStep, MonitorStep, StartBegin, StopBegin, StopAllBegin, StartFinish,
       StopDrained, StopFinish, StopAllEnd, StopAllNext, MonitorPoll, MonitorProbe,
       MonitorWalk, MonitorVisit, MonitorPassEnds, MonitorDrained, MonitorRestarted,
       MonitorEnds, Notice, Crash, vars

LEMMA NextCases == [Next]_vars => RequestStep \/ OtherStep
BY DEF Next, RequestStep, OtherStep, Rest

-----------------------------------------------------------------------------
(* The outcomes of the backend keep the types, and spawn a process only for   *)
(* the slot they were called for.                                             *)
LEMMA BackendType ==
  ASSUME TypeOK, NEW s \in Slots, BackendStart(s)
  PROVE  /\ proc' \in [Slots -> ProcStates] /\ gen' \in [Slots -> Nat]
         /\ \A u \in Slots \ {s} : gen'[u] = gen[u] /\ proc'[u] = proc[u]
         /\ proc'[s] # "absent"
BY DEF TypeOK, BackendStart, ProcStates

LEMMA StopType ==
  ASSUME TypeOK, NEW s \in Slots, BackendStop(s)
  PROVE  /\ proc' \in [Slots -> ProcStates]
         /\ \A u \in Slots : proc'[u] # proc[u] => u = s /\ proc'[u] = "absent"
BY DEF TypeOK, BackendStop, ProcStates

LEMMA FinishType ==
  ASSUME TypeOK, NEW s \in Slots, FinishOperation(s)
  PROVE  /\ phase' \in [Slots -> Phases] /\ epoch' \in [Slots -> Nat]
         /\ phase'[s] = "idle" /\ epoch'[s] = epoch[s] + 1
         /\ \A u \in Slots \ {s} : phase'[u] = phase[u] /\ epoch'[u] = epoch[u]
BY DEF TypeOK, FinishOperation, Phases

(* A call that owns a slot owns one of Slots; so does the monitor. *)
LEMMA OwnedSlot ==
  ASSUME TypeOK, CallShape, MonitorShape
  PROVE  /\ \A c \in Callers :
              call[c].step \in {"drain", "backend"} => call[c].slot \in Slots
         /\ mon.pc \in {"drain", "backend"} => mon.slot \in Slots
BY DEF TypeOK, CallShape, MonitorShape, Calls, Monitors

(* The records the monitor is set to. *)
LEMMA MonitorValues ==
  ASSUME mon \in Monitors
  PROVE  /\ MonitorOff.pc = "off" /\ MonitorOff.slot = NoSlot /\ ~MonitorOff.cancelled
         /\ LET sleep == [MonitorOff EXCEPT !.pc = "sleep"]
            IN  sleep.pc = "sleep" /\ sleep.slot = NoSlot /\ ~sleep.cancelled
         /\ \A todo \in SUBSET Slots :
              LET poll == [MonitorOff EXCEPT !.pc = "poll", !.todo = todo]
              IN  poll.pc = "poll" /\ poll.slot = NoSlot /\ ~poll.cancelled
         /\ LET walk == [mon EXCEPT !.pc = "walk", !.slot = NoSlot]
            IN  walk.pc = "walk" /\ walk.slot = NoSlot /\ walk.cancelled = mon.cancelled
BY DEF MonitorOff, Monitors

(* The types are preserved by the control calls ...                           *)
LEMMA TypeCalls ==
  ASSUME IInv, NEW c \in Callers,
         \/ \E s \in Slots : StartBegin(c, s) \/ StopBegin(c, s)
         \/ StopAllBegin(c) \/ CallStep(c)
  PROVE  TypeOK'
<1> USE CoordinationAssumption
<1>1. TypeOK /\ CallShape /\ MonitorShape
  BY DEF IInv
<1>2. call[c].step \in {"drain", "backend"} => call[c].slot \in Slots
  BY <1>1, OwnedSlot
<1>3. MonitorOff \in Monitors /\ NoCall \in Calls
      /\ [MonitorOff EXCEPT !.pc = "sleep"] \in Monitors
  BY DEF MonitorOff, Monitors, NoCall, Calls, ProcStates
<1>4. ASSUME NEW s \in Slots, StartBegin(c, s) PROVE TypeOK'
  BY <1>1, <1>4 DEF StartBegin, TypeOK, BeginOperation, Phases, ClearManualStop, Calls
<1>5. ASSUME NEW s \in Slots, StopBegin(c, s) PROVE TypeOK'
  BY <1>1, <1>5 DEF StopBegin, TypeOK, BeginOperation, Phases, Calls
<1>6. CASE StopAllBegin(c)
  <2>1. call' \in [Callers -> Calls]
    BY <1>1, <1>6 DEF StopAllBegin, TypeOK, Calls
  <2>2. mon' \in Monitors
    BY <1>1, <1>6 DEF StopAllBegin, TypeOK, Monitors
  <2> QED
    BY <1>1, <1>6, <2>1, <2>2 DEF StopAllBegin, TypeOK
<1>7. CASE StartFinish(c)
  <2> DEFINE s == call[c].slot
  <2>1. s \in Slots
    BY <1>1, <1>2, <1>7 DEF StartFinish, CallShape
  <2>2. proc' \in [Slots -> ProcStates] /\ gen' \in [Slots -> Nat]
    BY <1>1, <1>7, <2>1, BackendType DEF StartFinish
  <2>3. mon' \in Monitors
    BY <1>1, <1>3, <1>7 DEF StartFinish, ReviveMonitor, TypeOK
  <2>4. phase' \in [Slots -> Phases] /\ epoch' \in [Slots -> Nat]
    BY <1>1, <1>7, <2>1, FinishType DEF StartFinish
  <2>5. call' \in [Callers -> Calls]
    BY <1>1, <1>3, <1>7 DEF StartFinish, TypeOK
  <2>6. attempts' = [attempts EXCEPT ![s] = 0] \/ attempts' = attempts
    BY <1>7 DEF StartFinish
  <2>7. attempts' \in [Slots -> 0..MaxAttempts]
    BY <1>1, <2>6 DEF TypeOK
  <2> QED
    BY <1>1, <1>7, <2>2, <2>3, <2>4, <2>5, <2>7 DEF StartFinish, TypeOK
<1>8. CASE StopDrained(c)
  BY <1>1, <1>8 DEF StopDrained, TypeOK, Calls, Phases
<1>9. CASE StopFinish(c)
  <2> DEFINE s == call[c].slot
  <2>1. s \in Slots
    BY <1>2, <1>9 DEF StopFinish
  <2>2. proc' \in [Slots -> ProcStates]
    BY <1>1, <1>9, <2>1, StopType DEF StopFinish
  <2>3. phase' \in [Slots -> Phases] /\ epoch' \in [Slots -> Nat]
    BY <1>1, <1>9, <2>1, FinishType DEF StopFinish
  <2>5. manualStop' \in [Slots -> BOOLEAN]
    BY <1>1, <1>9 DEF StopFinish, RememberStop, TypeOK
  <2>4. call' \in [Callers -> Calls]
    BY <1>1, <1>3, <1>9 DEF StopFinish, TypeOK, Calls
  <2> QED
    BY <1>1, <1>9, <2>2, <2>3, <2>4, <2>5 DEF StopFinish, TypeOK
<1>10. CASE StopAllEnd(c)
  BY <1>1, <1>3, <1>10 DEF StopAllEnd, TypeOK
<1>11. ASSUME NEW s \in Slots, StopAllNext(c, s) PROVE TypeOK'
  BY <1>1, <1>11 DEF StopAllNext, TypeOK, Calls, BeginOperation, Phases
<1> QED
  BY <1>4, <1>5, <1>6, <1>7, <1>8, <1>9, <1>10, <1>11 DEF CallStep

(* ... and by the restart monitor, which counts a    *)
(* restart only of a slot that has attempts left (MonitorShape).              *)
LEMMA TypeMonitor == IInv /\ MonitorStep => TypeOK'
<1> SUFFICES ASSUME IInv, MonitorStep PROVE TypeOK'
  OBVIOUS
<1> USE CoordinationAssumption
<1>1. TypeOK /\ CallShape /\ MonitorShape
  BY DEF IInv
<1>2. mon.pc \in {"drain", "backend"} => mon.slot \in Slots
  BY <1>1, OwnedSlot
<1>3. /\ MonitorOff \in Monitors
      /\ [MonitorOff EXCEPT !.pc = "sleep"] \in Monitors
      /\ \A todo \in SUBSET Slots : [MonitorOff EXCEPT !.pc = "poll", !.todo = todo] \in Monitors
  BY DEF MonitorOff, Monitors, ProcStates
<1>4. CASE MonitorPoll
  BY <1>1, <1>3, <1>4 DEF MonitorPoll, TypeOK
<1>5. ASSUME NEW s \in Slots, MonitorProbe(s) PROVE TypeOK'
  BY <1>1, <1>5 DEF MonitorProbe, TypeOK, Monitors, ProcStates
<1>6. CASE MonitorWalk
  BY <1>1, <1>6 DEF MonitorWalk, TypeOK, Monitors
<1>7. ASSUME NEW s \in Slots, MonitorVisit(s) PROVE TypeOK'
  <2>1. mon' \in Monitors
    <3>1. /\ [mon EXCEPT !.pc = "drain", !.slot = s, !.todo = @ \ {s}] \in Monitors
          /\ [mon EXCEPT !.todo = @ \ {s}] \in Monitors
      BY <1>1 DEF TypeOK, Monitors
    <3>2. \/ mon' = [mon EXCEPT !.pc = "drain", !.slot = s, !.todo = @ \ {s}]
          \/ mon' = [mon EXCEPT !.todo = @ \ {s}]
      BY <1>7 DEF MonitorVisit
    <3> QED
      BY <3>1, <3>2
  <2>2. attempts' = [attempts EXCEPT ![s] = 0] \/ attempts' = attempts
    BY <1>7 DEF MonitorVisit
  <2>3. phase' = [phase EXCEPT ![s] = "auto_restarting"] \/ phase' = phase
    BY <1>7 DEF MonitorVisit
  <2>4. attempts' \in [Slots -> 0..MaxAttempts] /\ phase' \in [Slots -> Phases]
    BY <1>1, <2>2, <2>3 DEF TypeOK, Phases
  <2> QED
    BY <1>1, <1>7, <2>1, <2>4 DEF MonitorVisit, TypeOK
<1>8. CASE MonitorPassEnds
  BY <1>1, <1>3, <1>8 DEF MonitorPassEnds, TypeOK
<1>9. CASE MonitorDrained
  BY <1>1, <1>2, <1>9 DEF MonitorDrained, TypeOK, Monitors, MonitorShape
<1>10. CASE MonitorRestarted
  <2>1. proc' \in [Slots -> ProcStates] /\ gen' \in [Slots -> Nat]
    BY <1>1, <1>2, <1>10, BackendType DEF MonitorRestarted
  <2>2. mon' \in Monitors
    <3>1. [mon EXCEPT !.pc = "walk", !.slot = NoSlot] \in Monitors
      BY <1>1 DEF TypeOK, Monitors
    <3> QED
      BY <1>3, <1>10, <3>1 DEF MonitorRestarted
  <2>3. phase' \in [Slots -> Phases] /\ epoch' \in [Slots -> Nat]
    BY <1>1, <1>2, <1>10, FinishType DEF MonitorRestarted
  <2> QED
    BY <1>1, <1>10, <2>1, <2>2, <2>3 DEF MonitorRestarted, TypeOK
<1>11. CASE MonitorEnds
  <2>1. proc' \in [Slots -> ProcStates] /\ gen' \in [Slots -> Nat]
    BY <1>1, <1>2, <1>11, BackendType DEF MonitorEnds, TypeOK
  <2>2. mon' \in Monitors /\ call' \in [Callers -> Calls]
    BY <1>1, <1>3, <1>11 DEF MonitorEnds, TypeOK, Calls
  <2>3. phase' \in [Slots -> Phases] /\ epoch' \in [Slots -> Nat]
    BY <1>1, <1>2, <1>11, FinishType DEF MonitorEnds, TypeOK
  <2> QED
    BY <1>1, <1>11, <2>1, <2>2, <2>3 DEF MonitorEnds, TypeOK
<1> QED
  BY <1>4, <1>5, <1>6, <1>7, <1>8, <1>9, <1>10, <1>11 DEF MonitorStep

(* Every lease that is taken or given back is the request's own. *)
LEMMA LeasesStep == IInv /\ [Next]_vars => LeasesAccounted'
<1> SUFFICES ASSUME IInv, [Next]_vars PROVE LeasesAccounted'
  OBVIOUS
<1> USE CoordinationAssumption
<1>1. TypeOK /\ RequestShape /\ LeasesAccounted
  BY DEF IInv
<1>2. \A s \in Slots : IsFiniteSet(LeasedOn(s)) /\ Cardinality(LeasedOn(s)) \in Nat
  BY FS_Subset, FS_CardinalityType DEF LeasedOn
<1>3. ASSUME \A s \in Slots : LeasedOn(s)' = LeasedOn(s), leases' = leases
      PROVE  LeasesAccounted'
  BY <1>1, <1>3 DEF LeasesAccounted
<1>4. CASE OtherStep
  <2>1. leases' = leases /\ req' = req
    BY <1>4, OtherFrame
  <2> QED
    BY <1>3, <2>1 DEF LeasedOn
<1>5. ASSUME NEW r \in Requests, Lease(r) PROVE LeasesAccounted'
  <2>1. PICK s \in Slots : s = req[r].slot /\ req[r].pc = "routed"
    BY <1>1, <1>5 DEF Lease, RequestShape
  <2>2. CASE LeaseAvailable(r)
    <3>1. leases' = [leases EXCEPT ![s] = @ + 1] /\ req' = [req EXCEPT ![r].pc = "leased"]
      BY <1>5, <2>1, <2>2 DEF Lease
    <3>2. r \notin LeasedOn(s) /\ LeasedOn(s)' = LeasedOn(s) \cup {r}
          /\ \A u \in Slots \ {s} : LeasedOn(u)' = LeasedOn(u)
      BY <1>1, <2>1, <3>1 DEF LeasedOn, TypeOK, ReqRecords
    <3>3. Cardinality(LeasedOn(s)') = Cardinality(LeasedOn(s)) + 1
      BY <1>2, <2>1, <3>2, FS_AddElement
    <3> QED
      BY <1>1, <2>1, <3>1, <3>2, <3>3 DEF LeasesAccounted, TypeOK
  <2>3. CASE ~LeaseAvailable(r)
    <3>1. leases' = leases /\ req' = [req EXCEPT ![r] = OverReq]
      BY <1>5, <2>3 DEF Lease
    <3>2. \A u \in Slots : LeasedOn(u)' = LeasedOn(u)
      BY <1>1, <2>1, <3>1 DEF LeasedOn, TypeOK, OverReq, Req
    <3> QED
      BY <1>3, <3>1, <3>2
  <2> QED
    BY <2>2, <2>3
<1>6. ASSUME NEW r \in Requests, Finish(r) PROVE LeasesAccounted'
  <2>1. PICK s \in Slots : s = req[r].slot /\ r \in LeasedOn(s)
    BY <1>1, <1>6 DEF Finish, RequestShape, LeasedOn
  <2>5. /\ req' = [req EXCEPT ![r] = OverReq] /\ OverReq.pc = "over"
        /\ leases' = [leases EXCEPT ![s] = IF leases[s] > 0 THEN leases[s] - 1 ELSE 0]
    BY <1>6, <2>1 DEF Finish, OverReq, Req
  <2>2. LeasedOn(s)' = LeasedOn(s) \ {r}
        /\ \A u \in Slots \ {s} : LeasedOn(u)' = LeasedOn(u)
    BY <1>1, <2>1, <2>5 DEF LeasedOn, TypeOK
  <2>3. Cardinality(LeasedOn(s)') = Cardinality(LeasedOn(s)) - 1
    BY <1>2, <2>1, <2>2, FS_RemoveElement
  <2>4. Cardinality(LeasedOn(s)) > 0
    BY <1>2, <2>1, FS_EmptySet
  <2> QED
    BY <1>1, <1>2, <2>1, <2>2, <2>3, <2>4, <2>5 DEF LeasesAccounted, TypeOK
<1>7. ASSUME NEW r \in Requests,
             \/ \E s \in Slots : PreRoute(r, s) \/ Choose(r, s)
             \/ Decide(r) \/ GiveUp(r) \/ ForwardDirect(r) \/ EndDirect(r)
      PROVE  LeasesAccounted'
  <2>1. leases' = leases
    BY <1>7 DEF PreRoute, Choose, Decide, GiveUp, ForwardDirect, EndDirect
  <2>2. \A q \in Requests : q # r => req'[q] = req[q]
    BY <1>1, <1>7 DEF PreRoute, Choose, Decide, GiveUp, ForwardDirect, EndDirect, TypeOK
  <2>3. req[r].pc # "leased" /\ req'[r].pc # "leased"
    <3>1. OverReq.pc = "over" /\ req \in [Requests -> ReqRecords]
      BY <1>1 DEF OverReq, Req, TypeOK
    <3>2. ASSUME NEW s \in Slots, PreRoute(r, s) \/ Choose(r, s)
          PROVE  req[r].pc # "leased" /\ req'[r].pc # "leased"
      BY <3>1, <3>2 DEF PreRoute, Choose, Req, ReqRecords
    <3>3. CASE Decide(r)
      BY <3>1, <3>3 DEF Decide, ReqRecords
    <3>4. CASE GiveUp(r) \/ EndDirect(r)
      BY <3>1, <3>4 DEF GiveUp, EndDirect
    <3>5. CASE ForwardDirect(r)
      BY <3>1, <3>5 DEF ForwardDirect, ReqRecords
    <3> QED
      BY <1>7, <3>2, <3>3, <3>4, <3>5
  <2>4. \A u \in Slots : LeasedOn(u)' = LeasedOn(u)
    BY <2>2, <2>3 DEF LeasedOn
  <2> QED
    BY <1>3, <2>1, <2>4
<1> QED
  BY <1>4, <1>5, <1>6, <1>7, NextCases DEF RequestStep

(* The records of the requests keep their type and their shape. *)
LEMMA RequestsStep ==
  IInv /\ RequestStep => req' \in [Requests -> ReqRecords] /\ RequestShape'
<1> SUFFICES ASSUME IInv, RequestStep
             PROVE  req' \in [Requests -> ReqRecords] /\ RequestShape'
  OBVIOUS
<1>1. req \in [Requests -> ReqRecords] /\ RequestShape
      /\ epoch \in [Slots -> Nat] /\ gen \in [Slots -> Nat]
  BY DEF IInv, TypeOK
<1>2. OverReq \in ReqRecords /\ OverReq.pc = "over" /\ ~OverReq.pinned
  BY DEF OverReq, Req, ReqRecords
<1>3. ASSUME NEW r \in Requests, NEW k \in ReqRecords, req' = [req EXCEPT ![r] = k],
             k.pc \notin {"new", "over"} \/ k.pinned => k.slot \in Slots
      PROVE  req' \in [Requests -> ReqRecords] /\ RequestShape'
  BY <1>1, <1>3 DEF RequestShape
<1>4. ASSUME NEW r \in Requests, NEW s \in Slots, PreRoute(r, s) \/ Choose(r, s)
      PROVE  req' \in [Requests -> ReqRecords] /\ RequestShape'
  <2> DEFINE captured == Req("prerouted", s, epoch[s], gen[s], TRUE)
             guessed == Req("choosing", s, 0, gen[s], FALSE)
             kept == [req[r] EXCEPT !.pc = "choosing"]
  <2>1. /\ captured \in ReqRecords /\ captured.slot \in Slots
        /\ guessed \in ReqRecords /\ guessed.slot \in Slots
    BY <1>1 DEF Req, ReqRecords
  <2>2. kept \in ReqRecords /\ kept.slot = req[r].slot
    BY <1>1 DEF ReqRecords
  <2>3. \/ req' = [req EXCEPT ![r] = captured]
        \/ req' = [req EXCEPT ![r] = OverReq]
        \/ req' = [req EXCEPT ![r] = guessed]
        \/ req' = [req EXCEPT ![r] = kept] /\ req[r].slot = s
    BY <1>1, <1>4 DEF PreRoute, Choose
  <2> HIDE DEF captured, guessed, kept
  <2> QED
    BY <1>2, <1>3, <2>1, <2>2, <2>3
<1>5. ASSUME NEW r \in Requests, Decide(r)
      PROVE  req' \in [Requests -> ReqRecords] /\ RequestShape'
  <2> DEFINE s == req[r].slot
  <2>1. s \in Slots /\ req[r] \in ReqRecords
    BY <1>1, <1>5 DEF Decide, RequestShape
  <2>2. CASE phase[s] = "idle"
    <3>1. req'[r].pc = "routed" /\ req'[r].slot = s /\ req'[r] \in ReqRecords
      BY <1>1, <1>5, <2>1, <2>2 DEF Decide, ReqRecords
    <3>2. req' = [req EXCEPT ![r] = req'[r]]
      BY <1>1, <1>5 DEF Decide
    <3> QED
      BY <1>3, <2>1, <3>1, <3>2
  <2>3. CASE phase[s] # "idle"
    <3>1. req' = [req EXCEPT ![r] = OverReq]
      BY <1>5, <2>3 DEF Decide
    <3> QED
      BY <1>2, <1>3, <3>1
  <2> QED
    BY <2>2, <2>3
<1>6. ASSUME NEW r \in Requests,
             Lease(r) \/ Finish(r) \/ GiveUp(r) \/ ForwardDirect(r) \/ EndDirect(r)
      PROVE  req' \in [Requests -> ReqRecords] /\ RequestShape'
  <2> DEFINE leased == [req[r] EXCEPT !.pc = "leased"]
             direct == [req[r] EXCEPT !.pc = "direct"]
  <2>1. /\ leased \in ReqRecords /\ leased.slot = req[r].slot
        /\ direct \in ReqRecords /\ direct.slot = req[r].slot
    BY <1>1 DEF ReqRecords
  <2>2. \/ req' = [req EXCEPT ![r] = leased] /\ req[r].pc = "routed"
        \/ req' = [req EXCEPT ![r] = direct] /\ req[r].pc = "choosing"
        \/ req' = [req EXCEPT ![r] = OverReq]
    BY <1>1, <1>6 DEF Lease, Finish, GiveUp, ForwardDirect, EndDirect
  <2>3. req[r].pc \in {"routed", "choosing"} => req[r].slot \in Slots
    BY <1>1 DEF RequestShape
  <2> HIDE DEF leased, direct
  <2> QED
    BY <1>2, <1>3, <2>1, <2>2, <2>3
<1> QED
  BY <1>4, <1>5, <1>6 DEF RequestStep

LEMMA RequestShapeStep == IInv /\ [Next]_vars => RequestShape'
<1> SUFFICES ASSUME IInv, [Next]_vars PROVE RequestShape'
  OBVIOUS
<1>1. CASE RequestStep
  BY <1>1, RequestsStep
<1>2. CASE OtherStep
  BY <1>2, OtherFrame DEF IInv, RequestShape
<1> QED
  BY <1>1, <1>2, NextCases

(* With the accounting, a slot has no more leases than there are requests. *)
LEMMA TypeStep == IInv /\ [Next]_vars => TypeOK'
<1> SUFFICES ASSUME IInv, [Next]_vars PROVE TypeOK'
  OBVIOUS
<1> USE CoordinationAssumption
<1>1. TypeOK
  BY DEF IInv
<1>2. CASE RequestStep
  <2>1. req' \in [Requests -> ReqRecords]
    BY <1>2, RequestsStep
  <2>2. \A s \in Slots : Cardinality(LeasedOn(s)') \in 0..Cardinality(Requests)
    BY FS_Subset, FS_CardinalityType DEF LeasedOn
  <2>3. \/ leases' = leases
        \/ \E s \in Slots : leases' = [leases EXCEPT ![s] = leases'[s]]
    <3>1. \A r \in Requests : req[r].pc \in {"routed", "leased"} => req[r].slot \in Slots
      BY DEF IInv, RequestShape
    <3> QED
      BY <1>1, <1>2, <3>1 DEF RequestStep, PreRoute, Choose, Decide, Lease, Finish, GiveUp,
         ForwardDirect, EndDirect, TypeOK
  <2>4. \A s \in Slots : leases'[s] \in 0..Cardinality(Requests)
    BY <2>2, LeasesStep DEF LeasesAccounted
  <2>5. leases' \in [Slots -> 0..Cardinality(Requests)]
    BY <1>1, <2>3, <2>4 DEF TypeOK
  <2> QED
    BY <1>1, <1>2, <2>1, <2>5, RequestFrame DEF TypeOK
<1>3. CASE MonitorStep
  BY <1>3, TypeMonitor
<1>4. ASSUME NEW c \in Callers,
             \/ \E s \in Slots : StartBegin(c, s) \/ StopBegin(c, s)
             \/ StopAllBegin(c) \/ CallStep(c)
      PROVE  TypeOK'
  BY <1>4, TypeCalls
<1>5. ASSUME NEW s \in Slots, Notice(s) \/ Crash(s) PROVE TypeOK'
  BY <1>1, <1>5 DEF Notice, Crash, TypeOK, Phases, ProcStates
<1>6. CASE UNCHANGED vars
  BY <1>1, <1>6 DEF vars, TypeOK
<1> QED
  BY <1>2, <1>3, <1>4, <1>5, <1>6, NextCases DEF OtherStep

-----------------------------------------------------------------------------
(* The shape of a control call is kept: by what the call does itself, ...     *)
LEMMA CallShapeOwn ==
  ASSUME IInv, NEW c \in Callers, NEW k \in Calls, call' = [call EXCEPT ![c] = k],
         \/ k = NoCall
         \/ k.kind = "start" /\ k.step = "backend" /\ k.slot \in Slots
         \/ k.kind \in {"stop", "stop_all"} /\ k.step \in {"drain", "backend"} /\ k.slot \in Slots
         \/ k.kind = "stop_all" /\ k.step = "next" /\ k.slot = NoSlot
         \/ k.kind = "stop_all" /\ k.step = "cancelling" /\ k.slot = NoSlot /\ k.todo = Slots
  PROVE  CallShape'
<1>1. call'[c] = k /\ \A d \in Callers \ {c} : call'[d] = call[d]
  BY DEF IInv, TypeOK
<1>2. /\ k.kind = "none" => k = NoCall
      /\ k.step = "none" => k.kind = "none"
      /\ k.slot # NoSlot <=> k.step \in {"drain", "backend"}
      /\ k.kind = "start" => k.step = "backend"
      /\ k.kind = "stop" => k.step \in {"drain", "backend"}
      /\ k.step = "cancelling" => k.todo = Slots
  BY CoordinationAssumption DEF NoCall
<1>3. CallShape
  BY DEF IInv
<1> QED
  BY <1>1, <1>2, <1>3 DEF CallShape

(* ... and by the end of the monitor it waited for.                           *)
LEMMA CallShapeStep == IInv /\ [Next]_vars => CallShape'
<1> SUFFICES ASSUME IInv, [Next]_vars PROVE CallShape'
  OBVIOUS
<1> USE CoordinationAssumption
<1>1. TypeOK /\ CallShape /\ MonitorShape /\ call \in [Callers -> Calls]
  BY DEF IInv, TypeOK
<1>2. \A c \in Callers : call[c].step \in {"drain", "backend"} => call[c].slot \in Slots
  BY <1>1, OwnedSlot
<1>3. NoCall \in Calls
  BY DEF NoCall, Calls
<1>4. ASSUME call' = call PROVE CallShape'
  BY <1>1, <1>4 DEF CallShape
<1>5. ASSUME NEW c \in Callers, NEW s \in Slots, StartBegin(c, s) \/ StopBegin(c, s)
      PROVE  CallShape'
  <2> DEFINE started == [kind |-> "start", slot |-> s, step |-> "backend", todo |-> {}]
             stopping == [kind |-> "stop", slot |-> s, step |-> "drain", todo |-> {}]
  <2>1. started \in Calls /\ stopping \in Calls
    BY DEF Calls
  <2>2. call' = [call EXCEPT ![c] = started] \/ call' = [call EXCEPT ![c] = stopping]
    BY <1>5 DEF StartBegin, StopBegin
  <2> QED
    BY <2>1, <2>2, CallShapeOwn
<1>6. ASSUME NEW c \in Callers, StopAllBegin(c) PROVE CallShape'
  <2> DEFINE k(step) == [kind |-> "stop_all", slot |-> NoSlot, todo |-> Slots, step |-> step]
  <2>1. k("next") \in Calls /\ k("cancelling") \in Calls
    BY DEF Calls
  <2>2. call' = [call EXCEPT ![c] = k("next")] \/ call' = [call EXCEPT ![c] = k("cancelling")]
    BY <1>6 DEF StopAllBegin
  <2> QED
    BY <2>1, <2>2, CallShapeOwn
<1>7. ASSUME NEW c \in Callers, StartFinish(c) \/ StopAllEnd(c) PROVE CallShape'
  BY <1>3, <1>7, CallShapeOwn DEF StartFinish, StopAllEnd
<1>8. ASSUME NEW c \in Callers, StopDrained(c) PROVE CallShape'
  <2> DEFINE k == [call[c] EXCEPT !.step = "backend"]
  <2>1. call[c].slot \in Slots /\ call[c].kind \in {"stop", "stop_all"} /\ call[c] \in Calls
    BY <1>1, <1>2, <1>8 DEF StopDrained, CallShape, NoCall, Calls
  <2>2. k \in Calls /\ k.kind = call[c].kind /\ k.slot = call[c].slot /\ k.step = "backend"
    BY <2>1 DEF Calls
  <2>3. call' = [call EXCEPT ![c] = k]
    BY <1>8 DEF StopDrained
  <2> HIDE DEF k
  <2> QED
    BY <2>1, <2>2, <2>3, CallShapeOwn
<1>9. ASSUME NEW c \in Callers, StopFinish(c) PROVE CallShape'
  <2> DEFINE k == [call[c] EXCEPT !.slot = NoSlot, !.step = "next"]
  <2>1. call[c].kind \in {"stop", "stop_all"} /\ call[c] \in Calls
    BY <1>1, <1>9 DEF StopFinish
  <2>2. k \in Calls /\ k.kind = call[c].kind /\ k.slot = NoSlot /\ k.step = "next"
    BY <2>1 DEF Calls
  <2>3. \/ call' = [call EXCEPT ![c] = NoCall]
        \/ call' = [call EXCEPT ![c] = k] /\ call[c].kind = "stop_all"
    BY <1>9 DEF StopFinish
  <2> HIDE DEF k
  <2> QED
    BY <1>3, <2>1, <2>2, <2>3, CallShapeOwn
<1>10. ASSUME NEW c \in Callers, NEW s \in Slots, StopAllNext(c, s) PROVE CallShape'
  <2> DEFINE less == call[c].todo \ {s}
             begun == [call[c] EXCEPT !.slot = s, !.step = "drain", !.todo = less]
             passed == [call[c] EXCEPT !.todo = less]
  <2>1. call[c].step = "next" /\ call[c].kind = "stop_all" /\ call[c].slot = NoSlot
        /\ call[c] \in Calls
    BY <1>1, <1>10 DEF StopAllNext, CallShape, NoCall, Calls
  <2>2. begun \in Calls /\ begun.kind = "stop_all" /\ begun.slot = s /\ begun.step = "drain"
    BY <2>1 DEF Calls
  <2>3. passed \in Calls /\ passed.kind = "stop_all" /\ passed.slot = NoSlot
        /\ passed.step = "next"
    BY <2>1 DEF Calls
  <2>4. call' = [call EXCEPT ![c] = begun] \/ call' = [call EXCEPT ![c] = passed]
    BY <1>1, <1>10 DEF StopAllNext
  <2> HIDE DEF begun, passed
  <2> QED
    BY <2>2, <2>3, <2>4, CallShapeOwn
<1>11. CASE MonitorEnds
  <2>1. call' = [c \in Callers |->
          IF call[c].step = "cancelling" THEN [call[c] EXCEPT !.step = "next"] ELSE call[c]]
    BY <1>11 DEF MonitorEnds
  <2>2. ASSUME NEW c \in Callers, call[c].step = "cancelling"
        PROVE  /\ call[c].kind = "stop_all" /\ call[c].slot = NoSlot
               /\ call'[c].kind = "stop_all" /\ call'[c].slot = NoSlot
               /\ call'[c].step = "next"
    BY <1>1, <2>1, <2>2 DEF CallShape, NoCall, Calls
  <2>3. \A c \in Callers : call[c].step # "cancelling" => call'[c] = call[c]
    BY <2>1
  <2> QED
    BY <1>1, <2>2, <2>3 DEF CallShape
<1>12. CASE \/ MonitorPoll \/ MonitorWalk \/ MonitorPassEnds \/ MonitorDrained
            \/ MonitorRestarted
            \/ \E s \in Slots : MonitorProbe(s) \/ MonitorVisit(s) \/ Notice(s) \/ Crash(s)
            \/ UNCHANGED vars
  <2>1. call' = call
    BY <1>12 DEF MonitorPoll, MonitorWalk, MonitorPassEnds, MonitorDrained, MonitorRestarted,
       MonitorProbe, MonitorVisit, Notice, Crash, vars
  <2> QED
    BY <1>4, <2>1
<1>13. CASE RequestStep
  BY <1>4, <1>13, RequestFrame
<1> QED
  BY <1>5, <1>6, <1>7, <1>8, <1>9, <1>10, <1>11, <1>12, <1>13, NextCases
     DEF OtherStep, CallStep, MonitorStep

-----------------------------------------------------------------------------
(* Ownership.  A slot's phase leaves "idle" in the step in which a call or    *)
(* the monitor comes to own it, and returns to it as they give it back.       *)
LEMMA CallBegins ==
  ASSUME IInv, NEW c \in Callers, NEW s \in Slots, NEW p \in Phases \ {"idle"},
         BeginOperation(s, p), mon' = mon,
         \A d \in Callers \ {c} : call'[d] = call[d],
         call[c].slot = NoSlot,
         call'[c].slot = s, call'[c].step \in {"drain", "backend"}
  PROVE  OneOwner'
<1>1. OneOwner /\ phase \in [Slots -> Phases]
  BY DEF IInv, TypeOK
<1>2. phase[s] = "idle" /\ phase'[s] # "idle" /\ \A u \in Slots \ {s} : phase'[u] = phase[u]
  BY <1>1 DEF BeginOperation, CanBegin
<1>3. \A d \in Callers : ~Operating(d, s)
  BY <1>1, <1>2 DEF OneOwner
<1>4. \A u \in Slots : ~Operating(c, u)
  BY CoordinationAssumption DEF Operating
<1>5. \A u \in Slots, d \in Callers :
        Operating(d, u)' <=> Operating(d, u) \/ (d = c /\ u = s)
  BY <1>4 DEF Operating
<1>6. \A u \in Slots : MonitorOperating(u)' <=> MonitorOperating(u)
  BY DEF MonitorOperating
<1>7. ~MonitorOperating(s)
  BY <1>1, <1>2 DEF OneOwner
<1> QED
  BY <1>1, <1>2, <1>3, <1>4, <1>5, <1>6, <1>7 DEF OneOwner

LEMMA CallEnds ==
  ASSUME IInv, NEW c \in Callers, NEW s \in Slots, Operating(c, s), FinishOperation(s),
         \A u \in Slots : MonitorOperating(u)' <=> MonitorOperating(u),
         \A d \in Callers \ {c} : call'[d] = call[d],
         call'[c].slot = NoSlot
  PROVE  OneOwner'
<1>1. OneOwner /\ TypeOK
  BY DEF IInv
<1>2. phase'[s] = "idle" /\ \A u \in Slots \ {s} : phase'[u] = phase[u]
  BY <1>1, FinishType
<1>3. \A u \in Slots, d \in Callers : Operating(d, u)' <=> Operating(d, u) /\ d # c
  BY CoordinationAssumption DEF Operating
<1>4. \A u \in Slots : Operating(c, u) => u = s
  BY DEF Operating
<1> QED
  BY <1>1, <1>2, <1>3, <1>4 DEF OneOwner

(* A step that changes no ownership may change phases, but not from or to     *)
(* "idle".                                                                    *)
LEMMA OwnersStay ==
  ASSUME IInv,
         \A u \in Slots : MonitorOperating(u)' <=> MonitorOperating(u),
         \A u \in Slots, d \in Callers : Operating(d, u)' <=> Operating(d, u),
         \A u \in Slots : phase'[u] # "idle" <=> phase[u] # "idle"
  PROVE  OneOwner'
BY DEF IInv, OneOwner

LEMMA OwnerStep == IInv /\ [Next]_vars => OneOwner'
<1> SUFFICES ASSUME IInv, [Next]_vars PROVE OneOwner'
  OBVIOUS
<1> USE CoordinationAssumption
<1>1. TypeOK /\ CallShape /\ MonitorShape /\ OneOwner
      /\ call \in [Callers -> Calls] /\ phase \in [Slots -> Phases]
  BY DEF IInv, TypeOK
<1>2. \A c \in Callers : call[c].step \in {"drain", "backend"} => call[c].slot \in Slots
  BY <1>1, OwnedSlot
<1>3. mon.pc \in {"drain", "backend"} => mon.slot \in Slots
  BY <1>1, OwnedSlot
<1>4. ASSUME call' = call, mon' = mon, phase' = phase PROVE OneOwner'
  BY <1>4, OwnersStay DEF Operating, MonitorOperating
<1>5. ASSUME NEW c \in Callers, NEW s \in Slots, StartBegin(c, s) \/ StopBegin(c, s)
      PROVE  OneOwner'
  <2>1. /\ call[c].slot = NoSlot /\ mon' = mon
        /\ BeginOperation(s, "starting") \/ BeginOperation(s, "draining")
    BY <1>5 DEF StartBegin, StopBegin, NoCall
  <2>2. /\ call'[c].slot = s /\ call'[c].step \in {"drain", "backend"}
        /\ \A d \in Callers \ {c} : call'[d] = call[d]
    BY <1>1, <1>5 DEF StartBegin, StopBegin
  <2>3. "starting" \in Phases \ {"idle"} /\ "draining" \in Phases \ {"idle"}
    BY DEF Phases
  <2> QED
    BY <2>1, <2>2, <2>3, CallBegins
<1>6. ASSUME NEW c \in Callers, StopAllBegin(c) \/ StopAllEnd(c) PROVE OneOwner'
  <2>1. /\ call[c].step \in {"none", "next"} /\ call'[c].step \in {"none", "next", "cancelling"}
        /\ \A d \in Callers \ {c} : call'[d] = call[d]
        /\ phase' = phase
    BY <1>1, <1>6 DEF StopAllBegin, StopAllEnd, NoCall
  <2>2. mon'.pc = mon.pc /\ mon'.slot = mon.slot
    BY <1>1, <1>6 DEF StopAllBegin, StopAllEnd, TypeOK, Monitors
  <2> QED
    BY <2>1, <2>2, OwnersStay DEF Operating, MonitorOperating
<1>7. ASSUME NEW c \in Callers, StartFinish(c) PROVE OneOwner'
  <2>1. PICK s \in Slots : s = call[c].slot
    BY <1>1, <1>2, <1>7 DEF StartFinish, CallShape
  <2>2. Operating(c, s) /\ FinishOperation(s)
    BY <1>1, <1>7, <2>1 DEF StartFinish, CallShape, Operating
  <2>3. call'[c].slot = NoSlot /\ \A d \in Callers \ {c} : call'[d] = call[d]
    BY <1>1, <1>7 DEF StartFinish, NoCall
  <2>4. \A u \in Slots : MonitorOperating(u)' <=> MonitorOperating(u)
    BY <1>7 DEF StartFinish, ReviveMonitor, MonitorOperating, MonitorOff
  <2> QED
    BY <2>2, <2>3, <2>4, CallEnds
<1>8. ASSUME NEW c \in Callers, StopDrained(c) PROVE OneOwner'
  <2>1. /\ call'[c].slot = call[c].slot /\ call'[c].step = "backend" /\ call[c].step = "drain"
        /\ \A d \in Callers \ {c} : call'[d] = call[d]
        /\ mon' = mon
    BY <1>1, <1>8 DEF StopDrained, Calls
  <2>2. PICK s \in Slots : s = call[c].slot
    BY <1>2, <2>1
  <2>3. phase'[s] # "idle" /\ \A u \in Slots \ {s} : phase'[u] = phase[u]
    BY <1>1, <1>8, <2>2 DEF StopDrained
  <2>4. phase[s] # "idle"
    BY <1>1, <2>1, <2>2 DEF OneOwner, Operating
  <2> QED
    BY <2>1, <2>2, <2>3, <2>4, OwnersStay DEF Operating, MonitorOperating
<1>9. ASSUME NEW c \in Callers, StopFinish(c) PROVE OneOwner'
  <2>1. PICK s \in Slots : s = call[c].slot
    BY <1>1, <1>2, <1>9 DEF StopFinish
  <2>2. Operating(c, s) /\ FinishOperation(s) /\ mon' = mon
    BY <1>9, <2>1 DEF StopFinish, Operating
  <2>3. call'[c].slot = NoSlot /\ \A d \in Callers \ {c} : call'[d] = call[d]
    BY <1>1, <1>9 DEF StopFinish, NoCall, Calls
  <2> QED
    BY <2>2, <2>3, CallEnds DEF MonitorOperating
<1>10. ASSUME NEW c \in Callers, NEW s \in Slots, StopAllNext(c, s) PROVE OneOwner'
  <2>1. call[c].slot = NoSlot /\ call[c].step = "next" /\ mon' = mon
        /\ \A d \in Callers \ {c} : call'[d] = call[d]
    BY <1>1, <1>10 DEF StopAllNext, CallShape
  <2>2. CASE BeginOperation(s, "draining")
    <3>1. call'[c].slot = s /\ call'[c].step = "drain"
      BY <1>1, <1>10, <2>2 DEF StopAllNext, BeginOperation, Calls
    <3>2. "draining" \in Phases \ {"idle"}
      BY DEF Phases
    <3> QED
      BY <2>1, <2>2, <3>1, <3>2, CallBegins
  <2>3. CASE ~CanBegin(s)
    <3>1. call'[c].step = "next" /\ phase' = phase
      BY <1>1, <1>10, <2>3 DEF StopAllNext, BeginOperation, Calls
    <3> QED
      BY <2>1, <3>1, OwnersStay DEF Operating, MonitorOperating
  <2> QED
    BY <1>10, <2>2, <2>3 DEF StopAllNext
<1>11. CASE MonitorPoll \/ MonitorWalk \/ MonitorPassEnds \/ \E s \in Slots : MonitorProbe(s)
  <2>1. call' = call /\ phase' = phase
    BY <1>11 DEF MonitorPoll, MonitorWalk, MonitorPassEnds, MonitorProbe
  <2>2. mon.pc \notin {"drain", "backend"} /\ mon'.pc \notin {"drain", "backend"}
    BY <1>1, <1>11 DEF MonitorPoll, MonitorWalk, MonitorPassEnds, MonitorProbe, MonitorOff,
       TypeOK, Monitors
  <2> QED
    BY <2>1, <2>2, OwnersStay DEF Operating, MonitorOperating
<1>12. ASSUME NEW s \in Slots, MonitorVisit(s) PROVE OneOwner'
  <2>1. call' = call /\ mon.pc = "walk"
    BY <1>12 DEF MonitorVisit
  <2>2. CASE MayRestart(s)
    <3>1. /\ phase[s] = "idle" /\ phase'[s] # "idle"
          /\ \A u \in Slots \ {s} : phase'[u] = phase[u]
      BY <1>1, <1>12, <2>2 DEF MonitorVisit, MayRestart, CanBegin
    <3>2. mon'.pc = "drain" /\ mon'.slot = s
      BY <1>1, <1>12, <2>2 DEF MonitorVisit, TypeOK, Monitors
    <3>3. \A u \in Slots : ~MonitorOperating(u) /\ (MonitorOperating(u)' <=> u = s)
      BY <2>1, <3>2 DEF MonitorOperating
    <3>4. \A u \in Slots, d \in Callers : Operating(d, u)' <=> Operating(d, u)
      BY <2>1 DEF Operating
    <3> QED
      BY <1>1, <3>1, <3>3, <3>4 DEF OneOwner
  <2>3. CASE ~MayRestart(s)
    <3>1. phase' = phase /\ mon'.pc = "walk"
      BY <1>1, <1>12, <2>3 DEF MonitorVisit, TypeOK, Monitors
    <3> QED
      BY <2>1, <3>1, OwnersStay DEF Operating, MonitorOperating
  <2> QED
    BY <2>2, <2>3
<1>13. CASE MonitorDrained
  <2>1. /\ call' = call /\ phase' = phase
        /\ mon.pc = "drain" /\ mon'.pc = "backend" /\ mon'.slot = mon.slot
    BY <1>1, <1>13 DEF MonitorDrained, TypeOK, Monitors
  <2> QED
    BY <2>1, OwnersStay DEF Operating, MonitorOperating
<1>14. CASE MonitorRestarted \/ MonitorEnds
  <2>1. \A u \in Slots, d \in Callers : Operating(d, u)' <=> Operating(d, u)
    <3>1. CASE MonitorRestarted
      BY <3>1 DEF MonitorRestarted, Operating
    <3>2. CASE MonitorEnds
      <4>1. \A d \in Callers :
              \/ call'[d] = call[d]
              \/ call[d].step = "cancelling" /\ call'[d].step = "next"
        BY <1>1, <3>2 DEF MonitorEnds, Calls
      <4> QED
        BY <4>1 DEF Operating
    <3> QED
      BY <1>14, <3>1, <3>2
  <2>2. mon'.pc \notin {"drain", "backend"}
    <3>1. CASE MonitorRestarted
      BY <1>1, <3>1, MonitorValues DEF MonitorRestarted, TypeOK
    <3>2. CASE MonitorEnds
      BY <1>1, <3>2, MonitorValues DEF MonitorEnds, TypeOK
    <3> QED
      BY <1>14, <3>1, <3>2
  <2>3. \A u \in Slots : ~MonitorOperating(u)'
    BY <2>2 DEF MonitorOperating
  <2>4. CASE mon.pc \in {"drain", "backend"}
    <3>1. PICK s \in Slots : s = mon.slot
      BY <1>3, <2>4
    <3>2. FinishOperation(s)
      BY <1>14, <2>4, <3>1 DEF MonitorRestarted, MonitorEnds
    <3>3. phase'[s] = "idle" /\ \A u \in Slots \ {s} : phase'[u] = phase[u]
      BY <1>1, <3>2, FinishType
    <3>4. \A u \in Slots : MonitorOperating(u) <=> u = s
      BY <2>4, <3>1 DEF MonitorOperating
    <3> QED
      BY <1>1, <2>1, <2>3, <3>3, <3>4 DEF OneOwner
  <2>5. CASE mon.pc \notin {"drain", "backend"}
    <3>1. phase' = phase
      BY <1>14, <2>5 DEF MonitorRestarted, MonitorEnds
    <3> QED
      BY <2>1, <2>3, <2>5, <3>1, OwnersStay DEF MonitorOperating
  <2> QED
    BY <2>4, <2>5
<1>15. ASSUME NEW s \in Slots, Notice(s) PROVE OneOwner'
  <2>1. call' = call /\ mon' = mon
    BY <1>15 DEF Notice
  <2>2. \A u \in Slots : phase'[u] # "idle" <=> phase[u] # "idle"
    BY <1>1, <1>15 DEF Notice
  <2> QED
    BY <2>1, <2>2, OwnersStay DEF Operating, MonitorOperating
<1>16. CASE RequestStep \/ UNCHANGED vars \/ \E s \in Slots : Crash(s)
  BY <1>4, <1>16, RequestFrame DEF vars, Crash
<1> QED
  BY <1>5, <1>6, <1>7, <1>8, <1>9, <1>10, <1>11, <1>12, <1>13, <1>14, <1>15, <1>16, NextCases
     DEF OtherStep, CallStep, MonitorStep

-----------------------------------------------------------------------------
(* What changes a call's record, a lease or manual_stop of a slot somebody    *)
(* owns.                                                                      *)

(* While a call owns a slot no lease is taken on it, so that a stop which has *)
(* drained the slot still meets none when the backend stops the process.      *)
LEMMA StopPreparedStep == IInv /\ [Next]_vars => StopPrepared'
<1> SUFFICES ASSUME IInv, [Next]_vars PROVE StopPrepared'
  OBVIOUS
<1>1. TypeOK /\ CallShape /\ MonitorShape /\ OneOwner /\ StopPrepared /\ RequestShape
      /\ call \in [Callers -> Calls] /\ leases \in [Slots -> 0..Cardinality(Requests)]
  BY DEF IInv, TypeOK
<1>2. \A c \in Callers : call[c].step \in {"drain", "backend"} => call[c].slot \in Slots
  BY <1>1, OwnedSlot
<1>3. ASSUME NEW c \in Callers, leases' = leases,
             \A d \in Callers \ {c} : call'[d] = call[d],
             call'[c].step = "backend" /\ call'[c].kind \in {"stop", "stop_all"}
               => leases[call'[c].slot] = 0
      PROVE  StopPrepared'
  BY <1>1, <1>3 DEF StopPrepared
<1>4. ASSUME NEW c \in Callers, NEW s \in Slots, StartBegin(c, s) \/ StopBegin(c, s)
      PROVE  StopPrepared'
  <2>1. call'[c].kind = "start" \/ call'[c].step = "drain"
    BY <1>1, <1>4 DEF StartBegin, StopBegin
  <2>2. leases' = leases /\ \A d \in Callers \ {c} : call'[d] = call[d]
    BY <1>1, <1>4 DEF StartBegin, StopBegin
  <2> QED
    BY <1>3, <2>1, <2>2
<1>5. ASSUME NEW c \in Callers,
             StopAllBegin(c) \/ StopAllEnd(c) \/ StartFinish(c) \/ StopFinish(c)
      PROVE  StopPrepared'
  <2>1. call'[c].step # "backend"
    <3>1. CASE StopAllBegin(c) \/ StopAllEnd(c) \/ StartFinish(c)
      BY <1>1, <3>1 DEF StopAllBegin, StopAllEnd, StartFinish, NoCall
    <3>2. CASE StopFinish(c)
      BY <1>1, <3>2 DEF StopFinish, NoCall, Calls
    <3> QED
      BY <1>5, <3>1, <3>2
  <2>2. leases' = leases /\ \A d \in Callers \ {c} : call'[d] = call[d]
    BY <1>1, <1>5 DEF StopAllBegin, StopAllEnd, StartFinish, StopFinish
  <2> QED
    BY <1>3, <2>1, <2>2
<1>6. ASSUME NEW c \in Callers, StopDrained(c) PROVE StopPrepared'
  <2>1. call'[c].slot = call[c].slot /\ leases[call[c].slot] = 0
    BY <1>1, <1>6 DEF StopDrained, Drained, Calls
  <2>2. leases' = leases /\ \A d \in Callers \ {c} : call'[d] = call[d]
    BY <1>1, <1>6 DEF StopDrained
  <2> QED
    BY <1>3, <2>1, <2>2
<1>7. ASSUME NEW c \in Callers, NEW s \in Slots, StopAllNext(c, s) PROVE StopPrepared'
  <2>1. call'[c].step # "backend"
    BY <1>1, <1>7 DEF StopAllNext, Calls
  <2>2. leases' = leases /\ \A d \in Callers \ {c} : call'[d] = call[d]
    BY <1>1, <1>7 DEF StopAllNext
  <2> QED
    BY <1>3, <2>1, <2>2
<1>8. CASE MonitorStep
  <2>1. leases' = leases
    BY <1>8, OtherFrame DEF OtherStep
  <2>2. \A d \in Callers : call'[d] = call[d] \/ call'[d].step = "next"
    BY <1>1, <1>8 DEF MonitorStep, MonitorPoll, MonitorProbe, MonitorWalk, MonitorVisit,
       MonitorPassEnds, MonitorDrained, MonitorRestarted, MonitorEnds, Calls
  <2> QED
    BY <1>1, <2>1, <2>2 DEF StopPrepared
<1>9. CASE RequestStep
  <2>1. call' = call
    BY <1>9, RequestFrame
  <2>2. ASSUME NEW c \in Callers, call[c].kind \in {"stop", "stop_all"},
               call[c].step = "backend"
        PROVE  leases'[call[c].slot] = 0
    <3>1. PICK s \in Slots : s = call[c].slot
      BY <1>2, <2>2
    <3>2. phase[s] # "idle" /\ leases[s] = 0
      BY <1>1, <2>2, <3>1 DEF OneOwner, Operating, StopPrepared
    <3>3. ASSUME NEW r \in Requests, Lease(r) PROVE leases'[s] = leases[s]
      BY <1>1, <3>2, <3>3 DEF Lease, LeaseAvailable
    <3>4. ASSUME NEW r \in Requests, Finish(r) PROVE leases'[s] = 0
      BY <1>1, <3>2, <3>4 DEF Finish
    <3>5. ASSUME NEW r \in Requests,
                 \/ \E u \in Slots : PreRoute(r, u) \/ Choose(r, u)
                 \/ Decide(r) \/ GiveUp(r) \/ ForwardDirect(r) \/ EndDirect(r)
          PROVE  leases' = leases
      BY <3>5 DEF PreRoute, Choose, Decide, GiveUp, ForwardDirect, EndDirect
    <3> QED
      BY <1>9, <3>1, <3>2, <3>3, <3>4, <3>5 DEF RequestStep
  <2> QED
    BY <2>1, <2>2 DEF StopPrepared
<1>10. CASE UNCHANGED vars \/ \E s \in Slots : Notice(s) \/ Crash(s)
  BY <1>1, <1>10 DEF vars, Notice, Crash, StopPrepared
<1> QED
  BY <1>4, <1>5, <1>6, <1>7, <1>8, <1>9, <1>10, NextCases DEF OtherStep, CallStep

(* Only the owner of a slot remembers that it was stopped, so the others who  *)
(* were allowed to spawn on their slots still are.                            *)
LEMMA SpawnAllowedStep == IInv /\ [Next]_vars => SpawnAllowed'
<1> SUFFICES ASSUME IInv, [Next]_vars PROVE SpawnAllowed'
  OBVIOUS
<1>1. TypeOK /\ CallShape /\ MonitorShape /\ OneOwner /\ SpawnAllowed
      /\ call \in [Callers -> Calls] /\ manualStop \in [Slots -> BOOLEAN]
  BY DEF IInv, TypeOK
<1>2. \A c \in Callers : call[c].step \in {"drain", "backend"} => call[c].slot \in Slots
  BY <1>1, OwnedSlot
<1>3. mon.pc \in {"drain", "backend"} => mon.slot \in Slots
  BY <1>1, OwnedSlot
<1>4. \A c \in Callers : call[c].kind = "start" => call[c].slot \in Slots
  BY <1>1, <1>2 DEF CallShape
<1>5. ASSUME \A u \in Slots : manualStop'[u] => manualStop[u],
             \A d \in Callers : call'[d] = call[d] \/ call'[d].kind # "start",
             mon'.pc \in {"drain", "backend"}
               => mon.pc \in {"drain", "backend"} /\ mon'.slot = mon.slot
      PROVE  SpawnAllowed'
  <2>1. ASSUME NEW d \in Callers, call'[d].kind = "start" PROVE ~manualStop'[call'[d].slot]
    BY <1>1, <1>4, <1>5, <2>1 DEF SpawnAllowed
  <2>2. ASSUME mon'.pc \in {"drain", "backend"} PROVE ~manualStop'[mon'.slot]
    BY <1>1, <1>3, <1>5, <2>2 DEF SpawnAllowed
  <2> QED
    BY <2>1, <2>2 DEF SpawnAllowed
<1>6. ASSUME NEW c \in Callers, NEW s \in Slots, StartBegin(c, s) PROVE SpawnAllowed'
  <2>1. /\ manualStop' = [manualStop EXCEPT ![s] = FALSE] /\ mon' = mon
        /\ call'[c].slot = s
        /\ \A d \in Callers \ {c} : call'[d] = call[d]
    BY <1>1, <1>6 DEF StartBegin, ClearManualStop
  <2> QED
    BY <1>1, <1>3, <1>4, <2>1 DEF SpawnAllowed
<1>7. ASSUME NEW c \in Callers,
             \/ \E s \in Slots : StopBegin(c, s) \/ StopAllNext(c, s)
             \/ StopAllBegin(c) \/ StopAllEnd(c) \/ StartFinish(c) \/ StopDrained(c)
      PROVE  SpawnAllowed'
  <2>1. manualStop' = manualStop
    BY <1>7 DEF StopBegin, StopAllNext, StopAllBegin, StopAllEnd, StartFinish, StopDrained
  <2>2. \A d \in Callers : call'[d] = call[d] \/ call'[d].kind # "start"
    <3>1. \A d \in Callers \ {c} : call'[d] = call[d]
      BY <1>1, <1>7 DEF StopBegin, StopAllNext, StopAllBegin, StopAllEnd, StartFinish,
         StopDrained
    <3>2. ASSUME NEW s \in Slots, StopBegin(c, s) PROVE call'[c].kind # "start"
      BY <1>1, <3>2 DEF StopBegin
    <3>3. CASE StopAllBegin(c) \/ StopAllEnd(c) \/ StartFinish(c)
      BY <1>1, <3>3 DEF StopAllBegin, StopAllEnd, StartFinish, NoCall
    <3>4. ASSUME NEW s \in Slots, StopAllNext(c, s) PROVE call'[c].kind # "start"
      BY <1>1, <3>4 DEF StopAllNext, CallShape, Calls
    <3>5. CASE StopDrained(c)
      BY <1>1, <3>5 DEF StopDrained, CallShape, Calls
    <3> QED
      BY <1>7, <3>1, <3>2, <3>3, <3>4, <3>5
  <2>3. mon'.pc \in {"drain", "backend"}
          => mon.pc \in {"drain", "backend"} /\ mon'.slot = mon.slot
    BY <1>1, <1>7 DEF StopBegin, StopAllNext, StopAllBegin, StopAllEnd, StartFinish,
       StopDrained, ReviveMonitor, MonitorOff, TypeOK, Monitors
  <2> QED
    BY <1>5, <2>1, <2>2, <2>3
<1>8. ASSUME NEW c \in Callers, StopFinish(c) PROVE SpawnAllowed'
  <2>1. PICK s \in Slots : s = call[c].slot
    BY <1>2, <1>8 DEF StopFinish
  <2>2. /\ manualStop' = [manualStop EXCEPT ![s] = TRUE] /\ mon' = mon
        /\ \A d \in Callers \ {c} : call'[d] = call[d]
        /\ Operating(c, s)
    BY <1>1, <1>8, <2>1 DEF StopFinish, RememberStop, Operating
  <2>3. call'[c].kind # "start"
    BY <1>1, <1>8 DEF StopFinish, NoCall, Calls
  <2>4. \A d \in Callers \ {c} : call[d].kind = "start" => call[d].slot # s
    BY <1>1, <2>2 DEF OneOwner, Operating, CallShape
  <2>5. mon.pc \in {"drain", "backend"} => mon.slot # s
    BY <1>1, <2>2 DEF OneOwner, MonitorOperating
  <2> QED
    BY <1>1, <1>3, <1>4, <2>2, <2>3, <2>4, <2>5 DEF SpawnAllowed
<1>9. ASSUME NEW s \in Slots, MonitorVisit(s) PROVE SpawnAllowed'
  <2>1. manualStop' = manualStop /\ call' = call
    BY <1>9 DEF MonitorVisit
  <2>2. CASE MayRestart(s)
    <3>1. mon'.slot = s /\ ~manualStop[s]
      BY <1>1, <1>9, <2>2 DEF MonitorVisit, MayRestart, TypeOK, Monitors
    <3> QED
      BY <1>1, <2>1, <3>1 DEF SpawnAllowed
  <2>3. CASE ~MayRestart(s)
    <3>1. mon'.pc = "walk"
      BY <1>1, <1>9, <2>3 DEF MonitorVisit, TypeOK, Monitors
    <3> QED
      BY <1>5, <2>1, <3>1
  <2> QED
    BY <2>2, <2>3
<1>10. CASE \/ MonitorPoll \/ MonitorWalk \/ MonitorPassEnds \/ MonitorDrained
            \/ MonitorRestarted \/ MonitorEnds
            \/ \E s \in Slots : MonitorProbe(s)
  <2>1. manualStop' = manualStop
    BY <1>10 DEF MonitorPoll, MonitorProbe, MonitorWalk, MonitorPassEnds, MonitorDrained,
       MonitorRestarted, MonitorEnds
  <2>2. \A d \in Callers : call'[d] = call[d] \/ call'[d].kind # "start"
    <3>1. CASE MonitorEnds
      BY <1>1, <3>1 DEF MonitorEnds, CallShape, Calls
    <3>2. CASE ~MonitorEnds
      BY <1>10, <3>2 DEF MonitorPoll, MonitorProbe, MonitorWalk, MonitorPassEnds,
         MonitorDrained, MonitorRestarted
    <3> QED
      BY <3>1, <3>2
  <2>3. mon'.pc \in {"drain", "backend"}
          => mon.pc \in {"drain", "backend"} /\ mon'.slot = mon.slot
    <3>2. CASE MonitorPoll \/ MonitorPassEnds \/ MonitorRestarted \/ MonitorEnds
      BY <1>1, <3>2, MonitorValues
         DEF MonitorPoll, MonitorPassEnds, MonitorRestarted, MonitorEnds, TypeOK
    <3>3. CASE MonitorWalk \/ MonitorDrained \/ \E s \in Slots : MonitorProbe(s)
      BY <1>1, <3>3 DEF MonitorWalk, MonitorDrained, MonitorProbe, TypeOK, Monitors
    <3> QED
      BY <1>10, <3>2, <3>3
  <2> QED
    BY <1>5, <2>1, <2>2, <2>3
<1>11. CASE RequestStep \/ UNCHANGED vars \/ \E s \in Slots : Notice(s) \/ Crash(s)
  <2>1. manualStop' = manualStop /\ call' = call /\ mon' = mon
    BY <1>11, RequestFrame DEF vars, Notice, Crash
  <2> QED
    BY <1>5, <2>1
<1> QED
  BY <1>6, <1>7, <1>8, <1>9, <1>10, <1>11, NextCases DEF OtherStep, CallStep, MonitorStep

-----------------------------------------------------------------------------
(* The monitor's record keeps its shape, the stop_all that cancelled it keeps *)
(* waiting for it, and nobody else counts restarts.                           *)
LEMMA MonitorShapeStep == IInv /\ [Next]_vars => MonitorShape'
<1> SUFFICES ASSUME IInv, [Next]_vars PROVE MonitorShape'
  OBVIOUS
<1> USE CoordinationAssumption
<1>1. TypeOK /\ CallShape /\ MonitorShape /\ mon \in Monitors
      /\ call \in [Callers -> Calls] /\ attempts \in [Slots -> 0..MaxAttempts]
  BY DEF IInv, TypeOK
<1>2. mon.pc \in {"drain", "backend"} => mon.slot \in Slots
  BY <1>1, OwnedSlot
<1>3. \A c \in Callers : call[c].kind = "start" => call[c].slot \in Slots
  BY <1>1, OwnedSlot DEF CallShape
<1>4. ASSUME \A d \in Callers : call[d].step = "cancelling" => call'[d].step = "cancelling",
             mon'.pc = mon.pc, mon'.slot = mon.slot, mon'.cancelled = mon.cancelled,
             attempts' = attempts
      PROVE  MonitorShape'
  BY <1>1, <1>4 DEF MonitorShape
<1>5. ASSUME NEW c \in Callers,
             \/ \E s \in Slots : StartBegin(c, s) \/ StopBegin(c, s) \/ StopAllNext(c, s)
             \/ StopAllEnd(c) \/ StopDrained(c) \/ StopFinish(c)
      PROVE  MonitorShape'
  <2>1. mon' = mon /\ attempts' = attempts /\ \A d \in Callers \ {c} : call'[d] = call[d]
    BY <1>1, <1>5 DEF StartBegin, StopBegin, StopAllNext, StopAllEnd, StopDrained, StopFinish
  <2>2. call[c].step # "cancelling"
    <3>1. NoCall.step = "none"
      BY DEF NoCall
    <3>2. CASE StopAllEnd(c) \/ StopDrained(c) \/ StopFinish(c)
      BY <3>2 DEF StopAllEnd, StopDrained, StopFinish
    <3>3. ASSUME NEW s \in Slots, StartBegin(c, s) \/ StopBegin(c, s) \/ StopAllNext(c, s)
          PROVE  call[c].step # "cancelling"
      <4>1. call[c] = NoCall \/ call[c].step = "next"
        BY <3>3 DEF StartBegin, StopBegin, StopAllNext
      <4> QED
        BY <3>1, <4>1
    <3> QED
      BY <1>5, <3>2, <3>3
  <2> QED
    BY <1>4, <2>1, <2>2
<1>6. ASSUME NEW c \in Callers, StopAllBegin(c) PROVE MonitorShape'
  <2>1. call[c].step # "cancelling" /\ attempts' = attempts
        /\ \A d \in Callers \ {c} : call'[d] = call[d]
    BY <1>1, <1>6 DEF StopAllBegin, NoCall
  <2>2. CASE mon.pc = "off"
    BY <1>4, <1>6, <2>1, <2>2 DEF StopAllBegin
  <2>3. CASE mon.pc # "off"
    <3>1. mon' = [mon EXCEPT !.cancelled = TRUE] /\ call'[c].step = "cancelling"
      BY <1>1, <1>6, <2>3 DEF StopAllBegin
    <3>2. mon'.pc = mon.pc /\ mon'.slot = mon.slot
      BY <1>1, <3>1 DEF Monitors
    <3> QED
      BY <1>1, <2>1, <2>3, <3>1, <3>2 DEF MonitorShape
  <2> QED
    BY <2>2, <2>3
<1>7. ASSUME NEW c \in Callers, StartFinish(c) PROVE MonitorShape'
  <2>1. call[c].step # "cancelling" /\ \A d \in Callers \ {c} : call'[d] = call[d]
    BY <1>1, <1>7 DEF StartFinish, CallShape
  <2>2. PICK s \in Slots : s = call[c].slot
    BY <1>3, <1>7 DEF StartFinish
  <2>3. attempts' = [attempts EXCEPT ![s] = 0] \/ attempts' = attempts
    BY <1>7, <2>2 DEF StartFinish
  <2>4. CASE mon.pc = "off"
    <3>1. mon' = [MonitorOff EXCEPT !.pc = "sleep"]
      BY <1>7, <2>4 DEF StartFinish, ReviveMonitor
    <3> QED
      BY <1>1, <3>1, MonitorValues DEF MonitorShape
  <2>5. CASE mon.pc # "off"
    <3>1. mon' = mon
      BY <1>7, <2>5 DEF StartFinish, ReviveMonitor
    <3>2. mon.pc = "drain" => attempts'[mon.slot] < MaxAttempts
      BY <1>1, <1>2, <2>3 DEF MonitorShape
    <3>3. mon.cancelled => \E d \in Callers : call'[d].step = "cancelling"
      BY <1>1, <2>1 DEF MonitorShape
    <3> QED
      BY <1>1, <3>1, <3>2, <3>3 DEF MonitorShape
  <2> QED
    BY <2>4, <2>5
<1>8. CASE MonitorPoll \/ MonitorPassEnds \/ MonitorRestarted \/ MonitorEnds
  <2>1. mon'.pc \in {"off", "sleep", "poll", "walk"} /\ mon'.slot = NoSlot /\ ~mon'.cancelled
    <3>1. CASE MonitorPoll
      BY <1>1, <3>1, MonitorValues DEF MonitorPoll
    <3>2. CASE MonitorPassEnds
      BY <1>1, <3>2, MonitorValues DEF MonitorPassEnds
    <3>3. CASE MonitorRestarted
      BY <1>1, <3>3, MonitorValues DEF MonitorRestarted
    <3>4. CASE MonitorEnds
      BY <1>1, <3>4, MonitorValues DEF MonitorEnds
    <3> QED
      BY <1>8, <3>1, <3>2, <3>3, <3>4
  <2> QED
    BY <2>1 DEF MonitorShape
<1>9. CASE MonitorWalk \/ \E s \in Slots : MonitorProbe(s)
  <2>1. call' = call /\ ~mon'.cancelled /\ mon'.slot = mon.slot
        /\ mon.pc = "poll" /\ mon'.pc \in {"poll", "walk"}
    BY <1>1, <1>9 DEF MonitorWalk, MonitorProbe, Monitors
  <2> QED
    BY <1>1, <2>1 DEF MonitorShape
<1>10. ASSUME NEW s \in Slots, MonitorVisit(s) PROVE MonitorShape'
  <2>1. CASE MayRestart(s)
    <3>1. mon'.pc = "drain" /\ mon'.slot = s /\ ~mon'.cancelled
      BY <1>1, <1>10, <2>1 DEF MonitorVisit, Monitors
    <3>2. attempts' = attempts /\ attempts[s] < MaxAttempts
      BY <1>10, <2>1 DEF MonitorVisit, MayRestart
    <3> QED
      BY <3>1, <3>2 DEF MonitorShape
  <2>2. CASE ~MayRestart(s)
    <3>1. mon'.pc = "walk" /\ mon'.slot = mon.slot /\ ~mon'.cancelled /\ mon.pc = "walk"
      BY <1>1, <1>10, <2>2 DEF MonitorVisit, Monitors
    <3> QED
      BY <1>1, <3>1 DEF MonitorShape
  <2> QED
    BY <2>1, <2>2
<1>11. CASE MonitorDrained
  <2>1. mon'.pc = "backend" /\ mon'.slot = mon.slot /\ ~mon'.cancelled /\ mon.pc = "drain"
    BY <1>1, <1>11 DEF MonitorDrained, Monitors
  <2> QED
    BY <1>1, <2>1 DEF MonitorShape
<1>12. CASE RequestStep \/ UNCHANGED vars \/ \E s \in Slots : Notice(s) \/ Crash(s)
  BY <1>4, <1>12, RequestFrame DEF vars, Notice, Crash
<1> QED
  BY <1>5, <1>6, <1>7, <1>8, <1>9, <1>10, <1>11, <1>12, NextCases
     DEF OtherStep, CallStep, MonitorStep

-----------------------------------------------------------------------------
(* Whoever spawns a process gives the slot back in the same step, and that    *)
(* bumps the epoch.                                                           *)
LEMMA EpochGrows ==
  ASSUME IInv, OtherStep, NEW s \in Slots
  PROVE  /\ epoch'[s] >= epoch[s]
         /\ epoch'[s] = epoch[s] => gen'[s] = gen[s]
<1>1. TypeOK /\ CallShape /\ MonitorShape
      /\ epoch \in [Slots -> Nat] /\ gen \in [Slots -> Nat]
  BY DEF IInv, TypeOK
<1>2. \A c \in Callers : call[c].step \in {"drain", "backend"} => call[c].slot \in Slots
  BY <1>1, OwnedSlot
<1>3. mon.pc \in {"drain", "backend"} => mon.slot \in Slots
  BY <1>1, OwnedSlot
<1>4. ASSUME NEW u \in Slots, FinishOperation(u), BackendStart(u) \/ gen' = gen
      PROVE  /\ epoch'[s] >= epoch[s]
             /\ epoch'[s] = epoch[s] => gen'[s] = gen[s]
  <2>1. CASE s = u
    BY <1>1, <1>4, <2>1, FinishType
  <2>2. CASE s # u
    BY <1>1, <1>4, <2>2, FinishType, BackendType
  <2> QED
    BY <2>1, <2>2
<1>5. ASSUME NEW c \in Callers, StartFinish(c) \/ StopFinish(c)
      PROVE  /\ epoch'[s] >= epoch[s]
             /\ epoch'[s] = epoch[s] => gen'[s] = gen[s]
  <2>1. PICK u \in Slots : u = call[c].slot
    BY <1>1, <1>2, <1>5 DEF StartFinish, StopFinish, CallShape
  <2>2. FinishOperation(u) /\ (BackendStart(u) \/ gen' = gen)
    BY <1>5, <2>1 DEF StartFinish, StopFinish
  <2> QED
    BY <1>4, <2>2
<1>6. CASE MonitorRestarted \/ MonitorEnds
  <2>1. CASE mon.pc \in {"drain", "backend"}
    <3>1. PICK u \in Slots : u = mon.slot
      BY <1>3, <2>1
    <3>2. FinishOperation(u) /\ (BackendStart(u) \/ gen' = gen)
      BY <1>6, <2>1, <3>1 DEF MonitorRestarted, MonitorEnds
    <3> QED
      BY <1>4, <3>2
  <2>2. CASE mon.pc \notin {"drain", "backend"}
    BY <1>1, <1>6, <2>2 DEF MonitorRestarted, MonitorEnds
  <2> QED
    BY <2>1, <2>2
<1>7. CASE /\ ~\E c \in Callers : StartFinish(c) \/ StopFinish(c)
           /\ ~MonitorRestarted /\ ~MonitorEnds
  <2>1. epoch' = epoch /\ gen' = gen
    BY <1>7 DEF OtherStep, CallStep, MonitorStep, StartBegin, StopBegin, StopAllBegin,
       StopDrained, StopAllEnd, StopAllNext, MonitorPoll, MonitorProbe, MonitorWalk,
       MonitorVisit, MonitorPassEnds, MonitorDrained, Notice, Crash, vars
  <2> QED
    BY <1>1, <2>1
<1> QED
  BY <1>5, <1>6, <1>7

LEMMA EpochTellsStep == IInv /\ [Next]_vars => EpochTells'
<1> SUFFICES ASSUME IInv, [Next]_vars PROVE EpochTells'
  OBVIOUS
<1>1. RequestShape /\ EpochTells /\ req \in [Requests -> ReqRecords]
      /\ epoch \in [Slots -> Nat] /\ gen \in [Slots -> Nat]
  BY DEF IInv, TypeOK
<1>2. CASE OtherStep
  <2>1. req' = req
    BY <1>2, OtherFrame
  <2>2. ASSUME NEW r \in Requests, req[r].pinned
        PROVE  /\ req[r].epoch <= epoch'[req[r].slot]
               /\ req[r].epoch = epoch'[req[r].slot] => req[r].gen = gen'[req[r].slot]
    <3>1. PICK s \in Slots : s = req[r].slot
      BY <1>1, <2>2 DEF RequestShape
    <3>2. /\ epoch'[s] >= epoch[s]
          /\ epoch'[s] = epoch[s] => gen'[s] = gen[s]
      BY <1>2, EpochGrows
    <3>3. req[r].epoch \in Nat /\ epoch[s] \in Nat /\ epoch'[s] \in Nat
      BY <1>1, TypeStep DEF TypeOK, ReqRecords
    <3> QED
      BY <1>1, <2>2, <3>1, <3>2, <3>3 DEF EpochTells
  <2> QED
    BY <2>1, <2>2 DEF EpochTells
<1>3. CASE RequestStep
  <2>1. epoch' = epoch /\ gen' = gen
    BY <1>3, RequestFrame
  <2>2. ASSUME NEW r \in Requests,
               \A q \in Requests \ {r} : req'[q] = req[q],
               \/ ~req'[r].pinned
               \/ /\ req[r].pinned
                  /\ req'[r].slot = req[r].slot /\ req'[r].epoch = req[r].epoch
                  /\ req'[r].gen = req[r].gen
               \/ \E s \in Slots : /\ req'[r].slot = s /\ req'[r].epoch = epoch[s]
                                   /\ req'[r].gen = gen[s]
        PROVE  EpochTells'
    BY <1>1, <2>1, <2>2 DEF EpochTells
  <2>3. OverReq.pinned = FALSE
    BY DEF OverReq, Req
  <2>4. ASSUME NEW r \in Requests, NEW s \in Slots, PreRoute(r, s) PROVE EpochTells'
    <3>1. \A q \in Requests \ {r} : req'[q] = req[q]
      BY <1>1, <2>4 DEF PreRoute
    <3>2. CASE phase[s] = "idle"
      <4>1. req'[r] = Req("prerouted", s, epoch[s], gen[s], TRUE)
        BY <1>1, <2>4, <3>2 DEF PreRoute
      <4> QED
        BY <2>2, <3>1, <4>1 DEF Req
    <3>3. CASE phase[s] # "idle"
      BY <1>1, <2>2, <2>3, <2>4, <3>1, <3>3 DEF PreRoute
    <3> QED
      BY <3>2, <3>3
  <2>5. ASSUME NEW r \in Requests, NEW s \in Slots, Choose(r, s) PROVE EpochTells'
    <3>1. \A q \in Requests \ {r} : req'[q] = req[q]
      BY <1>1, <2>5 DEF Choose
    <3>2. CASE req[r].pc = "prerouted" /\ s = req[r].slot
      <4>1. req'[r] = [req[r] EXCEPT !.pc = "choosing"]
        BY <1>1, <2>5, <3>2 DEF Choose
      <4>2. /\ req'[r].slot = req[r].slot /\ req'[r].epoch = req[r].epoch
            /\ req'[r].gen = req[r].gen /\ req'[r].pinned = req[r].pinned
        BY <1>1, <4>1 DEF ReqRecords
      <4> QED
        BY <2>2, <3>1, <4>2
    <3>3. CASE ~(req[r].pc = "prerouted" /\ s = req[r].slot)
      <4>1. req'[r] = Req("choosing", s, 0, gen[s], FALSE)
        BY <1>1, <2>5, <3>3 DEF Choose
      <4> QED
        BY <2>2, <3>1, <4>1 DEF Req
    <3> QED
      BY <3>2, <3>3
  <2>6. ASSUME NEW r \in Requests, Decide(r) PROVE EpochTells'
    <3>1. \A q \in Requests \ {r} : req'[q] = req[q]
      BY <1>1, <2>6 DEF Decide
    <3>2. CASE phase[req[r].slot] = "idle"
      <4>1. /\ req'[r].slot = req[r].slot /\ req'[r].gen = req[r].gen
            /\ req'[r].pinned = req[r].pinned
            /\ req[r].pinned => req'[r].epoch = req[r].epoch
        BY <1>1, <2>6, <3>2 DEF Decide, ReqRecords
      <4> QED
        BY <2>2, <3>1, <4>1
    <3>3. CASE phase[req[r].slot] # "idle"
      BY <1>1, <2>2, <2>3, <2>6, <3>1, <3>3 DEF Decide
    <3> QED
      BY <3>2, <3>3
  <2>7. ASSUME NEW r \in Requests,
               Lease(r) \/ Finish(r) \/ GiveUp(r) \/ ForwardDirect(r) \/ EndDirect(r)
        PROVE  EpochTells'
    <3>1. \A q \in Requests \ {r} : req'[q] = req[q]
      BY <1>1, <2>7 DEF Lease, Finish, GiveUp, ForwardDirect, EndDirect
    <3>2. \/ req'[r] = OverReq
          \/ req'[r] = [req[r] EXCEPT !.pc = "leased"]
          \/ req'[r] = [req[r] EXCEPT !.pc = "direct"]
      BY <1>1, <2>7 DEF Lease, Finish, GiveUp, ForwardDirect, EndDirect
    <3>3. \/ ~req'[r].pinned
          \/ /\ req'[r].slot = req[r].slot /\ req'[r].epoch = req[r].epoch
             /\ req'[r].gen = req[r].gen /\ req'[r].pinned = req[r].pinned
      BY <1>1, <2>3, <3>2 DEF ReqRecords
    <3> QED
      BY <2>2, <3>1, <3>3
  <2> QED
    BY <1>3, <2>4, <2>5, <2>6, <2>7 DEF RequestStep
<1> QED
  BY <1>2, <1>3, NextCases

-----------------------------------------------------------------------------
(* A running slot is watched.  Only a monitor that was cancelled goes off,    *)
(* and the stop_all that cancelled it still has every slot to visit; it       *)
(* passes over a slot only when an owner will stop it or revive the monitor.  *)
WatchedBy(s) ==
  \/ \E c \in Callers : call[c].kind = "stop_all" /\ s \in call[c].todo
  \/ \E c \in Callers : Operating(c, s)

Running(s) == proc[s] \in {"up", "sick"}

LEMMA WatchStep == IInv /\ [Next]_vars => MonitorWatches'
<1> SUFFICES ASSUME IInv, [Next]_vars,
                    NEW s \in Slots, Running(s)', ~manualStop'[s], mon'.pc = "off"
             PROVE  WatchedBy(s)'
  BY DEF MonitorWatches, WatchedBy, Running
<1>1. TypeOK /\ CallShape /\ MonitorShape /\ OneOwner
      /\ call \in [Callers -> Calls] /\ mon \in Monitors
      /\ manualStop \in [Slots -> BOOLEAN] /\ proc \in [Slots -> ProcStates]
  BY DEF IInv, TypeOK
<1>2. \A c \in Callers : call[c].step \in {"drain", "backend"} => call[c].slot \in Slots
  BY <1>1, OwnedSlot
<1>3. Running(s) /\ ~manualStop[s] /\ mon.pc = "off" => WatchedBy(s)
  BY DEF IInv, MonitorWatches, WatchedBy, Running
<1>4. ASSUME NEW c \in Callers, \A d \in Callers \ {c} : call'[d] = call[d],
             \/ call'[c].kind = call[c].kind /\ call'[c].todo = call[c].todo /\ ~Operating(c, s)
             \/ call[c].kind # "stop_all" /\ ~Operating(c, s)
             \/ call[c].todo = {} /\ ~Operating(c, s)
             \/ Operating(c, s)',
             WatchedBy(s)
      PROVE  WatchedBy(s)'
  BY <1>4 DEF WatchedBy, Operating
<1>5. ASSUME NEW c \in Callers, NEW u \in Slots, StartBegin(c, u) PROVE WatchedBy(s)'
  <2>1. /\ proc' = proc /\ mon' = mon /\ manualStop' = [manualStop EXCEPT ![u] = FALSE]
        /\ call[c].kind = "none" /\ call[c].slot = NoSlot
        /\ call'[c].slot = u /\ call'[c].step = "backend"
        /\ \A d \in Callers \ {c} : call'[d] = call[d]
    BY <1>1, <1>5 DEF StartBegin, ClearManualStop, NoCall
  <2>2. CASE u = s
    BY <2>1, <2>2 DEF WatchedBy, Operating
  <2>3. CASE u # s
    BY <1>1, <1>3, <1>4, <2>1, <2>3, CoordinationAssumption DEF Running, Operating
  <2> QED
    BY <2>2, <2>3
<1>6. ASSUME NEW c \in Callers, \/ \E u \in Slots : StopBegin(c, u)
                                \/ StopAllBegin(c) \/ StopAllEnd(c)
      PROVE  WatchedBy(s)'
  <2>1. /\ proc' = proc /\ manualStop' = manualStop
        /\ \A d \in Callers \ {c} : call'[d] = call[d]
    BY <1>1, <1>6 DEF StopBegin, StopAllBegin, StopAllEnd
  <2>2. mon.pc = "off"
    BY <1>1, <1>6 DEF StopBegin, StopAllBegin, StopAllEnd, Monitors
  <2>3. ~Operating(c, s) /\ (call[c].kind # "stop_all" \/ call[c].todo = {})
    BY <1>6 DEF StopBegin, StopAllBegin, StopAllEnd, NoCall, Operating
  <2> QED
    BY <1>3, <1>4, <2>1, <2>2, <2>3 DEF Running
<1>7. ASSUME NEW c \in Callers, StartFinish(c) PROVE FALSE
  BY <1>1, <1>7, MonitorValues DEF StartFinish, ReviveMonitor
<1>8. ASSUME NEW c \in Callers, StopDrained(c) PROVE WatchedBy(s)'
  <2>1. /\ proc' = proc /\ manualStop' = manualStop /\ mon' = mon
        /\ \A d \in Callers \ {c} : call'[d] = call[d]
        /\ call[c].step = "drain" /\ call'[c] = [call[c] EXCEPT !.step = "backend"]
    BY <1>1, <1>8 DEF StopDrained
  <2>2. call'[c].kind = call[c].kind /\ call'[c].todo = call[c].todo
        /\ call'[c].slot = call[c].slot /\ call'[c].step = "backend"
    BY <1>1, <2>1 DEF Calls
  <2>3. Operating(c, s)' <=> Operating(c, s)
    BY <2>1, <2>2 DEF Operating
  <2> QED
    BY <1>3, <1>4, <2>1, <2>2, <2>3 DEF Running
<1>9. ASSUME NEW c \in Callers, StopFinish(c) PROVE WatchedBy(s)'
  <2>1. PICK u \in Slots : u = call[c].slot
    BY <1>2, <1>9 DEF StopFinish
  <2>2. /\ BackendStop(u) /\ manualStop' = [manualStop EXCEPT ![u] = TRUE] /\ mon' = mon
        /\ \A d \in Callers \ {c} : call'[d] = call[d]
    BY <1>1, <1>9, <2>1 DEF StopFinish, RememberStop
  <2>3. u # s
    BY <1>1, <2>2
  <2>4. ~Operating(c, s) /\ Running(s) /\ ~manualStop[s]
    BY <1>1, <2>1, <2>2, <2>3, StopType DEF Operating, Running
  <2>5. \/ call[c].kind # "stop_all"
        \/ call'[c].kind = call[c].kind /\ call'[c].todo = call[c].todo
    BY <1>1, <1>9 DEF StopFinish, Calls
  <2> QED
    BY <1>3, <1>4, <2>2, <2>4, <2>5
<1>10. ASSUME NEW c \in Callers, NEW u \in Slots, StopAllNext(c, u) PROVE WatchedBy(s)'
  <2>1. /\ proc' = proc /\ manualStop' = manualStop /\ mon' = mon
        /\ call[c].step = "next" /\ \A d \in Callers \ {c} : call'[d] = call[d]
    BY <1>1, <1>10 DEF StopAllNext
  <2>2. WatchedBy(s)
    BY <1>3, <2>1 DEF Running
  <2>3. CASE u # s
    <3>1. call'[c].kind = call[c].kind /\ (s \in call'[c].todo <=> s \in call[c].todo)
      BY <1>1, <1>10, <2>3 DEF StopAllNext, Calls
    <3> QED
      BY <2>1, <2>2, <3>1 DEF WatchedBy, Operating
  <2>4. CASE u = s /\ BeginOperation(s, "draining")
    <3>1. call'[c].slot = s /\ call'[c].step = "drain"
      BY <1>1, <1>10, <2>4 DEF StopAllNext, BeginOperation, Calls
    <3> QED
      BY <3>1 DEF WatchedBy, Operating
  <2>5. CASE u = s /\ ~CanBegin(s)
    <3>1. PICK d \in Callers : Operating(d, s)
      BY <1>1, <2>1, <2>5 DEF CanBegin, OneOwner, MonitorOperating
    <3>2. d # c
      BY <2>1, <3>1 DEF Operating
    <3> QED
      BY <2>1, <3>1, <3>2 DEF WatchedBy, Operating
  <2> QED
    BY <1>10, <2>3, <2>4, <2>5 DEF StopAllNext
<1>11. CASE MonitorEnds
  <2>1. PICK c \in Callers : call[c].step = "cancelling"
    BY <1>1, <1>11 DEF MonitorEnds, MonitorShape
  <2>2. call[c].kind = "stop_all" /\ call[c].todo = Slots
    BY <1>1, <2>1 DEF CallShape, NoCall, Calls
  <2>3. call'[c] = [call[c] EXCEPT !.step = "next"]
    BY <1>11, <2>1 DEF MonitorEnds
  <2>4. call'[c].kind = "stop_all" /\ call'[c].todo = Slots
    BY <1>1, <2>2, <2>3 DEF Calls
  <2> QED
    BY <2>4 DEF WatchedBy
<1>12. CASE MonitorStep /\ ~MonitorEnds
  <2>1. mon'.pc # "off"
    <3>1. CASE MonitorPoll
      BY <1>1, <3>1, MonitorValues DEF MonitorPoll
    <3>2. CASE MonitorPassEnds
      BY <1>1, <3>2, MonitorValues DEF MonitorPassEnds
    <3>3. CASE MonitorRestarted
      BY <1>1, <3>3, MonitorValues DEF MonitorRestarted
    <3>4. CASE MonitorWalk \/ MonitorDrained \/ \E u \in Slots : MonitorProbe(u)
      BY <1>1, <3>4 DEF MonitorWalk, MonitorDrained, MonitorProbe, Monitors
    <3>5. ASSUME NEW u \in Slots, MonitorVisit(u) PROVE mon'.pc # "off"
      BY <1>1, <3>5 DEF MonitorVisit, Monitors
    <3> QED
      BY <1>12, <3>1, <3>2, <3>3, <3>4, <3>5 DEF MonitorStep
  <2> QED
    BY <2>1
<1>13. CASE RequestStep \/ UNCHANGED vars \/ \E u \in Slots : Notice(u) \/ Crash(u)
  <2>1. manualStop' = manualStop /\ mon' = mon /\ call' = call
    BY <1>13, RequestFrame DEF vars, Notice, Crash
  <2>2. Running(s)
    BY <1>1, <1>13, RequestFrame DEF vars, Notice, Crash, Running
  <2> QED
    BY <1>3, <2>1, <2>2 DEF WatchedBy, Operating
<1> QED
  BY <1>5, <1>6, <1>7, <1>8, <1>9, <1>10, <1>11, <1>12, <1>13, NextCases
     DEF OtherStep, CallStep

-----------------------------------------------------------------------------
(* The inductive invariant holds in every reachable state. *)
THEOREM SlotInvariant == Spec => []IInv
<1>1. IInv /\ [Next]_vars => IInv'
  BY TypeStep, CallShapeStep, MonitorShapeStep, OwnerStep, LeasesStep, StopPreparedStep,
     SpawnAllowedStep, RequestShapeStep, EpochTellsStep, WatchStep DEF IInv
<1> QED
  BY InitIInv, <1>1, PTL DEF Spec

(* The state has its shape, leases are bounded by the requests, and the       *)
(* monitor counts at most max_restart_attempts restarts.                      *)
THEOREM SlotTypeCorrect == Spec => []TypeOK
<1>1. IInv => TypeOK
  BY DEF IInv
<1> QED
  BY SlotInvariant, <1>1, PTL

(* active_requests is the number of requests forwarded under a lease.         *)
THEOREM SlotLeasesAccounted == Spec => []LeasesAccounted
<1>1. IInv => LeasesAccounted
  BY DEF IInv
<1> QED
  BY SlotInvariant, <1>1, PTL

(* A running slot that was not stopped by hand is watched, or will be visited *)
(* by the stop_all that cancelled the monitor.                                *)
THEOREM SlotMonitorWatches == Spec => []MonitorWatches
<1>1. IInv => MonitorWatches
  BY DEF IInv
<1> QED
  BY SlotInvariant, <1>1, PTL

(* A slot is under an operation exactly while one owner works on it.          *)
THEOREM SlotOneOperation == Spec => []OneOperation
<1>1. IInv => OneOperation
  <2> SUFFICES ASSUME IInv, NEW s \in Slots
               PROVE  Cardinality({c \in Callers : Operating(c, s)})
                        + (IF MonitorOperating(s) THEN 1 ELSE 0)
                      = IF phase[s] = "idle" THEN 0 ELSE 1
    BY DEF OneOperation
  <2> DEFINE owners == {c \in Callers : Operating(c, s)}
  <2>1. OneOwner
    BY DEF IInv
  <2>2. CASE owners = {}
    BY <2>1, <2>2, FS_EmptySet DEF OneOwner
  <2>3. ASSUME NEW c \in owners
        PROVE  owners = {c} /\ ~MonitorOperating(s) /\ phase[s] # "idle"
    BY <2>1, <2>3 DEF OneOwner
  <2>4. CASE owners # {}
    <3>1. PICK c \in owners : owners = {c} /\ ~MonitorOperating(s) /\ phase[s] # "idle"
      BY <2>3, <2>4
    <3>2. Cardinality(owners) = 1
      BY <3>1, FS_Singleton
    <3> QED
      BY <3>1, <3>2
  <2> QED
    BY <2>2, <2>4
<1> QED
  BY SlotInvariant, <1>1, PTL

(* Requests, control calls and the monitor agree on every slot.               *)
THEOREM SlotCoordinated == Spec => []Coordinated
<1>1. LeasesAccounted /\ OneOperation /\ MonitorWatches => Coordinated
  BY DEF Coordinated
<1> QED
  BY SlotLeasesAccounted, SlotOneOperation, SlotMonitorWatches, <1>1, PTL

(* Only a stop that has drained the slot takes its process away.              *)
THEOREM SlotStopsDrained == Spec => StopsDrained
<1>1. IInv /\ [Next]_vars =>
        [\A s \in Slots :
           proc[s] # "absent" /\ proc'[s] = "absent" => LeasedOn(s) = {}]_vars
  <2> SUFFICES ASSUME IInv, Next, NEW s \in Slots, proc[s] # "absent", proc'[s] = "absent"
               PROVE  LeasedOn(s) = {}
    OBVIOUS
  <2>1. TypeOK /\ CallShape /\ MonitorShape /\ StopPrepared /\ LeasesAccounted
        /\ proc \in [Slots -> ProcStates]
    BY DEF IInv, TypeOK
  <2>2. ASSUME NEW u \in Slots, BackendStart(u) PROVE FALSE
    BY <2>1, <2>2, BackendType
  <2>3. mon.pc = "backend" => mon.slot \in Slots
    BY <2>1, OwnedSlot
  <2>4. ~MonitorRestarted /\ ~MonitorEnds
    BY <2>2, <2>3 DEF MonitorRestarted, MonitorEnds
  <2>5. ~\E c \in Callers : StartFinish(c)
    BY <2>1, <2>2, OwnedSlot DEF StartFinish, CallShape
  <2>6. ASSUME NEW c \in Callers, StopFinish(c) PROVE LeasedOn(s) = {}
    <3>1. PICK u \in Slots : u = call[c].slot
      BY <2>1, <2>6, OwnedSlot DEF StopFinish
    <3>2. BackendStop(u)
      BY <2>6, <3>1 DEF StopFinish
    <3>3. u = s
      BY <2>1, <3>2, StopType
    <3>4. Cardinality(LeasedOn(s)) = 0
      BY <2>1, <2>6, <3>1, <3>3 DEF StopPrepared, LeasesAccounted, StopFinish
    <3>5. IsFiniteSet(LeasedOn(s))
      BY FS_Subset, CoordinationAssumption DEF LeasedOn
    <3> QED
      BY <3>4, <3>5, FS_EmptySet
  <2>7. ASSUME NEW u \in Slots, Crash(u) PROVE FALSE
    BY <2>1, <2>7 DEF Crash
  <2>8. CASE /\ ~\E c \in Callers : StartFinish(c) \/ StopFinish(c)
             /\ ~MonitorRestarted /\ ~MonitorEnds /\ ~\E u \in Slots : Crash(u)
    <3>1. proc' = proc
      <4>1. CASE RequestStep
        BY <4>1, RequestFrame
      <4>2. CASE OtherStep
        BY <2>8, <4>2 DEF OtherStep, CallStep, MonitorStep, StartBegin, StopBegin, StopAllBegin,
           StopDrained, StopAllEnd, StopAllNext, MonitorPoll, MonitorProbe, MonitorWalk,
           MonitorVisit, MonitorPassEnds, MonitorDrained, Notice, vars
      <4> QED
        BY <4>1, <4>2, NextCases
    <3> QED
      BY <3>1
  <2> QED
    BY <2>4, <2>5, <2>6, <2>7, <2>8
<1> QED
  BY SlotInvariant, <1>1, PTL DEF Spec, StopsDrained

(* Every process is spawned by an owner that found the slot not stopped.      *)
THEOREM SlotStopSticks == Spec => StopSticks
<1>1. IInv /\ [Next]_vars => [\A s \in Slots : gen'[s] # gen[s] => ~manualStop[s]]_vars
  <2> SUFFICES ASSUME IInv, Next, NEW s \in Slots, gen'[s] # gen[s]
               PROVE  ~manualStop[s]
    OBVIOUS
  <2>1. TypeOK /\ CallShape /\ MonitorShape /\ SpawnAllowed
    BY DEF IInv
  <2>2. ASSUME NEW u \in Slots, BackendStart(u) PROVE u = s
    BY <2>1, <2>2, BackendType
  <2>3. ASSUME NEW c \in Callers, StartFinish(c) PROVE ~manualStop[s]
    <3>1. call[c].kind = "start" /\ BackendStart(call[c].slot) /\ call[c].slot \in Slots
      BY <2>1, <2>3, OwnedSlot DEF StartFinish, CallShape
    <3> QED
      BY <2>1, <2>2, <3>1 DEF SpawnAllowed
  <2>4. CASE MonitorRestarted \/ MonitorEnds
    <3>1. mon.pc = "backend" /\ BackendStart(mon.slot) /\ mon.slot \in Slots
      BY <2>1, <2>4, OwnedSlot DEF MonitorRestarted, MonitorEnds
    <3> QED
      BY <2>1, <2>2, <3>1 DEF SpawnAllowed
  <2>5. CASE /\ ~\E c \in Callers : StartFinish(c)
             /\ ~MonitorRestarted /\ ~MonitorEnds
    <3>1. gen' = gen
      <4>1. CASE RequestStep
        BY <4>1, RequestFrame
      <4>2. CASE OtherStep
        BY <2>5, <4>2 DEF OtherStep, CallStep, MonitorStep, StartBegin, StopBegin, StopAllBegin,
           StopDrained, StopFinish, StopAllEnd, StopAllNext, MonitorPoll, MonitorProbe,
           MonitorWalk, MonitorVisit, MonitorPassEnds, MonitorDrained, Notice, Crash, vars
      <4> QED
        BY <4>1, <4>2, NextCases
    <3> QED
      BY <3>1
  <2> QED
    BY <2>3, <2>4, <2>5
<1> QED
  BY SlotInvariant, <1>1, PTL DEF Spec, StopSticks

(* The epoch check of try_begin_slot_request lets a request through only to   *)
(* the process that was there when its epoch was captured.                    *)
THEOREM SlotLeaseMatchesRoute == Spec => LeaseMatchesRoute
<1>1. IInv /\ [Next]_vars =>
        [\A r \in Requests :
           req[r].pc = "routed" /\ req'[r].pc = "leased" /\ req[r].pinned
             => gen[req[r].slot] = req[r].gen]_vars
  <2> SUFFICES ASSUME IInv, Next, NEW r \in Requests,
                      req[r].pc = "routed", req'[r].pc = "leased", req[r].pinned
               PROVE  gen[req[r].slot] = req[r].gen
    OBVIOUS
  <2>1. EpochTells /\ req \in [Requests -> ReqRecords]
    BY DEF IInv, TypeOK
  <2>2. ASSUME NEW q \in Requests, Lease(q) PROVE LeaseAvailable(r)
    <3>1. q = r
      BY <2>1, <2>2 DEF Lease
    <3>2. OverReq.pc = "over"
      BY DEF OverReq, Req
    <3> QED
      BY <2>1, <2>2, <3>1, <3>2 DEF Lease
  <2>3. CASE ~\E q \in Requests : Lease(q)
    <3>1. OverReq.pc = "over"
      BY DEF OverReq, Req
    <3>2. req' # req
      OBVIOUS
    <3>3. RequestStep
      BY <3>2, NextCases, OtherFrame
    <3>4. ASSUME NEW q \in Requests, NEW s \in Slots, PreRoute(q, s) \/ Choose(q, s)
          PROVE  FALSE
      BY <2>1, <3>4 DEF PreRoute, Choose
    <3>5. ASSUME NEW q \in Requests,
                 Decide(q) \/ Finish(q) \/ GiveUp(q) \/ ForwardDirect(q) \/ EndDirect(q)
          PROVE  FALSE
      BY <2>1, <3>1, <3>5 DEF Decide, Finish, GiveUp, ForwardDirect, EndDirect
    <3> QED
      BY <2>3, <3>3, <3>4, <3>5 DEF RequestStep
  <2> QED
    BY <2>1, <2>2, <2>3 DEF EpochTells, LeaseAvailable
<1> QED
  BY SlotInvariant, <1>1, PTL DEF Spec, LeaseMatchesRoute
=============================================================================
