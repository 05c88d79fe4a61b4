------------------------ MODULE ModelBackendsProofs ------------------------
(***************************************************************************)
(* That the service, the setup engine and the command line, on any of the  *)
(* three backends, end nothing that is not the router's own: for any slots, *)
(* pids, ports, models, machines and requests, and any number of processes *)
(* and containers.                                                         *)
(***************************************************************************)
EXTENDS ModelBackends, SequenceTheorems, WellFoundedInduction, TLAPS

(* A handle names a process of the past or the present.                    *)
Old(h) == h # Nothing => h.pid \in Pids /\ h.born \in 1 .. births

Processes ==
  /\ births \in Nat /\ proc = [p \in Pids |-> proc[p]]
  /\ \A p \in Pids : proc[p] # Nothing =>
       proc[p] = [born |-> proc[p].born, by |-> proc[p].by, port |-> proc[p].port,
                  model |-> proc[p].model, serving |-> proc[p].serving]

(* What is tracked, recorded or kept as one's own was started by the one     *)
(* that does, if it still runs: a pid that is used again has a later birth.  *)
HeldOwn ==
  /\ held = [s \in Slots |-> held[s]]
  /\ \A s \in Slots : Old(held[s]) /\ (Alive(held[s]) => proc[held[s].pid].by = s)
RecordOwn ==
  /\ Old(record)
  /\ Alive(record) => /\ proc[record.pid].by # Foreign
                      /\ (record.slot \in Slots => proc[record.pid].by = record.slot)
MineOwn == Old(mine) /\ (Alive(mine) => proc[mine.pid].by = Setup)

PInv == Processes /\ HeldOwn /\ RecordOwn /\ MineOwn /\ OnlyOwnStopped

-----------------------------------------------------------------------------
(* What any step does to the processes: a handle stays old, and none comes  *)
(* to life again, nor changes hands.                                       *)
Keeps ==
  /\ Processes'
  /\ \A h : Old(h) => /\ Old(h)'
                     /\ (Alive(h)' => Alive(h) /\ proc'[h.pid].by = proc[h.pid].by)

(* A new process has a birth later than every handle's.                    *)
LEMMA SpawnKeeps ==
  ASSUME Processes, NEW p \in Pids, NEW by, NEW port, NEW m, Spawned(p, by, port, m)
  PROVE  /\ Keeps
         /\ NewHandle(p).pid = p /\ NewHandle(p).born \in 1 .. births' /\ proc'[p].by = by
<1> USE DEF Processes, Spawned
<1>1. /\ births' = births + 1 /\ births' \in Nat
      /\ proc'[p] = [born |-> births + 1, by |-> by, port |-> port, model |-> m, serving |-> FALSE]
      /\ \A q \in Pids \ {p} : proc'[q] = proc[q]
      /\ proc' = [q \in Pids |-> proc'[q]]
  <2>1. births \in Nat /\ births' = births + 1
    OBVIOUS
  <2>2. proc' = [proc EXCEPT ![p] = [born |-> births + 1, by |-> by, port |-> port, model |-> m, serving |-> FALSE]]
    OBVIOUS
  <2>3. proc = [q \in Pids |-> proc[q]]
    OBVIOUS
  <2> HIDE DEF Processes, Spawned
  <2> DEFINE new == [born |-> births + 1, by |-> by, port |-> port, model |-> m, serving |-> FALSE]
  <2>4. proc'[p] = new /\ (\A q \in Pids \ {p} : proc'[q] = proc[q]) /\ proc' = [q \in Pids |-> proc'[q]]
    <3> HIDE DEF new
    <3>1. proc' = [proc EXCEPT ![p] = new]
      BY <2>2 DEF new
    <3> QED
      BY <2>3, <3>1
  <2> QED
    BY <2>1, <2>4
<1>2. Processes'
  BY <1>1
<1>3. ASSUME NEW h, Old(h)
      PROVE  Old(h)' /\ (Alive(h)' => Alive(h) /\ proc'[h.pid].by = proc[h.pid].by)
  <2>1. CASE h = Nothing
    BY <2>1 DEF Old, Alive
  <2>2. CASE h # Nothing /\ h.pid = p
    <3>1. h.born \in 1 .. births
      BY <1>3, <2>2 DEF Old
    <3>2. h.born # proc'[h.pid].born
      BY <1>1, <2>2, <3>1
    <3> QED
      BY <1>1, <1>3, <2>2, <3>1, <3>2 DEF Old, Alive
  <2>3. CASE h # Nothing /\ h.pid # p
    BY <1>1, <1>3, <2>3 DEF Old, Alive
  <2> QED
    BY <2>1, <2>2, <2>3
<1>4. Keeps
  BY <1>2, <1>3 DEF Keeps
<1>5. NewHandle(p).pid = p /\ NewHandle(p).born \in 1 .. births' /\ proc'[p].by = by
  BY <1>1 DEF NewHandle
<1> QED
  BY <1>4, <1>5

(* A process that ends leaves the others as they are.                      *)
LEMMA EndKeeps ==
  ASSUME Processes, NEW p \in Pids, proc' = [proc EXCEPT ![p] = Nothing], UNCHANGED births
  PROVE  Keeps
<1>1. /\ proc'[p] = Nothing /\ \A q \in Pids \ {p} : proc'[q] = proc[q]
      /\ proc' = [q \in Pids |-> proc'[q]]
  BY DEF Processes
<1>2. Processes'
  BY <1>1 DEF Processes
<1>3. ASSUME NEW h, Old(h)
      PROVE  Old(h)' /\ (Alive(h)' => Alive(h) /\ proc'[h.pid].by = proc[h.pid].by)
  BY <1>1, <1>3 DEF Old, Alive
<1> QED
  BY <1>2, <1>3 DEF Keeps

(* Nor does a process change hands when its model has loaded.              *)
LEMMA LoadKeeps ==
  ASSUME Processes, NEW p \in Pids, Loads(p)
  PROVE  Keeps
<1>1. CASE PortOpen(proc[p].port)
  BY <1>1, EndKeeps DEF Loads
<1>2. CASE ~PortOpen(proc[p].port)
  <2>1. proc' = [proc EXCEPT ![p] = [@ EXCEPT !.serving = TRUE]] /\ births' = births
    BY <1>2 DEF Loads
  <2>2. proc[p] = [born |-> proc[p].born, by |-> proc[p].by, port |-> proc[p].port,
                   model |-> proc[p].model, serving |-> proc[p].serving]
    BY DEF Processes, Loads
  <2>3. /\ proc'[p] = [proc[p] EXCEPT !.serving = TRUE]
        /\ \A q \in Pids \ {p} : proc'[q] = proc[q]
        /\ proc' = [q \in Pids |-> proc'[q]]
    BY <2>1 DEF Processes
  <2>4. proc'[p] = [born |-> proc[p].born, by |-> proc[p].by, port |-> proc[p].port,
                    model |-> proc[p].model, serving |-> TRUE]
    BY <2>2, <2>3
  <2>5. Processes'
    BY <2>1, <2>3, <2>4 DEF Processes
  <2>6. ASSUME NEW h, Old(h)
        PROVE  Old(h)' /\ (Alive(h)' => Alive(h) /\ proc'[h.pid].by = proc[h.pid].by)
    <3>1. CASE h # Nothing /\ h.pid = p
      BY <2>1, <2>4, <2>6, <3>1 DEF Old, Alive, Loads
    <3>2. CASE h = Nothing \/ h.pid # p
      BY <2>1, <2>3, <2>6, <3>2 DEF Old, Alive
    <3> QED
      BY <3>1, <3>2
  <2> QED
    BY <2>5, <2>6 DEF Keeps
<1> QED
  BY <1>1, <1>2

(* What is not written down anew stays one's own.                          *)
LEMMA StillKeeps == Processes /\ UNCHANGED host => Keeps
BY DEF Processes, host, Keeps, Old, Alive

LEMMA HeldKept == HeldOwn /\ Keeps /\ UNCHANGED held => HeldOwn'
BY DEF HeldOwn, Keeps, Old, Alive

LEMMA RecordKept == RecordOwn /\ Keeps /\ UNCHANGED record => RecordOwn'
BY DEF RecordOwn, Keeps, Old, Alive

LEMMA RecordGone == Keeps /\ record' = Nothing => RecordOwn'
BY DEF RecordOwn, Old, Alive

LEMMA MineKept == MineOwn /\ Keeps /\ UNCHANGED mine => MineOwn'
BY DEF MineOwn, Keeps, Old, Alive

LEMMA EndedKept == OnlyOwnStopped /\ UNCHANGED ended => OnlyOwnStopped'
BY DEF OnlyOwnStopped

(* Terminated, of one's own, on behalf of a slot or of the setup engine.    *)
LEMMA EndsOwn ==
  ASSUME Processes, OnlyOwnStopped, NEW p \in Pids, NEW who, Terminated(p, who),
         proc[p].by # Foreign, who \in Slots => proc[p].by = who
  PROVE  Keeps /\ OnlyOwnStopped'
<1>1. Keeps
  BY EndKeeps DEF Terminated
<1>2. OnlyOwnStopped'
  <2>1. ended' = ended \cup {<<proc[p].by, who>>}
    BY DEF Terminated
  <2> QED
    BY <2>1 DEF OnlyOwnStopped
<1> QED
  BY <1>1, <1>2

-----------------------------------------------------------------------------
(* The machine touches nothing that is written down.                        *)
LEMMA MachineStep == PInv /\ Machine /\ UNCHANGED mine => PInv'
<1> SUFFICES ASSUME PInv, Machine, UNCHANGED mine PROVE PInv'
  OBVIOUS
<1>1. Keeps /\ UNCHANGED <<record, held, ended>>
  <2>1. CASE \E p \in Pids : Loads(p)
    <3>1. PICK p \in Pids : Loads(p)
      BY <2>1
    <3> QED
      BY <3>1, LoadKeeps DEF PInv, Loads
  <2>2. CASE \E p \in Pids : Exits(p)
    <3>1. PICK p \in Pids : Exits(p)
      BY <2>2
    <3> QED
      BY <3>1, EndKeeps DEF PInv, Exits
  <2>3. CASE \E p \in Pids, port \in Ports, m \in Models : ForeignStarts(p, port, m)
    <3>1. PICK p \in Pids, port \in Ports, m \in Models : ForeignStarts(p, port, m)
      BY <2>3
    <3>2. Spawned(p, Foreign, port, m)
      BY <3>1 DEF ForeignStarts
    <3> QED
      BY <3>1, <3>2, SpawnKeeps DEF PInv, ForeignStarts
  <2> QED
    BY <2>1, <2>2, <2>3 DEF Machine
<1> QED
  BY <1>1, HeldKept, RecordKept, MineKept, EndedKept DEF PInv, Keeps

(* One slot's handle is written, the others are kept.                       *)
LEMMA OneHeld ==
  ASSUME HeldOwn, Keeps, NEW s \in Slots, NEW h, held' = [held EXCEPT ![s] = h],
         Old(h)', Alive(h)' => proc'[h.pid].by = s
  PROVE  HeldOwn'
<1>1. /\ held'[s] = h /\ \A t \in Slots \ {s} : held'[t] = held[t]
      /\ held' = [t \in Slots |-> held'[t]]
  BY DEF HeldOwn
<1>2. ASSUME NEW t \in Slots
      PROVE  Old(held[t])' /\ (Alive(held[t])' => proc'[held'[t].pid].by = t)
  <2>1. CASE t = s
    BY <1>1, <2>1 DEF Old, Alive
  <2>2. CASE t # s
    BY <1>1, <2>2 DEF HeldOwn, Keeps, Old, Alive
  <2> QED
    BY <2>1, <2>2
<1> QED
  BY <1>1, <1>2 DEF HeldOwn

(* The service's backend: a slot's new process is the slot's in its handle  *)
(* and in the record, and what a slot ends is its own.                      *)
LEMMA StartStep ==
  ASSUME ProcessAssumption, PInv, NEW s \in Slots, NEW p \in Pids, Start(s, p), UNCHANGED mine
  PROVE  PInv'
<1>0. PICK h : h = NewHandle(p)
  OBVIOUS
<1>1. Spawned(p, s, SlotPort[s], CommandModel(s))
  BY DEF Start
<1>2. /\ Keeps
      /\ h.pid = p /\ h.born \in 1 .. births' /\ proc'[p].by = s
  BY <1>0, <1>1, SpawnKeeps DEF PInv
<1>3. HeldOwn'
  <2>1. Old(h)'
    BY <1>2 DEF Old
  <2>2. Alive(h)' => proc'[h.pid].by = s
    BY <1>2
  <2>3. held' = [held EXCEPT ![s] = h]
    BY <1>0 DEF Start
  <2> QED
    BY <1>2, <2>1, <2>2, <2>3, OneHeld DEF PInv
<1>4. RecordOwn'
  <2>1. record' = RecordFor(h, s, SlotPort[s], SlotModel[s])
    BY <1>0 DEF Start
  <2>2. record'.pid = p /\ record'.born \in 1 .. births' /\ record'.slot = s
    BY <1>2, <2>1 DEF RecordFor
  <2>3. s # Foreign
    BY DEF ProcessAssumption
  <2> QED
    BY <1>2, <2>2, <2>3 DEF RecordOwn, Old, Alive
<1> QED
  BY <1>2, <1>3, <1>4, MineKept, EndedKept DEF PInv, Keeps, Start

LEMMA BackendStep ==
  ASSUME ProcessAssumption, PInv, Backend, UNCHANGED mine
  PROVE  PInv'
<1>1. PICK s \in Slots :
        \/ StartRefused(s) \/ StartUnrecorded(s) \/ StartEnds(s)
        \/ StopBegins(s) \/ StopEnds(s) \/ \E p \in Pids : Start(s, p)
  BY DEF Backend
<1>0. s \notin {Setup, Foreign}
  BY DEF ProcessAssumption
<1>2. Old(Nothing)' /\ ~Alive(Nothing)'
  BY DEF Old, Alive
<1>3. CASE StartRefused(s)
  <2>1. Keeps
    BY <1>3, StillKeeps DEF PInv, StartRefused, host
  <2> QED
    BY <1>2, <1>3, <2>1, OneHeld, RecordKept, MineKept, EndedKept DEF PInv, Keeps, StartRefused
<1>4. CASE StartUnrecorded(s)
  <2>1. births' = births + 1 /\ UNCHANGED <<proc, record>> /\ held' = [held EXCEPT ![s] = Nothing]
    BY <1>4 DEF StartUnrecorded
  <2>2. Keeps
    <3>1. births \in Nat
      BY DEF PInv, Processes
    <3>2. Processes'
      BY <2>1, <3>1 DEF PInv, Processes
    <3> QED
      BY <2>1, <3>1, <3>2 DEF Keeps, Old, Alive
  <2>3. OnlyOwnStopped'
    BY <1>0, <1>4 DEF StartUnrecorded, OnlyOwnStopped, PInv
  <2> QED
    BY <1>2, <2>1, <2>2, <2>3, OneHeld, RecordKept, MineKept DEF PInv, Keeps
<1>5. CASE StartEnds(s)
  <2>1. Keeps
    BY <1>5, StillKeeps DEF PInv, StartEnds, host
  <2>2. record' = record \/ record' = Nothing
    BY <1>5 DEF StartEnds, RemovedFor
  <2> QED
    BY <1>5, <2>1, <2>2, HeldKept, RecordKept, RecordGone, MineKept, EndedKept DEF PInv, Keeps, StartEnds
<1>6. CASE StopBegins(s)
  <2>1. Terminated(held[s].pid, s) /\ Alive(held[s]) /\ UNCHANGED <<record, held>>
    BY <1>6 DEF StopBegins
  <2>2. held[s].pid \in Pids /\ proc[held[s].pid].by = s
    BY <2>1 DEF PInv, HeldOwn, Old, Alive
  <2>3. Keeps /\ OnlyOwnStopped'
    BY <1>0, <2>1, <2>2, EndsOwn DEF PInv
  <2> QED
    BY <2>1, <2>3, HeldKept, RecordKept, MineKept DEF PInv, Keeps
<1>7. CASE StopEnds(s)
  <2>1. Keeps
    BY <1>7, StillKeeps DEF PInv, StopEnds, host
  <2>2. record' = record \/ record' = Nothing
    BY <1>7 DEF StopEnds, RemovedFor
  <2>3. HeldOwn'
    BY <1>2, <1>7, <2>1, OneHeld DEF PInv, StopEnds
  <2> QED
    BY <1>7, <2>1, <2>2, <2>3, RecordKept, RecordGone, MineKept, EndedKept DEF PInv, Keeps, StopEnds
<1>8. CASE \E p \in Pids : Start(s, p)
  BY <1>8, StartStep
<1> QED
  BY <1>1, <1>3, <1>4, <1>5, <1>6, <1>7, <1>8

-----------------------------------------------------------------------------
(* The setup engine: its own process is its own until the service dies, and *)
(* its record names a process of its own or of a slot.                      *)
LEMMA RuntimeStep ==
  ASSUME PInv, NEW p \in Pids, NEW hw, StartRuntime(p, hw)
  PROVE  PInv'
<1>1. Spawned(p, Setup, config.port, config.model) /\ mine' = NewHandle(p)
  BY DEF StartRuntime
<1>2. /\ Keeps
      /\ NewHandle(p).pid = p /\ NewHandle(p).born \in 1 .. births' /\ proc'[p].by = Setup
  BY <1>1, SpawnKeeps DEF PInv
<1>3. MineOwn'
  BY <1>1, <1>2 DEF MineOwn, Old, Alive
<1> QED
  BY <1>2, <1>3, HeldKept, RecordKept, EndedKept DEF PInv, Keeps, StartRuntime

LEMMA HealthyStep ==
  ASSUME ProcessAssumption, PInv, StartHealthy
  PROVE  PInv'
<1>1. /\ record' = RecordFor(mine, Nothing, config.port, config.model)
      /\ Alive(mine) /\ UNCHANGED <<host, held, ended, mine>>
  BY DEF StartHealthy
<1>2. Keeps
  BY <1>1, StillKeeps DEF PInv
<1>3. RecordOwn'
  <2>1. record'.pid = mine.pid /\ record'.born = mine.born /\ record'.slot = Nothing
    BY <1>1 DEF RecordFor
  <2>2. mine.pid \in Pids /\ mine.born \in 1 .. births' /\ proc'[mine.pid].by = Setup
    BY <1>1 DEF PInv, MineOwn, Old, Alive, host
  <2>3. Nothing \notin Slots /\ Setup # Foreign
    BY DEF ProcessAssumption, Setup, Foreign
  <2> QED
    BY <2>1, <2>2, <2>3 DEF RecordOwn, Old, Alive
<1> QED
  BY <1>1, <1>2, <1>3, HeldKept, MineKept, EndedKept DEF PInv, Keeps

LEMMA MineEnds ==
  ASSUME ProcessAssumption, PInv, Alive(mine), Terminated(mine.pid, Setup)
  PROVE  Keeps /\ OnlyOwnStopped'
<1>1. mine.pid \in Pids /\ proc[mine.pid].by = Setup
  BY DEF PInv, MineOwn, Old, Alive
<1> QED
  BY <1>1, EndsOwn DEF PInv, ProcessAssumption, Setup, Foreign

LEMMA StoppedStep ==
  ASSUME ProcessAssumption, PInv, record # Nothing, NEW own, StoppedFor(own)
  PROVE  Keeps /\ OnlyOwnStopped'
<1>1. CASE own /\ Alive(mine)
  BY <1>1, MineEnds DEF StoppedFor
<1>2. CASE ~(own /\ Alive(mine)) /\ SameProcess(record)
  <2>1. Terminated(record.pid, Setup)
    BY <1>2 DEF StoppedFor
  <2>2. record.pid \in Pids /\ proc[record.pid].by # Foreign
    BY <1>2 DEF PInv, RecordOwn, Old, Alive, SameProcess
  <2> QED
    BY <2>1, <2>2, EndsOwn DEF PInv, ProcessAssumption, Setup
<1>3. CASE ~(own /\ Alive(mine)) /\ ~SameProcess(record)
  BY <1>3, StillKeeps, EndedKept DEF StoppedFor, PInv
<1> QED
  BY <1>1, <1>2, <1>3

LEMMA MineCleared == MineOwn /\ Keeps /\ mine' \in {mine, Nothing} => MineOwn'
BY DEF MineOwn, Keeps, Old, Alive

LEMMA FailStep ==
  ASSUME ProcessAssumption, PInv, StartFails
  PROVE  PInv'
<1>1. UNCHANGED <<record, held>> /\ mine' \in {mine, Nothing}
  BY DEF StartFails
<1>2. Keeps /\ OnlyOwnStopped'
  <2>1. CASE Alive(mine)
    BY <2>1, MineEnds DEF StartFails
  <2>2. CASE ~Alive(mine)
    BY <2>2, StillKeeps, EndedKept DEF StartFails, PInv
  <2> QED
    BY <2>1, <2>2
<1> QED
  BY <1>1, <1>2, HeldKept, RecordKept, MineCleared DEF PInv, Keeps

LEMMA UndoStep ==
  ASSUME ProcessAssumption, PInv, UndoStart
  PROVE  PInv'
<1>1. UNCHANGED <<record, held>> /\ mine' \in {mine, Nothing}
  BY DEF UndoStart
<1>2. Keeps /\ OnlyOwnStopped'
  <2>1. CASE eng.started /\ MayStop
    <3>1. StoppedFor(TRUE) /\ record # Nothing
      BY <2>1 DEF UndoStart, MayStop
    <3> QED
      BY <3>1, StoppedStep
  <2>2. CASE ~(eng.started /\ MayStop)
    BY <2>2, StillKeeps, EndedKept DEF UndoStart, PInv
  <2> QED
    BY <2>1, <2>2
<1> QED
  BY <1>1, <1>2, HeldKept, RecordKept, MineCleared DEF PInv, Keeps

LEMMA CliStep ==
  ASSUME ProcessAssumption, PInv, CliStops
  PROVE  PInv'
<1>1. StoppedFor(FALSE) /\ record # Nothing /\ UNCHANGED <<record, held, mine>>
  BY DEF CliStops
<1>2. Keeps /\ OnlyOwnStopped'
  BY <1>1, StoppedStep
<1> QED
  BY <1>1, <1>2, HeldKept, RecordKept, MineKept DEF PInv, Keeps

LEMMA UnlinkStep ==
  ASSUME PInv, record' = Nothing, UNCHANGED <<host, held, ended, mine>>
  PROVE  PInv'
<1>1. Keeps
  BY StillKeeps DEF PInv
<1> QED
  BY <1>1, HeldKept, RecordGone, MineKept, EndedKept DEF PInv, Keeps

(* A restart: what is adopted is the recorded process of that slot.         *)
LEMMA RestartStep ==
  ASSUME PInv, Restart
  PROVE  PInv'
<1>1. /\ held' = [s \in Slots |-> IF MayAdopt(s) THEN [pid |-> record.pid, born |-> record.born] ELSE Nothing]
      /\ UNCHANGED <<proc, record, births, ended>> /\ mine' = Nothing
  BY DEF Restart, ServiceRestarts
<1>2. Keeps
  BY <1>1, StillKeeps DEF PInv, host
<1>3. HeldOwn'
  <2>1. ASSUME NEW s \in Slots
        PROVE  Old(held[s])' /\ (Alive(held[s])' => proc'[held'[s].pid].by = s)
    <3>1. CASE MayAdopt(s)
      <4>1. held'[s].pid = record.pid /\ held'[s].born = record.born
        BY <1>1, <3>1
      <4>2. record # Nothing /\ record.slot = s /\ Alive(record)
        BY <3>1 DEF MayAdopt, SameProcess, Alive
      <4> QED
        BY <1>1, <4>1, <4>2 DEF PInv, RecordOwn, Old, Alive
    <3>2. CASE ~MayAdopt(s)
      BY <1>1, <3>2 DEF Old, Alive
    <3> QED
      BY <3>1, <3>2
  <2> QED
    BY <1>1, <2>1 DEF HeldOwn
<1> QED
  BY <1>1, <1>2, <1>3, RecordKept, EndedKept, MineCleared DEF PInv, Keeps

(* Every other step leaves the processes and what is known of them alone.   *)
LEMMA FrameStep == PInv /\ UNCHANGED <<processVars, mine>> => PInv'
<1> SUFFICES ASSUME PInv, UNCHANGED <<processVars, mine>> PROVE PInv'
  OBVIOUS
<1>1. Keeps
  BY StillKeeps DEF PInv, processVars, host
<1> QED
  BY <1>1, HeldKept, RecordKept, MineKept, EndedKept DEF PInv, Keeps, processVars

LEMMA SetupStep ==
  ASSUME ProcessAssumption, PInv, Next
  PROVE  PInv'
<1>1. CASE (Machine \/ Backend) /\ Others
  BY <1>1, MachineStep, BackendStep DEF Others
<1>2. CASE \E hw \in Machines : Repair(hw) \/ \E r \in Requests : Apply(r, hw)
  BY <1>2, FrameStep DEF Repair, Apply
<1>3. CASE ApplyEnters \/ InstallRuntime \/ DownloadModel \/ DownloadStops \/ WriteConfig \/ ConfigWritten
  BY <1>3, FrameStep DEF ApplyEnters, InstallRuntime, DownloadModel, DownloadStops, WriteConfig, ConfigWritten
<1>4. CASE AlreadyRunning \/ Succeeds \/ StepFails \/ UndoConfig
  BY <1>4, FrameStep DEF AlreadyRunning, Succeeds, StepFails, UndoConfig
<1>5. CASE Cancel \/ SetModelsDir \/ Update \/ Rollback \/ \E w \in Editors : EditGoesOn(w)
  BY <1>5, FrameStep DEF Cancel, SetModelsDir, Update, Rollback, Selects,
                         EditGoesOn, ConfigRead, CopyWritten, ConfigReplaced, EditFails
<1>6. CASE \E p \in Pids, hw \in Machines : StartRuntime(p, hw)
  BY <1>6, RuntimeStep
<1>7. CASE UndoUnlinks \/ CliUnlinks
  BY <1>7, UnlinkStep DEF UndoUnlinks, CliUnlinks
<1>8. CASE StartHealthy \/ StartFails \/ UndoStart \/ CliStops \/ Restart
  BY <1>8, HealthyStep, FailStep, UndoStep, CliStep, RestartStep
<1> QED
  BY <1>1, <1>2, <1>3, <1>4, <1>5, <1>6, <1>7, <1>8 DEF Next

-----------------------------------------------------------------------------
(* What the backend remembers of a name, while it is there, is a container  *)
(* it made: one made under the name by hand has a later id.                 *)
Boxes == [id : Nat \ {0}, up : BOOLEAN, managed : BOOLEAN, stale : BOOLEAN]
BoxType ==
  /\ boxes \in Nat /\ box \in [Names -> Boxes \cup {NoBox}] /\ kept \in [Names -> Nat]
  /\ \A n \in Names : kept[n] <= boxes /\ (box[n] # NoBox => box[n].id <= boxes)
KeptOwn == \A n \in Names : There(n) => box[n].managed
CInv == BoxType /\ KeptOwn /\ OnlyOwnRemoved

LEMMA BoxPut ==
  ASSUME BoxType, NEW n \in Names, NEW new \in Boxes, box' = [box EXCEPT ![n] = new],
         boxes' \in Nat, boxes <= boxes', new.id <= boxes',
         NEW k \in Nat, k <= boxes', kept' = kept \/ kept' = [kept EXCEPT ![n] = k]
  PROVE  BoxType'
<1>1. boxes \in Nat /\ box' \in [Names -> Boxes \cup {NoBox}] /\ kept' \in [Names -> Nat]
  BY DEF BoxType
<1>2. ASSUME NEW m \in Names
      PROVE  kept'[m] <= boxes' /\ (box'[m] # NoBox => box'[m].id <= boxes')
  <2>1. CASE m = n
    BY <2>1, <1>1 DEF BoxType
  <2>2. CASE m # n
    <3>1. kept'[m] = kept[m] /\ box'[m] = box[m]
      BY <2>2 DEF BoxType
    <3>2. kept[m] \in Nat /\ kept[m] <= boxes /\ (box[m] # NoBox => box[m].id \in Nat /\ box[m].id <= boxes)
      BY DEF BoxType, Boxes
    <3> QED
      BY <1>1, <3>1, <3>2
  <2> QED
    BY <2>1, <2>2
<1> QED
  BY <1>1, <1>2 DEF BoxType

LEMMA ContainerStarts ==
  ASSUME CInv, NEW n \in Names, ContainerStart(n)
  PROVE  CInv'
<1> DEFINE new == [id |-> boxes + 1, up |-> TRUE, managed |-> TRUE, stale |-> FALSE]
<1>1. boxes \in Nat /\ boxes' = boxes + 1 /\ kept' = [kept EXCEPT ![n] = boxes + 1]
  BY DEF ContainerStart, CInv, BoxType
<1>2. new \in Boxes /\ new.id = boxes + 1 /\ new.managed
  BY <1>1 DEF Boxes
<1>3. box' = [box EXCEPT ![n] = new]
  BY DEF ContainerStart
<1> HIDE DEF new
<1>4. BoxType'
  <2>1. boxes' \in Nat /\ boxes <= boxes' /\ new.id <= boxes' /\ boxes + 1 \in Nat /\ boxes + 1 <= boxes'
    BY <1>1, <1>2
  <2> QED
    BY <1>1, <1>2, <1>3, <2>1, BoxPut DEF CInv
<1>5. KeptOwn'
  BY <1>1, <1>2, <1>3 DEF CInv, BoxType, KeptOwn, There
<1>6. OnlyOwnRemoved'
  <2>1. removed' = removed \/ (There(n) /\ removed' = removed \cup {<<n, box[n].managed, box[n].stale, "asked">>})
    BY DEF ContainerStart
  <2> QED
    BY <2>1 DEF CInv, KeptOwn, OnlyOwnRemoved
<1> QED
  BY <1>4, <1>5, <1>6 DEF CInv

(* A container that is removed was the backend's, and its name is free.     *)
LEMMA ContainerGoes ==
  ASSUME BoxType, KeptOwn, NEW n \in Names, box' = [box EXCEPT ![n] = NoBox], UNCHANGED boxes,
         kept' = [kept EXCEPT ![n] = 0] \/ kept' = kept
  PROVE  BoxType' /\ KeptOwn'
<1>1. BoxType'
  BY DEF BoxType
<1>2. KeptOwn'
  BY DEF BoxType, KeptOwn, There
<1> QED
  BY <1>1, <1>2

LEMMA ContainerForgotten ==
  ASSUME BoxType, KeptOwn, NEW n \in Names, kept' = [kept EXCEPT ![n] = 0], UNCHANGED <<box, boxes>>
  PROVE  BoxType' /\ KeptOwn'
BY DEF BoxType, KeptOwn, There

LEMMA ContainerSame == CInv /\ UNCHANGED <<box, kept, boxes, removed>> => CInv'
BY DEF CInv, BoxType, KeptOwn, There, OnlyOwnRemoved

LEMMA ContainerRemoved ==
  ASSUME CInv, NEW n \in Names, RemoveContainer(n) \/ CleanupStale(n)
  PROVE  CInv'
<1>1. kept' = [kept EXCEPT ![n] = 0] /\ UNCHANGED boxes
  BY DEF RemoveContainer, CleanupStale, Forgotten
<1>2. CASE UNCHANGED <<box, removed>>
  BY <1>1, <1>2, ContainerForgotten DEF CInv, OnlyOwnRemoved
<1>3. CASE /\ There(n) /\ box' = [box EXCEPT ![n] = NoBox]
           /\ removed' = removed \cup {<<n, box[n].managed, box[n].stale, "asked">>}
  <2>1. BoxType' /\ KeptOwn'
    BY <1>1, <1>3, ContainerGoes DEF CInv
  <2>2. OnlyOwnRemoved'
    BY <1>3 DEF CInv, KeptOwn, OnlyOwnRemoved
  <2> QED
    BY <2>1, <2>2 DEF CInv
<1>4. CASE CleanupStale(n)
  <2>1. BoxType' /\ KeptOwn'
    BY <1>1, <1>4, ContainerGoes DEF CInv, CleanupStale
  <2>2. OnlyOwnRemoved'
    <3>0. box[n] \in Boxes /\ n \in Ephemeral /\ box[n].managed /\ box[n].stale
      BY <1>4 DEF CleanupStale, StaleBox, CInv, BoxType
    <3>1. removed' = removed \cup {<<n, box[n].managed, box[n].stale, "stale">>}
      BY <1>4 DEF CleanupStale
    <3>2. ASSUME NEW r, r = <<n, box[n].managed, box[n].stale, "stale">>
          PROVE  r[2] /\ (r[4] = "stale" => r[1] \in Ephemeral /\ r[3])
      <4>1. r[1] = n /\ r[2] = box[n].managed /\ r[3] = box[n].stale
        BY <3>2
      <4> QED
        BY <3>0, <4>1, Zenon
    <3> QED
      BY <3>1, <3>2 DEF CInv, OnlyOwnRemoved
  <2> QED
    BY <2>1, <2>2 DEF CInv
<1> QED
  BY <1>2, <1>3, <1>4 DEF RemoveContainer

LEMMA ContainersListed == CInv /\ ListSlots => CInv'
<1> SUFFICES ASSUME CInv, ListSlots PROVE CInv'
  OBVIOUS
<1>1. /\ kept' = [n \in Names |-> IF n \in Found THEN box[n].id ELSE kept[n]]
      /\ UNCHANGED <<box, boxes, removed>>
  BY DEF ListSlots
<1>2. ASSUME NEW n \in Names, n \in Found
      PROVE  kept'[n] = box[n].id /\ box[n].id \in Nat /\ box[n].id <= boxes /\ box[n].managed
  BY <1>1, <1>2 DEF Found, CInv, BoxType, Boxes
<1>3. ASSUME NEW n \in Names, n \notin Found
      PROVE  kept'[n] = kept[n]
  BY <1>1, <1>3
<1>4. BoxType'
  BY <1>1, <1>2, <1>3 DEF CInv, BoxType
<1>5. KeptOwn'
  BY <1>1, <1>2, <1>3 DEF CInv, KeptOwn, There
<1> QED
  BY <1>1, <1>4, <1>5 DEF CInv, OnlyOwnRemoved

LEMMA DaemonStep ==
  ASSUME CInv, NEW n \in Names, Daemon(n)
  PROVE  CInv'
<1>1. UNCHANGED <<kept, removed>>
  BY DEF Daemon
<1>2. ASSUME NEW new \in Boxes, box' = [box EXCEPT ![n] = new], boxes' \in Nat, boxes <= boxes',
             new.id <= boxes',
             \/ box[n] # NoBox /\ new.id = box[n].id /\ new.managed = box[n].managed
             \/ boxes < new.id
      PROVE  BoxType' /\ KeptOwn'
  <2>1. BoxType'
    <3>1. 0 \in Nat /\ 0 <= boxes'
      BY <1>2
    <3> QED
      BY <1>1, <1>2, <3>1, BoxPut DEF CInv
  <2>2. KeptOwn'
    BY <1>1, <1>2 DEF CInv, BoxType, KeptOwn, There
  <2> QED
    BY <2>1, <2>2
<1>3. CASE box[n] # NoBox /\ UNCHANGED boxes /\ box' # [box EXCEPT ![n] = NoBox]
  <2>1. box[n] \in Boxes /\ box[n].id <= boxes /\ boxes \in Nat
    BY <1>3 DEF CInv, BoxType
  <2>2. \/ box' = [box EXCEPT ![n].up = IF n \in Shared THEN ~@ ELSE FALSE]
        \/ box' = [box EXCEPT ![n].stale = TRUE]
    BY <1>3 DEF Daemon
  <2>3. \E new \in Boxes : /\ box' = [box EXCEPT ![n] = new]
                           /\ new.id = box[n].id /\ new.managed = box[n].managed
    <3>1. CASE box' = [box EXCEPT ![n].up = IF n \in Shared THEN ~@ ELSE FALSE]
      <4> DEFINE new == [box[n] EXCEPT !.up = IF n \in Shared THEN ~@ ELSE FALSE]
      <4>1. new \in Boxes /\ new.id = box[n].id /\ new.managed = box[n].managed
        BY <2>1 DEF Boxes
      <4>2. box' = [box EXCEPT ![n] = new]
        BY <3>1
      <4> QED
        BY <4>1, <4>2
    <3>2. CASE box' = [box EXCEPT ![n].stale = TRUE]
      <4> DEFINE new == [box[n] EXCEPT !.stale = TRUE]
      <4>1. new \in Boxes /\ new.id = box[n].id /\ new.managed = box[n].managed
        BY <2>1 DEF Boxes
      <4>2. box' = [box EXCEPT ![n] = new]
        BY <3>2
      <4> QED
        BY <4>1, <4>2
    <3> QED
      BY <2>2, <3>1, <3>2
  <2>4. PICK new \in Boxes : /\ box' = [box EXCEPT ![n] = new]
                             /\ new.id = box[n].id /\ new.managed = box[n].managed
    BY <2>3
  <2>5. boxes' \in Nat /\ boxes <= boxes' /\ new.id <= boxes'
    BY <1>3, <2>1, <2>4
  <2>6. BoxType' /\ KeptOwn'
    BY <1>2, <1>3, <2>4, <2>5
  <2> QED
    BY <1>1, <2>6 DEF CInv, OnlyOwnRemoved
<1>4. CASE box' = [box EXCEPT ![n] = NoBox] /\ UNCHANGED boxes
  BY <1>1, <1>4, ContainerGoes DEF CInv, OnlyOwnRemoved
<1>5. CASE /\ boxes' = boxes + 1
           /\ box' = [box EXCEPT ![n] = [id |-> boxes + 1, up |-> TRUE, managed |-> FALSE, stale |-> FALSE]]
  <2> DEFINE new == [id |-> boxes + 1, up |-> TRUE, managed |-> FALSE, stale |-> FALSE]
  <2>1. boxes \in Nat
    BY DEF CInv, BoxType
  <2>2. new \in Boxes /\ new.id = boxes + 1
    BY <2>1 DEF Boxes
  <2>3. box' = [box EXCEPT ![n] = new] /\ boxes' \in Nat /\ boxes <= boxes' /\ boxes < new.id /\ new.id <= boxes'
    BY <1>5, <2>1
  <2> HIDE DEF new
  <2>4. BoxType' /\ KeptOwn'
    BY <1>2, <2>2, <2>3
  <2> QED
    BY <1>1, <2>4 DEF CInv, OnlyOwnRemoved
<1> QED
  BY <1>3, <1>4, <1>5 DEF Daemon

LEMMA ContainersForgotten == CInv /\ Forgets => CInv'
BY DEF Forgets, CInv, BoxType, KeptOwn, There, OnlyOwnRemoved

LEMMA ContainerStep ==
  ASSUME CInv, Docker \/ Remote
  PROVE  CInv'
<1>1. CASE ListSlots \/ Forgets
  BY <1>1, ContainersListed, ContainersForgotten
<1>2. CASE \E n \in Names : ContainerStart(n) \/ RemoveContainer(n) \/ CleanupStale(n) \/ Daemon(n)
  BY <1>2, ContainerStarts, ContainerRemoved, DaemonStep
<1>3. CASE \E n \in Names : StartConflicts(n)
  <2>1. PICK n \in Names : kept' = [kept EXCEPT ![n] = 0] /\ UNCHANGED <<box, boxes, removed>>
    BY <1>3 DEF StartConflicts
  <2> QED
    BY <2>1, ContainerForgotten DEF CInv, OnlyOwnRemoved
<1>4. CASE \E n \in Names : StartReports(n) \/ ContainerHealth(n)
  BY <1>4, ContainerSame DEF StartReports, ContainerHealth
<1>5. CASE \E n \in Shared : RemoteStart(n) \/ RemoteStop(n) \/ RemoteHealth(n) \/ ServerChanges(n)
  BY <1>5, ContainerSame DEF RemoteStart, RemoteStop, RemoteHealth, ServerChanges, dockerVars
<1> QED
  BY <1>1, <1>2, <1>3, <1>4, <1>5 DEF Docker, Remote

-----------------------------------------------------------------------------
FInv == PInv /\ CInv

LEMMA FleetStarts ==
  ASSUME ProcessAssumption, FleetInit
  PROVE  FInv
<1>1. PInv
  BY DEF FleetInit, Init, ProcessInit, PInv, Processes, HeldOwn, RecordOwn, MineOwn, OnlyOwnStopped, Old, Alive
<1>2. CInv
  BY DEF FleetInit, ContainerInit, CInv, BoxType, KeptOwn, There, OnlyOwnRemoved
<1> QED
  BY <1>1, <1>2 DEF FInv

LEMMA FleetStep ==
  ASSUME ProcessAssumption, FInv, [FleetNext]_<<vars, containerVars, backend>>
  PROVE  FInv'
<1>1. UNCHANGED vars => PInv'
  BY FrameStep DEF vars, FInv
<1>2. UNCHANGED containerVars => CInv'
  BY ContainerSame DEF containerVars, dockerVars, FInv
<1>3. CASE Next /\ UNCHANGED containerVars
  BY <1>2, <1>3, SetupStep DEF FInv
<1>4. CASE (Docker \/ Remote) /\ UNCHANGED vars
  BY <1>1, <1>4, ContainerStep DEF FInv
<1>5. CASE UNCHANGED <<vars, containerVars, backend>>
  BY <1>1, <1>2, <1>5 DEF FInv
<1> QED
  BY <1>3, <1>4, <1>5 DEF FleetNext

(* Whatever is tracked, recorded, or remembered of a process or a container *)
(* tells the router's own from everybody else's: the inductive invariant    *)
(* (stop_slot, adopt_slot, stop_managed; docker's reload and cleanup).       *)
THEOREM BackendsInvariant == FleetSpec => []FInv
<1>1. FleetInit => FInv
  BY ProcessAssumption, FleetStarts
<1>2. FInv /\ [FleetNext]_<<vars, containerVars, backend>> => FInv'
  BY ProcessAssumption, FleetStep
<1> QED
  BY <1>1, <1>2, PTL DEF FleetSpec

(* The program ends no process and removes no container that it did not     *)
(* start, and a slot ends none but its own, on any backend.                 *)
THEOREM BackendsEndTheirOwn == FleetSpec => []OnlyOwnEnded
<1>1. FInv => OnlyOwnEnded
  BY DEF FInv, PInv, CInv, OnlyOwnEnded
<1> QED
  BY <1>1, BackendsInvariant, PTL

(* What the backend tracks for a slot, while it runs, was started for that  *)
(* slot, after any number of restarts and adoptions.                        *)
THEOREM BackendsTrackTheirOwn == FleetSpec => []TrackedIsItsSlot
<1>1. FInv => TrackedIsItsSlot
  BY DEF FInv, PInv, HeldOwn, TrackedIsItsSlot
<1> QED
  BY <1>1, BackendsInvariant, PTL

-----------------------------------------------------------------------------
(* The setup engine's plan and files. *)

(* The least of some natural numbers. *)
LEMMA LeastNat ==
  ASSUME NEW T \in SUBSET Nat, T # {}
  PROVE  \E n \in T : \A m \in T : n <= m
<1>1. \E n \in T : \A m \in T : <<m, n>> \notin OpToRel(<, Nat)
  BY NatLessThanWellFounded, WFMin, Zenon
<1>2. \A m, n \in Nat : <<m, n>> \in OpToRel(<, Nat) <=> m < n
  BY Z3 DEF OpToRel
<1>3. PICK n \in T : \A m \in T : <<m, n>> \notin OpToRel(<, Nat)
  BY <1>1
<1>4. \A m \in T : n <= m
  <2> SUFFICES ASSUME NEW m \in T PROVE n <= m
    OBVIOUS
  <2>1. m \in Nat /\ n \in Nat /\ ~(m < n)
    BY <1>2, <1>3
  <2> QED
    BY <2>1
<1> QED
  BY <1>4

(* The release to update to, if there is one, has a tag. *)
LEMMA LatestTagType == LatestTag \in Nat
<1>1. CASE \E i \in DOMAIN Releases : Complete(Releases[i])
  <2> DEFINE Whole == {i \in DOMAIN Releases : Complete(Releases[i])}
             Taken(i) == Complete(Releases[i]) /\ \A j \in 1 .. (i - 1) : ~Complete(Releases[j])
  <2>0. /\ Len(Releases) \in Nat /\ DOMAIN Releases = 1 .. Len(Releases)
        /\ \A i \in DOMAIN Releases : Releases[i].tag \in Nat
    <3> DEFINE R == [tag : Nat, draft : BOOLEAN, verified : SUBSET STRING]
    <3>1. Releases \in Seq(R) /\ \A r \in R : r.tag \in Nat
      BY EngineAssumption
    <3> HIDE DEF R
    <3>2. /\ Len(Releases) \in Nat /\ DOMAIN Releases = 1 .. Len(Releases)
          /\ \A i \in DOMAIN Releases : Releases[i] \in R
      BY <3>1
    <3> QED
      BY <3>1, <3>2
  <2>1. Whole \in SUBSET Nat /\ Whole # {}
    BY <1>1, <2>0
  <2>2. PICK n \in Whole : \A m \in Whole : n <= m
    BY <2>1, LeastNat
  <2>3. PICK first : first = CHOOSE i \in DOMAIN Releases : Taken(i)
    OBVIOUS
  <2>4. \E i \in DOMAIN Releases : Taken(i)
    <3>1. n \in 1 .. Len(Releases) /\ Complete(Releases[n])
      BY <2>0
    <3>2. ASSUME NEW j \in 1 .. (n - 1) PROVE ~Complete(Releases[j])
      <4>1. j \in 1 .. Len(Releases) /\ ~(n <= j)
        BY <2>0, <3>1
      <4> QED
        BY <2>0, <2>2, <4>1
    <3> QED
      BY <2>0, <3>1, <3>2
  <2>5. first \in DOMAIN Releases
    BY <2>3, <2>4
  <2>6. LatestTag = Releases[first].tag
    BY <1>1, <2>3 DEF LatestTag
  <2> QED
    BY <2>0, <2>5, <2>6
<1>2. CASE ~ \E i \in DOMAIN Releases : Complete(Releases[i])
  BY <1>2 DEF LatestTag, NoTag
<1> QED
  BY <1>1, <1>2

(* What a plan may ask for, by its model: only an approved one is downloaded. *)
AllSteps == {"install_runtime", "download_model", "write_config", "start_runtime", "smoke_test"}
StepsFor(m) == IF m \in Approved THEN AllSteps ELSE AllSteps \ {"download_model"}

LEMMA StepsOfPlan ==
  ASSUME NEW b, NEW m, NEW f, NEW runtime, m = Unset \/ m \in Approved \cup f
  PROVE  PlanSteps(b, m, f, runtime) \in Seq(StepsFor(m))
<1> DEFINE S == StepsFor(m)
           Only(c, s) == IF c THEN <<s>> ELSE <<>>
           s1 == Only(b # "existing" /\ ~runtime, "install_runtime")
           s2 == Only(m # Unset /\ m \notin f, "download_model")
           s3 == Only(b # "existing", "start_runtime")
<1>0. <<>> \in Seq(S) /\ \A s \in S : <<s>> \in Seq(S)
  OBVIOUS
<1>1. /\ {"install_runtime", "write_config", "start_runtime", "smoke_test"} \subseteq S
      /\ m # Unset /\ m \notin f => "download_model" \in S
  BY DEF StepsFor, AllSteps
<1>2. s1 \in Seq(S) /\ s2 \in Seq(S) /\ s3 \in Seq(S)
  <2> HIDE DEF S
  <2> QED
    BY <1>0, <1>1
<1>4. <<"write_config">> \in Seq(S) /\ <<"smoke_test">> \in Seq(S)
  <2> HIDE DEF S
  <2> QED
    BY <1>0, <1>1
<1>3. PlanSteps(b, m, f, runtime) = s1 \o s2 \o <<"write_config">> \o s3 \o <<"smoke_test">>
  BY DEF PlanSteps
<1> HIDE DEF S, s1, s2, s3
<1> QED
  BY <1>2, <1>3, <1>4 DEF S

(* A sequence is the beginning of what it is extended to.                   *)
LEMMA Prefix ==
  ASSUME NEW S, NEW s \in Seq(S), NEW t \in Seq(S)
  PROVE  /\ s \o t \in Seq(S)
         /\ Len(s) \in Nat /\ Len(s \o t) \in Nat /\ Len(s) <= Len(s \o t)
         /\ \A i \in 1 .. Len(s) : (s \o t)[i] = s[i]
         /\ Len(t) > 0 => Len(s) < Len(s \o t) /\ (s \o t)[Len(s) + 1] = t[1]
<1>1. Len(s) \in Nat /\ Len(t) \in Nat
  OBVIOUS
<1>2. s \o t \in Seq(S) /\ Len(s \o t) = Len(s) + Len(t)
  BY ConcatProperties
<1>3. \A i \in 1 .. Len(s) + Len(t) : (s \o t)[i] = IF i <= Len(s) THEN s[i] ELSE t[i - Len(s)]
  BY ConcatProperties
<1> QED
  BY <1>1, <1>2, <1>3

(* What is left to do still has the configuration written before it is      *)
(* checked.                                                                 *)
ToWrite(todo) ==
  \E i \in DOMAIN todo : /\ todo[i] = "write_config"
                         /\ \A j \in DOMAIN todo : todo[j] = "smoke_test" => i < j

LEMMA PlanToWrite ==
  ASSUME NEW b, NEW m, NEW f, NEW runtime
  PROVE  ToWrite(PlanSteps(b, m, f, runtime))
<1> DEFINE Early == {"install_runtime", "download_model"}
           S == Early \cup {"write_config", "start_runtime", "smoke_test"}
           Only(c, s) == IF c THEN <<s>> ELSE <<>>
           s1 == Only(b # "existing" /\ ~runtime, "install_runtime")
           s2 == Only(m # Unset /\ m \notin f, "download_model")
           s3 == Only(b # "existing", "start_runtime")
           write == <<"write_config">>
           smoke == <<"smoke_test">>
<1>1. /\ s1 \in Seq(Early) /\ s2 \in Seq(Early) /\ s3 \in Seq(S) /\ smoke \in Seq(S)
      /\ write \in Seq(S) /\ Len(write) = 1 /\ write[1] = "write_config"
  <2>1. \A T : <<>> \in Seq(T) /\ \A s \in T : <<s>> \in Seq(T)
    OBVIOUS
  <2>2. "install_runtime" \in Early /\ "download_model" \in Early
        /\ "start_runtime" \in S /\ "smoke_test" \in S /\ "write_config" \in S
    OBVIOUS
  <2>3. Len(write) = 1 /\ write[1] = "write_config"
    OBVIOUS
  <2> HIDE DEF Early, S
  <2> QED
    BY <2>1, <2>2, <2>3
<1>2. PlanSteps(b, m, f, runtime) = s1 \o s2 \o write \o s3 \o smoke
  BY DEF PlanSteps
<1>3. Early \subseteq S /\ "smoke_test" \notin Early
  OBVIOUS
<1> HIDE DEF Early, S, s1, s2, s3, write, smoke
<1> DEFINE pre == s1 \o s2
<1>4. pre \in Seq(Early) /\ pre \in Seq(S) /\ Len(pre) \in Nat
  BY <1>1, <1>3, ConcatProperties
<1>5. \A j \in 1 .. Len(pre) : pre[j] # "smoke_test"
  BY <1>3, <1>4
<1> HIDE DEF pre
<1> DEFINE upto == pre \o write
           rest == upto \o s3
           todo == rest \o smoke
<1>6. /\ upto \in Seq(S) /\ Len(pre) < Len(upto) /\ upto[Len(pre) + 1] = "write_config"
      /\ \A j \in 1 .. Len(pre) : upto[j] = pre[j]
  <2>1. Len(write) > 0 /\ write[1] = "write_config"
    BY <1>1
  <2>2. /\ upto \in Seq(S) /\ \A j \in 1 .. Len(pre) : upto[j] = pre[j]
        /\ Len(write) > 0 => Len(pre) < Len(upto) /\ upto[Len(pre) + 1] = write[1]
    BY <1>1, <1>4, Prefix, Zenon DEF upto
  <2> QED
    BY <2>1, <2>2
<1> HIDE DEF upto
<1>7. /\ rest \in Seq(S) /\ Len(upto) <= Len(rest) /\ Len(upto) \in Nat
      /\ \A j \in 1 .. Len(upto) : rest[j] = upto[j]
  BY <1>1, <1>6, Prefix DEF rest
<1> HIDE DEF rest
<1>8. /\ todo \in Seq(S) /\ Len(rest) <= Len(todo) /\ Len(rest) \in Nat /\ Len(todo) \in Nat
      /\ \A j \in 1 .. Len(rest) : todo[j] = rest[j]
  BY <1>1, <1>7, Prefix DEF todo
<1> HIDE DEF todo
<1>9. todo[Len(pre) + 1] = "write_config" /\ \A j \in 1 .. Len(pre) : todo[j] # "smoke_test"
  <2>1. \A j \in 1 .. Len(pre) + 1 : todo[j] = upto[j]
    BY <1>4, <1>6, <1>7, <1>8
  <2> QED
    BY <1>4, <1>5, <1>6, <2>1
<1>10. DOMAIN todo = 1 .. Len(todo)
  BY <1>8
<1>11. ToWrite(todo)
  <2>1. Len(pre) + 1 \in DOMAIN todo
    BY <1>4, <1>6, <1>7, <1>8, <1>10
  <2>2. ASSUME NEW j \in DOMAIN todo, todo[j] = "smoke_test" PROVE Len(pre) + 1 < j
    BY <1>4, <1>9, <1>10, <2>2
  <2> QED
    BY <1>9, <2>1, <2>2 DEF ToWrite
<1> QED
  BY <1>2, <1>11 DEF todo, rest, upto, pre

LEMMA TailToWrite ==
  ASSUME NEW S, NEW todo \in Seq(S), todo # <<>>, Head(todo) # "write_config", ToWrite(todo)
  PROVE  ToWrite(Tail(todo))
<1>1. PICK i \in DOMAIN todo : /\ todo[i] = "write_config"
                               /\ \A j \in DOMAIN todo : todo[j] = "smoke_test" => i < j
  BY DEF ToWrite
<1>2. /\ Len(todo) \in Nat /\ DOMAIN todo = 1 .. Len(todo) /\ Head(todo) = todo[1]
      /\ DOMAIN Tail(todo) = 1 .. (Len(todo) - 1)
      /\ \A j \in 1 .. (Len(todo) - 1) : Tail(todo)[j] = todo[j + 1]
  OBVIOUS
<1>3. i - 1 \in DOMAIN Tail(todo) /\ Tail(todo)[i - 1] = "write_config"
  BY <1>1, <1>2
<1>4. ASSUME NEW j \in DOMAIN Tail(todo), Tail(todo)[j] = "smoke_test" PROVE i - 1 < j
  BY <1>1, <1>2, <1>4
<1> QED
  BY <1>3, <1>4 DEF ToWrite

(* A plan that is made names a backend, a known model or none, and a port.  *)
LEMMA PlanIsPlan ==
  ASSUME EngineAssumption, folder \subseteq ModelIds, NEW r, NEW hw,
         r.port \in Ports, r.channel \in Nat,
         PlanError(r, hw, folder, Served) = "none"
  PROVE  /\ Planned(r, hw) \in Plans
         /\ PlanSteps(Planned(r, hw).backend, Planned(r, hw).model, folder, RuntimeThere)
              \in Seq(StepsFor(Planned(r, hw).model))
         /\ ToWrite(PlanSteps(Planned(r, hw).backend, Planned(r, hw).model, folder, RuntimeThere))
<1> DEFINE b == BackendOf(r, hw)
           m == ModelOf(r, hw, folder)
<1>1. /\ b # Unset
      /\ b = "existing" \/ b \in BackendCandidates(hw)
      /\ m = Unset \/ m \in DOMAIN Catalog \cup folder
  BY DEF PlanError
<1>2. b \in DOMAIN Backends \cup {"existing"}
  BY <1>1 DEF BackendCandidates
<1>3. m \in ModelIds \cup {Unset}
  BY <1>1 DEF ModelIds, Approved
<1>4. Planned(r, hw) = [backend |-> b, model |-> m, port |-> r.port, channel |-> r.channel]
  BY DEF Planned
<1>5. Planned(r, hw).model = m /\ Planned(r, hw).backend = b
  BY <1>4
<1> HIDE DEF b, m
<1>6. Planned(r, hw) \in Plans
  BY <1>2, <1>3, <1>4 DEF Plans
<1>7. PlanSteps(b, m, folder, RuntimeThere) \in Seq(StepsFor(m))
  BY <1>1, StepsOfPlan DEF Approved
<1>8. ToWrite(PlanSteps(b, m, folder, RuntimeThere))
  BY PlanToWrite
<1> QED
  BY <1>5, <1>6, <1>7, <1>8

(* The apply under way: nothing is written before its first step, only what *)
(* may be asked for is left to do, and the configuration it began with is   *)
(* kept for the undo.                                                       *)
UnderWay == {"steps", "replacing", "waiting", "undo", "unlink", "restore"}
Engines == [pc : {"idle", "planned"} \cup UnderWay, todo : Seq(AllSteps), req : Plans \cup {Nothing},
            original : Configs \cup {Nothing}, written : BOOLEAN, started : BOOLEAN]
PcOK(pc, todo) ==
  /\ pc = "waiting" => todo # <<>> /\ Head(todo) # "write_config"
  /\ pc = "replacing" => todo # <<>>
EngineOK ==
  /\ eng \in Engines
  /\ eng.todo \in Seq(StepsFor(eng.req.model))
  /\ eng.pc # "idle" => eng.req \in Plans /\ (eng.written \/ ToWrite(eng.todo))
  /\ eng.original # Nothing => eng.original.dir <= dir
  /\ eng.pc \in {"idle", "planned"} => ~eng.written
  /\ PcOK(eng.pc, eng.todo)

FilesOK ==
  /\ config \in Configs \cup {Nothing} /\ (config # Nothing => config.dir <= dir)
  /\ manifest \in [runtime : Tags, previous : Tags] /\ dir \in Nat
  /\ saved \in Plans \cup {Nothing}
  /\ folder \subseteq ModelIds
  /\ partial \in [Approved -> {"none", "some", "whole"}]

(* An edit has a copy of the configuration between reading and writing it.  *)
(* The apply edits in its step install_runtime only.                        *)
Edits == [pc : {"none", "saved", "copied", "written"}, new : Tags, copy : Configs \cup {Nothing}]
EditType(e, n) ==
  /\ e \in Edits
  /\ e.copy # Nothing => e.copy.dir <= n
  /\ e.pc = "copied" <=> e.copy # Nothing
EditsOK ==
  /\ edit \in [Editors -> Edits] /\ \A w \in Editors : EditType(edit[w], dir)
  /\ temp \in Configs \cup {Nothing} /\ (temp # Nothing => temp.dir <= dir)
OwnEdit == edit["apply"] # NoEdit => At("install_runtime")

(* What an apply keeps for its undo is the committed slot, and until it has  *)
(* written the configuration, so is the configuration; then the configured  *)
(* slot is the one it is to configure.                                      *)
CommitOK ==
  /\ ~torn => /\ eng.pc \in UnderWay => SlotPart(eng.original) = committed
              /\ ~eng.written => SlotPart(config) = committed
  /\ eng.written /\ ~lost => SlotPart(config) = SlotPart(eng.req)

BitsOK ==
  /\ cancel \in BOOLEAN /\ cli \in {"idle", "unlinking"} /\ torn \in BOOLEAN /\ lost \in BOOLEAN
  /\ turns \in 0 .. MaxTurns

EInv == EngineOK /\ FilesOK /\ EditsOK /\ OwnEdit /\ CommitOK /\ BitsOK

(* A step of an apply: it goes on to pc, with or without the first of what   *)
(* is left to do.                                                           *)
Goes(pc, todo, original, written) ==
  /\ eng' \in Engines
  /\ eng'.pc = pc /\ eng'.todo = todo /\ eng'.req = eng.req
  /\ eng'.original = original /\ eng'.written = written

LEMMA TailTodo ==
  ASSUME EngineOK, eng.todo # <<>>
  PROVE  Tail(eng.todo) \in Seq(StepsFor(eng.req.model)) /\ Tail(eng.todo) \in Seq(AllSteps)
<1>1. eng.todo \in Seq(StepsFor(eng.req.model)) /\ eng.todo \in Seq(AllSteps)
  BY DEF EngineOK, Engines
<1> QED
  BY <1>1, HeadTailProperties

LEMMA EngForms ==
  ASSUME EngineOK
  PROVE  /\ eng' = Failing => Goes("undo", eng.todo, eng.original, eng.written)
         /\ \A pc \in UnderWay : eng' = [eng EXCEPT !.pc = pc] =>
              Goes(pc, eng.todo, eng.original, eng.written)
         /\ FilesOK /\ eng' = [eng EXCEPT !.pc = "steps", !.original = config] =>
              Goes("steps", eng.todo, config, eng.written)
         /\ eng.todo # <<>> =>
              /\ eng' = Done => Goes(eng.pc, Tail(eng.todo), eng.original, eng.written)
              /\ eng' = [Done EXCEPT !.pc = "steps", !.started = TRUE] =>
                   Goes("steps", Tail(eng.todo), eng.original, eng.written)
              /\ eng' = [Done EXCEPT !.pc = "steps", !.written = TRUE] =>
                   Goes("steps", Tail(eng.todo), eng.original, TRUE)
<1> DEFINE P == Plans \cup {Nothing}
           C == Configs \cup {Nothing}
           Q == Seq(AllSteps)
           Pc == {"idle", "planned"} \cup UnderWay
<1>0. /\ eng \in [pc : Pc, todo : Q, req : P, original : C, written : BOOLEAN, started : BOOLEAN]
      /\ "undo" \in Pc /\ "steps" \in Pc /\ UnderWay \subseteq Pc
      /\ FilesOK => config \in C
      /\ eng.todo # <<>> => Tail(eng.todo) \in Q
  BY TailTodo DEF EngineOK, Engines, UnderWay, FilesOK
<1>1. Engines = [pc : Pc, todo : Q, req : P, original : C, written : BOOLEAN, started : BOOLEAN]
  BY DEF Engines
<1> HIDE DEF P, C, Q, Pc
<1>2. eng' = Failing => Goes("undo", eng.todo, eng.original, eng.written)
  BY <1>0, <1>1 DEF Goes, Failing
<1>3. ASSUME NEW pc \in UnderWay, eng' = [eng EXCEPT !.pc = pc]
      PROVE  Goes(pc, eng.todo, eng.original, eng.written)
  BY <1>0, <1>1, <1>3 DEF Goes
<1>4. ASSUME FilesOK, eng' = [eng EXCEPT !.pc = "steps", !.original = config]
      PROVE  Goes("steps", eng.todo, config, eng.written)
  BY <1>0, <1>1, <1>4 DEF Goes
<1>5. ASSUME eng.todo # <<>>, eng' = Done
      PROVE  Goes(eng.pc, Tail(eng.todo), eng.original, eng.written)
  BY <1>0, <1>1, <1>5 DEF Goes, Done
<1>6. ASSUME eng.todo # <<>>, eng' = [Done EXCEPT !.pc = "steps", !.started = TRUE]
      PROVE  Goes("steps", Tail(eng.todo), eng.original, eng.written)
  BY <1>0, <1>1, <1>6 DEF Goes, Done
<1>7. ASSUME eng.todo # <<>>, eng' = [Done EXCEPT !.pc = "steps", !.written = TRUE]
      PROVE  Goes("steps", Tail(eng.todo), eng.original, TRUE)
  BY <1>0, <1>1, <1>7 DEF Goes, Done
<1> QED
  BY <1>2, <1>3, <1>4, <1>5, <1>6, <1>7

(* It keeps the shape of the apply. *)
LEMMA EngStep ==
  ASSUME EngineOK, eng.pc # "idle", dir \in Nat, dir' = dir,
         NEW pc \in UnderWay, NEW written \in BOOLEAN, eng.written => written,
         NEW original, original # Nothing => original.dir <= dir,
         NEW todo,
         \/ todo = eng.todo
         \/ eng.todo # <<>> /\ todo = Tail(eng.todo) /\ (written \/ Head(eng.todo) # "write_config"),
         PcOK(pc, todo),
         Goes(pc, todo, original, written)
  PROVE  EngineOK'
<1>1. todo \in Seq(StepsFor(eng.req.model))
  BY TailTodo DEF EngineOK
<1>2. /\ eng' \in Engines /\ eng'.pc = pc /\ eng'.todo = todo /\ eng'.req = eng.req
      /\ eng'.original = original /\ eng'.written = written
  BY DEF Goes
<1>3. eng'.todo \in Seq(StepsFor(eng'.req.model))
  BY <1>1, <1>2
<1>4. pc \notin {"idle", "planned"} /\ eng.req \in Plans
  BY DEF UnderWay, EngineOK
<1>5. eng'.original # Nothing => eng'.original.dir <= dir'
  BY <1>2
<1>6. written \/ ToWrite(todo)
  <2>1. eng.written \/ ToWrite(eng.todo)
    BY DEF EngineOK
  <2>2. eng.todo \in Seq(AllSteps)
    BY DEF EngineOK, Engines
  <2> QED
    BY <2>1, <2>2, TailToWrite
<1> QED
  BY <1>2, <1>3, <1>4, <1>5, <1>6 DEF EngineOK

(* A copy of the configuration is one still when it is edited. *)
LEMMA CopyEdited ==
  ASSUME NEW c \in Configs
  PROVE  /\ \A x \in Tags : [c EXCEPT !.runtime = x] \in Configs /\ [c EXCEPT !.runtime = x].dir = c.dir
         /\ \A n \in Nat : [c EXCEPT !.dir = n] \in Configs /\ [c EXCEPT !.dir = n].dir = n
<1> DEFINE B == DOMAIN Backends \cup {"existing"}
           M == ModelIds \cup {Unset}
<1>1. Configs = [backend : B, model : M, port : Ports, runtime : Tags, dir : Nat]
  BY DEF Configs
<1> HIDE DEF B, M
<1> QED
  BY <1>1

(* An edit that begins or goes on. *)
LEMMA EditPut ==
  ASSUME EditsOK, NEW w \in Editors, NEW e, EditType(e, dir), dir \in Nat,
         edit' = [edit EXCEPT ![w] = e],
         dir' \in Nat, dir <= dir', temp' \in Configs \cup {Nothing}, temp' # Nothing => temp'.dir <= dir'
  PROVE  /\ EditsOK'
         /\ edit'[w] = e /\ \A v \in Editors \ {w} : edit'[v] = edit[v]
<1>1. edit'[w] = e /\ \A v \in Editors \ {w} : edit'[v] = edit[v]
  BY DEF EditsOK
<1>2. edit' \in [Editors -> Edits]
  BY DEF EditsOK, EditType
<1>3. ASSUME NEW v \in Editors PROVE EditType(edit'[v], dir')
  <2>1. PICK x : x = edit'[v] /\ EditType(x, dir)
    BY <1>1 DEF EditsOK
  <2>2. x.copy # Nothing => x.copy.dir \in Nat
    BY <2>1 DEF EditType, Edits, Configs
  <2> QED
    BY <2>1, <2>2 DEF EditType
<1> QED
  BY <1>1, <1>2, <1>3 DEF EditsOK

LEMMA NoEditType == EngineAssumption => \A n : EditType(NoEdit, n)
<1>1. NoEdit = [pc |-> "none", new |-> Nothing, copy |-> Nothing]
  BY DEF NoEdit
<1> QED
  BY <1>1 DEF EditType, Edits, Tags

LEMMA EditsFrame == EditsOK /\ UNCHANGED <<edit, temp, dir>> => EditsOK'
  BY DEF EditsOK

LEMMA OwnFrame == OwnEdit /\ UNCHANGED <<edit, eng>> => OwnEdit'
  BY DEF OwnEdit, At

LEMMA EngineFrame ==
  ASSUME EInv, UNCHANGED <<eng, files, committed, torn, lost>>, BitsOK'
  PROVE  EInv'
<1>1. EditsOK' /\ OwnEdit'
  BY EditsFrame, OwnFrame DEF EInv, files
<1> QED
  BY <1>1 DEF EInv, files, EngineOK, FilesOK, CommitOK

(* A step of the apply that leaves the files alone and has no edit. *)
LEMMA EngineMoves ==
  ASSUME EInv, eng.pc \in UnderWay, UNCHANGED <<config, temp, manifest, folder, partial, dir, saved>>,
         UNCHANGED <<committed, torn, lost>>, EditsOK', BitsOK', edit'["apply"] = NoEdit,
         NEW pc \in UnderWay,
         NEW todo,
         \/ todo = eng.todo
         \/ eng.todo # <<>> /\ todo = Tail(eng.todo) /\ Head(eng.todo) # "write_config",
         PcOK(pc, todo),
         Goes(pc, todo, eng.original, eng.written)
  PROVE  EInv'
<1>1. EngineOK'
  <2>1. eng.pc # "idle" /\ eng.written \in BOOLEAN /\ dir \in Nat /\ dir' = dir
    BY DEF EInv, FilesOK, EngineOK, Engines, UnderWay
  <2>2. eng.original # Nothing => eng.original.dir <= dir
    BY DEF EInv, EngineOK
  <2> QED
    BY <2>1, <2>2, EngStep DEF EInv
<1>2. FilesOK' /\ OwnEdit'
  BY DEF EInv, FilesOK, OwnEdit
<1>3. CommitOK'
  BY DEF EInv, CommitOK, Goes
<1> QED
  BY <1>1, <1>2, <1>3 DEF EInv

(* No apply under way. *)
LEMMA NoApplyNow == eng = NoApply => EngineOK
<1> SUFFICES ASSUME eng = NoApply PROVE EngineOK
  OBVIOUS
<1>1. eng = [pc |-> "idle", todo |-> <<>>, req |-> Nothing, original |-> Nothing,
            written |-> FALSE, started |-> FALSE]
  BY DEF NoApply
<1>2. \A S : <<>> \in Seq(S)
  OBVIOUS
<1>3. eng \in Engines
  BY <1>1, <1>2 DEF Engines
<1>4. eng.todo \in Seq(StepsFor(eng.req.model))
  BY <1>1, <1>2
<1> QED
  BY <1>1, <1>3, <1>4 DEF EngineOK, PcOK

LEMMA NoApplyOK == eng' = NoApply => EngineOK'
<1> SUFFICES ASSUME eng' = NoApply PROVE EngineOK'
  OBVIOUS
<1>1. eng' = [pc |-> "idle", todo |-> <<>>, req |-> Nothing, original |-> Nothing,
            written |-> FALSE, started |-> FALSE]
  BY DEF NoApply
<1>2. \A S : <<>> \in Seq(S)
  OBVIOUS
<1>3. eng' \in Engines
  BY <1>1, <1>2 DEF Engines
<1>4. eng'.todo \in Seq(StepsFor(eng'.req.model))
  BY <1>1, <1>2
<1> QED
  BY <1>1, <1>3, <1>4 DEF EngineOK, PcOK

(* A plan is made from a known request. *)
LEMMA ApplyStep ==
  ASSUME EngineAssumption, EInv, NEW r, NEW hw, r.port \in Ports, r.channel \in Nat, Apply(r, hw)
  PROVE  EInv'
<1> DEFINE q == Planned(r, hw)
           todo == PlanSteps(q.backend, q.model, folder, RuntimeThere)
<1>1. q \in Plans /\ todo \in Seq(StepsFor(q.model)) /\ ToWrite(todo)
  BY PlanIsPlan DEF Apply, EInv, FilesOK
<1>2. eng' = [pc |-> "planned", todo |-> todo, req |-> q, original |-> Nothing,
             written |-> FALSE, started |-> FALSE]
  BY DEF Apply, NoApply
<1>3. todo \in Seq(AllSteps)
  <2>1. StepsFor(q.model) \subseteq AllSteps
    BY DEF StepsFor
  <2> HIDE DEF todo
  <2> QED
    BY <1>1, <2>1
<1> HIDE DEF q, todo
<1>4. eng' \in Engines
  BY <1>1, <1>2, <1>3 DEF Engines
<1>5. EngineOK'
  BY <1>1, <1>2, <1>4 DEF EngineOK, PcOK
<1>6. FilesOK' /\ BitsOK'
  BY EngineAssumption DEF Apply, EInv, FilesOK, BitsOK, files
<1>8. EditsOK' /\ OwnEdit'
  BY EditsFrame DEF Apply, EInv, files, OwnEdit, At
<1>7. CommitOK'
  <2>1. ~eng.written /\ eng'.pc = "planned" /\ ~eng'.written
    <3>1. ~eng.written
      BY DEF Apply, EInv, EngineOK
    <3> QED
      BY <1>2, <3>1
  <2>2. UNCHANGED <<config, committed, torn>>
    BY DEF Apply, files
  <2> QED
    BY <2>1, <2>2 DEF EInv, CommitOK, UnderWay
<1> QED
  BY <1>5, <1>6, <1>7, <1>8 DEF EInv

LEMMA RepairStep ==
  ASSUME EngineAssumption, EInv, NEW hw, Repair(hw)
  PROVE  EInv'
<1>1. RepairRequest.port \in Ports /\ RepairRequest.channel \in Nat
  <2>1. (CHOOSE p \in Ports : TRUE) \in Ports
    BY EngineAssumption
  <2>2. saved # Nothing => saved \in Plans
    BY DEF EInv, FilesOK
  <2>3. config # Nothing => config.port \in Ports
    BY DEF EInv, FilesOK, Configs
  <2> QED
    BY <2>1, <2>2, <2>3 DEF RepairRequest, Plans
<1> QED
  BY <1>1, ApplyStep DEF Repair

LEMMA EntersStep ==
  ASSUME EInv, ApplyEnters
  PROVE  EInv'
<1>1. Goes("steps", eng.todo, config, eng.written)
  BY EngForms DEF ApplyEnters, EInv
<1>2. /\ eng.pc = "planned" /\ ~eng.written /\ eng.written \in BOOLEAN
      /\ UNCHANGED <<config, committed, torn, dir>>
  BY DEF ApplyEnters, EInv, EngineOK, Engines, files, ghosts
<1>3. EngineOK'
  BY <1>1, <1>2, EngStep DEF EInv, FilesOK, UnderWay, PcOK
<1>4. FilesOK' /\ BitsOK'
  BY DEF ApplyEnters, EInv, FilesOK, BitsOK, files, ghosts
<1>5. CommitOK'
  BY <1>1, <1>2 DEF Goes, EInv, CommitOK
<1>6. EditsOK' /\ OwnEdit'
  BY EditsFrame DEF ApplyEnters, EInv, files, OwnEdit, At
<1> QED
  BY <1>3, <1>4, <1>5, <1>6 DEF EInv

(* A runtime is saved in the manifest: the apply's or the command line's. *)
LEMMA SelectStep ==
  ASSUME EngineAssumption, EInv, NEW w \in Editors, NEW new \in Tags, NEW old \in Tags,
         ManifestSaved(w, new, old), w = "apply" => At("install_runtime"),
         UNCHANGED <<eng, config, temp, folder, partial, dir, saved, committed, torn, lost>>, BitsOK'
  PROVE  EInv'
<1> DEFINE e == [pc |-> "saved", new |-> new, copy |-> Nothing]
<1>1. EditType(e, dir)
  BY DEF EditType, Edits, Tags, e
<1>2. edit' = [edit EXCEPT ![w] = e] /\ manifest' \in [runtime : Tags, previous : Tags]
  BY DEF ManifestSaved
<1> HIDE DEF e
<1>3. EditsOK' /\ \A v \in Editors \ {w} : edit'[v] = edit[v]
  <2>1. EditsOK /\ dir \in Nat /\ dir <= dir /\ temp \in Configs \cup {Nothing} /\ (temp # Nothing => temp.dir <= dir)
    BY DEF EInv, FilesOK, EditsOK
  <2> QED
    BY <1>1, <1>2, <2>1, EditPut
<1>4. OwnEdit'
  <2>1. w # "apply" => edit'["apply"] = edit["apply"]
    BY <1>3 DEF Editors
  <2> QED
    BY <2>1 DEF EInv, OwnEdit, At
<1> QED
  BY <1>2, <1>3, <1>4 DEF EInv, EngineOK, FilesOK, CommitOK

LEMMA InstallStep ==
  ASSUME EngineAssumption, EInv, InstallRuntime
  PROVE  EInv'
<1>1. eng.req.channel \in Nat /\ manifest.runtime \in Tags
  BY DEF InstallRuntime, At, EInv, EngineOK, FilesOK, Plans
<1>2. /\ At("install_runtime") /\ ManifestSaved("apply", eng.req.channel, manifest.runtime)
      /\ UNCHANGED <<eng, config, temp, folder, partial, dir, saved, committed, torn, lost>>
      /\ BitsOK' /\ "apply" \in Editors /\ eng.req.channel \in Tags
  BY <1>1 DEF InstallRuntime, EInv, BitsOK, ghosts, Editors, Tags
<1> QED
  BY <1>1, <1>2, SelectStep

LEMMA DownloadStep ==
  ASSUME EInv, DownloadModel \/ DownloadStops
  PROVE  EInv'
<1>1. /\ eng.pc = "steps" /\ eng.todo # <<>> /\ eng.req \in Plans /\ Head(eng.todo) = "download_model"
      /\ UNCHANGED <<config, temp, edit, manifest, dir, saved, committed, torn, lost>>
      /\ BitsOK'
  BY DEF DownloadModel, DownloadStops, At, EInv, EngineOK, BitsOK, ghosts
<1>2. eng.req.model \in Approved
  <2>1. eng.todo \in Seq(StepsFor(eng.req.model))
    BY DEF EInv, EngineOK
  <2>2. "download_model" \in StepsFor(eng.req.model)
    BY <1>1, <2>1, HeadTailProperties
  <2> QED
    BY <2>2 DEF StepsFor, AllSteps
<1>3. PICK pc \in UnderWay \ {"waiting", "replacing"}, todo \in {eng.todo, Tail(eng.todo)} :
        /\ Goes(pc, todo, eng.original, eng.written)
  <2>1. CASE eng' = Done
    BY <1>1, <2>1, EngForms DEF EInv, UnderWay
  <2>2. CASE eng' = Failing
    BY <1>1, <2>2, EngForms DEF EInv, UnderWay
  <2> QED
    BY <2>1, <2>2 DEF DownloadModel, DownloadStops
<1>4. EngineOK'
  <2>1. eng.written \in BOOLEAN
    BY DEF EInv, EngineOK, Engines
  <2> QED
    BY <1>1, <1>3, <2>1, EngStep DEF EInv, FilesOK, EngineOK, PcOK
<1>5. /\ folder' \subseteq ModelIds
      /\ partial' \in [Approved -> {"none", "some", "whole"}]
  BY <1>2 DEF DownloadModel, DownloadStops, PartialAfter, EInv, FilesOK, ModelIds
<1>6. FilesOK'
  BY <1>1, <1>5 DEF EInv, FilesOK
<1>7. CommitOK'
  BY <1>1, <1>3 DEF Goes, EInv, CommitOK, UnderWay
<1>8. EditsOK' /\ OwnEdit'
  BY <1>1, EditsFrame DEF EInv, OwnEdit, At
<1> QED
  BY <1>1, <1>4, <1>6, <1>7, <1>8 DEF EInv

LEMMA WriteStep ==
  ASSUME EngineAssumption, EInv, WriteConfig
  PROVE  EInv'
<1>1. /\ eng.pc = "steps" /\ eng.todo # <<>> /\ eng.req \in Plans /\ Head(eng.todo) = "write_config"
      /\ UNCHANGED <<config, edit, manifest, folder, partial, dir, saved, committed, torn, lost>>
      /\ BitsOK' /\ dir \in Nat /\ eng.written \in BOOLEAN
  BY DEF WriteConfig, At, EInv, EngineOK, Engines, FilesOK, BitsOK, ghosts
<1>2. Goes("replacing", eng.todo, eng.original, eng.written)
  BY <1>1, EngForms DEF WriteConfig, EInv, UnderWay
<1>3. EngineOK'
  BY <1>1, <1>2, EngStep DEF EInv, EngineOK, UnderWay, PcOK
<1>4. temp' \in Configs /\ temp'.dir <= dir
  <2>1. manifest.runtime \in Tags
    BY DEF EInv, FilesOK
  <2>2. temp' = [backend |-> eng.req.backend, model |-> eng.req.model, port |-> eng.req.port,
                runtime |-> manifest.runtime, dir |-> dir]
    BY DEF WriteConfig
  <2> QED
    BY <1>1, <2>1, <2>2 DEF Configs, Plans
<1>5. FilesOK' /\ EditsOK' /\ OwnEdit'
  BY <1>1, <1>4 DEF EInv, FilesOK, EditsOK, OwnEdit, At
<1>6. CommitOK'
  BY <1>1, <1>2 DEF Goes, EInv, CommitOK, UnderWay
<1> QED
  BY <1>1, <1>3, <1>5, <1>6 DEF EInv

(* What is replaced now is the configured slot, or lost. *)
LEMMA WrittenStep ==
  ASSUME EngineAssumption, EInv, ConfigWritten
  PROVE  EInv'
<1>1. /\ eng.pc = "replacing" /\ eng.todo # <<>> /\ config' = temp /\ temp' = Nothing /\ temp # Nothing
      /\ UNCHANGED <<edit, manifest, folder, partial, dir, saved, committed, torn>>
      /\ lost' = (SlotPart(temp) # SlotPart(eng.req)) /\ BitsOK' /\ dir \in Nat
  BY DEF ConfigWritten, EInv, EngineOK, PcOK, FilesOK, BitsOK
<1>2. Goes("steps", Tail(eng.todo), eng.original, TRUE)
  BY <1>1, EngForms DEF ConfigWritten, EInv
<1>3. EngineOK'
  BY <1>1, <1>2, EngStep DEF EInv, EngineOK, UnderWay, PcOK
<1>4. FilesOK' /\ EditsOK' /\ OwnEdit'
  BY <1>1 DEF EInv, FilesOK, EditsOK, OwnEdit, At
<1>5. CommitOK'
  BY <1>1, <1>2 DEF Goes, EInv, CommitOK, UnderWay, SlotPart
<1> QED
  BY <1>1, <1>3, <1>4, <1>5 DEF EInv

(* The steps that only start, look at or end a process. *)
LEMMA QuietStep ==
  ASSUME EngineAssumption, EInv, NEW p, NEW hw,
         AlreadyRunning \/ StartRuntime(p, hw) \/ StartHealthy \/ StartFails \/ StepFails
           \/ UndoStart \/ UndoUnlinks
  PROVE  EInv'
<1>1. /\ eng.pc \in UnderWay /\ UNCHANGED <<config, temp, manifest, folder, partial, dir, saved>>
      /\ UNCHANGED <<committed, torn, lost>> /\ BitsOK'
  BY DEF AlreadyRunning, StartRuntime, StartHealthy, StartFails, StepFails, UndoStart, UndoUnlinks,
         At, UnderWay, files, ghosts, EInv, BitsOK
<1>0. EditsOK' /\ edit'["apply"] = NoEdit
  <2>1. CASE StepFails
    <3>1. /\ edit' = [edit EXCEPT !["apply"] = NoEdit] /\ "apply" \in Editors /\ EditType(NoEdit, dir)
          /\ EditsOK /\ dir \in Nat /\ dir <= dir /\ temp \in Configs \cup {Nothing}
          /\ temp # Nothing => temp.dir <= dir
      BY <2>1, NoEditType DEF StepFails, Editors, EInv, FilesOK, EditsOK
    <3> QED
      BY <1>1, <3>1, EditPut
  <2>2. CASE ~StepFails
    <3>1. UNCHANGED <<edit, temp, dir>>
      BY <1>1, <2>2 DEF AlreadyRunning, StartRuntime, StartHealthy, StartFails, UndoStart, UndoUnlinks, files
    <3>2. ~At("install_runtime")
      BY <2>2 DEF AlreadyRunning, StartRuntime, StartHealthy, StartFails, UndoStart, UndoUnlinks, At
    <3> QED
      BY <3>1, <3>2, EditsFrame DEF EInv, OwnEdit
  <2> QED
    BY <2>1, <2>2
<1>2. AlreadyRunning => /\ eng.todo # <<>> /\ eng' = Done /\ eng.pc = "steps"
                        /\ Head(eng.todo) # "write_config"
  BY DEF AlreadyRunning, At
<1>3. StartHealthy => /\ eng' = [Done EXCEPT !.pc = "steps", !.started = TRUE]
                      /\ eng.todo # <<>> /\ Head(eng.todo) # "write_config"
  BY DEF StartHealthy, EInv, EngineOK, PcOK
<1>4. StartRuntime(p, hw) \/ StartFails \/ StepFails \/ UndoStart \/ UndoUnlinks =>
        \/ eng' = Failing
        \/ \E pc \in UnderWay : eng' = [eng EXCEPT !.pc = pc] /\ PcOK(pc, eng.todo)
  BY DEF StartRuntime, StartFails, StepFails, UndoStart, UndoUnlinks, UnderWay, At, PcOK
<1>5. CASE AlreadyRunning
  BY <1>0, <1>1, <1>2, <1>5, EngForms, EngineMoves DEF EInv, PcOK
<1>6. CASE StartHealthy
  BY <1>0, <1>1, <1>3, <1>6, EngForms, EngineMoves DEF EInv, UnderWay, PcOK
<1>7. CASE ~AlreadyRunning /\ ~StartHealthy
  <2>1. PICK pc \in UnderWay : Goes(pc, eng.todo, eng.original, eng.written) /\ PcOK(pc, eng.todo)
    BY <1>4, <1>7, EngForms DEF EInv, UnderWay, PcOK
  <2> QED
    BY <1>0, <1>1, <2>1, EngineMoves
<1> QED
  BY <1>5, <1>6, <1>7

(* The last step commits what the apply was to configure: nothing is left   *)
(* to write by then.                                                        *)
LEMMA SucceedsStep ==
  ASSUME EInv, Succeeds
  PROVE  EInv'
<1>1. /\ eng' = NoApply /\ committed' = SlotPart(eng.req) /\ torn' = lost
      /\ UNCHANGED <<config, temp, edit, manifest, dir, folder, partial, lost>>
      /\ BitsOK' /\ eng.pc = "steps" /\ eng.todo # <<>> /\ Head(eng.todo) = "smoke_test"
  BY DEF Succeeds, At, EInv, BitsOK
<1>2. EngineOK'
  BY <1>1, NoApplyOK
<1>3. saved' \in Plans \cup {Nothing}
  BY DEF Succeeds, At, EInv, FilesOK, EngineOK
<1>4. FilesOK' /\ EditsOK' /\ OwnEdit'
  BY <1>1, <1>3, EditsFrame DEF EInv, FilesOK, OwnEdit, At
<1>5. ~ToWrite(eng.todo)
  <2>1. eng.todo \in Seq(AllSteps)
    BY DEF EInv, EngineOK, Engines
  <2>2. DOMAIN eng.todo = 1 .. Len(eng.todo) /\ Len(eng.todo) \in Nat /\ 1 \in DOMAIN eng.todo
        /\ eng.todo[1] = "smoke_test"
    BY <1>1, <2>1
  <2> QED
    BY <2>2 DEF ToWrite
<1>6. eng.written
  BY <1>1, <1>5 DEF EInv, EngineOK
<1>7. CommitOK'
  BY <1>1, <1>6 DEF EInv, CommitOK, SlotPart, NoApply, UnderWay
<1> QED
  BY <1>1, <1>2, <1>4, <1>7 DEF EInv

(* The undo brings the committed slot back. *)
LEMMA RestoreStep ==
  ASSUME EInv, UndoConfig
  PROVE  EInv'
<1>1. /\ eng' = NoApply /\ config' = Restored /\ eng.pc = "restore" /\ BitsOK'
      /\ UNCHANGED <<temp, edit, manifest, dir, folder, partial, saved, committed, torn>>
  BY DEF UndoConfig, EInv, BitsOK, ghosts
<1>2. EngineOK'
  BY <1>1, NoApplyOK
<1>3. /\ config' \in Configs \cup {Nothing} /\ (config' # Nothing => config'.dir <= dir)
      /\ ~torn => SlotPart(config)' = committed
  BY <1>1 DEF Restored, EInv, EngineOK, Engines, FilesOK, CommitOK, UnderWay, SlotPart
<1>4. FilesOK' /\ EditsOK' /\ OwnEdit'
  BY <1>1, <1>3, EditsFrame DEF EInv, FilesOK, OwnEdit, At
<1>5. CommitOK'
  BY <1>1, <1>3 DEF CommitOK, NoApply, UnderWay
<1> QED
  BY <1>1, <1>2, <1>4, <1>5 DEF EInv

(* What begins beside an apply touches neither it nor the configuration. *)
LEMMA BesideStep ==
  ASSUME EngineAssumption, EInv, Cancel \/ SetModelsDir \/ Update \/ Rollback \/ CliStops \/ CliUnlinks
  PROVE  EInv'
<1>1. CASE Cancel \/ CliStops \/ CliUnlinks
  <2>1. UNCHANGED <<eng, files, committed, torn, lost>> /\ BitsOK'
    BY <1>1 DEF Cancel, CliStops, CliUnlinks, ghosts, EInv, BitsOK
  <2> QED
    BY <2>1, EngineFrame
<1>2. CASE SetModelsDir
  <2> DEFINE e == [NoEdit EXCEPT !.pc = "saved"]
  <2>1. /\ UNCHANGED <<eng, config, temp, manifest, partial, saved, committed, torn, lost>> /\ BitsOK'
        /\ dir' = dir + 1 /\ folder' \subseteq ModelIds /\ dir \in Nat /\ dir' \in Nat
        /\ edit' = [edit EXCEPT !["folder"] = e]
    BY <1>2, EngineAssumption DEF SetModelsDir, MayEdit, EInv, BitsOK, FilesOK
  <2>2. EditType(e, dir)
    <3>1. e = [pc |-> "saved", new |-> Nothing, copy |-> Nothing]
      BY DEF NoEdit
    <3> QED
      BY <3>1 DEF EditType, Edits, Tags
  <2> HIDE DEF e
  <2>3. EngineOK' /\ FilesOK'
    <3>1. eng.original # Nothing => eng.original \in Configs /\ eng.original.dir \in Nat /\ eng.original.dir <= dir
      BY DEF EInv, EngineOK, Engines, Configs
    <3>2. config # Nothing => config \in Configs /\ config.dir \in Nat /\ config.dir <= dir
      BY DEF EInv, FilesOK, Configs
    <3>3. (eng.original # Nothing => eng.original.dir <= dir + 1) /\ (config # Nothing => config.dir <= dir + 1)
      BY <2>1, <3>1, <3>2
    <3> QED
      BY <2>1, <3>3 DEF EInv, EngineOK, FilesOK
  <2>4. EditsOK' /\ OwnEdit'
    <3>1. temp \in Configs \cup {Nothing} /\ (temp # Nothing => temp.dir \in Nat /\ temp.dir <= dir)
      BY DEF EInv, EditsOK, Configs
    <3>2. temp' \in Configs \cup {Nothing} /\ (temp' # Nothing => temp'.dir <= dir') /\ dir <= dir'
      BY <2>1, <3>1
    <3>3. EditsOK' /\ edit'["apply"] = edit["apply"]
      BY <2>1, <2>2, <3>2, EditPut DEF EInv, Editors
    <3> QED
      BY <2>1, <3>3 DEF EInv, OwnEdit, At
  <2>5. CommitOK'
    BY <2>1 DEF EInv, CommitOK
  <2> QED
    BY <2>1, <2>3, <2>4, <2>5 DEF EInv
<1>3. CASE Update \/ Rollback
  <2>1. PICK new \in Tags, old \in Tags : Selects(new, old)
    BY <1>3, LatestTagType DEF Update, Rollback, EInv, FilesOK, Tags
  <2>2. /\ UNCHANGED <<eng, config, temp, folder, partial, dir, saved, committed, torn, lost>> /\ BitsOK'
        /\ ManifestSaved("runtime", new, old) /\ "runtime" \in Editors
    BY <2>1, EngineAssumption DEF Selects, MayEdit, EInv, BitsOK, Editors
  <2> QED
    BY <2>2, SelectStep
<1> QED
  BY <1>1, <1>2, <1>3

(* An edit that ends: the apply's goes on to its next step. *)
LEMMA EditEnds ==
  ASSUME EngineAssumption, EInv, NEW w \in Editors, edit[w] # NoEdit, Ends(w), UNCHANGED dir,
         temp' = temp \/ temp' = Nothing
  PROVE  EngineOK' /\ EditsOK' /\ OwnEdit' /\ eng'.written = eng.written /\ eng'.original = eng.original
           /\ eng'.req = eng.req /\ eng'.pc = eng.pc
<1>1. EditsOK' /\ edit'[w] = NoEdit /\ \A v \in Editors \ {w} : edit'[v] = edit[v]
  <2>1. /\ edit' = [edit EXCEPT ![w] = NoEdit] /\ EditType(NoEdit, dir) /\ EditsOK
        /\ dir \in Nat /\ dir' \in Nat /\ dir <= dir' /\ temp' \in Configs \cup {Nothing}
        /\ temp' # Nothing => temp'.dir <= dir'
    BY NoEditType DEF Ends, EInv, FilesOK, EditsOK
  <2> QED
    BY <2>1, EditPut
<1>2. CASE w # "apply"
  <2>1. eng' = eng /\ edit'["apply"] = edit["apply"]
    BY <1>1, <1>2 DEF Ends, Editors
  <2> QED
    BY <1>1, <2>1 DEF EInv, EngineOK, OwnEdit, At
<1>3. CASE w = "apply"
  <2>1. At("install_runtime") /\ eng' = Done
    BY <1>3 DEF EInv, OwnEdit, Ends
  <2>2. eng.pc = "steps" /\ eng.todo # <<>> /\ Head(eng.todo) # "write_config" /\ eng.written \in BOOLEAN
    BY <2>1 DEF At, EInv, EngineOK, Engines
  <2>3. Goes("steps", Tail(eng.todo), eng.original, eng.written)
    BY <2>1, <2>2, EngForms DEF EInv
  <2>4. EngineOK'
    BY <2>2, <2>3, EngStep DEF EInv, FilesOK, EngineOK, UnderWay, PcOK
  <2> QED
    BY <1>1, <1>3, <2>2, <2>3, <2>4 DEF OwnEdit, Goes
<1> QED
  BY <1>2, <1>3

(* An edit goes on.  One that puts another slot in place is lost, and tears *)
(* what was committed if no apply has written since.                        *)
LEMMA EditStep ==
  ASSUME EngineAssumption, EInv, NEW w \in Editors, EditGoesOn(w)
  PROVE  EInv'
<1>0. NoEdit.pc = "none"
  BY DEF NoEdit
<1>9. /\ EditType(edit[w], dir) /\ EditsOK /\ dir \in Nat /\ dir <= dir
      /\ temp \in Configs \cup {Nothing} /\ (temp # Nothing => temp.dir <= dir)
      /\ config \in Configs \cup {Nothing} /\ (config # Nothing => config.dir <= dir)
  BY DEF EInv, EditsOK, FilesOK
<1>1. CASE ConfigRead(w)
  <2>1. /\ UNCHANGED <<config, temp, manifest, folder, partial, dir, saved, committed, torn, lost>> /\ BitsOK'
        /\ edit[w].pc = "saved" /\ edit[w] # NoEdit
    BY <1>0, <1>1 DEF ConfigRead, ghosts, EInv, BitsOK
  <2>2. CASE config = Nothing
    <3>1. Ends(w)
      BY <1>1, <2>2 DEF ConfigRead
    <3>2. EngineOK' /\ EditsOK' /\ OwnEdit' /\ eng'.written = eng.written /\ eng'.original = eng.original
            /\ eng'.req = eng.req /\ eng'.pc = eng.pc
      BY <2>1, <3>1, EditEnds
    <3> QED
      BY <2>1, <3>2 DEF EInv, FilesOK, CommitOK
  <2>3. CASE config # Nothing
    <3> DEFINE e == [pc |-> "copied", new |-> edit[w].new, copy |-> config]
    <3>1. edit' = [edit EXCEPT ![w] = e] /\ eng' = eng
      BY <1>1, <2>3 DEF ConfigRead
    <3>2. EditType(e, dir)
      <4>1. edit[w].new \in Tags
        BY <1>9 DEF EditType, Edits
      <4> QED
        BY <1>9, <2>3, <4>1 DEF EditType, Edits, e
    <3> HIDE DEF e
    <3>3. EditsOK' /\ \A v \in Editors \ {w} : edit'[v] = edit[v]
      BY <1>9, <2>1, <3>1, <3>2, EditPut
    <3>4. OwnEdit'
      BY <2>1, <3>1, <3>3 DEF EInv, OwnEdit, At, Editors
    <3> QED
      BY <2>1, <3>1, <3>3, <3>4 DEF EInv, EngineOK, FilesOK, CommitOK
  <2> QED
    BY <2>2, <2>3
<1>2. CASE CopyWritten(w)
  <2> DEFINE e == [NoEdit EXCEPT !.pc = "written"]
  <2>1. /\ UNCHANGED <<eng, config, manifest, folder, partial, dir, saved, committed, torn, lost>> /\ BitsOK'
        /\ edit[w].pc = "copied" /\ edit[w] # NoEdit /\ edit' = [edit EXCEPT ![w] = e]
    BY <1>0, <1>2 DEF CopyWritten, ghosts, EInv, BitsOK
  <2>2. EditType(e, dir)
    <3>1. e = [pc |-> "written", new |-> Nothing, copy |-> Nothing]
      BY DEF NoEdit
    <3> QED
      BY <3>1 DEF EditType, Edits, Tags
  <2> HIDE DEF e
  <2>3. temp' \in Configs /\ temp'.dir <= dir
    <3>1. edit[w].copy \in Configs /\ edit[w].copy.dir <= dir /\ edit[w].new \in Tags
      BY <1>9, <2>1 DEF EditType, Edits
    <3> QED
      BY <1>2, <1>9, <3>1, CopyEdited DEF CopyWritten, ChangedCopy
  <2>4. EditsOK' /\ \A v \in Editors \ {w} : edit'[v] = edit[v]
    BY <1>9, <2>1, <2>2, <2>3, EditPut
  <2>5. OwnEdit'
    BY <2>1, <2>4 DEF EInv, OwnEdit, At, Editors
  <2> QED
    BY <2>1, <2>4, <2>5 DEF EInv, EngineOK, FilesOK, CommitOK
<1>3. CASE ConfigReplaced(w)
  <2> DEFINE stale == SlotPart(temp) # SlotPart(config)
  <2>1. /\ UNCHANGED <<manifest, folder, partial, dir, saved, committed>>
        /\ edit[w].pc = "written" /\ edit[w] # NoEdit /\ config' = temp /\ temp' = Nothing /\ temp # Nothing
        /\ Ends(w) /\ lost' = (lost \/ stale) /\ torn' = (torn \/ (stale /\ ~eng.written))
    BY <1>0, <1>3 DEF ConfigReplaced
  <2>2. EngineOK' /\ EditsOK' /\ OwnEdit' /\ eng'.written = eng.written /\ eng'.original = eng.original
          /\ eng'.req = eng.req /\ eng'.pc = eng.pc
    BY <2>1, EditEnds
  <2>3. FilesOK'
    BY <1>9, <2>1 DEF EInv, FilesOK
  <2>4. SlotPart(config)' = SlotPart(temp)
    BY <2>1 DEF SlotPart
  <2>5. BitsOK'
    <3>1. lost' \in BOOLEAN /\ torn' \in BOOLEAN
      BY <2>1, Zenon
    <3>2. UNCHANGED <<cancel, cli, turns>>
      BY <1>3 DEF ConfigReplaced
    <3> QED
      BY <3>1, <3>2 DEF EInv, BitsOK
  <2>6. CommitOK'
    <3>1. ASSUME ~torn', eng'.pc \in UnderWay PROVE SlotPart(eng.original) = committed
      BY <2>1, <2>2, <3>1 DEF EInv, CommitOK
    <3>2. ASSUME ~torn', ~eng'.written PROVE SlotPart(config)' = committed
      BY <2>1, <2>2, <2>4, <3>2 DEF EInv, CommitOK
    <3>3. ASSUME eng'.written, ~lost' PROVE SlotPart(config)' = SlotPart(eng.req)
      BY <2>1, <2>2, <2>4, <3>3 DEF EInv, CommitOK
    <3>4. SlotPart(eng.original)' = SlotPart(eng.original) /\ SlotPart(eng.req)' = SlotPart(eng.req)
      BY <2>2 DEF SlotPart
    <3> QED
      BY <2>1, <2>2, <3>1, <3>2, <3>3, <3>4 DEF CommitOK
  <2> QED
    BY <2>2, <2>3, <2>5, <2>6 DEF EInv
<1>4. CASE EditFails(w)
  <2>1. /\ UNCHANGED <<eng, config, temp, manifest, folder, partial, dir, saved, committed, torn, lost>> /\ BitsOK'
        /\ w # "apply" /\ edit[w] # NoEdit /\ edit' = [edit EXCEPT ![w] = NoEdit]
    BY <1>4 DEF EditFails, ghosts, EInv, BitsOK
  <2>2. Ends(w)
    BY <2>1 DEF Ends
  <2>3. EngineOK' /\ EditsOK' /\ OwnEdit'
    BY <2>1, <2>2, EditEnds
  <2> QED
    BY <2>1, <2>3 DEF EInv, FilesOK, CommitOK
<1> QED
  BY <1>1, <1>2, <1>3, <1>4 DEF EditGoesOn

(* A service that died in an apply that had written has torn it. *)
LEMMA RestartsStep ==
  ASSUME EngineAssumption, EInv, Restart
  PROVE  EInv'
<1>1. /\ eng' = NoApply /\ cancel' = FALSE /\ torn' = (torn \/ eng.written)
      /\ UNCHANGED <<config, temp, manifest, folder, dir, saved, cli, committed, lost, turns>>
      /\ partial' \in IF At("download_model") THEN PartialAfter ELSE {partial}
      /\ edit' = [edit EXCEPT !["apply"] = NoEdit, !["folder"] = NoEdit]
  BY DEF Restart
<1>2. EngineOK'
  BY <1>1, NoApplyOK
<1>3. eng.written \in BOOLEAN
  BY DEF EInv, EngineOK, Engines
<1>4. BitsOK'
  BY <1>1, <1>3 DEF EInv, BitsOK
<1>5. partial' \in [Approved -> {"none", "some", "whole"}]
  BY <1>1 DEF PartialAfter, EInv, FilesOK
<1>6. FilesOK'
  BY <1>1, <1>5 DEF EInv, FilesOK
<1>7. CommitOK'
  BY <1>1, <1>3 DEF EInv, CommitOK, NoApply, UnderWay, SlotPart
<1>8. EditsOK' /\ OwnEdit'
  <2>1. edit \in [Editors -> Edits] /\ NoEdit \in Edits /\ EditType(NoEdit, dir)
    BY NoEditType DEF EInv, EditsOK, EditType
  <2>2. /\ edit' \in [Editors -> Edits] /\ edit'["apply"] = NoEdit
        /\ \A w \in Editors : edit'[w] = edit[w] \/ edit'[w] = NoEdit
    BY <1>1, <2>1 DEF Editors
  <2>3. \A w \in Editors : EditType(edit'[w], dir)
    BY <2>1, <2>2 DEF EInv, EditsOK
  <2> QED
    BY <1>1, <2>2, <2>3 DEF EInv, EditsOK, OwnEdit
<1> QED
  BY <1>2, <1>4, <1>6, <1>7, <1>8 DEF EInv

LEMMA EngineStarts == EngineAssumption /\ Init => EInv
<1> SUFFICES ASSUME EngineAssumption, Init PROVE EInv
  OBVIOUS
<1>1. EngineOK
  BY NoApplyNow DEF Init
<1>2. /\ config # Nothing => config \in Configs /\ config.dir = 0
      /\ manifest \in [runtime : Tags, previous : Tags]
  BY EngineAssumption DEF Init
<1>3. FilesOK
  <2>1. config \in Configs \cup {Nothing} /\ (config # Nothing => config.dir <= dir)
    BY <1>2 DEF Init
  <2>2. manifest \in [runtime : Tags, previous : Tags] /\ dir \in Nat /\ saved \in Plans \cup {Nothing}
    BY <1>2 DEF Init
  <2>3. folder \subseteq ModelIds
    BY EngineAssumption DEF Init
  <2>4. partial \in [Approved -> {"none", "some", "whole"}]
    BY DEF Init, Approved
  <2> QED
    BY <2>1, <2>2, <2>3, <2>4 DEF FilesOK
<1>4. CommitOK
  <2>1. eng.pc \notin UnderWay /\ SlotPart(config) = committed /\ ~eng.written
    BY DEF Init, NoApply, UnderWay
  <2> QED
    BY <2>1 DEF CommitOK
<1>5. BitsOK
  <2>1. MaxTurns \in Nat
    BY EngineAssumption
  <2>2. cancel \in BOOLEAN /\ torn \in BOOLEAN /\ lost \in BOOLEAN
    BY Zenon DEF Init
  <2>3. cli \in {"idle", "unlinking"}
    BY DEF Init
  <2>4. turns \in 0 .. MaxTurns
    BY <2>1 DEF Init
  <2> QED
    BY <2>2, <2>3, <2>4 DEF BitsOK
<1>6. EditsOK /\ OwnEdit
  <2>1. EditType(NoEdit, 0) /\ NoEdit \in Edits
    BY NoEditType DEF EditType
  <2>2. edit = [w \in Editors |-> NoEdit] /\ temp = Nothing /\ dir = 0
    BY DEF Init
  <2>3. \A w \in Editors : edit[w] = NoEdit
    BY <2>2
  <2> QED
    BY <2>1, <2>2, <2>3 DEF EditsOK, OwnEdit, Editors
<1> QED
  BY <1>1, <1>3, <1>4, <1>5, <1>6 DEF EInv

LEMMA EngineNext == EngineAssumption /\ EInv /\ Next => EInv'
<1> SUFFICES ASSUME EngineAssumption, EInv, Next PROVE EInv'
  OBVIOUS
<1>1. CASE (Machine \/ Backend) /\ Others
  BY <1>1, EngineFrame DEF Others, ghosts, EInv, BitsOK
<1>2. ASSUME NEW hw \in Machines, Repair(hw) \/ \E r \in Requests : Apply(r, hw) PROVE EInv'
  BY <1>2, RepairStep, ApplyStep, EngineAssumption
<1>3. CASE ApplyEnters \/ InstallRuntime \/ DownloadModel \/ DownloadStops \/ WriteConfig \/ ConfigWritten
  BY <1>3, EntersStep, InstallStep, DownloadStep, WriteStep, WrittenStep
<1>4. CASE AlreadyRunning \/ StartHealthy \/ StartFails \/ StepFails \/ UndoStart \/ UndoUnlinks
  BY <1>4, QuietStep
<1>5. ASSUME NEW p \in Pids, NEW hw \in Machines, StartRuntime(p, hw) PROVE EInv'
  BY <1>5, QuietStep
<1>6. CASE Succeeds \/ UndoConfig
  BY <1>6, SucceedsStep, RestoreStep
<1>7. CASE Cancel \/ SetModelsDir \/ Update \/ Rollback \/ CliStops \/ CliUnlinks \/ Restart
  BY <1>7, BesideStep, RestartsStep
<1>8. ASSUME NEW w \in Editors, EditGoesOn(w) PROVE EInv'
  BY <1>8, EditStep
<1> QED
  BY <1>1, <1>2, <1>3, <1>4, <1>5, <1>6, <1>7, <1>8 DEF Next

(* On the other backends the engine does not move. *)
LEMMA EngineSame == EInv /\ UNCHANGED vars => EInv'
  BY EngineFrame DEF vars, ghosts, EInv, BitsOK

(* An inductive account of setup/engine.py's apply: what it has left to do, *)
(* what it keeps for the undo, and whether the configuration is committed,  *)
(* with the folder page and the command line reading, changing and replacing *)
(* the same file beside it, one step at a time.                              *)
THEOREM EngineInvariant == FleetSpec => []EInv
<1>1. FleetInit => EInv
  BY EngineAssumption, EngineStarts DEF FleetInit
<1>2. EInv /\ [FleetNext]_<<vars, containerVars, backend>> => EInv'
  BY EngineAssumption, EngineNext, EngineSame DEF FleetNext
<1> QED
  BY <1>1, <1>2, PTL DEF FleetSpec

(* Setup is all or nothing for the configuration, whatever fails, is        *)
(* cancelled or runs beside it, and however often apply is run: the undo at *)
(* the end of engine.py's apply restores what was committed before, and     *)
(* every edit that put another slot in place is told apart (see             *)
(* ConfigCommitted).                                                        *)
THEOREM ConfigAllOrNothing == FleetSpec => []ConfigCommitted
<1>1. EInv => ConfigCommitted
  BY DEF EInv, EngineOK, CommitOK, ConfigCommitted
<1> QED
  BY <1>1, EngineInvariant, PTL

-----------------------------------------------------------------------------
(* The types of the processes, their handles and the containers. *)
Starters == Slots \cup {Setup, Foreign}
ProcType ==
  /\ births \in 0 .. MaxBirths
  /\ \A p \in Pids : proc[p] # Nothing =>
       proc[p].born \in 1 .. births /\ proc[p].serving \in BOOLEAN /\ proc[p].by \in Starters
HeldType ==
  /\ held \in [Slots -> Handles \cup {Nothing}]
  /\ doing \in [Slots -> {"idle", "starting", "stopping"}]
MineType == mine \in Handles \cup {Nothing}
BoxesType == known \in [Names -> Reports] /\ waiting \subseteq Names /\ boxes \in 0 .. MaxBoxes

TInv == ProcType /\ HeldType /\ MineType /\ BoxesType /\ backend \in BackendTypes

LEMMA SpawnType ==
  ASSUME ProcessAssumption, Processes, ProcType, NEW p \in Pids, NEW by \in Starters, NEW port, NEW m,
         Spawned(p, by, port, m)
  PROVE  ProcType' /\ NewHandle(p) \in Handles
<1> DEFINE new == [born |-> births + 1, by |-> by, port |-> port, model |-> m, serving |-> FALSE]
<1>1. MaxBirths \in Nat
  BY ProcessAssumption
<1>2. births \in Nat /\ births < MaxBirths /\ births' = births + 1
  BY DEF Spawned, Processes
<1>3. births' \in 0 .. MaxBirths /\ births + 1 \in 1 .. MaxBirths /\ births + 1 \in 1 .. births'
  BY <1>1, <1>2
<1>4. new.born \in 1 .. births' /\ new.serving \in BOOLEAN /\ new.by \in Starters
  BY <1>3
<1>5. proc' = [proc EXCEPT ![p] = new]
  BY DEF Spawned
<1> HIDE DEF new
<1>6. proc'[p] = new /\ \A q \in Pids \ {p} : proc'[q] = proc[q]
  BY <1>5 DEF Processes
<1>7. ASSUME NEW q \in Pids, proc'[q] # Nothing
      PROVE  proc'[q].born \in 1 .. births' /\ proc'[q].serving \in BOOLEAN /\ proc'[q].by \in Starters
  <2>1. CASE q = p
    BY <1>4, <1>6, <2>1
  <2>2. CASE q # p
    <3>1. proc[q].born \in 1 .. births /\ proc[q].serving \in BOOLEAN /\ proc[q].by \in Starters
      BY <1>6, <1>7, <2>2 DEF ProcType
    <3>2. proc[q].born \in 1 .. births'
      BY <1>2, <3>1
    <3> QED
      BY <1>6, <2>2, <3>1, <3>2
  <2> QED
    BY <2>1, <2>2
<1> QED
  BY <1>3, <1>7 DEF ProcType, NewHandle, Handles

LEMMA EndType ==
  ASSUME Processes, ProcType, NEW p \in Pids, proc' = [proc EXCEPT ![p] = Nothing], UNCHANGED births
  PROVE  ProcType'
<1>1. proc'[p] = Nothing /\ \A q \in Pids \ {p} : proc'[q] = proc[q]
  BY DEF Processes
<1> QED
  BY <1>1 DEF ProcType

LEMMA LoadType ==
  ASSUME Processes, ProcType, NEW p \in Pids, Loads(p)
  PROVE  ProcType'
<1>1. CASE PortOpen(proc[p].port)
  BY <1>1, EndType DEF Loads
<1>2. CASE ~PortOpen(proc[p].port)
  <2>1. proc' = [proc EXCEPT ![p] = [@ EXCEPT !.serving = TRUE]] /\ births' = births
    BY <1>2 DEF Loads
  <2>2. proc[p] = [born |-> proc[p].born, by |-> proc[p].by, port |-> proc[p].port,
                   model |-> proc[p].model, serving |-> proc[p].serving]
    BY DEF Processes, Loads
  <2>3. proc'[p] = [proc[p] EXCEPT !.serving = TRUE] /\ \A q \in Pids \ {p} : proc'[q] = proc[q]
    BY <2>1 DEF Processes
  <2>4. proc'[p] = [born |-> proc[p].born, by |-> proc[p].by, port |-> proc[p].port,
                    model |-> proc[p].model, serving |-> TRUE]
    BY <2>2, <2>3
  <2>5. proc[p].born \in 1 .. births /\ proc[p].by \in Starters
    BY DEF ProcType, Loads
  <2>6. proc'[p].born = proc[p].born /\ proc'[p].by = proc[p].by
    BY <2>4
  <2>7. proc'[p].serving \in BOOLEAN
    BY <2>4
  <2>8. proc'[p].born \in 1 .. births' /\ proc'[p].serving \in BOOLEAN /\ proc'[p].by \in Starters
    BY <2>1, <2>5, <2>6, <2>7
  <2> QED
    BY <2>1, <2>3, <2>8 DEF ProcType
<1> QED
  BY <1>1, <1>2

LEMMA MachineType == ProcessAssumption /\ Processes /\ ProcType /\ Machine => ProcType'
<1> SUFFICES ASSUME ProcessAssumption, Processes, ProcType, Machine PROVE ProcType'
  OBVIOUS
<1>1. ASSUME NEW p \in Pids, Loads(p) \/ Exits(p) PROVE ProcType'
  BY <1>1, LoadType, EndType DEF Exits
<1>2. ASSUME NEW p \in Pids, NEW port \in Ports, NEW m \in Models, ForeignStarts(p, port, m)
      PROVE  ProcType'
  BY <1>2, SpawnType DEF ForeignStarts, Starters
<1> QED
  BY <1>1, <1>2 DEF Machine

(* A slot's handle and what it does change together. *)
LEMMA HeldPut ==
  ASSUME HeldType, NEW s \in Slots, NEW h \in Handles \cup {Nothing},
         held' = held \/ held' = [held EXCEPT ![s] = h],
         NEW d \in {"idle", "starting", "stopping"},
         doing' = doing \/ doing' = [doing EXCEPT ![s] = d]
  PROVE  HeldType'
BY DEF HeldType

LEMMA BackendType ==
  ASSUME ProcessAssumption, PInv, ProcType, HeldType, Backend
  PROVE  ProcType' /\ HeldType'
<1> USE DEF PInv
<1>1. ASSUME NEW s \in Slots, StartRefused(s) \/ StartEnds(s) \/ StopEnds(s)
      PROVE  ProcType' /\ HeldType'
  <2>1. UNCHANGED <<proc, births>>
    BY <1>1 DEF StartRefused, StartEnds, StopEnds
  <2>2. ProcType'
    BY <2>1 DEF ProcType
  <2>3. HeldType'
    <3>1. /\ held' = held \/ held' = [held EXCEPT ![s] = Nothing]
          /\ doing' = doing \/ doing' = [doing EXCEPT ![s] = "idle"]
      BY <1>1 DEF StartRefused, StartEnds, StopEnds
    <3> QED
      BY <3>1, HeldPut
  <2> QED
    BY <2>2, <2>3
<1>2. ASSUME NEW s \in Slots, StartUnrecorded(s)
      PROVE  ProcType' /\ HeldType'
  <2>1. proc' = proc /\ births' = births + 1 /\ births < MaxBirths /\ births \in Nat /\ MaxBirths \in Nat
    BY <1>2, ProcessAssumption DEF StartUnrecorded, Processes
  <2>2. births' \in 0 .. MaxBirths /\ \A b \in 1 .. births : b \in 1 .. births'
    BY <2>1
  <2>3. ProcType'
    BY <2>1, <2>2 DEF ProcType
  <2>4. HeldType'
    BY <1>2, HeldPut DEF StartUnrecorded
  <2> QED
    BY <2>3, <2>4
<1>3. ASSUME NEW s \in Slots, StopBegins(s)
      PROVE  ProcType' /\ HeldType'
  <2>1. held[s].pid \in Pids
    BY <1>3 DEF StopBegins, Alive, HeldOwn, Old
  <2>2. ProcType'
    BY <1>3, <2>1, EndType DEF StopBegins, Terminated
  <2>3. HeldType'
    BY <1>3, HeldPut DEF StopBegins
  <2> QED
    BY <2>2, <2>3
<1>4. ASSUME NEW s \in Slots, NEW p \in Pids, Start(s, p)
      PROVE  ProcType' /\ HeldType'
  <2>1. Spawned(p, s, SlotPort[s], CommandModel(s)) /\ s \in Starters
    BY <1>4 DEF Start, Starters
  <2>2. ProcType' /\ NewHandle(p) \in Handles
    BY <2>1, SpawnType
  <2>3. HeldType'
    BY <1>4, <2>2, HeldPut DEF Start
  <2> QED
    BY <2>2, <2>3
<1> QED
  BY <1>1, <1>2, <1>3, <1>4 DEF Backend

LEMMA StoppedType ==
  ASSUME PInv, ProcType, NEW own, StoppedFor(own), record # Nothing
  PROVE  ProcType'
<1>1. record.pid \in Pids
  BY DEF PInv, RecordOwn, Old
<1>2. Alive(mine) => mine.pid \in Pids
  BY DEF PInv, MineOwn, Old, Alive
<1> QED
  BY <1>1, <1>2, EndType DEF StoppedFor, Terminated, PInv, ProcType, host

(* The engine's and the command line's steps. *)
LEMMA SetupType ==
  ASSUME ProcessAssumption, PInv, ProcType, HeldType, MineType, Next
  PROVE  ProcType' /\ HeldType' /\ MineType'
<1>1. CASE (Machine \/ Backend) /\ Others
  <2>1. MineType'
    BY <1>1 DEF Others, MineType
  <2>2. CASE Machine
    <3>1. UNCHANGED <<held, doing>>
      BY <2>2 DEF Machine, Loads, Exits, ForeignStarts
    <3> QED
      BY <2>1, <2>2, <3>1, MachineType DEF PInv, HeldType
  <2>3. CASE Backend
    BY <2>1, <2>3, BackendType
  <2> QED
    BY <1>1, <2>2, <2>3
<1>2. CASE UNCHANGED <<host, held, doing, mine>>
  BY <1>2 DEF host, ProcType, HeldType, MineType
<1>3. ASSUME NEW p \in Pids, NEW hw \in Machines, StartRuntime(p, hw)
      PROVE  ProcType' /\ HeldType' /\ MineType'
  <2>1. Spawned(p, Setup, config.port, config.model) /\ mine' = NewHandle(p) /\ UNCHANGED <<held, doing>>
    BY <1>3 DEF StartRuntime
  <2>2. ProcType' /\ NewHandle(p) \in Handles
    BY <2>1, SpawnType DEF PInv, Starters
  <2> QED
    BY <2>1, <2>2 DEF HeldType, MineType
<1>4. CASE StartFails
  <2>1. Alive(mine) => mine.pid \in Pids
    BY DEF PInv, MineOwn, Old, Alive
  <2>2. ProcType'
    BY <1>4, <2>1, EndType DEF StartFails, Terminated, PInv, ProcType, host
  <2> QED
    BY <1>4, <2>2 DEF StartFails, HeldType, MineType
<1>5. CASE UndoStart
  <2>1. UNCHANGED <<held, doing>> /\ mine' \in {mine, Nothing}
    BY <1>5 DEF UndoStart
  <2>2. ProcType'
    BY <1>5, StoppedType DEF UndoStart, MayStop, ProcType, host
  <2> QED
    BY <2>1, <2>2 DEF HeldType, MineType
<1>6. CASE CliStops
  <2>1. ProcType'
    BY <1>6, StoppedType DEF CliStops
  <2> QED
    BY <1>6, <2>1 DEF CliStops, HeldType, MineType
<1>7. CASE Restart
  <2>1. /\ UNCHANGED <<proc, births>> /\ mine' = Nothing
        /\ doing' = [s \in Slots |-> "idle"]
        /\ held' = [s \in Slots |-> IF MayAdopt(s) THEN [pid |-> record.pid, born |-> record.born] ELSE Nothing]
    BY <1>7 DEF Restart, ServiceRestarts
  <2>2. ASSUME NEW s \in Slots, MayAdopt(s)
        PROVE  [pid |-> record.pid, born |-> record.born] \in Handles
    <3>1. record.pid \in Pids /\ record.born \in 1 .. births
      BY <2>2 DEF MayAdopt, PInv, RecordOwn, Old
    <3>2. births \in 0 .. MaxBirths /\ MaxBirths \in Nat
      BY ProcessAssumption DEF ProcType
    <3>3. record.born \in 1 .. MaxBirths
      BY <3>1, <3>2
    <3> QED
      BY <3>1, <3>3 DEF Handles
  <2>3. held' \in [Slots -> Handles \cup {Nothing}]
    BY <2>1, <2>2
  <2> QED
    BY <2>1, <2>3 DEF ProcType, HeldType, MineType
<1>8. CASE \/ \E hw \in Machines : Repair(hw) \/ \E r \in Requests : Apply(r, hw)
           \/ ApplyEnters \/ InstallRuntime \/ DownloadModel \/ DownloadStops \/ WriteConfig \/ ConfigWritten
           \/ AlreadyRunning \/ StartHealthy \/ Succeeds \/ StepFails
           \/ UndoUnlinks \/ UndoConfig
           \/ Cancel \/ SetModelsDir \/ Update \/ Rollback \/ CliUnlinks
           \/ \E w \in Editors : EditGoesOn(w)
  <2>1. UNCHANGED <<host, held, doing, mine>>
    BY <1>8 DEF host, processVars, Repair, Apply, ApplyEnters, InstallRuntime, DownloadModel,
         DownloadStops, WriteConfig, ConfigWritten, AlreadyRunning, StartHealthy, Succeeds, StepFails,
         UndoUnlinks, UndoConfig, Cancel, SetModelsDir, Update, Rollback, Selects, CliUnlinks,
         EditGoesOn, ConfigRead, CopyWritten, ConfigReplaced, EditFails
  <2> QED
    BY <1>2, <2>1
<1> QED
  BY <1>1, <1>3, <1>4, <1>5, <1>6, <1>7, <1>8 DEF Next

(* What the containers' backend and the remote one say of a name. *)
LEMMA ReportType ==
  ASSUME ContainerAssumption, BoxType, BoxesType, Docker \/ Remote
  PROVE  BoxesType'
<1>0. boxes \in Nat /\ MaxBoxes \in Nat /\ Shared \subseteq Names
  BY ContainerAssumption DEF BoxType, Names
<1>1. ASSUME NEW n \in Names, NEW r \in Reports, known' = known \/ known' = [known EXCEPT ![n] = r],
             waiting' \subseteq Names, boxes' = boxes \/ (boxes < MaxBoxes /\ boxes' = boxes + 1)
      PROVE  BoxesType'
  <2>1. known' \in [Names -> Reports]
    BY <1>1 DEF BoxesType
  <2>2. boxes' \in 0 .. MaxBoxes
    BY <1>0, <1>1 DEF BoxesType
  <2> QED
    BY <1>1, <2>1, <2>2 DEF BoxesType
<1>2. {"none", "healthy", "running", "down", "failed"} = Reports
  BY DEF Reports
<1>3. CASE ListSlots \/ Forgets
  BY <1>2, <1>3 DEF ListSlots, Forgets, BoxesType
<1>4. ASSUME NEW n \in Names,
             \/ ContainerStart(n) \/ StartConflicts(n) \/ StartReports(n) \/ RemoveContainer(n)
             \/ ContainerHealth(n) \/ CleanupStale(n) \/ Daemon(n)
      PROVE  BoxesType'
  <2>1. waiting' \subseteq Names
    BY <1>4 DEF ContainerStart, StartConflicts, StartReports, RemoveContainer, ContainerHealth,
                CleanupStale, Daemon, BoxesType
  <2>2. boxes' = boxes \/ (boxes < MaxBoxes /\ boxes' = boxes + 1)
    BY <1>4 DEF ContainerStart, StartConflicts, StartReports, RemoveContainer, ContainerHealth,
                CleanupStale, Daemon
  <2>3. \E r \in Reports : known' = known \/ known' = [known EXCEPT ![n] = r]
    BY <1>2, <1>4 DEF ContainerStart, StartConflicts, StartReports, RemoveContainer, ContainerHealth,
                CleanupStale, Daemon, Forgotten
  <2> QED
    BY <1>1, <2>1, <2>2, <2>3
<1>5. ASSUME NEW n \in Shared, RemoteStart(n) \/ RemoteStop(n) \/ RemoteHealth(n) \/ ServerChanges(n)
      PROVE  BoxesType'
  <2>1. UNCHANGED <<waiting, boxes>> /\ n \in Names
    BY <1>0, <1>5 DEF RemoteStart, RemoteStop, RemoteHealth, ServerChanges, dockerVars
  <2>2. \E r \in Reports : known' = known \/ known' = [known EXCEPT ![n] = r]
    BY <1>2, <1>5 DEF RemoteStart, RemoteStop, RemoteHealth, ServerChanges, dockerVars, Probe
  <2> QED
    BY <1>1, <2>1, <2>2 DEF BoxesType
<1> QED
  BY <1>3, <1>4, <1>5 DEF Docker, Remote

LEMMA TypeStarts == FleetInit => TInv
<1> SUFFICES ASSUME FleetInit PROVE TInv
  OBVIOUS
<1>1. MaxBirths \in Nat /\ MaxBoxes \in Nat
  BY ProcessAssumption, ContainerAssumption
<1>2. ProcType /\ HeldType /\ MineType
  BY <1>1 DEF FleetInit, Init, ProcessInit, ProcType, HeldType, MineType
<1>3. BoxesType
  BY <1>1 DEF FleetInit, ContainerInit, BoxesType, Reports
<1>4. backend \in BackendTypes
  BY BackendAssumption DEF FleetInit, CreateBackend, DetectBackend, BackendTypes
<1> QED
  BY <1>2, <1>3, <1>4 DEF TInv

LEMMA TypeStep ==
  ASSUME FInv, TInv, [FleetNext]_<<vars, containerVars, backend>>
  PROVE  TInv'
<1>1. UNCHANGED vars => (ProcType /\ HeldType /\ MineType)'
  BY DEF vars, processVars, TInv, ProcType, HeldType, MineType
<1>2. UNCHANGED containerVars => BoxesType'
  BY DEF containerVars, dockerVars, TInv, BoxesType
<1>3. backend' \in BackendTypes
  BY DEF TInv, FleetNext
<1>4. CASE Next /\ UNCHANGED containerVars
  BY <1>2, <1>3, <1>4, ProcessAssumption, SetupType DEF FInv, TInv
<1>5. CASE (Docker \/ Remote) /\ UNCHANGED vars
  BY <1>1, <1>3, <1>5, ContainerAssumption, ReportType DEF FInv, CInv, TInv
<1>6. CASE UNCHANGED <<vars, containerVars, backend>>
  BY <1>1, <1>2, <1>3, <1>6 DEF TInv
<1> QED
  BY <1>4, <1>5, <1>6 DEF FleetNext

(* Every variable of the service on its three backends, of the setup engine *)
(* and of the files they share has its type.                                *)
THEOREM BackendsTypeCorrect == FleetSpec => []FleetTypeOK
<1>1. FleetSpec => []TInv
  <2>1. FleetInit => TInv
    BY TypeStarts
  <2>2. FInv /\ TInv /\ [FleetNext]_<<vars, containerVars, backend>> => TInv'
    BY TypeStep
  <2> QED
    BY <2>1, <2>2, BackendsInvariant, PTL DEF FleetSpec
<1>2. FInv /\ TInv /\ EInv => FleetTypeOK
  <2> SUFFICES ASSUME FInv, TInv, EInv PROVE FleetTypeOK
    OBVIOUS
  <2>1. ProcessTypeOK
    BY DEF ProcessTypeOK, FInv, PInv, RecordOwn, Old, TInv, ProcType, HeldType, Starters
  <2>2. eng.pc \in {"idle", "planned", "steps", "replacing", "waiting", "undo", "unlink", "restore"}
    BY DEF EInv, EngineOK, Engines, UnderWay
  <2>5. /\ \A c \in {config, temp} \cup {edit[w].copy : w \in Editors} :
             c \in Configs \cup {Nothing} /\ (c # Nothing => c.dir <= dir)
        /\ \A w \in Editors :
             /\ edit[w].pc \in {"none", "saved", "copied", "written"} /\ edit[w].new \in Tags
             /\ edit[w].pc = "copied" <=> edit[w].copy # Nothing
             /\ w = "apply" /\ edit[w] # NoEdit => At("install_runtime")
    BY DEF EInv, FilesOK, EditsOK, EditType, Edits, OwnEdit
  <2>6. {torn, lost} \subseteq BOOLEAN
    BY DEF EInv, BitsOK
  <2>3. TypeOK
    BY <2>1, <2>2, <2>5, <2>6 DEF TypeOK, TInv, MineType, EInv, EngineOK, FilesOK, BitsOK, Approved
  <2>4. ContainerTypeOK
    <3>1. kept \in [Names -> Nat] /\ \A n \in Names : kept[n] <= boxes /\ boxes \in Nat
      BY DEF FInv, CInv, BoxType
    <3>2. kept \in [Names -> 0 .. boxes]
      BY <3>1
    <3>3. \A n \in Names : box[n] # NoBox => box[n].id \in 1 .. boxes
      BY DEF FInv, CInv, BoxType, Boxes
    <3> QED
      BY <3>2, <3>3 DEF ContainerTypeOK, TInv, BoxesType
  <2> QED
    BY <2>3, <2>4 DEF FleetTypeOK, TInv
<1> QED
  BY <1>1, <1>2, BackendsInvariant, EngineInvariant, PTL
=============================================================================
