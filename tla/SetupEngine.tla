---------------------------- MODULE SetupEngine ----------------------------
(***************************************************************************)
(* The setup engine of a running service (setup/engine.py): apply carries  *)
(* out a plan under a lock, one step after the other, on files that the    *)
(* models folder page, the command line and the service's own backend use  *)
(* at the same time, without that lock.  A failing step undoes the start   *)
(* and the configuration, never the runtime or the model; the service may  *)
(* die between any two steps.  The command line's own apply, in a second   *)
(* process with a lock of its own, is not modelled.                        *)
(***************************************************************************)
EXTENDS ModelProcesses, SetupPlan

CONSTANTS
  Machines,    \* what a hardware scan may find, from one scan to the next
  Requests,    \* bodies of /setup/apply: backend, model, port, channel
  Installed,   \* what there may be at first: configuration or Nothing, manifest, models
  MaxTurns     \* bound: how often apply runs or the folder or the runtime is edited, in all

VARIABLES
  eng,        \* the apply under way, and what it leaves: see NoApply
  mine,       \* the process of the engine's private backend, or Nothing
  config,     \* the configuration file: its slot, runtime and models folder, or Nothing
  temp,       \* the temporary file all of them write before it replaces the configuration
  edit,       \* the edits under way, by who makes them: see NoEdit
  manifest,   \* installation-manifest.json: runtime and previous_runtime
  folder,     \* the models on disk
  partial,    \* the .part file of each approved model: none, some of it, or whole but unverified
  dir,        \* how often the models folder was changed (it names the folder)
  cancel,     \* the _cancel event
  saved,      \* repair-plan.json, or Nothing
  cli,        \* "idle", or "unlinking": a command-line stop ended its process
  committed,  \* ghost: the slot that the last apply that succeeded asked for
  torn,       \* ghost: an apply was cut short or an edit lost its update since: see ConfigCommitted
  lost,       \* ghost: an edit lost the update of the apply under way
  turns

files == <<config, temp, edit, manifest, folder, partial, dir, saved>>
ghosts == <<committed, torn, lost, turns>>
vars == <<processVars, eng, mine, files, cancel, cli, ghosts>>

(* the slot part of the configuration, with the runtime and the models folder *)
Approved == DOMAIN Catalog
ModelIds == Approved \cup DOMAIN Local
Tags == Nat \cup {Nothing}
Configs == [backend : DOMAIN Backends \cup {"existing"}, model : ModelIds \cup {Unset},
            port : Ports, runtime : Tags, dir : Nat]
(* a request as the plan has filled it in *)
Plans == [backend : DOMAIN Backends \cup {"existing"}, model : ModelIds \cup {Unset},
          port : Ports, channel : Nat]

ASSUME EngineAssumption ==
  /\ Ports # {} /\ \A r \in Requests : r.port \in Ports /\ r.channel \in Nat
  /\ \A i \in Installed : /\ i.config # Nothing => i.config \in Configs /\ i.config.dir = 0
                         /\ i.manifest \in [runtime : Tags, previous : Tags]
                         /\ i.models \subseteq ModelIds
  /\ Nothing \notin Configs
  /\ Releases \in Seq([tag : Nat, draft : BOOLEAN, verified : SUBSET STRING])
  /\ MaxTurns \in Nat

NoApply == [pc |-> "idle", todo |-> <<>>, req |-> Nothing, original |-> Nothing,
            written |-> FALSE, started |-> FALSE]
Editors == {"apply", "folder", "runtime"}
NoEdit == [pc |-> "none", new |-> Nothing, copy |-> Nothing]
SlotPart(c) == IF c = Nothing THEN Nothing ELSE [backend |-> c.backend, model |-> c.model, port |-> c.port]
RuntimeThere == manifest.runtime # Nothing
Served == {server \in Ports \X Models : Serves(server[1], server[2])}

-----------------------------------------------------------------------------
(* apply: the plan is made from what is there now; then the cancel event is *)
(* cleared, and with it a cancellation that came while the plan was made.   *)

Planned(r, hw) ==
  LET b == BackendOf(r, hw)  m == ModelOf(r, hw, folder)
  IN  [backend |-> b, model |-> m, port |-> r.port, channel |-> r.channel]

Apply(r, hw) ==
  /\ eng.pc = "idle" /\ turns < MaxTurns
  /\ PlanError(r, hw, folder, Served) = "none"
  /\ LET q == Planned(r, hw)
     IN  eng' = [NoApply EXCEPT !.pc = "planned", !.req = q,
                                !.todo = PlanSteps(q.backend, q.model, folder, RuntimeThere)]
  /\ turns' = turns + 1
  /\ UNCHANGED <<processVars, mine, files, cancel, cli, committed, torn, lost>>

(* repair applies the saved plan again, or what the files still tell.      *)
RepairRequest ==
  IF saved # Nothing THEN saved
  ELSE [backend |-> Unset, channel |-> 1,
        model |-> IF config = Nothing THEN Unset ELSE IF config.model = Unset THEN "local" ELSE config.model,
        port |-> IF config = Nothing THEN CHOOSE p \in Ports : TRUE ELSE config.port]
Repair(hw) == ModelOf(RepairRequest, hw, folder) # Unset /\ Apply(RepairRequest, hw)

ApplyEnters ==
  /\ eng.pc = "planned"
  /\ cancel' = FALSE
  /\ eng' = [eng EXCEPT !.pc = "steps", !.original = config]
  /\ UNCHANGED <<processVars, mine, files, cli, ghosts>>

At(step) == eng.pc = "steps" /\ eng.todo # <<>> /\ Head(eng.todo) = step
Done == [eng EXCEPT !.todo = Tail(@)]
Failing == [eng EXCEPT !.pc = "undo"]

(* install_runtime selects a runtime, as imperium update does below: the   *)
(* manifest first, whose edits cannot overlap, as an apply installs only    *)
(* where there is no runtime; then the configuration.  A cancellation is   *)
(* seen while chunks are downloaded: not with an archive that was fetched  *)
(* before, nor an offline pack.                                            *)
AssetSource(fetched, packed) == IF fetched THEN "cache" ELSE IF packed THEN "pack" ELSE "network"
ManifestSaved(w, new, old) ==
  /\ edit[w] = NoEdit
  /\ manifest' = [runtime |-> new, previous |-> old]
  /\ edit' = [edit EXCEPT ![w] = [pc |-> "saved", new |-> new, copy |-> Nothing]]
InstallRuntime ==
  /\ At("install_runtime")
  /\ cancel => AssetSource(manifest.previous = eng.req.channel, Backends[eng.req.backend].offline) # "network"
  /\ ManifestSaved("apply", eng.req.channel, manifest.runtime)
  /\ UNCHANGED <<processVars, eng, mine, config, temp, folder, partial, dir, saved, cancel, cli, ghosts>>

(* download_model resumes behind what it has; a server has nothing to send  *)
(* behind the last byte, so a partial file that is whole only ever fails.  *)
PartOf == partial[eng.req.model]
DownloadModel ==
  /\ At("download_model") /\ ~cancel /\ PartOf # "whole"
  /\ folder' = folder \cup {eng.req.model}
  /\ partial' = [partial EXCEPT ![eng.req.model] = "none"]
  /\ eng' = Done
  /\ UNCHANGED <<processVars, mine, config, temp, edit, manifest, dir, saved, cancel, cli, ghosts>>

(* A cancellation or the network ends it between two chunks, or after the   *)
(* last one; a checksum that does not match deletes the partial file.      *)
PartialAfter == {[partial EXCEPT ![eng.req.model] = part] :
                   part \in IF PartOf = "whole" THEN {"whole"} ELSE {"none", "some", "whole"}}
DownloadStops ==
  /\ At("download_model")
  /\ eng' = Failing
  /\ partial' \in PartialAfter
  /\ UNCHANGED <<processVars, mine, config, temp, edit, manifest, folder, dir, saved, cancel, cli, ghosts>>

(* write_config, and the models preset with it: what is replaced is the    *)
(* configuration, by whatever the temporary file holds at that moment.     *)
WriteConfig ==
  /\ At("write_config")
  /\ eng.req.backend # "existing" => RuntimeThere
  /\ eng.req.model # Unset => eng.req.model \in folder
  /\ temp' = [backend |-> eng.req.backend, model |-> eng.req.model, port |-> eng.req.port,
              runtime |-> manifest.runtime, dir |-> dir]
  /\ eng' = [eng EXCEPT !.pc = "replacing"]
  /\ UNCHANGED <<processVars, mine, config, edit, manifest, folder, partial, dir, saved, cancel, cli, ghosts>>
ConfigWritten ==
  /\ eng.pc = "replacing" /\ temp # Nothing
  /\ config' = temp /\ temp' = Nothing
  /\ eng' = [Done EXCEPT !.pc = "steps", !.written = TRUE]
  /\ lost' = (SlotPart(temp) # SlotPart(eng.req))
  /\ UNCHANGED <<processVars, mine, edit, manifest, folder, partial, dir, saved, cancel, cli,
                 committed, torn, turns>>

(* start_runtime, on the configuration as it reads now.  On an open port   *)
(* the server must be the recorded one, with the model.                    *)
OwnServer ==
  /\ record # Nothing /\ record.port = config.port /\ SameProcess(record)
  /\ Serves(config.port, config.model)
AlreadyRunning ==
  /\ At("start_runtime") /\ RuntimeThere /\ config.model \in folder
  /\ PortOpen(config.port) /\ OwnServer
  /\ eng' = Done
  /\ UNCHANGED <<processVars, mine, files, cancel, cli, ghosts>>
StartRuntime(p, hw) ==
  /\ At("start_runtime") /\ RuntimeThere /\ config.model \in folder
  /\ ~PortOpen(config.port) /\ ~MemoryLow(eng.req.model, hw)
  /\ Spawned(p, Setup, config.port, config.model)
  /\ mine' = NewHandle(p)
  /\ eng' = [eng EXCEPT !.pc = "waiting"]
  /\ UNCHANGED <<record, held, doing, ended, files, cancel, cli, ghosts>>
StartHealthy ==
  /\ eng.pc = "waiting" /\ PortOpen(config.port) /\ Alive(mine)
  /\ record' = RecordFor(mine, Nothing, config.port, config.model)
  /\ eng' = [Done EXCEPT !.pc = "steps", !.started = TRUE]
  /\ UNCHANGED <<host, held, doing, ended, mine, files, cancel, cli, ghosts>>

(* The process exited, or the timeout passed and stop_slot ends it.        *)
StartFails ==
  /\ eng.pc = "waiting" /\ eng' = Failing
  /\ IF Alive(mine) THEN Terminated(mine.pid, Setup) /\ mine' = Nothing
                    ELSE UNCHANGED <<host, ended, mine>>
  /\ UNCHANGED <<record, held, doing, files, cancel, cli, ghosts>>

(* smoke: somebody answers on the configured port with the configured      *)
(* model; an existing server may serve any.                                *)
SmokePasses ==
  /\ config # Nothing
  /\ IF config.backend = "existing" THEN PortOpen(config.port)
     ELSE RuntimeThere /\ Serves(config.port, config.model)
Succeeds ==
  /\ At("smoke_test") /\ SmokePasses
  /\ eng' = NoApply
  /\ saved' = IF eng.req.backend = "existing" \/ eng.req.model = Unset THEN saved ELSE eng.req
  /\ committed' = SlotPart(eng.req) /\ torn' = lost
  /\ UNCHANGED <<processVars, mine, config, temp, edit, manifest, folder, partial, dir, cancel, cli,
                 lost, turns>>

(* Any other step may raise, at any point: the temporary file may be gone. *)
StepFails ==
  /\ eng.pc \in {"steps", "replacing"} /\ ~At("download_model") /\ eng' = Failing
  /\ edit' = [edit EXCEPT !["apply"] = NoEdit]
  /\ UNCHANGED <<processVars, mine, config, temp, manifest, folder, partial, dir, saved, cancel, cli, ghosts>>

-----------------------------------------------------------------------------
(* stop_managed: without a record there is nothing to stop; the private    *)
(* backend's process goes first, else the recorded one, if it still is     *)
(* that one.  The record is unlinked afterwards, whatever it says by then. *)
MayStop == record # Nothing /\ (Alive(mine) \/ SameProcess(record) \/ proc[record.pid] = Nothing)
StoppedFor(own) ==
  IF own /\ Alive(mine) THEN Terminated(mine.pid, Setup)
  ELSE IF SameProcess(record) THEN Terminated(record.pid, Setup)
  ELSE UNCHANGED <<host, ended>>

UndoStart ==
  /\ eng.pc = "undo"
  /\ IF eng.started /\ MayStop
     THEN /\ StoppedFor(TRUE)
          /\ mine' = IF Alive(mine) THEN Nothing ELSE mine
          /\ eng' = [eng EXCEPT !.pc = "unlink"]
     ELSE eng' = [eng EXCEPT !.pc = "restore"] /\ UNCHANGED <<host, ended, mine>>
  /\ UNCHANGED <<record, held, doing, files, cancel, cli, ghosts>>
UndoUnlinks ==
  /\ eng.pc = "unlink"
  /\ record' = Nothing
  /\ eng' = [eng EXCEPT !.pc = "restore"]
  /\ UNCHANGED <<host, held, doing, ended, mine, files, cancel, cli, ghosts>>

\* mutated: the configuration is restored only with what was started
RestoredIfStarted == IF eng.started /\ eng.written THEN eng.original ELSE config
Restored == IF eng.written THEN eng.original ELSE config
UndoConfig ==
  /\ eng.pc = "restore"
  /\ config' = Restored
  /\ eng' = NoApply
  /\ UNCHANGED <<processVars, mine, temp, edit, manifest, folder, partial, dir, saved, cancel, cli, ghosts>>

-----------------------------------------------------------------------------
(* Meanwhile: the cancel button, imperium setup --stop-runtime, the models *)
(* folder page, imperium update and imperium rollback.                     *)

Cancel ==
  /\ ~cancel /\ cancel' = TRUE
  /\ UNCHANGED <<processVars, eng, mine, files, cli, ghosts>>

(* An edit begins: the page has the folder and its settings saved, update   *)
(* and rollback have the manifest.                                         *)
MayEdit == turns < MaxTurns /\ turns' = turns + 1
SetModelsDir ==
  /\ MayEdit /\ edit["folder"] = NoEdit
  /\ dir' = dir + 1 /\ folder' \in SUBSET folder
  /\ edit' = [edit EXCEPT !["folder"] = [NoEdit EXCEPT !.pc = "saved"]]
  /\ UNCHANGED <<processVars, eng, mine, config, temp, manifest, partial, saved, cancel, cli,
                 committed, torn, lost>>

Selects(new, old) ==
  /\ MayEdit /\ ManifestSaved("runtime", new, old)
  /\ UNCHANGED <<processVars, eng, mine, config, temp, folder, partial, dir, saved, cancel, cli,
                 committed, torn, lost>>
UpdateAvailable == RuntimeThere /\ LatestTag \notin {NoTag, manifest.runtime}
Update == UpdateAvailable /\ Selects(LatestTag, manifest.runtime)
Rollback == manifest.previous # Nothing /\ Selects(manifest.previous, manifest.runtime)

(* Then either kind of edit reads the configuration, if there is one,       *)
(* changes its part of the copy, writes that to the temporary file and     *)
(* replaces the configuration with the file.                               *)
Ends(w) == edit' = [edit EXCEPT ![w] = NoEdit] /\ eng' = IF w = "apply" THEN Done ELSE eng
ConfigRead(w) ==
  /\ edit[w].pc = "saved"
  /\ IF config = Nothing THEN Ends(w)
     ELSE edit' = [edit EXCEPT ![w] = [pc |-> "copied", new |-> @.new, copy |-> config]] /\ UNCHANGED eng
  /\ UNCHANGED <<processVars, mine, config, temp, manifest, folder, partial, dir, saved, cancel, cli, ghosts>>
ChangedCopy(w) == IF w = "folder" THEN [edit[w].copy EXCEPT !.dir = dir]
                                  ELSE [edit[w].copy EXCEPT !.runtime = edit[w].new]
CopyWritten(w) ==
  /\ edit[w].pc = "copied"
  /\ temp' = ChangedCopy(w)
  /\ edit' = [edit EXCEPT ![w] = [NoEdit EXCEPT !.pc = "written"]]
  /\ UNCHANGED <<processVars, eng, mine, config, manifest, folder, partial, dir, saved, cancel, cli, ghosts>>
ConfigReplaced(w) ==
  /\ edit[w].pc = "written" /\ temp # Nothing
  /\ config' = temp /\ temp' = Nothing
  /\ Ends(w)
  /\ LET stale == SlotPart(temp) # SlotPart(config)
     IN  lost' = (lost \/ stale) /\ torn' = (torn \/ (stale /\ ~eng.written))
  /\ UNCHANGED <<processVars, mine, manifest, folder, partial, dir, saved, cancel, cli,
                 committed, turns>>
EditFails(w) ==
  /\ w # "apply" /\ edit[w] # NoEdit
  /\ edit' = [edit EXCEPT ![w] = NoEdit]
  /\ UNCHANGED <<processVars, eng, mine, config, temp, manifest, folder, partial, dir, saved, cancel, cli, ghosts>>
EditGoesOn(w) == ConfigRead(w) \/ CopyWritten(w) \/ ConfigReplaced(w) \/ EditFails(w)

CliStops ==
  /\ cli = "idle" /\ record # Nothing /\ (SameProcess(record) \/ proc[record.pid] = Nothing)
  /\ StoppedFor(FALSE)
  /\ cli' = "unlinking"
  /\ UNCHANGED <<record, held, doing, eng, mine, files, cancel, ghosts>>
CliUnlinks ==
  /\ cli = "unlinking" /\ cli' = "idle"
  /\ record' = Nothing
  /\ UNCHANGED <<host, held, doing, ended, eng, mine, files, cancel, ghosts>>

(* The service dies and starts again: the backend adopts, the engine has   *)
(* forgotten its apply, its edit of the models folder and its process.     *)
Restart ==
  /\ ServiceRestarts
  /\ eng' = NoApply /\ mine' = Nothing /\ cancel' = FALSE
  /\ torn' = (torn \/ eng.written)
  /\ edit' = [edit EXCEPT !["apply"] = NoEdit, !["folder"] = NoEdit]
  /\ partial' \in IF At("download_model") THEN PartialAfter ELSE {partial}
  /\ UNCHANGED <<config, temp, manifest, folder, dir, saved, cli, committed, lost, turns>>

-----------------------------------------------------------------------------
Init ==
  /\ ProcessInit
  /\ eng = NoApply /\ mine = Nothing /\ cancel = FALSE /\ cli = "idle"
  /\ \E i \in Installed : config = i.config /\ manifest = i.manifest /\ folder = i.models
  /\ partial = [m \in DOMAIN Catalog |-> "none"]
  /\ dir = 0 /\ saved = Nothing /\ temp = Nothing /\ edit = [w \in Editors |-> NoEdit]
  /\ committed = SlotPart(config) /\ torn = FALSE /\ lost = FALSE /\ turns = 0

Others == UNCHANGED <<eng, mine, files, cancel, cli, ghosts>>
Next ==
  \/ (Machine \/ Backend) /\ Others
  \/ \E hw \in Machines : Repair(hw) \/ \E r \in Requests : Apply(r, hw)
  \/ ApplyEnters \/ InstallRuntime \/ DownloadModel \/ DownloadStops \/ WriteConfig \/ ConfigWritten
  \/ AlreadyRunning \/ \E p \in Pids, hw \in Machines : StartRuntime(p, hw)
  \/ StartHealthy \/ StartFails \/ Succeeds \/ StepFails
  \/ UndoStart \/ UndoUnlinks \/ UndoConfig
  \/ Cancel \/ SetModelsDir \/ Update \/ Rollback \/ \E w \in Editors : EditGoesOn(w)
  \/ CliStops \/ CliUnlinks \/ Restart

Spec == Init /\ [][Next]_vars

-----------------------------------------------------------------------------
TypeOK ==
  /\ ProcessTypeOK
  /\ eng.pc \in {"idle", "planned", "steps", "replacing", "waiting", "undo", "unlink", "restore"}
  /\ mine \in Handles \cup {Nothing}
  /\ folder \subseteq ModelIds /\ partial \in [DOMAIN Catalog -> {"none", "some", "whole"}]
  /\ \A c \in {config, temp} \cup {edit[w].copy : w \in Editors} :
       c \in Configs \cup {Nothing} /\ (c # Nothing => c.dir <= dir)
  /\ \A w \in Editors :
       /\ edit[w].pc \in {"none", "saved", "copied", "written"} /\ edit[w].new \in Tags
       /\ edit[w].pc = "copied" <=> edit[w].copy # Nothing
       /\ w = "apply" /\ edit[w] # NoEdit => At("install_runtime")
  /\ manifest \in [runtime : Tags, previous : Tags] /\ dir \in Nat
  /\ saved \in Plans \cup {Nothing} /\ (eng.pc # "idle" => eng.req \in Plans)
  /\ cancel \in BOOLEAN /\ cli \in {"idle", "unlinking"} /\ {torn, lost} \subseteq BOOLEAN
  /\ turns \in 0..MaxTurns

(* Setup is all or nothing for the configuration: whenever no apply is     *)
(* under way, the configured slot is the one that the last successful      *)
(* apply asked for, whatever failed, was cancelled or ran beside it since. *)
(* Two things leave another one, and the code does not prevent either: a   *)
(* service that died between write_config and the final check, and an edit *)
(* of the folder or the runtime, unlocked (engine.py:377-395, 971-986),    *)
(* that puts a file in place whose slot is not the one it replaces, since  *)
(* an apply has written or undone the configuration in between.  A third,  *)
(* an apply of the command line beside that of the service, is not modelled. *)
ConfigCommitted == eng.pc = "idle" /\ ~torn => SlotPart(config) = committed
=============================================================================
