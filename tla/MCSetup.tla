------------------------------ MODULE MCSetup ------------------------------
(* A service with one GPU slot and a setup engine on a machine of two pids *)
(* and one port, that they both want.                                      *)
EXTENDS ModelBackends, TLC

OneSlot == {"gpu"}
PortOfSlot == [s \in OneSlot |-> 1]
ModelOfSlot == [s \in OneSlot |-> "own"]
OnePort == {1}
TwoModels == {"qwen", "own"}
PlatformBackends == [
  cpu    |-> [supported |-> TRUE, capability |-> "cpu", minDriver |-> 0, offline |-> FALSE],
  vulkan |-> [supported |-> TRUE, capability |-> "vulkan", minDriver |-> 0, offline |-> FALSE]]
OneApproved == [qwen |-> [size |-> 171, kv |-> 37, minVram |-> 275, minRam |-> 600, firstRun |-> TRUE]]
OneLocal == [own |-> [size |-> 400, params |-> 7, embed |-> FALSE]]
Machine1 == [accelerators |-> {}, driver |-> 0, vram |-> 0, ram |-> 1600, available |-> 1200, disk |-> 9000]
TwoMachines == {Machine1, [Machine1 EXCEPT !.available = 200]}
TwoRequests == {
  [backend |-> "", model |-> "", port |-> 1, channel |-> 1],
  [backend |-> "existing", model |-> "", port |-> 1, channel |-> 1]}
Fresh == [config |-> Nothing, manifest |-> [runtime |-> Nothing, previous |-> Nothing], models |-> {}]
Updated == [config |-> [backend |-> "cpu", model |-> "own", port |-> 1, runtime |-> 2, dir |-> 0],
            manifest |-> [runtime |-> 2, previous |-> 1], models |-> {"own"}]
FreshOrUpdated == {Fresh, Updated}
AssetNames == {"server", "runtime"}
ThreeReleases == <<  \* newest first: not published yet, an asset without checksum, the one to take
  [tag |-> 4, draft |-> TRUE, verified |-> AssetNames],
  [tag |-> 3, draft |-> FALSE, verified |-> {"server"}],
  [tag |-> 2, draft |-> FALSE, verified |-> AssetNames]>>
OneConversation == {"talk"}
AllBackends == {"auto", "docker", "remote"}
PidSymmetry == Permutations(Pids)

(* The plan over many machines and folders: what is recommended is eligible *)
(* and fits; every plan writes the configuration after what it needs and   *)
(* before what needs it.                                                   *)
ManyMachines == [accelerators : {{}, {"vulkan"}}, driver : {0}, vram : {0, 300, 600},
                 ram : {200, 700, 1600}, available : {200, 400, 1200}, disk : {100, 9000}]
Plannable == {p \in ManyMachines \X SUBSET {"qwen", "own"} :
                PlanError([backend |-> "", model |-> "", port |-> 1], p[1], p[2], {}) = "none"}
ASSUME \A p \in Plannable :
  LET hw == p[1]  f == p[2]
      b == RecommendedBackend(hw)  m == Recommendation(hw, b, f)
      steps == PlanSteps(b, m, f, FALSE)
  IN  /\ b \in BackendCandidates(hw) /\ (b = "cpu" => BackendCandidates(hw) = {"cpu"})
      /\ m # Unset => SizeOf(m) + 100 <= hw.available /\ SizeOf(m) + 100 <= hw.disk
      /\ m = "qwen" => ~("own" \in f /\ Fit(AsModel("own"), hw, b) # "incompatible")
      /\ \A i, j \in DOMAIN steps : steps[i] = "write_config" =>
           (j < i <=> steps[j] \in {"install_runtime", "download_model"})
(* A recommended model may be refused all the same: an installed model that *)
(* fits the graphics memory only is assessed again for the processor.      *)
ASSUME \E hw \in ManyMachines : LET b == RecommendedBackend(hw) IN
  /\ Recommendation(hw, b, {"own"}) = "own"
  /\ PlanError([backend |-> "", model |-> "", port |-> 1], hw, {"own"}, {}) = "model_incompatible"
=============================================================================
