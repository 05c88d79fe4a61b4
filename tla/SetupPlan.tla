----------------------------- MODULE SetupPlan -----------------------------
(***************************************************************************)
(* What the setup engine decides before it changes anything (setup/        *)
(* engine.py: backend_candidates, recommendation, plan; cookbook/engine.py:*)
(* assess_catalog_model).  Pure: a machine, a models folder and a request  *)
(* go in, a plan or an error comes out.  Sizes are hundredths of a GiB,    *)
(* parameters are counted in billions.                                     *)
(***************************************************************************)
EXTENDS Integers, Sequences, FiniteSets

CONSTANTS
  Backends,  \* the platform's row of the runtime catalogue: for each backend
             \* supported, capability, minDriver (0: none) and offline
  Catalog,   \* the approved models: for each id size, kv, minVram, minRam, firstRun
  Releases,  \* the releases the runtime's project lists, newest first: tag, draft and verified,
             \* the assets it has a checksum of
  Pinned,    \* the assets the runtime catalogue wants for this platform
  Local      \* the other GGUF files there may be: for each id size, params, embed

ASSUME SetupAssumption ==
  /\ DOMAIN Catalog \cap DOMAIN Local = {}
  /\ "" \notin DOMAIN Backends \cup DOMAIN Catalog \cup DOMAIN Local

Unset == ""   \* what the code has where no backend or model was chosen
Larger(a, b) == IF a > b THEN a ELSE b

(* assess_catalog_model: the memory rules, on one backend. *)
VramNeed(m) == Larger(m.minVram, m.size + m.kv + 80)
RamNeed(m) == Larger(m.minRam, m.size + m.kv + 300)
Fit(m, hw, backend) ==
  IF backend \notin {"cpu", "existing"} /\ hw.vram > 0 /\ hw.vram >= VramNeed(m) THEN "full_gpu"
  ELSE IF hw.ram < RamNeed(m) THEN "incompatible"
  ELSE IF backend = "cpu" THEN "cpu" ELSE "partial_offload"
FitRank == [full_gpu |-> 3, partial_offload |-> 2, cpu |-> 1]

(* _assess_local_gguf: an installed file is given requirements of its own. *)
AsModel(id) ==
  LET f == Local[id]  kv == Larger(25, 5 * f.params)
  IN  [size |-> f.size, kv |-> kv, minVram |-> f.size + kv + 80, minRam |-> f.size + kv + 300]

(* backend_candidates, and state's recommended_backend. *)
Eligible(b, hw) ==
  /\ Backends[b].supported
  /\ b = "cpu" \/ Backends[b].capability \in hw.accelerators
  /\ Backends[b].minDriver <= hw.driver
PriorityOf(b) == CASE b = "cuda12" -> 0 [] b = "vulkan" -> 1 [] b = "cpu" -> 2 [] OTHER -> 9
OfflineRank(b) == IF (\E c \in DOMAIN Backends : Backends[c].offline) /\ ~Backends[b].offline THEN 1 ELSE 0
Ahead(b, c) == \/ OfflineRank(b) < OfflineRank(c)
               \/ /\ OfflineRank(b) = OfflineRank(c)
                  /\ PriorityOf(b) < PriorityOf(c)
BackendCandidates(hw) == {b \in DOMAIN Backends : Eligible(b, hw)}
RecommendedBackend(hw) ==
  IF BackendCandidates(hw) = {} THEN Unset
  ELSE CHOOSE b \in BackendCandidates(hw) : \A c \in BackendCandidates(hw) \ {b} : ~Ahead(c, b)

(* recommendation: the strongest installed model that fits, else the       *)
(* approved first-run one.                                                 *)
RecommendLocal(hw, b, folder) ==
  LET fits == {id \in folder \cap DOMAIN Local : ~Local[id].embed /\ Fit(AsModel(id), hw, b) # "incompatible"}
      Key(id) == <<FitRank[Fit(AsModel(id), hw, b)], Local[id].params, Local[id].size>>
      Stronger(x, y) == \E i \in 1..3 : Key(x)[i] > Key(y)[i] /\ \A j \in 1..(i - 1) : Key(x)[j] = Key(y)[j]
  IN  IF fits = {} THEN Unset ELSE CHOOSE id \in fits : \A o \in fits \ {id} : ~Stronger(o, id)
RecommendApproved(hw, b) ==
  LET fits == {id \in DOMAIN Catalog : Fit(Catalog[id], hw, b) # "incompatible"}
      First == IF \E id \in fits : Catalog[id].firstRun THEN {id \in fits : Catalog[id].firstRun} ELSE fits
      Rank(id) == FitRank[Fit(Catalog[id], hw, b)]
      Better(x, y) == \/ Rank(x) > Rank(y)
                      \/ /\ Rank(x) = Rank(y)
                         /\ Catalog[x].size < Catalog[y].size
  IN  IF fits = {} THEN Unset ELSE CHOOSE id \in First : \A o \in First \ {id} : ~Better(o, id)
Recommendation(hw, b, folder) ==
  LET local == RecommendLocal(hw, b, folder)
  IN  IF local # Unset THEN local ELSE RecommendApproved(hw, b)

-----------------------------------------------------------------------------
(* plan: request r of machine hw, whose models folder holds folder, where  *)
(* runtime says that a llama-server binary is there and served which model *)
(* answers on which port.                                                  *)

BackendOf(r, hw) == IF r.backend # Unset THEN r.backend ELSE RecommendedBackend(hw)
ModelOf(r, hw, folder) ==
  IF BackendOf(r, hw) = "existing" THEN Unset
  ELSE IF r.model # Unset THEN r.model
  ELSE Recommendation(hw, BackendOf(r, hw), folder)

(* A local model is looked up without hardware or backend: it is assessed  *)
(* for "cpu", whatever backend the plan is for.                            *)
PlannedFit(id, hw, b) ==
  IF id \in DOMAIN Catalog THEN Fit(Catalog[id], hw, b) ELSE Fit(AsModel(id), hw, "cpu")
SizeOf(id) == IF id = Unset THEN 0 ELSE IF id \in DOMAIN Catalog THEN Catalog[id].size ELSE Local[id].size
KvOf(id) == IF id \in DOMAIN Catalog THEN Catalog[id].kv ELSE 0

(* _require_available_memory *)
MemoryLow(id, hw) == id # Unset /\ hw.available < SizeOf(id) + KvOf(id) + 100

PlanError(r, hw, folder, served) ==
  LET b == BackendOf(r, hw)  m == ModelOf(r, hw, folder)
  IN  CASE b = Unset -> "platform_not_supported"
        [] b # "existing" /\ b \notin BackendCandidates(hw) -> "backend_unavailable"
        [] m # Unset /\ m \notin DOMAIN Catalog \cup folder -> "unknown_model"
        [] m # Unset /\ PlannedFit(m, hw, b) = "incompatible" -> "model_incompatible"
        [] m # Unset /\ <<r.port, m>> \notin served /\ MemoryLow(m, hw) -> "insufficient_available_memory"
        [] hw.disk < SizeOf(m) + 100 -> "insufficient_disk_space"
        [] OTHER -> "none"

PlanSteps(b, m, folder, runtime) ==
  LET Only(c, s) == IF c THEN <<s>> ELSE <<>>
  IN  Only(b # "existing" /\ ~runtime, "install_runtime")
      \o Only(m # Unset /\ m \notin folder, "download_model")
      \o <<"write_config">>
      \o Only(b # "existing", "start_runtime")
      \o <<"smoke_test">>

-----------------------------------------------------------------------------
(* _latest_runtime_release: the first release that is published and has     *)
(* every pinned asset with its checksum.                                    *)
Complete(release) == ~release.draft /\ Pinned # {} /\ Pinned \subseteq release.verified
NoTag == 0
LatestTag ==
  IF \E i \in DOMAIN Releases : Complete(Releases[i])
  THEN LET first == CHOOSE i \in DOMAIN Releases :
                      Complete(Releases[i]) /\ \A j \in 1 .. (i - 1) : ~Complete(Releases[j])
       IN  Releases[first].tag
  ELSE NoTag
=============================================================================
