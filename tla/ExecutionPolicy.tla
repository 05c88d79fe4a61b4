-------------------------- MODULE ExecutionPolicy --------------------------
(***************************************************************************)
(* What the dry-run execution planner answers (execution/filter.py,        *)
(* execution/policy.py): a lane for the task, or a person.  The catalogue, *)
(* the request, what is loaded and the decision of a provider go in; the   *)
(* gate stands between the decision and the plan, whoever decided.  Pure.  *)
(* Confidences and complexities are hundredths.                            *)
(***************************************************************************)
EXTENDS Integers, Sequences

RouteLabels == {"deterministic_tool", "fast_local", "balanced_local", "moe_reasoning",
                "planner_frontier", "swarm", "review_gate", "human_review"}
TaskTypes == {"chat", "coding", "review", "research", "orchestration", "classification"}

(* load_execution_catalog: what does not validate is left out, the rest     *)
(* keeps its order.                                                        *)
ValidLane(lane) == lane.label \in RouteLabels /\ lane.minimum \in 0..100
ValidClass(c) == c.vram >= 0
CatalogOf(lanes, classes, settings) ==
  [lanes |-> SelectSeq(lanes, ValidLane),
   classes |-> [n \in {m \in DOMAIN classes : ValidClass(classes[m])} |-> classes[n]],
   enabled |-> settings.enabled, failOpen |-> settings.failOpen]

-----------------------------------------------------------------------------
(* filter_lanes: request r, catalogue cat, and inventory inv with the free  *)
(* memory and the loaded models.                                           *)

NoCap == -1
Available(c, inv) == \E i \in DOMAIN c.prefer : c.prefer[i] \in inv.loaded
ClassServes(c, r, inv) ==
  /\ r.caller = "worker" => ~c.reserved
  /\ c.remote => r.allowRemote
  /\ c.vram <= inv.free /\ (r.vramCap # NoCap => c.vram <= r.vramCap)
  /\ r.minContext <= c.context
  /\ Available(c, inv)
LaneServes(lane, r, cat, inv) ==
  /\ lane.label = "swarm" => r.allowSwarm
  /\ lane.class \in DOMAIN cat.classes
  /\ r.task \in lane.capabilities
  /\ ClassServes(cat.classes[lane.class], r, inv)
Eligible(r, cat, inv) == {i \in DOMAIN cat.lanes : LaneServes(cat.lanes[i], r, cat, inv)}

FirstLoaded(c, inv, i) == c.prefer[i] \in inv.loaded /\ \A j \in 1..(i - 1) : c.prefer[j] \notin inv.loaded
SelectedModel(c, inv) == c.prefer[CHOOSE i \in DOMAIN c.prefer : FirstLoaded(c, inv, i)]

(* by_label: of the eligible lanes with a label the last one counts.        *)
LastWith(i, label, lanes, eligible) ==
  i \in eligible /\ lanes[i].label = label /\ \A j \in eligible : lanes[j].label = label => j <= i
Offered(label, lanes, eligible) == \E i \in eligible : LastWith(i, label, lanes, eligible)
LaneOf(label, lanes, eligible) == CHOOSE i \in eligible : LastWith(i, label, lanes, eligible)
Minimum(label, lanes, eligible) == lanes[LaneOf(label, lanes, eligible)].minimum

-----------------------------------------------------------------------------
(* The provider that is built in: HeuristicDecision.                        *)

(* score_complexity; length counts hundreds of characters.                  *)
Complexity(r) ==
  LET length == IF r.length > 60 THEN 40 ELSE IF r.length > 20 THEN 20 ELSE 0
      files  == IF r.files >= 4 THEN 30 ELSE IF r.files >= 1 THEN 10 ELSE 0
      task   == IF r.task \in {"orchestration", "research"} THEN 25 ELSE IF r.task = "coding" THEN 15 ELSE 0
      score  == 5 + length + files + (IF r.multiStep THEN 30 ELSE 0) + (IF r.json THEN 10 ELSE 0) + task
  IN  IF score > 100 THEN 100 ELSE score
High == 55
Bucket(score) == IF score >= High THEN "high" ELSE IF score >= 30 THEN "mid" ELSE "low"
ConfidenceOf == [low |-> 90, mid |-> 80, high |-> 86]

(* The order in which the labels are preferred for a task.                  *)
Order == [
  coding |-> [low  |-> <<"fast_local", "balanced_local", "review_gate", "human_review">>,
              mid  |-> <<"balanced_local", "moe_reasoning", "fast_local", "review_gate", "swarm", "human_review">>,
              high |-> <<"moe_reasoning", "balanced_local", "swarm", "planner_frontier", "review_gate",
                         "fast_local", "human_review">>],
  review |-> [low  |-> <<"review_gate", "balanced_local", "human_review">>,
              mid  |-> <<"review_gate", "balanced_local", "human_review">>,
              high |-> <<"review_gate", "balanced_local", "moe_reasoning", "human_review">>],
  orchestration |-> [low  |-> <<"balanced_local", "planner_frontier", "human_review">>,
                     mid  |-> <<"swarm", "planner_frontier", "moe_reasoning", "balanced_local", "human_review">>,
                     high |-> <<"swarm", "planner_frontier", "moe_reasoning", "balanced_local", "human_review">>],
  research |-> [low  |-> <<"balanced_local", "fast_local", "human_review">>,
                mid  |-> <<"moe_reasoning", "balanced_local", "human_review">>,
                high |-> <<"moe_reasoning", "planner_frontier", "balanced_local", "human_review">>],
  classification |-> [low  |-> <<"fast_local", "deterministic_tool", "human_review">>,
                      mid  |-> <<"fast_local", "balanced_local", "human_review">>,
                      high |-> <<"balanced_local", "fast_local", "human_review">>],
  chat |-> [low  |-> <<"fast_local", "balanced_local", "human_review", "review_gate">>,
            mid  |-> <<"balanced_local", "fast_local", "human_review">>,
            high |-> <<"moe_reasoning", "balanced_local", "planner_frontier", "human_review">>]]
OrderOf(r) == Order[r.task][Bucket(Complexity(r))]

(* Eligible labels in that order, and then any others as the lanes have them. *)
Rest(r, lanes, eligible) ==
  LET new == {i \in eligible : /\ \A k \in DOMAIN OrderOf(r) : OrderOf(r)[k] # lanes[i].label
                               /\ \A j \in eligible : lanes[j].label = lanes[i].label => i <= j}
      labels == [i \in DOMAIN lanes |-> IF i \in new THEN lanes[i].label ELSE ""]
  IN  SelectSeq(labels, LAMBDA l : l # "")
Distribution(r, lanes, eligible) ==
  SelectSeq(OrderOf(r), LAMBDA l : Offered(l, lanes, eligible)) \o Rest(r, lanes, eligible)
Heuristic(r, lanes, eligible) ==
  LET d == Distribution(r, lanes, eligible)
  IN  [label |-> Head(d), confidence |-> ConfidenceOf[Bucket(Complexity(r))], distribution |-> d]

-----------------------------------------------------------------------------
(* The gate. *)

NoLane == 0
NoDecision == [label |-> "", confidence |-> 0, distribution |-> <<>>]   \* the provider raised
HumanReview(reason) == [lane |-> NoLane, confidence |-> 0, escalated |-> TRUE, reason |-> reason]
FromLane(i, confidence, escalated, reason) ==
  [lane |-> i, confidence |-> confidence, escalated |-> escalated, reason |-> reason]

FailOpen(cat, eligible) ==
  IF Offered(cat.failOpen, cat.lanes, eligible)
  THEN FromLane(LaneOf(cat.failOpen, cat.lanes, eligible), 0, TRUE, "fail_open")
  ELSE HumanReview("fail_open_unavailable")

(* A hard coding task is not left to the fast lane, if a larger one can.     *)
Raised(label, r, lanes, eligible) ==
  IF r.task # "coding" \/ Complexity(r) < High \/ label # "fast_local" THEN label
  ELSE IF Offered("balanced_local", lanes, eligible) THEN "balanced_local"
  ELSE IF Offered("moe_reasoning", lanes, eligible) THEN "moe_reasoning" ELSE label

(* _meeting_confidence: the first label behind skip that can be given.       *)
Meets(j, d, skip, lanes, eligible) ==
  /\ Offered(d.distribution[j], lanes, eligible)
  /\ Minimum(d.distribution[j], lanes, eligible) <= d.confidence
  /\ \/ \A k \in DOMAIN d.distribution : d.distribution[k] # skip
     \/ \E k \in 1..(j - 1) : d.distribution[k] = skip
MeetsFirst(j, d, skip, lanes, eligible) ==
  Meets(j, d, skip, lanes, eligible) /\ \A k \in 1..(j - 1) : ~Meets(k, d, skip, lanes, eligible)

Gate(d, r, cat, eligible) ==
  LET label == Raised(d.label, r, cat.lanes, eligible)
      First(j) == MeetsFirst(j, d, label, cat.lanes, eligible)
      Plan(l, escalated) == FromLane(LaneOf(l, cat.lanes, eligible), d.confidence, escalated, "selected")
  IN  IF Minimum(label, cat.lanes, eligible) <= d.confidence THEN Plan(label, label # d.label)
      ELSE IF \E j \in DOMAIN d.distribution : First(j)
      THEN Plan(d.distribution[CHOOSE j \in DOMAIN d.distribution : First(j)], TRUE)
      ELSE IF Offered("review_gate", cat.lanes, eligible) THEN Plan("review_gate", TRUE)
      ELSE HumanReview("confidence_below_minimum")

(* build_plan on decision d, and /execution/plan on the built-in provider.  *)
BuildPlan(d, r, cat, inv) ==
  LET eligible == Eligible(r, cat, inv)
  IN  IF eligible = {} THEN HumanReview("no_eligible_lane")
      ELSE IF d = NoDecision \/ ~Offered(d.label, cat.lanes, eligible) THEN FailOpen(cat, eligible)
      ELSE Gate(d, r, cat, eligible)
ExecutionPlan(r, cat, inv) ==
  LET eligible == Eligible(r, cat, inv)
  IN  IF ~cat.enabled THEN HumanReview("execution_disabled")
      ELSE BuildPlan(IF eligible = {} THEN NoDecision ELSE Heuristic(r, cat.lanes, eligible), r, cat, inv)
=============================================================================
