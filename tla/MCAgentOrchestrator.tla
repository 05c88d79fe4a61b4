------------------------ MODULE MCAgentOrchestrator ------------------------
(* Instances of AgentOrchestrator for TLC. *)
EXTENDS AgentOrchestrator, TLC

CONSTANTS p1, p2, a, b, c, w1, w2

Two == {p1, p2}
Three == {a, b, c}
TwoWorkers == {w1, w2}
WorkersAlike == Permutations(TwoWorkers)

(* A plan of three tickets that wait for each other, an unsound one of the   *)
(* same name, and one that claims a ticket of the first.                     *)
SomeDrafts ==
  LET first == a :> [deps |-> {}, required |-> TRUE]
      chained == first @@ (b :> [deps |-> {a}, required |-> TRUE]) @@ (c :> [deps |-> {a, b}, required |-> FALSE])
  IN  {[plan |-> p1, sound |-> TRUE, tickets |-> chained],
       [plan |-> p1, sound |-> FALSE, tickets |-> chained],
       [plan |-> p2, sound |-> TRUE, tickets |-> a :> [deps |-> {}, required |-> FALSE]]}

-----------------------------------------------------------------------------
(* The packaged execution profiles (conf/execution/).                        *)
Execution == INSTANCE ExecutionPolicy

ModelClass(prefer, vram, context, reserved) ==
  [prefer |-> prefer, vram |-> vram, context |-> context, reserved |-> reserved, remote |-> FALSE]
Classes ==
  [small    |-> ModelClass(<<"coder7", "gemma">>, 8000, 8192, FALSE),
   balanced |-> ModelClass(<<"coder14">>, 14000, 32768, FALSE),
   moe      |-> ModelClass(<<"moe30", "mixtral">>, 24000, 32768, FALSE),
   planner  |-> ModelClass(<<"frontier", "moe30">>, 24000, 65536, TRUE)]
Lane(label, class, minimum, capabilities) ==
  [label |-> label, class |-> class, minimum |-> minimum, capabilities |-> capabilities]
Lanes ==
  <<Lane("deterministic_tool", "small", 0, {"tool"}),
    Lane("fast_local", "small", 72, {"chat", "classification", "coding"}),
    Lane("balanced_local", "balanced", 68, {"coding", "review", "chat"}),
    Lane("moe_reasoning", "moe", 75, {"coding", "research", "orchestration"}),
    Lane("planner_frontier", "planner", 70, {"orchestration", "coding"}),
    Lane("swarm", "planner", 70, {"orchestration", "coding"}),
    Lane("review_gate", "balanced", 60, {"review"}),
    Lane("human_review", "small", 0, {"review"})>>
Packaged == Execution!CatalogOf(Lanes, Classes, [enabled |-> TRUE, failOpen |-> "balanced_local"])

Ask == [task : Execution!TaskTypes, caller : {"main", "worker"}, length : {1, 61}, files : {0, 4}, multiStep : BOOLEAN,
        json : {FALSE}, allowSwarm : BOOLEAN, allowRemote : {FALSE}, vramCap : {Execution!NoCap, 14000}, minContext : {8192}]
Machines == [free : {8000, 24000}, loaded : SUBSET {"gemma", "coder14", "moe30"}]

(* The built-in provider decides for an offered lane, and with the packaged  *)
(* minimums its decision is the plan.                                       *)
ASSUME \A r \in Ask, inv \in Machines :
  LET eligible == Execution!Eligible(r, Packaged, inv)
  IN  eligible # {} =>
        LET d == Execution!Heuristic(r, Packaged.lanes, eligible)
        IN  /\ Execution!Offered(d.label, Packaged.lanes, eligible)
            /\ Packaged.lanes[Execution!ExecutionPlan(r, Packaged, inv).lane].label = d.label

(* When a larger lane asks for more confidence than there is, a hard coding  *)
(* task falls to the fast lane, and a review to the gate below its minimum.  *)
Cautious == [Packaged EXCEPT !.lanes[3].minimum = 90, !.lanes[4].minimum = 90, !.lanes[7].minimum = 90]
Task(task, length) == [task |-> task, caller |-> "main", length |-> length, files |-> 4, multiStep |-> FALSE, json |-> FALSE,
                       allowSwarm |-> FALSE, allowRemote |-> FALSE, vramCap |-> Execution!NoCap, minContext |-> 8192]
Machine == [free |-> 24000, loaded |-> {"gemma", "coder14", "mixtral"}]
ASSUME Execution!Complexity(Task("coding", 61)) >= Execution!High
ASSUME Cautious.lanes[Execution!ExecutionPlan(Task("coding", 61), Cautious, Machine).lane].label = "fast_local"
ASSUME LET d == [label |-> "balanced_local", confidence |-> 80, distribution |-> <<"balanced_local">>]
           p == Execution!BuildPlan(d, Task("review", 1), Cautious, Machine)
       IN  Cautious.lanes[p.lane].label = "review_gate" /\ p.confidence < Cautious.lanes[p.lane].minimum
=============================================================================
