--------------------------- MODULE RoutingCatalog ---------------------------
(***************************************************************************)
(* The pure part of routing: what a chat body asks for, which slots and    *)
(* upstream models may serve it, and in which order they are tried         *)
(* (routing/aliases.py, routing/catalog.py).                               *)
(*                                                                         *)
(* Names compare as text in the code; here an id is a natural number, its  *)
(* place in that order.  Hints and weights are percentages, so a score is  *)
(* the code's times 10 000, exact but for the truncated context quotient.  *)
(***************************************************************************)
EXTENDS Integers, Sequences, FiniteSets, SequencesExt

CONSTANTS
  NoSlot,     \* None, for a slot
  Unset       \* a key that is absent, or None

Strategies == {"balanced_local", "fastest", "quality", "economy"}

-----------------------------------------------------------------------------
(* Aliases and roles. *)

AliasRole ==
  [m \in {"chat", "default", "deep", "long_context"} |-> "chat"]
    @@ [m \in {"fast", "utility", "util", "fast_utility", "coder", "code", "coding"} |-> "utility"]
    @@ [m \in {"embedding", "embeddings", "embed"} |-> "embed"]
    @@ ("scribe" :> "scribe")

AutoUtilityTasks ==
  {"background_worker", "coding", "debugging", "planning", "private_data_processing",
   "research", "sub_agent_task", "tool_calling", "classification", "summarization_short",
   "json"}

(* Unset when the name is no alias. *)
AliasFor(model, task) ==
  IF model \in {Unset, "auto"}
  THEN CASE task \in {"embedding", "embeddings"} -> "embed"
         [] task \in AutoUtilityTasks -> "utility"
         [] OTHER -> "chat"
  ELSE IF model \in DOMAIN AliasRole THEN AliasRole[model] ELSE Unset

RoleFromTask(task) ==
  CASE task = "embedding" -> "embed"
    [] task \in AutoUtilityTasks \ {"classification", "summarization_short", "json"} -> "utility"
    [] task = "documentation" -> "scribe"
    [] OTHER -> "chat"

(* _pick: the routing section wins over the body, the body over metadata.    *)
Picked(body, key, default) ==
  CASE key \in DOMAIN body.routing -> body.routing[key]
    [] key \notin DOMAIN body.routing /\ key \in DOMAIN body.top -> body.top[key]
    [] key \notin DOMAIN body.routing \cup DOMAIN body.top /\ key \in DOMAIN body.metadata
         -> body.metadata[key]
    [] OTHER -> default

RoleOf(body) ==
  LET explicit == Picked(body, "role", Unset)
      task == Picked(body, "task_type", "chat")
      alias == AliasFor(body.model, task)
  IN  CASE explicit # Unset -> explicit
        [] explicit = Unset /\ alias # Unset -> alias
        [] OTHER -> RoleFromTask(task)

(* What a request needs; mode is what the body itself shows (tools, images,  *)
(* a JSON response format), which explicit flags override.                   *)
Needs(body) ==
  [role |-> RoleOf(body),
   tools |-> Picked(body, "requires_tools", body.shows.tools),
   vision |-> Picked(body, "requires_vision", body.shows.vision),
   json |-> Picked(body, "requires_json_mode", body.shows.json),
   ctx |-> LET tokens == Picked(body, "estimated_tokens", 0)
               long == IF Picked(body, "requires_long_context", FALSE) THEN 32768 ELSE 0
           IN  IF tokens > long THEN tokens ELSE long,
   localOnly |-> Picked(body, "local_only", FALSE)
                   \/ Picked(body, "privacy_mode", "unknown") = "local_only",
   strategy |-> LET s == Picked(body, "routing_strategy", "balanced_local")
                IN  IF s \in Strategies THEN s ELSE "balanced_local",
   preferred |-> Picked(body, "preferred_slot", NoSlot)]

-----------------------------------------------------------------------------
(* Candidates. *)

RoleQuality(role) ==
  CASE role = "chat" -> 75 [] role = "utility" -> 55 [] role = "scribe" -> 65
    [] role = "embed" -> 35 [] OTHER -> 50

RoleLatency(role) ==
  CASE role = "utility" -> 80 [] role = "embed" -> 60 [] role = "scribe" -> 140
    [] OTHER -> 180

OrElse(v, default) == IF v = Unset THEN default ELSE v

(* apply_evaluation_hints: a model that was evaluated has measured hints.    *)
Hinted(config) ==
  IF config.evaluated = Unset THEN config
  ELSE [config EXCEPT !.quality = config.evaluated.quality,
                      !.latency = config.evaluated.latency,
                      !.cost = config.evaluated.cost]

SlotCandidate(s, config, health) ==
  LET c == Hinted(config)
  IN  [id |-> s, source |-> "local", role |-> c.role, slot |-> s, ctx |-> c.ctx,
       tools |-> OrElse(c.tools, c.role \in {"chat", "utility", "scribe"}),
       vision |-> c.vision,
       json |-> OrElse(c.json, c.role # "embed"),
       health |-> health,
       latency |-> OrElse(c.latency, RoleLatency(c.role)),
       quality |-> OrElse(c.quality, RoleQuality(c.role)),
       cost |-> OrElse(c.cost, CASE c.cpu -> 25
                                 [] ~c.cpu /\ c.role \in {"utility", "embed"} -> 60
                                 [] OTHER -> 100)]

(* Only an upstream that serves inference and lists its models has any.      *)
UpstreamCandidate(id, config) ==
  [id |-> id, source |-> "upstream", role |-> "chat", slot |-> NoSlot, ctx |-> 0,
   tools |-> config.tools, vision |-> config.vision, json |-> config.json,
   health |-> "unknown", latency |-> Unset, quality |-> RoleQuality("chat"), cost |-> 25]

(* _candidate_rejections: the hard requirements. *)
Rejected(c, needs) ==
  \/ needs.localOnly /\ c.source # "local"
  \/ c.health \in {"unhealthy", "disabled"}
  \/ needs.tools /\ ~c.tools
  \/ needs.vision /\ ~c.vision
  \/ needs.json /\ ~c.json
  \/ needs.ctx > 0 /\ c.ctx > 0 /\ c.ctx < needs.ctx

-----------------------------------------------------------------------------
(* Scores. *)

Percent(n) == IF n < 0 THEN 0 ELSE IF n > 100 THEN 100 ELSE n

Preferred(c, needs) == c.slot # NoSlot /\ c.slot = needs.preferred

RoleScore(c, needs) ==
  CASE Preferred(c, needs) -> 125
    [] ~Preferred(c, needs) /\ c.role = needs.role -> 100
    [] ~Preferred(c, needs) /\ c.role # needs.role /\ needs.tools /\ c.tools /\ c.role = "utility"
         -> 90
    [] OTHER -> IF c.role = "chat" THEN 65 ELSE 45

HealthScore(health) ==
  CASE health = "healthy" -> 100 [] health = "unknown" -> 55 [] OTHER -> 0

LatencyScore(c) == IF c.latency = Unset THEN 50 ELSE Percent(100 - (c.latency \div 10))

ContextScore(c, needs) ==
  CASE c.ctx = 0 -> 50
    [] c.ctx > 0 /\ needs.ctx > 0 -> Percent((100 * c.ctx) \div needs.ctx)
    [] OTHER -> Percent((100 * c.ctx) \div 65536)

LocalScore(c) == IF c.source = "local" THEN 100 ELSE 0

Score(c, needs) ==
  LET role == RoleScore(c, needs)
      health == HealthScore(c.health)
      context == ContextScore(c, needs)
      latency == LatencyScore(c)
      local == LocalScore(c)
  IN  CASE needs.strategy = "fastest" ->
             40 * latency + 25 * role + 15 * health + 10 * context + 10 * local
        [] needs.strategy = "quality" ->
             40 * c.quality + 20 * context + 20 * role + 10 * health + 10 * local
        [] needs.strategy = "economy" ->
             35 * (100 - c.cost) + 25 * local + 15 * role + 15 * latency + 10 * health
        [] OTHER ->
             25 * local + 35 * role + 20 * health + 5 * context + 5 * c.quality + 10 * latency

(* The sort key of rank_candidates: score, then latency, then name.          *)
Outranks(c, d, needs) ==
  LET sc == Score(c, needs)
      sd == Score(d, needs)
      lc == OrElse(c.latency, 999999)
      ld == OrElse(d.latency, 999999)
  IN  sc > sd \/ (sc = sd /\ (lc < ld \/ (lc = ld /\ c.id < d.id)))

(* rank_candidates: those that are not rejected, each once, the best first. *)
Rankings(candidates, needs) ==
  LET admitted == {c \in candidates : ~Rejected(c, needs)}
  IN  {s \in [1 .. Cardinality(admitted) -> admitted] :
         IsInjective(s) /\ \A i, j \in DOMAIN s : i < j => Outranks(s[i], s[j], needs)}
=============================================================================
