--------------------------- MODULE MCSlotRouting ---------------------------
(* Instances of SlotRouting for TLC. *)
EXTENDS SlotRouting

CONSTANTS t1, t2

TwoTasks == {t1, t2}
TwoSlots == 1 .. 2
OneUpstream == {9}

Plain == [role |-> "chat", ctx |-> 8192, tools |-> Unset, vision |-> FALSE, json |-> Unset,
          cpu |-> FALSE, quality |-> Unset, latency |-> Unset, cost |-> Unset,
          evaluated |-> Unset]

(* A slow chat model, a fast one, and a utility model that knows no tools;   *)
(* the chat models have been evaluated.                                      *)
Config ==
  [s \in 1 .. 3 |->
     CASE s = 1 -> [Plain EXCEPT !.evaluated = [quality |-> 50, latency |-> 900, cost |-> 100]]
       [] s = 2 -> [Plain EXCEPT !.ctx = 65536,
                      !.evaluated = [quality |-> 100, latency |-> 100, cost |-> 100]]
       [] OTHER -> [Plain EXCEPT !.role = "utility", !.tools = FALSE]]

Declared == [u \in OneUpstream |-> [tools |-> TRUE, vision |-> FALSE, json |-> TRUE]]

(* 8 is a name that no slot has. *)
RoleChains == [r \in {"chat", "utility", "embed", "scribe"} |->
                 IF r = "chat" THEN <<1, 2, 8>> ELSE <<2, 8, 1>>]

Nothing == [k \in {} |-> Unset]
Body == [model |-> "auto", target |-> NoSlot, routing |-> Nothing, top |-> Nothing, metadata |-> Nothing,
         shows |-> [tools |-> FALSE, vision |-> FALSE, json |-> FALSE]]

-----------------------------------------------------------------------------
(* The packaged rules, with a few keywords and patterns of each kind. *)
Class(id, cap, form, keywords) == [id |-> id, cap |-> cap, form |-> form, keywords |-> keywords]
Pattern(id, severity) == [id |-> id, severity |-> severity, regex |-> TRUE]

Packaged ==
  [tiers |-> <<[id |-> "local_uncensored", rank |-> 1], [id |-> "local_aligned", rank |-> 2],
               [id |-> "private_cloud", rank |-> 3], [id |-> "other_provider", rank |-> 4]>>,
   forms |-> <<[id |-> "skeleton_only"], [id |-> "requirements_only"], [id |-> "full"]>>,
   classes |-> <<Class(1, "other_provider", "skeleton_only", {"algorithm"}),
                 Class(2, "other_provider", "skeleton_only", {"parser", "stub"}),
                 Class(3, "private_cloud", "requirements_only", {"sdk"}),
                 Class(4, "private_cloud", "requirements_only", {"feature", "ui"}),
                 Class(5, "local_uncensored", "full", {"token"})>>,
   patterns |-> <<Pattern("bearer_token", "critical"), Pattern("gguf_model_file", "medium")>>,
   sections |-> [skeleton_only |-> {"requirements", "interface"}, full |-> {"requirements"}],
   defaultTier |-> "other_provider",
   defaultClass |-> 4]

Rules == Loaded(Packaged, {})
TierDeclared == [u \in OneUpstream |-> "private_cloud"]

Words == UNION {Packaged.classes[i].keywords : i \in DOMAIN Packaged.classes}
Says(words, patterns) == [words |-> words, patterns |-> patterns]

(* A feature for a harmless model; a private text; and one with more about   *)
(* stubs than about tokens.                                                  *)
Feature == Says({"ui", "parser"}, {"gguf_model_file"})
Security == Says({"parser", "stub", "token"}, {})
NoWords == Says({}, {"bearer_token"})

(* An ordinary request, a private one that is pinned, a private one that     *)
(* names the upstream, and three pinned to it.                               *)
SomeRequests ==
  {[pin |-> NoSlot, text |-> Feature, enforced |-> TRUE,
    body |-> [Body EXCEPT !.model = "coder", !.routing = "routing_strategy" :> "quality"]],
   [pin |-> 1, text |-> Feature, enforced |-> TRUE,
    body |-> [Body EXCEPT !.top = "local_only" :> TRUE, !.shows.vision = TRUE]],
   [pin |-> NoSlot, text |-> Feature, enforced |-> FALSE,
    body |-> [Body EXCEPT !.target = 9, !.metadata = "privacy_mode" :> "local_only"]]}
  \cup [pin : {9}, text : {Security, NoWords}, enforced : {TRUE}, body : {Body}]
  \cup {[pin |-> 9, text |-> Security, enforced |-> FALSE, body |-> Body]}

-----------------------------------------------------------------------------
(* The rules over every text of these keywords: a class is found that no     *)
(* other matching class is stricter than.                                    *)
ASSUME Valid(Packaged)
ASSUME \A words \in SUBSET Words : LET class == Classify(Rules, words, NoClass) IN
  IF Matching(Rules, words) = {} THEN class = Packaged.defaultClass
  ELSE CapRank(Rules, class) = Min({CapRank(Rules, c) : c \in Matching(Rules, words)})

(* The default class is not the strictest: one keyword more may let a text   *)
(* go further, but only from a text without any.                             *)
Cap(words) == CapRank(Rules, Classify(Rules, words, NoClass))
ASSUME Cap({}) < Cap({"parser"})
ASSUME \A words \in SUBSET Words \ {{}} : \A w \in Words : Cap(words \cup {w}) <= Cap(words)

(* An override that is not valid leaves the packaged rules; a valid one may  *)
(* trust whoever declares nothing.                                           *)
ASSUME Loaded(Packaged, {[Packaged EXCEPT !.classes[5].cap = "nobody"]}) = Rules
ASSUME RankOf(Loaded(Packaged, {[Packaged EXCEPT !.defaultTier = "local_uncensored"]}), "typo") = 1

(* A brief may declare a class that its text, forwarded, is not granted.     *)
ASSUME LET brief == [words |-> {"token"}, patterns |-> {},
                     sections |-> {"requirements", "interface"}]
       IN  /\ BriefChecks(Rules, brief, 2, "other_provider")
           /\ ~BriefChecks(Rules, brief, 3, "other_provider")
           /\ ~MayForward(Rules, "other_provider", brief, TRUE)

-----------------------------------------------------------------------------
(* An upstream goes before a healthy slot that is slow, costly and of another *)
(* role, unless the strategy is the default.                                 *)
Worst == [Config[3] EXCEPT !.latency = 2000, !.cost = 100]
ASSUME \A strategy \in Strategies :
  Outranks(UpstreamCandidate(9, Declared[9]), SlotCandidate(3, Worst, "healthy"),
           Needs([Body EXCEPT !.model = "chat", !.top = "routing_strategy" :> strategy]))
    <=> strategy # "balanced_local"

-----------------------------------------------------------------------------
(* What the route takes as a choice, whether an upstream has a budget, comes *)
(* from the ledger and the caps.                                            *)
Budget == INSTANCE UsageBudget

Hour == 3600
Capped(name, cap) == [name |-> name, enabled |-> TRUE, asks |-> FALSE,
                      limits |-> Budget!Limits({[window |-> 5 * Hour, tokens |-> cap, requests |-> 0],
                                                [window |-> 0, tokens |-> 1, requests |-> 1]})]
Asked(name) == [Capped(name, 0) EXCEPT !.asks = TRUE, !.limits = {}]
Usage(id, at, tokens) == [id |-> id, provider |-> "capped", at |-> at, tokens |-> tokens, requests |-> 1]
Silent == [available |-> FALSE, shares |-> {}, broken |-> FALSE]
Reading(share) == [available |-> TRUE, shares |-> {share, Budget!UnknownShare}, broken |-> FALSE]

(* Every outcome for the two upstreams is one of a ledger and a reading.     *)
Ups == {Capped("capped", 10000), Asked("asked")}
Live(share) == [u \in Ups |-> IF u.asks THEN Reading(share) ELSE Silent]
Ledger(tokens) == Budget!Recorded(Budget!Recorded({}, Usage(1, 10, 1), FALSE), Usage(2, 20, tokens), FALSE)
ASSUME {Budget!Funded(Ups, Live(share), Ledger(tokens), 30) : share \in {10, 1000}, tokens \in {100, 9999}}
       = SUBSET Ups

(* A share is rounded before it is compared: a cap is used up at 99.95 %.    *)
ASSUME \A used \in 9900 .. 10000 :
  Budget!AtLeast(used, 10000, Budget!ExhaustedAt) <=> used >= 9995

(* What has left the window, or was streamed, does not count; one upstream    *)
(* that cannot be asked leaves no data, and so every upstream a budget.      *)
ASSUME Capped("capped", 10000) \in Budget!Funded(Ups, Live(10), Ledger(9999), 21 + 5 * Hour)
ASSUME Budget!Recorded(Ledger(100), Usage(3, 25, 9999), TRUE) = Ledger(100)
ASSUME Budget!Funded(Ups, [u \in Ups |-> [Silent EXCEPT !.broken = u.asks]], Ledger(9999), 30) = Ups
=============================================================================
