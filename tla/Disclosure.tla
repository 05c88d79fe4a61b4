----------------------------- MODULE Disclosure -----------------------------
(***************************************************************************)
(* The disclosure policy: which executor may receive which content, and in *)
(* what form (disclosure/, and its use in service/app.py).                 *)
(*                                                                         *)
(* A text is what the classifier and the scanner see of it: the keywords   *)
(* and the forbidden patterns that occur in it.  Content classes compare   *)
(* as text in the code; here a class is a positive number, its place in    *)
(* that order.                                                             *)
(***************************************************************************)
EXTENDS Integers, Sequences, FiniteSets

NoClass == 0              \* no content class is declared
NoId == ""

-----------------------------------------------------------------------------
(* Rules files.  raw is what the file says, lists as sequences; a pattern   *)
(* whose expression does not compile has a regex of FALSE.                  *)

IdsOf(s) == {s[i].id : i \in DOMAIN s}

DistinctIds(s) == \A i, j \in DOMAIN s : s[i].id = s[j].id => i = j

TiersValid(tiers) ==
  /\ tiers # <<>> /\ NoId \notin IdsOf(tiers) /\ DistinctIds(tiers)
  /\ \A i, j \in DOMAIN tiers : tiers[i].rank = tiers[j].rank => i = j

ClassesValid(classes, tierIds, formIds) ==
  /\ classes # <<>> /\ DistinctIds(classes)
  /\ \A i \in DOMAIN classes : classes[i].cap \in tierIds /\ classes[i].form \in formIds

PatternsValid(patterns) ==
  /\ patterns # <<>> /\ DistinctIds(patterns)
  /\ \A i \in DOMAIN patterns : patterns[i].regex

(* parse_policy accepts the file. *)
Valid(raw) ==
  /\ TiersValid(raw.tiers)
  /\ raw.forms # <<>> /\ NoId \notin IdsOf(raw.forms) /\ DistinctIds(raw.forms)
  /\ ClassesValid(raw.classes, IdsOf(raw.tiers), IdsOf(raw.forms))
  /\ PatternsValid(raw.patterns)
  /\ raw.defaultTier \in IdsOf(raw.tiers)
  /\ raw.defaultClass \in IdsOf(raw.classes)
  /\ DOMAIN raw.sections \subseteq IdsOf(raw.forms)

Entry(s, id) == s[CHOOSE i \in DOMAIN s : s[i].id = id]

(* DisclosurePolicy: the rules indexed by id.  Rank 1 is trusted most; a     *)
(* severity is not checked.                                                  *)
Parsed(raw) ==
  [rank     |-> [t \in IdsOf(raw.tiers) |-> Entry(raw.tiers, t).rank],
   cap      |-> [c \in IdsOf(raw.classes) |-> Entry(raw.classes, c).cap],
   form     |-> [c \in IdsOf(raw.classes) |-> Entry(raw.classes, c).form],
   keywords |-> [c \in IdsOf(raw.classes) |-> Entry(raw.classes, c).keywords],
   severity |-> [q \in IdsOf(raw.patterns) |-> Entry(raw.patterns, q).severity],
   sections |-> raw.sections,
   defaultTier |-> raw.defaultTier,
   defaultClass |-> raw.defaultClass]

(* What every accepted file grants: ranks to compare, and no class or        *)
(* executor off the ladder.                                                  *)
OnLadder(p) ==
  /\ \A t \in DOMAIN p.rank : p.rank[t] \in Int
  /\ \A c \in DOMAIN p.cap : p.cap[c] \in DOMAIN p.rank /\ IsFiniteSet(p.keywords[c])
  /\ IsFiniteSet(DOMAIN p.cap) /\ DOMAIN p.cap \subseteq Int \ {NoClass}
  /\ p.defaultTier \in DOMAIN p.rank
  /\ p.defaultClass \in DOMAIN p.cap

(* The rules the service starts with: those of the override, or the packaged *)
(* ones when there is no override and when it is not valid.                  *)
Loaded(packaged, overrides) ==
  Parsed(IF \E raw \in overrides : Valid(raw)
         THEN CHOOSE raw \in overrides : Valid(raw) ELSE packaged)

-----------------------------------------------------------------------------
(* Executors. *)

(* resolve_executor: a tier that is not on the ladder counts as undeclared.  *)
TierOf(p, declared) == IF declared \in DOMAIN p.rank THEN declared ELSE p.defaultTier

RankOf(p, declared) == p.rank[TierOf(p, declared)]

MostTrusted(p, tier) == \A t \in DOMAIN p.rank : p.rank[tier] <= p.rank[t]

-----------------------------------------------------------------------------
(* Content. *)

CapRank(p, class) == p.rank[p.cap[class]]

Hits(p, class, words) == p.keywords[class] \cap words

Matching(p, words) == {class \in DOMAIN p.cap : Hits(p, class, words) # {}}

(* The sort key of classify: the strictest cap, then the most keywords, then *)
(* the name.                                                                 *)
Precedes(p, words, c, d) ==
  LET hits == Cardinality(Hits(p, c, words))
      others == Cardinality(Hits(p, d, words))
  IN  \/ CapRank(p, c) < CapRank(p, d)
      \/ CapRank(p, c) = CapRank(p, d) /\ hits > others
      \/ CapRank(p, c) = CapRank(p, d) /\ hits = others /\ c <= d

(* The first of the sorted matches. *)
Leads(p, words, c) ==
  c \in Matching(p, words) /\ \A d \in Matching(p, words) : Precedes(p, words, c, d)

Strictest(p, words) == CHOOSE c \in DOMAIN p.cap : Leads(p, words, c)

(* classify: a declared class stands, one the rules do not know is replaced  *)
(* by the default, and so is a text without a keyword.                       *)
Classify(p, words, declared) ==
  IF declared \in DOMAIN p.cap THEN declared
  ELSE IF declared = NoClass /\ Matching(p, words) # {} THEN Strictest(p, words)
  ELSE p.defaultClass

(* scan_text. *)
Findings(p, patterns) == patterns \cap DOMAIN p.severity

Blocking(p, patterns) == {q \in Findings(p, patterns) : p.severity[q] \in {"critical", "high"}}

-----------------------------------------------------------------------------
(* evaluate: may the content go to an executor of this tier?                 *)
Allowed(p, tier, class, patterns) ==
  /\ p.rank[tier] <= CapRank(p, class)
  /\ Blocking(p, patterns) # {} => MostTrusted(p, tier)

(* A chat body declares no class.  A denial blocks when it is enforced, which *)
(* is decided anew for every request.                                        *)
MayForward(p, declaredTier, text, enforced) ==
  enforced => Allowed(p, TierOf(p, declaredTier), Classify(p, text.words, NoClass), text.patterns)

(* The tier is trusted enough for every class of content that the text       *)
(* matches, and only the most trusted tier sees a text with a secret.        *)
Sheltered(p, tier, text) ==
  /\ \A class \in Matching(p, text.words) : p.rank[tier] <= CapRank(p, class)
  /\ Blocking(p, text.patterns) # {} => MostTrusted(p, tier)

(* A brief is valid when it has the sections of its form and nothing is      *)
(* found in it.                                                              *)
BriefValid(p, text, declared) ==
  LET form == p.form[Classify(p, text.words, declared)]
      required == IF form \in DOMAIN p.sections THEN p.sections[form] ELSE {}
  IN  required \subseteq text.sections /\ Findings(p, text.patterns) = {}

(* disclosure --check: with a target the brief must be allowed there too.    *)
BriefChecks(p, text, declared, target) ==
  /\ BriefValid(p, text, declared)
  /\ target # NoId => Allowed(p, TierOf(p, target), Classify(p, text.words, declared),
                              text.patterns)
=============================================================================
