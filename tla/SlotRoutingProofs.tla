-------------------------- MODULE SlotRoutingProofs --------------------------
(***************************************************************************)
(* Theorems about routing, disclosure and budgets: for any slots, chains,  *)
(* upstreams, requests and accepted rules, any number of requests at once, *)
(* and any time-to-live and timeout of the health checks.                  *)
(***************************************************************************)
EXTENDS SlotRouting, UsageBudget, FiniteSetTheorems, SequenceTheorems, WellFoundedInduction, TLAPS

-----------------------------------------------------------------------------
(* The least element of some naturals, and of finitely many integers. *)

LEMMA LeastNat ==
  ASSUME NEW T \in SUBSET Nat, T # {}
  PROVE  \E n \in T : \A m \in T : n <= m
<1>1. \E n \in T : \A m \in T : <<m, n>> \notin OpToRel(<, Nat)
  BY NatLessThanWellFounded, WFMin, Zenon
<1>2. \A m, n \in Nat : <<m, n>> \in OpToRel(<, Nat) <=> m < n
  BY Z3 DEF OpToRel
<1>3. PICK n \in T : \A m \in T : <<m, n>> \notin OpToRel(<, Nat)
  BY <1>1
<1>4. \A m \in T : n <= m
  <2> SUFFICES ASSUME NEW m \in T PROVE n <= m
    OBVIOUS
  <2>1. m \in Nat /\ n \in Nat /\ ~(m < n)
    BY <1>2, <1>3
  <2> QED
    BY <2>1
<1> QED
  BY <1>4

LEMMA MinIsLeast ==
  ASSUME NEW T \in SUBSET Nat, T # {}
  PROVE  Min(T) \in T
BY LeastNat DEF Min

(* By the least size of a set that has none: without one of its elements it  *)
(* has a least one, or is empty.                                            *)
HasLeast(T) == \E n \in T : \A m \in T : n <= m
LEMMA FiniteHasLeast ==
  ASSUME NEW T, IsFiniteSet(T), T \subseteq Int, T # {}
  PROVE  HasLeast(T)
<1> DEFINE Bad == {S \in SUBSET T : S # {} /\ ~HasLeast(S)}
           Sizes == {Cardinality(S) : S \in Bad}
<1> SUFFICES ASSUME Bad # {} PROVE FALSE
  BY DEF HasLeast
<1>1. \A S \in SUBSET T : IsFiniteSet(S) /\ Cardinality(S) \in Nat
  BY FS_Subset, FS_CardinalityType
<1>2. Sizes \in SUBSET Nat /\ Sizes # {}
  BY <1>1
<1>3. PICK n \in Sizes : \A k \in Sizes : n <= k
  BY <1>2, LeastNat
<1>4. PICK S \in Bad : Cardinality(S) = n
  OBVIOUS
<1>5. PICK x \in S : x \in Int
  OBVIOUS
<1> DEFINE R == S \ {x}
<1>6. R \in SUBSET T /\ Cardinality(R) = n - 1 /\ n \in Nat
  BY <1>1, <1>4, <1>5, FS_RemoveElement
<1>7. R \notin Bad
  <2>1. SUFFICES ASSUME R \in Bad PROVE FALSE
    OBVIOUS
  <2>2. n - 1 \in Sizes
    BY <1>6, <2>1
  <2> HIDE DEF Sizes
  <2> QED
    BY <1>3, <1>6, <2>2
<1>8. CASE R = {}
  <2>1. S = {x}
    BY <1>5, <1>8
  <2> QED
    BY <1>4, <1>5, <2>1 DEF HasLeast
<1>9. CASE R # {}
  <2>1. PICK y \in R : \A z \in R : y <= z
    BY <1>6, <1>7, <1>9 DEF HasLeast
  <2>2. y \in Int /\ R \subseteq Int /\ y \in S
    BY <2>1
  <2>3. CASE x <= y
    <3>1. \A z \in S : x <= z
      <4> SUFFICES ASSUME NEW z \in S PROVE x <= z
        OBVIOUS
      <4>1. z = x \/ (z \in R /\ z \in Int /\ y <= z)
        BY <2>1, <2>2
      <4> QED
        BY <1>5, <2>2, <2>3, <4>1
    <3> QED
      BY <1>4, <1>5, <3>1 DEF HasLeast
  <2>4. CASE y <= x
    <3>1. \A z \in S : y <= z
      <4> SUFFICES ASSUME NEW z \in S PROVE y <= z
        OBVIOUS
      <4>1. z = x \/ z \in R
        OBVIOUS
      <4> QED
        BY <2>1, <2>4, <4>1
    <3> QED
      BY <1>4, <2>2, <3>1 DEF HasLeast
  <2> QED
    BY <1>5, <2>2, <2>3, <2>4
<1> QED
  BY <1>8, <1>9

(* So one of finitely many elements has the least measure. *)
LEMMA LeastBy ==
  ASSUME NEW S, IsFiniteSet(S), S # {}, NEW f, \A c \in S : f[c] \in Int
  PROVE  \E c \in S : \A d \in S : f[c] <= f[d]
<1> DEFINE T == {f[c] : c \in S}
           g == [c \in S |-> f[c]]
<1>1. IsFiniteSet(T)
  <2>1. g \in Surjection(S, T)
    BY DEF Surjection
  <2> HIDE DEF g, T
  <2> QED
    BY <2>1, FS_Surjection
<1>2. T \subseteq Int /\ T # {}
  OBVIOUS
<1>3. HasLeast(T)
  BY <1>1, <1>2, FiniteHasLeast
<1> QED
  BY <1>3 DEF HasLeast

-----------------------------------------------------------------------------
(* The disclosure rules. *)

(* What a rules file may say, whether or not it is accepted: finite lists,   *)
(* ranks that are numbers, and class ids that are not empty.                 *)
Written(raw) ==
  /\ \A i \in DOMAIN raw.tiers : raw.tiers[i].rank \in Int
  /\ IsFiniteSet(DOMAIN raw.classes)
  /\ \A i \in DOMAIN raw.classes :
       raw.classes[i].id \in Int \ {NoClass} /\ IsFiniteSet(raw.classes[i].keywords)

(* Looking an id up finds an entry of that id.                                *)
LEMMA EntryFound ==
  ASSUME NEW s, NEW id \in IdsOf(s)
  PROVE  \E i \in DOMAIN s : Entry(s, id) = s[i] /\ s[i].id = id
<1>1. \E i \in DOMAIN s : s[i].id = id
  BY DEF IdsOf
<1> QED
  BY <1>1 DEF Entry

(* A rules file that parse_policy accepts never caps a class, or defaults an  *)
(* executor, at a tier the ladder does not have: nothing falls off it.        *)
THEOREM AcceptedRulesOnLadder ==
  ASSUME NEW raw, Valid(raw), Written(raw)
  PROVE  OnLadder(Parsed(raw))
<1> DEFINE p == Parsed(raw)
<1>1. DOMAIN p.rank = IdsOf(raw.tiers) /\ DOMAIN p.cap = IdsOf(raw.classes)
  BY DEF Parsed
<1>2. ASSUME NEW t \in DOMAIN p.rank PROVE p.rank[t] \in Int
  <2>1. p.rank[t] = Entry(raw.tiers, t).rank
    BY <1>1 DEF Parsed
  <2>2. PICK i \in DOMAIN raw.tiers : Entry(raw.tiers, t) = raw.tiers[i]
    BY <1>1, EntryFound
  <2> QED
    BY <2>1, <2>2 DEF Written
<1>3. ASSUME NEW c \in DOMAIN p.cap PROVE p.cap[c] \in DOMAIN p.rank
  <2>1. p.cap[c] = Entry(raw.classes, c).cap
    BY <1>1 DEF Parsed
  <2>2. PICK i \in DOMAIN raw.classes : Entry(raw.classes, c) = raw.classes[i]
    BY <1>1, EntryFound
  <2>3. raw.classes[i].cap \in IdsOf(raw.tiers)
    BY DEF Valid, ClassesValid
  <2> QED
    BY <1>1, <2>1, <2>2, <2>3
<1>4. p.defaultTier \in DOMAIN p.rank /\ p.defaultClass \in DOMAIN p.cap
  BY <1>1 DEF Parsed, Valid
<1>5. IsFiniteSet(DOMAIN p.cap)
  <2>1. DOMAIN p.cap = {raw.classes[i].id : i \in DOMAIN raw.classes}
    BY <1>1 DEF IdsOf
  <2>2. [i \in DOMAIN raw.classes |-> raw.classes[i].id] \in Surjection(DOMAIN raw.classes, DOMAIN p.cap)
    BY <2>1 DEF Surjection
  <2> HIDE DEF p
  <2> QED
    BY <2>2, FS_Surjection DEF Written
<1>6. DOMAIN p.cap \subseteq Int \ {NoClass}
  BY <1>1 DEF IdsOf, Written
<1>7. ASSUME NEW c \in DOMAIN p.cap PROVE IsFiniteSet(p.keywords[c])
  <2>1. p.keywords[c] = Entry(raw.classes, c).keywords
    BY <1>1 DEF Parsed
  <2>2. PICK i \in DOMAIN raw.classes : Entry(raw.classes, c) = raw.classes[i]
    BY <1>1, EntryFound
  <2> QED
    BY <2>1, <2>2 DEF Written
<1> QED
  BY <1>2, <1>3, <1>4, <1>5, <1>6, <1>7 DEF OnLadder

(* So does whatever the service loads, when the packaged rules are accepted:  *)
(* a broken override leaves no rules that were not checked.                   *)
THEOREM LoadedRulesOnLadder ==
  ASSUME NEW packaged, NEW overrides, Valid(packaged),
         \A raw \in overrides \cup {packaged} : Written(raw)
  PROVE  OnLadder(Loaded(packaged, overrides))
<1>1. CASE \E raw \in overrides : Valid(raw)
  <2>1. PICK raw \in overrides : Valid(raw) /\ Loaded(packaged, overrides) = Parsed(raw)
    BY <1>1 DEF Loaded
  <2> QED
    BY <2>1, AcceptedRulesOnLadder
<1>2. CASE ~\E raw \in overrides : Valid(raw)
  <2>1. Loaded(packaged, overrides) = Parsed(packaged)
    BY <1>2 DEF Loaded
  <2> QED
    BY <2>1, AcceptedRulesOnLadder
<1> QED
  BY <1>1, <1>2

-----------------------------------------------------------------------------
(* The caps that are compared are ranks.                                      *)
LEMMA CapIsRank ==
  ASSUME NEW p, OnLadder(p), NEW c \in DOMAIN p.cap
  PROVE  CapRank(p, c) \in Int
BY DEF OnLadder, CapRank

(* The sorted list of matches has a first one: of those with the strictest    *)
(* cap, of those with the most keywords, the first by name.                   *)
LEMMA SomeMatchLeads ==
  ASSUME NEW p, OnLadder(p), NEW words, Matching(p, words) # {}
  PROVE  \E c \in DOMAIN p.cap : Leads(p, words, c)
<1> DEFINE M == Matching(p, words)
            cap(c) == CapRank(p, c)
            hits(c) == Cardinality(Hits(p, c, words))
<1>1. M \subseteq DOMAIN p.cap /\ IsFiniteSet(M)
  BY FS_Subset DEF Matching, OnLadder
<1>2. \A c \in M : cap(c) \in Int /\ hits(c) \in Nat /\ c \in Int
  <2> SUFFICES ASSUME NEW c \in M PROVE cap(c) \in Int /\ hits(c) \in Nat /\ c \in Int
    OBVIOUS
  <2>1. IsFiniteSet(Hits(p, c, words))
    BY <1>1, FS_Subset DEF Hits, OnLadder
  <2> QED
    BY <1>1, <2>1, CapIsRank, FS_CardinalityType DEF OnLadder
<1> HIDE DEF M, cap, hits
<1>3. PICK c1 \in M : \A d \in M : cap(c1) <= cap(d)
  <2> DEFINE f == [c \in M |-> cap(c)]
  <2>1. \A c \in M : f[c] = cap(c)
    OBVIOUS
  <2> HIDE DEF f
  <2> QED
    BY <1>1, <1>2, <2>1, LeastBy DEF M
<1> DEFINE M1 == {c \in M : cap(c) = cap(c1)}
<1>4. PICK c2 \in M1 : \A d \in M1 : hits(d) <= hits(c2)
  <2> DEFINE f == [c \in M1 |-> 0 - hits(c)]
  <2>1. \A c \in M1 : f[c] = 0 - hits(c) /\ f[c] \in Int
    BY <1>2
  <2>2. IsFiniteSet(M1) /\ M1 # {}
    BY <1>1, FS_Subset
  <2> HIDE DEF f
  <2>3. \E c \in M1 : \A d \in M1 : f[c] <= f[d]
    <3> HIDE DEF M1
    <3> QED
      BY <2>1, <2>2, LeastBy
  <2>4. PICK c \in M1 : \A d \in M1 : f[c] <= f[d]
    BY <2>3
  <2>5. \A d \in M1 : hits(d) <= hits(c)
    <3> SUFFICES ASSUME NEW d \in M1 PROVE hits(d) <= hits(c)
      OBVIOUS
    <3>1. 0 - hits(c) <= 0 - hits(d)
      BY <2>1, <2>4
    <3> QED
      BY <1>2, <3>1
  <2> QED
    BY <2>5
<1> DEFINE M2 == {c \in M1 : hits(c) = hits(c2)}
<1>5. PICK c3 \in M2 : \A d \in M2 : c3 <= d
  <2>1. IsFiniteSet(M2) /\ M2 # {} /\ M2 \subseteq Int
    BY <1>1, <1>2, FS_Subset
  <2> QED
    BY <2>1, FiniteHasLeast DEF HasLeast
<1>6. ASSUME NEW d \in M
      PROVE  \/ cap(c3) < cap(d)
             \/ cap(c3) = cap(d) /\ hits(c3) > hits(d)
             \/ cap(c3) = cap(d) /\ hits(c3) = hits(d) /\ c3 <= d
  <2>1. cap(c3) \in Int /\ cap(d) \in Int /\ hits(c3) \in Nat /\ hits(d) \in Nat
    BY <1>2
  <2>2. cap(c3) <= cap(d)
    BY <1>3
  <2>3. cap(d) = cap(c3) => hits(d) <= hits(c3)
    BY <1>4
  <2>4. cap(d) = cap(c3) /\ hits(d) = hits(c3) => c3 <= d
    BY <1>5
  <2> QED
    BY <2>1, <2>2, <2>3, <2>4
<1>7. Leads(p, words, c3) /\ c3 \in DOMAIN p.cap
  BY <1>1, <1>6 DEF Leads, Precedes, M, cap, hits
<1> QED
  BY <1>7

(* The class that classify infers has the strictest cap of all that match,    *)
(* however many keywords speak for another.                                   *)
LEMMA LeadingIsStrictest ==
  ASSUME NEW p, OnLadder(p), NEW words, NEW c, Leads(p, words, c),
         NEW d \in Matching(p, words)
  PROVE  CapRank(p, c) <= CapRank(p, d)
<1>1. CapRank(p, c) \in Int /\ CapRank(p, d) \in Int
  BY CapIsRank DEF Leads, Matching
<1>2. CapRank(p, c) < CapRank(p, d) \/ CapRank(p, c) = CapRank(p, d)
  BY DEF Leads, Precedes
<1> QED
  BY <1>1, <1>2

(* A text with keywords, and no declared class, is classified as one of the   *)
(* classes it matches, and no other of them is stricter.                      *)
THEOREM StrictestMatchWins ==
  ASSUME NEW p, OnLadder(p), NEW words, Matching(p, words) # {}
  PROVE  LET class == Classify(p, words, NoClass)
         IN  /\ class \in Matching(p, words)
             /\ \A d \in Matching(p, words) : CapRank(p, class) <= CapRank(p, d)
<1>1. Leads(p, words, Strictest(p, words))
  BY SomeMatchLeads DEF Strictest
<1>2. NoClass \notin DOMAIN p.cap
  BY DEF OnLadder
<1>3. Classify(p, words, NoClass) = Strictest(p, words)
  BY <1>2 DEF Classify
<1>4. Strictest(p, words) \in Matching(p, words)
  BY <1>1 DEF Leads
<1> QED
  BY <1>1, <1>3, <1>4, LeadingIsStrictest

(* What the enforced gate lets through is sheltered: the upstream is trusted  *)
(* enough for every class the text matches, not only for the one inferred,    *)
(* and for a secret it is trusted most.                                       *)
THEOREM GateShelters ==
  ASSUME NEW p, OnLadder(p), NEW text, NEW declaredTier,
         MayForward(p, declaredTier, text, TRUE)
  PROVE  Sheltered(p, TierOf(p, declaredTier), text)
<1> DEFINE tier == TierOf(p, declaredTier)
            class == Classify(p, text.words, NoClass)
<1>1. tier \in DOMAIN p.rank /\ p.rank[tier] \in Int
  BY DEF OnLadder, TierOf
<1>2. p.rank[tier] <= CapRank(p, class) /\ (Blocking(p, text.patterns) # {} => MostTrusted(p, tier))
  BY DEF MayForward, Allowed
<1>3. ASSUME NEW d \in Matching(p, text.words) PROVE p.rank[tier] <= CapRank(p, d)
  <2>1. class \in DOMAIN p.cap /\ d \in DOMAIN p.cap /\ CapRank(p, class) <= CapRank(p, d)
    BY <1>3, StrictestMatchWins DEF Matching
  <2>2. CapRank(p, class) \in Int /\ CapRank(p, d) \in Int
    BY <2>1, CapIsRank
  <2> QED
    BY <1>1, <1>2, <2>1, <2>2
<1> QED
  BY <1>2, <1>3 DEF Sheltered

(* An executor that is trusted more may receive whatever one that is trusted  *)
(* less may.                                                                  *)
THEOREM TrustIsMonotone ==
  ASSUME NEW p, OnLadder(p), NEW t \in DOMAIN p.rank, NEW u \in DOMAIN p.rank,
         p.rank[u] <= p.rank[t], NEW class \in DOMAIN p.cap, NEW patterns,
         Allowed(p, t, class, patterns)
  PROVE  Allowed(p, u, class, patterns)
<1>1. p.rank[t] \in Int /\ p.rank[u] \in Int /\ CapRank(p, class) \in Int
  BY CapIsRank DEF OnLadder
<1>2. p.rank[u] <= CapRank(p, class)
  BY <1>1 DEF Allowed
<1>3. MostTrusted(p, t) => MostTrusted(p, u)
  BY <1>1 DEF MostTrusted, OnLadder
<1> QED
  BY <1>2, <1>3 DEF Allowed

(* More content never lets a text go further: what is denied to a text with   *)
(* keywords stays denied when it says, and shows, more.                       *)
THEOREM MoreContentNeverWidens ==
  ASSUME NEW p, OnLadder(p), NEW t \in DOMAIN p.rank,
         NEW words, NEW moreWords, words \subseteq moreWords,
         NEW patterns, NEW morePatterns, patterns \subseteq morePatterns,
         Matching(p, words) # {},
         Allowed(p, t, Classify(p, moreWords, NoClass), morePatterns)
  PROVE  Allowed(p, t, Classify(p, words, NoClass), patterns)
<1> DEFINE less == Classify(p, words, NoClass)
            more == Classify(p, moreWords, NoClass)
<1>1. Matching(p, words) \subseteq Matching(p, moreWords)
  BY DEF Matching, Hits
<1>2. less \in Matching(p, words) /\ more \in Matching(p, moreWords)
  BY <1>1, StrictestMatchWins
<1>3. CapRank(p, more) <= CapRank(p, less)
  BY <1>2, <1>1, StrictestMatchWins
<1>4. CapRank(p, more) \in Int /\ CapRank(p, less) \in Int /\ p.rank[t] \in Int
  BY <1>2, CapIsRank DEF OnLadder, Matching
<1>5. p.rank[t] <= CapRank(p, more)
  BY DEF Allowed
<1>6. Blocking(p, patterns) \subseteq Blocking(p, morePatterns)
  BY DEF Blocking, Findings
<1>7. Blocking(p, patterns) # {} => MostTrusted(p, t)
  BY <1>6 DEF Allowed
<1> QED
  BY <1>3, <1>4, <1>5, <1>7 DEF Allowed

-----------------------------------------------------------------------------
(* Budgets. *)

(* Pruning the ledger is never seen: what counts in a window, at the time    *)
(* of the pruning or later, is what counted without it.                      *)
THEOREM PruningIsUnseen ==
  ASSUME NEW ledger, \A e \in ledger : e.at \in Int,
         NEW provider, NEW window \in Int, NEW pruned \in Int, NEW now \in Int, pruned <= now
  PROVE  Counted(Pruned(ledger, pruned), provider, window, now) = Counted(ledger, provider, window, now)
<1> DEFINE c == Counted(ledger, provider, window, now)
            d == Counted(Pruned(ledger, pruned), provider, window, now)
<1>1. ASSUME NEW e \in c PROVE e \in d
  <2>1. e \in ledger /\ e.at >= now - MaxAge
    BY <1>1 DEF Counted, Pruned
  <2>2. e.at >= pruned - MaxAge
    BY <2>1 DEF MaxAge
  <2> QED
    BY <1>1, <2>1, <2>2 DEF Counted, Pruned
<1>2. ASSUME NEW e \in d PROVE e \in c
  BY <1>2 DEF Counted, Pruned
<1> QED
  BY <1>1, <1>2

(* A provider whose use has reached a declared cap is out of the routing,    *)
(* unless it can be asked and says otherwise, or a broken source leaves no   *)
(* data.                                                                    *)
THEOREM ReachedCapIsExhausted ==
  ASSUME NEW ledger, NEW now, NEW u, NEW upstreams, u \in upstreams, NEW live,
         \A v \in upstreams : ~live[v].broken, ~(u.asks /\ live[u].available),
         NEW w \in u.limits, w.tokens \in Nat, w.tokens # NoLimit,
         TokensUsed(Counted(ledger, u.name, w.window, now)) \in Nat,
         TokensUsed(Counted(ledger, u.name, w.window, now)) >= w.tokens
  PROVE  u \notin Funded(upstreams, live, ledger, now)
<1> DEFINE events == Counted(ledger, u.name, w.window, now)
<1>1. AtLeast(TokensUsed(events), w.tokens, ExhaustedAt)
  BY DEF AtLeast, ExhaustedAt, NoLimit
<1>2. SomeReaches(u.limits, ledger, u.name, now, ExhaustedAt)
  BY <1>1 DEF SomeReaches, Reaches
<1>3. DeclaredStatus(u.limits, ledger, u.name, now) = "exhausted"
  BY <1>2 DEF DeclaredStatus
<1>4. ProviderStatus(u, live[u], ledger, now) = "exhausted"
  BY <1>3 DEF ProviderStatus
<1>5. BudgetStatus(u, upstreams, live, ledger, now) = "exhausted"
  BY <1>4 DEF BudgetStatus, Considered
<1> QED
  BY <1>5 DEF Funded

(* The converse holds up to the rounding only: a cap counts as reached from  *)
(* 99.95 % of it on.                                                         *)
THEOREM ExhaustedIsNearCap ==
  ASSUME NEW cap \in Nat, NEW used \in Nat, AtLeast(used, cap, ExhaustedAt)
  PROVE  2000 * used >= 1999 * cap
  BY DEF AtLeast, ExhaustedAt

-----------------------------------------------------------------------------
(* The order of the candidates. *)

(* What the sort key compares are numbers, and a name names one candidate. *)
Measured(c) ==
  /\ c.id \in Int /\ c.ctx \in Nat /\ c.quality \in 0 .. 100 /\ c.cost \in 0 .. 100
  /\ OrElse(c.latency, 0) \in Int
Comparable(S) ==
  /\ \A c \in S : Measured(c)
  /\ \A c, d \in S : c.id = d.id => c = d

LEMMA PercentBounds == ASSUME NEW n \in Int PROVE Percent(n) \in 0 .. 100
  BY DEF Percent

LEMMA PartBounds ==
  ASSUME NEW c, Measured(c), NEW needs, needs.ctx \in Nat
  PROVE  /\ RoleScore(c, needs) \in 45 .. 125
         /\ ContextScore(c, needs) \in 0 .. 100
         /\ LatencyScore(c) \in 0 .. 100
<1>1. RoleScore(c, needs) \in 45 .. 125
  BY DEF RoleScore
<1>2. ContextScore(c, needs) \in 0 .. 100
  <2>1. ASSUME needs.ctx > 0 PROVE Percent((100 * c.ctx) \div needs.ctx) \in 0 .. 100
    <3>1. (100 * c.ctx) \div needs.ctx \in Int
      BY <2>1 DEF Measured
    <3> QED
      BY <3>1, PercentBounds
  <2>2. Percent((100 * c.ctx) \div 65536) \in 0 .. 100
    <3>1. (100 * c.ctx) \div 65536 \in Int
      BY DEF Measured
    <3> QED
      BY <3>1, PercentBounds
  <2> QED
    BY <2>1, <2>2 DEF ContextScore, Measured
<1>3. LatencyScore(c) \in 0 .. 100
  <2>1. CASE c.latency = Unset
    BY <2>1 DEF LatencyScore
  <2>2. CASE c.latency \in Int /\ c.latency # Unset
    <3>1. 100 - (c.latency \div 10) \in Int
      BY <2>2
    <3>2. Percent(100 - (c.latency \div 10)) \in 0 .. 100
      BY <3>1, PercentBounds
    <3> QED
      BY <2>2, <3>2 DEF LatencyScore
  <2> QED
    BY <2>1, <2>2 DEF Measured, OrElse
<1> QED
  BY <1>1, <1>2, <1>3

LEMMA ScoreIsInt ==
  ASSUME NEW c, Measured(c), NEW needs, needs.ctx \in Nat
  PROVE  Score(c, needs) \in Int
<1>1. HealthScore(c.health) \in Int /\ LocalScore(c) \in Int
  BY DEF HealthScore, LocalScore
<1>2. /\ RoleScore(c, needs) \in Int /\ ContextScore(c, needs) \in Int /\ LatencyScore(c) \in Int
      /\ c.quality \in Int /\ c.cost \in Int
  BY PartBounds DEF Measured
<1> QED
  BY <1>1, <1>2 DEF Score

(* Of two candidates one outranks the other, and never both. *)
LEMMA OutranksOrders ==
  ASSUME NEW S, Comparable(S), NEW needs, needs.ctx \in Nat
  PROVE  /\ \A c \in S : ~Outranks(c, c, needs)
         /\ \A c, d \in S : c # d => Outranks(c, d, needs) \/ Outranks(d, c, needs)
         /\ \A b, c, d \in S :
              Outranks(b, c, needs) /\ Outranks(c, d, needs) => Outranks(b, d, needs)
<1> DEFINE score(c) == Score(c, needs)
           late(c) == OrElse(c.latency, 999999)
<1>1. \A c \in S : score(c) \in Int /\ late(c) \in Int /\ c.id \in Int
  <2> SUFFICES ASSUME NEW c \in S PROVE score(c) \in Int /\ late(c) \in Int /\ c.id \in Int
    OBVIOUS
  <2>1. Measured(c)
    BY DEF Comparable
  <2> QED
    BY <2>1, ScoreIsInt DEF Measured, OrElse
<1>2. \A c, d \in S :
        Outranks(c, d, needs)
          <=> score(c) > score(d)
                \/ (score(c) = score(d) /\ (late(c) < late(d) \/ (late(c) = late(d) /\ c.id < d.id)))
  BY DEF Outranks
<1>3. \A c, d \in S : c.id = d.id => c = d
  BY DEF Comparable
<1> HIDE DEF score, late
<1>4. \A c \in S : ~Outranks(c, c, needs)
  BY <1>1, <1>2
<1>5. \A c, d \in S : c # d => Outranks(c, d, needs) \/ Outranks(d, c, needs)
  BY <1>1, <1>2, <1>3
<1>6. ASSUME NEW b \in S, NEW c \in S, NEW d \in S, Outranks(b, c, needs), Outranks(c, d, needs)
      PROVE  Outranks(b, d, needs)
  BY <1>1, <1>2, <1>6
<1> QED
  BY <1>4, <1>5, <1>6

(* The place of a candidate is how many are not after it. *)
UpTo(A, c, needs) == {d \in A : d = c \/ Outranks(d, c, needs)}
Place(A, c, needs) == Cardinality(UpTo(A, c, needs))

LEMMA PlacesAreDistinct ==
  ASSUME NEW A, IsFiniteSet(A), Comparable(A), NEW needs, needs.ctx \in Nat
  PROVE  /\ \A c \in A : Place(A, c, needs) \in 1 .. Cardinality(A)
         /\ \A c, d \in A : Outranks(c, d, needs) => Place(A, c, needs) < Place(A, d, needs)
         /\ [c \in A |-> Place(A, c, needs)] \in Bijection(A, 1 .. Cardinality(A))
<1> DEFINE place == [c \in A |-> Place(A, c, needs)]
           n == Cardinality(A)
<1>1. n \in Nat /\ \A c \in A : IsFiniteSet(UpTo(A, c, needs)) /\ Place(A, c, needs) \in Nat
                                  /\ Place(A, c, needs) <= n
  BY FS_CardinalityType, FS_Subset DEF UpTo, Place
<1>2. ASSUME NEW c \in A PROVE Place(A, c, needs) \in 1 .. n
  <2>1. UpTo(A, c, needs) # {}
    BY DEF UpTo
  <2>2. Place(A, c, needs) # 0
    BY <1>1, <2>1, FS_EmptySet DEF Place
  <2> QED
    BY <1>1, <2>2
<1>3. ASSUME NEW c \in A, NEW d \in A, Outranks(c, d, needs)
      PROVE  Place(A, c, needs) < Place(A, d, needs)
  <2>1. UpTo(A, c, needs) \subseteq UpTo(A, d, needs)
    BY <1>3, OutranksOrders DEF UpTo
  <2>2. d \in UpTo(A, d, needs) /\ d \notin UpTo(A, c, needs)
    BY <1>3, OutranksOrders DEF UpTo
  <2>3. Place(A, c, needs) <= Place(A, d, needs) /\ Place(A, c, needs) # Place(A, d, needs)
    BY <1>1, <2>1, <2>2, FS_Subset DEF Place
  <2> QED
    BY <1>1, <2>3
<1>4. place \in Injection(A, 1 .. n)
  <2>1. place \in [A -> 1 .. n]
    BY <1>2
  <2>2. ASSUME NEW c \in A, NEW d \in A, c # d PROVE place[c] # place[d]
    <3>1. Outranks(c, d, needs) \/ Outranks(d, c, needs)
      BY <2>2, OutranksOrders
    <3>2. Place(A, c, needs) \in Nat /\ Place(A, d, needs) \in Nat
      BY <1>1
    <3> QED
      BY <1>3, <3>1, <3>2
  <2> HIDE DEF place
  <2> QED
    BY <2>1, <2>2 DEF Injection, IsInjective
<1>5. place \in Surjection(A, 1 .. n)
  <2>1. IsFiniteSet(1 .. n) /\ Cardinality(1 .. n) = n
    BY <1>1, FS_Interval
  <2> HIDE DEF place
  <2> QED
    BY <1>4, <2>1, FS_Injection
<1> QED
  BY <1>2, <1>3, <1>4, <1>5 DEF Bijection

(* The list of rank_candidates is determined: any set of candidates with     *)
(* different names has one ranking, whatever order they were collected in.   *)
LEMMA OneRanking ==
  ASSUME NEW S, IsFiniteSet(S), Comparable(S), NEW needs, needs.ctx \in Nat
  PROVE  \E ranked : Rankings(S, needs) = {ranked}
<1> DEFINE A == {c \in S : ~Rejected(c, needs)}
           n == Cardinality(A)
           place == [c \in A |-> Place(A, c, needs)]
           sorted == [i \in 1 .. n |-> CHOOSE c \in A : place[c] = i]
<1>1. IsFiniteSet(A) /\ n \in Nat /\ Comparable(A)
  BY FS_Subset, FS_CardinalityType DEF Comparable
<1>2. Rankings(S, needs) =
        {s \in [1 .. n -> A] :
           IsInjective(s) /\ \A i, j \in DOMAIN s : i < j => Outranks(s[i], s[j], needs)}
  BY DEF Rankings
<1> HIDE DEF A
<1>3. place \in Bijection(A, 1 .. n)
  BY <1>1, PlacesAreDistinct
<1>4. /\ \A c \in A : place[c] \in 1 .. n
      /\ \A i \in 1 .. n : \E c \in A : place[c] = i
      /\ \A c, d \in A : place[c] = place[d] => c = d
  <2> HIDE DEF place
  <2> QED
    BY <1>3 DEF Bijection, Injection, Surjection, IsInjective
<1>5. \A c, d \in A : Outranks(c, d, needs) => place[c] < place[d]
  BY <1>1, PlacesAreDistinct
<1>6. \A c, d \in A : c # d => Outranks(c, d, needs) \/ Outranks(d, c, needs)
  BY <1>1, OutranksOrders
<1>7. \A i \in 1 .. n : sorted[i] \in A /\ place[sorted[i]] = i
  BY <1>4
<1>8. sorted \in [1 .. n -> A] /\ DOMAIN sorted = 1 .. n
  BY <1>7
<1>9. sorted \in Rankings(S, needs)
  <2>1. ASSUME NEW i \in 1 .. n, NEW j \in 1 .. n, i < j
        PROVE  Outranks(sorted[i], sorted[j], needs)
    <3>1. sorted[i] # sorted[j]
      BY <1>7, <2>1
    <3>2. ~Outranks(sorted[j], sorted[i], needs)
      <4> HIDE DEF place, sorted
      <4> QED
        BY <1>1, <1>5, <1>7, <2>1
    <3> HIDE DEF place, sorted
    <3> QED
      BY <1>6, <1>7, <3>1, <3>2
  <2>2. IsInjective(sorted)
    <3> HIDE DEF place, sorted
    <3> QED
      BY <1>7, <1>8 DEF IsInjective
  <2> HIDE DEF place, sorted
  <2> QED
    BY <1>2, <1>8, <2>1, <2>2
<1>10. ASSUME NEW s \in Rankings(S, needs) PROVE s = sorted
  <2> HIDE DEF place, sorted
  <2>1. /\ s \in [1 .. n -> A] /\ IsInjective(s)
        /\ \A i, j \in 1 .. n : i < j => Outranks(s[i], s[j], needs)
    BY <1>2
  <2>2. s \in Surjection(1 .. n, A)
    <3>1. IsFiniteSet(1 .. n) /\ Cardinality(1 .. n) = n
      BY <1>1, FS_Interval
    <3>2. s \in Injection(1 .. n, A)
      BY <2>1 DEF Injection
    <3> QED
      BY <1>1, <3>1, <3>2, FS_Injection
  <2>3. ASSUME NEW i \in 1 .. n PROVE s[i] = sorted[i]
    <3> DEFINE head == [j \in 1 .. i |-> s[j]]
    <3>1. UpTo(A, s[i], needs) = {s[j] : j \in 1 .. i}
      <4>1. ASSUME NEW j \in 1 .. i PROVE s[j] \in UpTo(A, s[i], needs)
        <5>1. j \in 1 .. n /\ (j = i \/ j < i)
          BY <1>1
        <5> QED
          BY <2>1, <5>1 DEF UpTo
      <4>2. ASSUME NEW c \in UpTo(A, s[i], needs) PROVE \E j \in 1 .. i : c = s[j]
        <5>1. c \in A /\ (c = s[i] \/ Outranks(c, s[i], needs))
          BY DEF UpTo
        <5>2. PICK j \in 1 .. n : s[j] = c
          BY <2>2, <5>1 DEF Surjection
        <5>3. ~(i < j)
          <6>1. SUFFICES ASSUME i < j PROVE FALSE
            OBVIOUS
          <6>2. Outranks(s[i], c, needs) /\ s[i] \in A
            BY <2>1, <5>2, <6>1
          <6> QED
            BY <1>1, <5>1, <6>2, OutranksOrders
        <5> QED
          BY <1>1, <5>2, <5>3
      <4> QED
        BY <4>1, <4>2
    <3>2. head \in Bijection(1 .. i, {s[j] : j \in 1 .. i})
      <4>1. 1 .. i \subseteq 1 .. n
        BY <1>1
      <4>2. \A j, k \in 1 .. i : s[j] = s[k] => j = k
        BY <2>1, <4>1 DEF IsInjective
      <4>3. head \in [1 .. i -> {s[j] : j \in 1 .. i}]
        OBVIOUS
      <4>4. \A j \in 1 .. i : head[j] = s[j]
        OBVIOUS
      <4>5. IsInjective(head)
        BY <4>2 DEF IsInjective
      <4> QED
        BY <4>3, <4>4, <4>5 DEF Bijection, Injection, Surjection
    <3>3. Cardinality({s[j] : j \in 1 .. i}) = i
      <4>1. IsFiniteSet(1 .. i) /\ Cardinality(1 .. i) = i
        BY <1>1, FS_Interval
      <4> HIDE DEF head
      <4> QED
        BY <3>2, <4>1, FS_Bijection DEF ExistsBijection
    <3>4. s[i] \in A /\ place[s[i]] = i
      BY <2>1, <3>1, <3>3 DEF Place, place
    <3> QED
      BY <1>4, <1>7, <3>4
  <2>4. s = [i \in 1 .. n |-> s[i]] /\ sorted = [i \in 1 .. n |-> sorted[i]]
    BY <1>8, <2>1
  <2> HIDE DEF n
  <2> QED
    BY <2>3, <2>4
<1> HIDE DEF sorted
<1> QED
  BY <1>9, <1>10
(* Under the default strategy the lead of a healthy local slot is larger     *)
(* than all the other parts of an upstream's score together.                 *)
Balanced(needs) == needs.strategy \notin {"fastest", "quality", "economy"}

LEMMA BalancedScore ==
  ASSUME NEW c, NEW needs, Balanced(needs)
  PROVE  Score(c, needs) =
           25 * LocalScore(c) + 35 * RoleScore(c, needs) + 20 * HealthScore(c.health)
             + 5 * ContextScore(c, needs) + 5 * c.quality + 10 * LatencyScore(c)
BY DEF Score, Balanced

LEMMA LocalLead ==
  ASSUME NEW c, Measured(c), c.source = "local", c.health = "healthy",
         NEW needs, needs.ctx \in Nat, Balanced(needs)
  PROVE  Score(c, needs) >= 6075
<1>1. HealthScore(c.health) = 100 /\ LocalScore(c) = 100
  BY DEF HealthScore, LocalScore
<1>2. /\ RoleScore(c, needs) \in 45 .. 125 /\ ContextScore(c, needs) \in 0 .. 100
      /\ LatencyScore(c) \in 0 .. 100 /\ c.quality \in 0 .. 100
  BY PartBounds DEF Measured
<1>3. Score(c, needs) =
        25 * LocalScore(c) + 35 * RoleScore(c, needs) + 20 * HealthScore(c.health)
          + 5 * ContextScore(c, needs) + 5 * c.quality + 10 * LatencyScore(c)
  BY BalancedScore
<1> DEFINE role == RoleScore(c, needs)
           context == ContextScore(c, needs)
           quality == c.quality
           latency == LatencyScore(c)
<1>4. Score(c, needs) = 2500 + 35 * role + 2000 + 5 * context + 5 * quality + 10 * latency
  BY <1>1, <1>3
<1>5. role \in 45 .. 125 /\ context \in 0 .. 100 /\ quality \in 0 .. 100 /\ latency \in 0 .. 100
  BY <1>2
<1> HIDE DEF role, context, quality, latency
<1> QED
  BY <1>4, <1>5

LEMMA UpstreamScore ==
  ASSUME NEW id, NEW config, NEW needs, needs.ctx \in Nat, Balanced(needs)
  PROVE  Score(UpstreamCandidate(id, config), needs) <= 5725
<1> DEFINE c == UpstreamCandidate(id, config)
<1>1. /\ c.source = "upstream" /\ c.slot = NoSlot /\ c.ctx = 0 /\ c.latency = Unset
      /\ c.health = "unknown" /\ c.quality = 75 /\ c.role = "chat"
  BY DEF UpstreamCandidate, RoleQuality
<1> HIDE DEF c
<1>2. RoleScore(c, needs) \in Int /\ RoleScore(c, needs) <= 100
  BY <1>1 DEF RoleScore, Preferred
<1>3. HealthScore(c.health) = 55 /\ LocalScore(c) = 0 /\ LatencyScore(c) = 50
  BY <1>1 DEF HealthScore, LocalScore, LatencyScore
<1>4. ContextScore(c, needs) = 50
  BY <1>1 DEF ContextScore
<1>5. Score(c, needs) <= 5725
  BY <1>1, <1>2, <1>3, <1>4, BalancedScore
<1> QED
  BY <1>5 DEF c

-----------------------------------------------------------------------------
(* What is ranked, and the chain it makes. *)

Roles == {"chat"} \cup {Hinted(SlotConfig[s]).role : s \in Slots} \cup {NeedsOf(r).role : r \in Requests}

(* A candidate, for needs that are local only or not. *)
IsCandidate(c, needs) ==
  /\ c.slot \in Slots \cup {NoSlot} /\ c.role \in Roles
  /\ c.source = "upstream" => c.id \in Upstreams /\ ~needs.localOnly

LEMMA CandidatesFinite ==
  ASSUME RoutingAssumption, NEW t, NEW rows, NEW funded \in SUBSET Upstreams
  PROVE  /\ IsFiniteSet(CandidatesOf(t, rows, funded))
         /\ \A c \in CandidatesOf(t, rows, funded) : IsCandidate(c, task[t].needs)
<1> DEFINE L == {SlotCandidate(s, SlotConfig[s], rows[s]) : s \in Slots}
           U == {UpstreamCandidate(u, UpstreamConfig[u]) : u \in funded}
           private == task[t].needs.localOnly \/ task[t].needs.role = "embed"
<1>1. IsFiniteSet(L)
  <2>1. [s \in Slots |-> SlotCandidate(s, SlotConfig[s], rows[s])] \in Surjection(Slots, L)
    BY DEF Surjection
  <2> HIDE DEF L
  <2> QED
    BY <2>1, RoutingAssumption, FS_Surjection
<1>2. IsFiniteSet(U)
  <2>1. [u \in funded |-> UpstreamCandidate(u, UpstreamConfig[u])] \in Surjection(funded, U)
    BY DEF Surjection
  <2>2. IsFiniteSet(funded)
    BY RoutingAssumption, FS_Subset
  <2> HIDE DEF U
  <2> QED
    BY <2>1, <2>2, FS_Surjection
<1>3. CandidatesOf(t, rows, funded) = L \cup (IF private THEN {} ELSE U)
  BY DEF CandidatesOf
<1>4. ASSUME NEW c \in L PROVE IsCandidate(c, task[t].needs)
  BY DEF SlotCandidate, IsCandidate, Roles
<1>5. ASSUME NEW c \in U, ~private PROVE IsCandidate(c, task[t].needs)
  BY <1>5 DEF UpstreamCandidate, IsCandidate, Roles
<1> HIDE DEF L, U, private
<1>6. IsFiniteSet(L \cup (IF private THEN {} ELSE U))
  BY <1>1, <1>2, FS_Union, FS_EmptySet
<1> QED
  BY <1>3, <1>4, <1>5, <1>6

LEMMA RankingIsSeq ==
  ASSUME NEW S, IsFiniteSet(S), NEW needs, NEW ranked \in Rankings(S, needs)
  PROVE  ranked \in Seq(S)
<1> DEFINE A == {c \in S : ~Rejected(c, needs)}
<1>1. Cardinality(A) \in Nat
  BY FS_Subset, FS_CardinalityType
<1>2. ranked \in [1 .. Cardinality(A) -> A]
  BY DEF Rankings
<1>3. A \subseteq S
  OBVIOUS
<1> HIDE DEF A
<1>4. ranked \in [1 .. Cardinality(A) -> S]
  BY <1>2, <1>3
<1> QED
  BY <1>1, <1>4, SeqDef

(* One more slot of the chain, and the chain function up to k. *)
Link(ranked, f, n) ==
  IF n = 0 THEN <<>>
  ELSE IF ranked[n].slot \in {NoSlot} \cup Range(f[n - 1]) THEN f[n - 1]
  ELSE Append(f[n - 1], ranked[n].slot)
Links(ranked, k, f) == f = [n \in 0 .. k |-> Link(ranked, f, n)]

LEMMA LinksExist ==
  ASSUME NEW ranked, NEW k \in Nat
  PROVE  \E f : Links(ranked, k, f)
<1> DEFINE Bad == {n \in Nat : ~\E f : Links(ranked, n, f)}
<1> SUFFICES ASSUME Bad # {} PROVE FALSE
  OBVIOUS
<1>1. PICK n \in Bad : \A m \in Bad : n <= m
  BY LeastNat
<1>2. CASE n = 0
  <2> DEFINE f == [i \in 0 .. 0 |-> <<>>]
  <2>1. \A i \in 0 .. 0 : Link(ranked, f, i) = <<>>
    BY DEF Link
  <2>2. Links(ranked, 0, f)
    BY <2>1 DEF Links
  <2> QED
    BY <1>2, <2>2
<1>3. CASE n > 0
  <2>1. n - 1 \in Nat /\ n - 1 \notin Bad
    BY <1>1, <1>3
  <2>2. PICK f : Links(ranked, n - 1, f)
    BY <2>1
  <2> DEFINE g == [i \in 0 .. n |-> IF i = n THEN Link(ranked, f, n) ELSE f[i]]
  <2>3. \A i \in 0 .. n - 1 : f[i] = Link(ranked, f, i)
    BY <2>1, <2>2 DEF Links
  <2>4. \A i \in 0 .. n : g[i] = Link(ranked, g, i)
    <3> SUFFICES ASSUME NEW i \in 0 .. n PROVE g[i] = Link(ranked, g, i)
      OBVIOUS
    <3>1. g[i] = Link(ranked, f, i)
      <4>1. CASE i = n
        BY <4>1
      <4>2. CASE i # n
        <5>1. i \in 0 .. n - 1
          BY <4>2
        <5> QED
          BY <2>3, <4>2, <5>1
      <4> QED
        BY <4>1, <4>2
    <3>2. i # 0 => i - 1 \in 0 .. n /\ i - 1 # n
      OBVIOUS
    <3>3. i # 0 => g[i - 1] = f[i - 1]
      BY <3>2
    <3> HIDE DEF g
    <3> QED
      BY <3>1, <3>3 DEF Link
  <2>5. g = [i \in 0 .. n |-> g[i]]
    OBVIOUS
  <2> HIDE DEF g
  <2>6. Links(ranked, n, g)
    BY <2>4, <2>5 DEF Links
  <2> QED
    BY <2>6
<1> QED
  BY <1>2, <1>3

(* The chain of what is ranked names slots, each once. *)
LEMMA ChainOfRanked ==
  ASSUME NEW ranked, Len(ranked) \in Nat, NEW S, NoSlot \notin S,
         \A n \in 1 .. Len(ranked) : ranked[n].slot \in S \cup {NoSlot}
  PROVE  RankedChain(ranked) \in Seq(S) /\ IsInjective(RankedChain(ranked))
<1> DEFINE N == Len(ranked)
           f == CHOOSE f : Links(ranked, N, f)
<1>1. RankedChain(ranked) = f[N]
  BY DEF RankedChain, Links, Link
<1>2. Links(ranked, N, f)
  BY LinksExist
<1>3. \A n \in 0 .. N : f[n] = Link(ranked, f, n)
  BY <1>2 DEF Links
<1> HIDE DEF f
<1> DEFINE Good(n) == f[n] \in Seq(S) /\ IsInjective(f[n])
           Bad == {n \in 0 .. N : ~Good(n)}
<1> SUFFICES ASSUME Bad # {} PROVE FALSE
  BY <1>1
<1>4. PICK n \in Bad : \A m \in Bad : n <= m
  <2>1. Bad \in SUBSET Nat
    OBVIOUS
  <2> HIDE DEF Bad
  <2> QED
    BY <2>1, LeastNat
<1>5. CASE n = 0
  <2>1. f[0] = <<>>
    BY <1>3, <1>5 DEF Link
  <2>2. <<>> \in Seq(S) /\ IsInjective(<<>>)
    BY DEF IsInjective
  <2> QED
    BY <1>4, <1>5, <2>1, <2>2
<1>6. CASE n > 0
  <2>1. n - 1 \in 0 .. N /\ n - 1 \notin Bad /\ n \in 1 .. N
    BY <1>4, <1>6
  <2>2. Good(n - 1)
    BY <2>1
  <2> DEFINE c == f[n - 1]
             x == ranked[n].slot
  <2>3. f[n] = IF x \in {NoSlot} \cup Range(c) THEN c ELSE Append(c, x)
    BY <1>3, <1>6, <2>1 DEF Link
  <2>4. c \in Seq(S) /\ IsInjective(c)
    BY <2>2
  <2>5. x \in S \cup {NoSlot}
    BY <2>1
  <2> HIDE DEF c, x
  <2>6. CASE x \in {NoSlot} \cup Range(c)
    BY <1>4, <2>3, <2>4, <2>6
  <2>7. CASE x \notin {NoSlot} \cup Range(c)
    <3>1. f[n] = Append(c, x) /\ x \in S
      BY <2>3, <2>5, <2>7
    <3>2. /\ Append(c, x) \in Seq(S) /\ Len(c) \in Nat
          /\ Len(Append(c, x)) = Len(c) + 1
          /\ \A i \in 1 .. Len(c) : Append(c, x)[i] = c[i]
          /\ Append(c, x)[Len(c) + 1] = x
      BY <2>4, <3>1, AppendProperties
    <3>3. DOMAIN Append(c, x) = 1 .. Len(c) + 1 /\ DOMAIN c = 1 .. Len(c)
      BY <2>4, <3>2
    <3>4. \A i \in 1 .. Len(c) : c[i] # x
      BY <2>7, <3>3 DEF Range
    <3>5. IsInjective(Append(c, x))
      <4> SUFFICES ASSUME NEW i \in 1 .. Len(c) + 1, NEW j \in 1 .. Len(c) + 1,
                          Append(c, x)[i] = Append(c, x)[j]
                   PROVE  i = j
        BY <3>3 DEF IsInjective
      <4>1. CASE i \in 1 .. Len(c) /\ j \in 1 .. Len(c)
        BY <2>4, <3>2, <3>3, <4>1 DEF IsInjective
      <4>2. CASE i = Len(c) + 1 \/ j = Len(c) + 1
        <5>1. i \in 1 .. Len(c) \/ i = Len(c) + 1
          BY <3>2
        <5>2. j \in 1 .. Len(c) \/ j = Len(c) + 1
          BY <3>2
        <5> QED
          BY <3>2, <3>4, <4>2, <5>1, <5>2
      <4> QED
        BY <3>2, <4>1, <4>2
    <3> QED
      BY <1>4, <3>1, <3>2, <3>5
  <2> QED
    BY <2>6, <2>7
<1> QED
  BY <1>4, <1>5, <1>6

-----------------------------------------------------------------------------
(* The state of routing. *)

Pcs == {"idle", "reading", "walking", "snapshot", "decided"}
Results == {"none", "upstream", "refused", "unavailable", "no_slot", "local"}
Pins == {NoSlot} \cup {r.pin : r \in Requests}
Asks == {NoNeeds} \cup {NeedsOf(r) : r \in Requests}
AllNeeds == Asks \cup {[NoNeeds EXCEPT !.localOnly = a.localOnly] : a \in Asks}
Ages == 0 .. ProbeTimeout
Probes == [age : Ages, seen : {"none", "ok", "bad"}]
Rows == [Slots -> Verdicts]
SlotChains == Seq(Names \ {NoSlot})
Fallbacks == Upstreams \cup {NoSlot}
Refusals == SUBSET Names
Texts == {NoText} \cup {r.text : r \in Requests}
Enforcings == {FALSE} \cup {r.enforced : r \in Requests}
Entries == [left : 0 .. CacheTtl, status : Verdicts]

TaskRecords ==
  [pc : Pcs, pin : Pins, needs : AllNeeds, slot : Names, probe : Probes, awaiting : BOOLEAN,
   rows : Rows, chain : SlotChains, fallback : Fallbacks, refused : Refusals, text : Texts,
   enforced : Enforcings, upstream : Fallbacks, result : Results]

Active(w) == w.pc \in {"reading", "walking", "snapshot"}
Runs(w) == Active(w) /\ ~w.awaiting

(* Walked so far: from the first slot checked to the one under check, none of *)
(* the chain is left out, because the chain names no slot twice.              *)
Seen(w) == w.refused \cup {w.slot}
InOrder(w) ==
  /\ IsInjective(w.chain)
  /\ \A k \in DOMAIN w.chain : w.chain[k] = w.slot =>
       \A i, j \in DOMAIN w.chain : i < j /\ j <= k /\ w.chain[i] \in Seen(w) => w.chain[j] \in Seen(w)

(* An upstream the request may be sent to. *)
Lawful(w) ==
  /\ ~w.needs.localOnly
  /\ w.enforced => Sheltered(Policy, TierOf(Policy, UpstreamTier[w.upstream]), w.text)

(* A request whose slots have been down for d.  What a probe saw is no older *)
(* than the probe.                                                           *)
Fits(w, d) ==
  /\ w.awaiting => w.slot \in Slots /\ Active(w)
  /\ w.probe.seen # "none" => w.awaiting
  /\ w.awaiting /\ w.probe.seen = "ok" => d[w.slot] <= w.probe.age
  /\ w.pc = "reading" => w.refused = {}
  /\ w.pc = "walking" => InOrder(w)
  /\ Active(w) /\ w.fallback # NoSlot => ~w.needs.localOnly
  /\ w.result = "upstream" => Lawful(w)

(* What the cache says of a slot it calls healthy has not been false for      *)
(* longer than the probe took and the entry has lived.                        *)
HealthOK ==
  /\ up \in [Slots -> BOOLEAN] /\ down \in [Slots -> 0 .. Stale] /\ cache \in [Slots -> Entries]
  /\ flips \in 0 .. MaxFlips
  /\ \A s \in Slots :
       /\ up[s] => down[s] = 0
       /\ cache[s].left > 0 /\ cache[s].status = "healthy"
            => down[s] + cache[s].left <= CacheTtl + ProbeTimeout

TasksOK ==
  /\ task \in [Tasks -> TaskRecords] /\ loop \in Tasks \cup {NoTask}
  /\ \A t \in Tasks : Fits(task[t], down) /\ (Runs(task[t]) <=> loop = t)

SInv == HealthOK /\ TasksOK

(* What the properties say of a step that leads from was to w. *)
DownGood(was, w) == was.pc = "walking" /\ w.pc = "snapshot" => down[was.slot] < Stale
OrderGood(was, w) ==
  was.pc = "walking" /\ w.pc # "walking" =>
    LET passed == {i \in DOMAIN was.chain :
                     \/ w.pc = "decided"
                     \/ \E j \in DOMAIN was.chain : was.chain[j] = was.slot /\ i <= j}
    IN  \A i, j \in passed : i < j /\ was.chain[i] \in Seen(was) => was.chain[j] \in Seen(was)
StepGood(was, w) == DownGood(was, w) /\ OrderGood(was, w)

(* The task of t goes on as w, and keeps the loop just when it runs. *)
Moves(t, w) ==
  /\ w \in TaskRecords /\ Fits(w, down) /\ StepGood(task[t], w)
  /\ task' = [task EXCEPT ![t] = w]
  /\ IF Runs(w) THEN loop' = t ELSE loop' = NoTask

LEMMA Sizes == /\ CacheTtl \in Nat /\ CacheTtl > 0 /\ ProbeTimeout \in Nat /\ ProbeTimeout > 0
               /\ Stale \in Nat /\ Stale = CacheTtl + ProbeTimeout + 1
BY RoutingAssumption DEF Stale

LEMMA NamesKnown ==
  /\ Slots \subseteq Names /\ Slots \subseteq Names \ {NoSlot} /\ NoSlot \in Names
  /\ Upstreams \subseteq Names /\ NoSlot \notin Slots /\ NoSlot \notin Upstreams
  /\ \A r \in DOMAIN Chains : Range(Chains[r]) \ {NoSlot} \subseteq Names \ {NoSlot}
  /\ \A needs \in AllNeeds : needs.preferred \in Names
<1>1. NoNeeds.preferred = NoSlot /\ \A a : [NoNeeds EXCEPT !.localOnly = a].preferred = NoSlot
  BY DEF NoNeeds
<1>2. \A needs \in AllNeeds : needs.preferred = NoSlot \/ \E r \in Requests : needs = NeedsOf(r)
  BY <1>1 DEF AllNeeds, Asks
<1> QED
  BY <1>2, RoutingAssumption DEF Names

LEMMA RolesKnown == Roles \subseteq DOMAIN Chains /\ \A needs \in AllNeeds : needs.role \in Roles
<1>1. NoNeeds.role = "chat" /\ \A a : [NoNeeds EXCEPT !.localOnly = a].role = "chat"
  BY DEF NoNeeds
<1>2. \A needs \in AllNeeds : needs.role = "chat" \/ \E r \in Requests : needs = NeedsOf(r)
  BY <1>1 DEF AllNeeds, Asks
<1> QED
  BY <1>2, RoleAssumption DEF Roles

LEMMA NeedsClosed ==
  \A needs \in AllNeeds :
    /\ [NoNeeds EXCEPT !.localOnly = needs.localOnly] \in AllNeeds
    /\ [NoNeeds EXCEPT !.localOnly = needs.localOnly].localOnly = needs.localOnly
<1>1. \A a : [NoNeeds EXCEPT !.localOnly = a].localOnly = a
  BY DEF NoNeeds
<1> QED
  BY <1>1 DEF AllNeeds

(* Hypotheses that every decision of a request satisfies. *)
LEMMA CandidatesComparable ==
  ASSUME NEW t, NEW rows, NEW funded \in SUBSET Upstreams
  PROVE  Comparable(CandidatesOf(t, rows, funded))
<1> DEFINE L == {SlotCandidate(s, SlotConfig[s], rows[s]) : s \in Slots}
           U == {UpstreamCandidate(u, UpstreamConfig[u]) : u \in funded}
<1>1. ASSUME NEW s \in Slots PROVE Measured(SlotCandidate(s, SlotConfig[s], rows[s]))
  <2> DEFINE c == Hinted(SlotConfig[s])
  <2>1. /\ s \in Int /\ c.ctx \in Nat /\ OrElse(c.latency, 0) \in Int
        /\ OrElse(c.quality, 0) \in 0 .. 100 /\ OrElse(c.cost, 0) \in 0 .. 100
    BY RoutingAssumption, HintAssumption
  <2> HIDE DEF c
  <2>2. RoleQuality(c.role) \in 0 .. 100 /\ RoleLatency(c.role) \in Int
    BY DEF RoleQuality, RoleLatency
  <2>3. \A cost \in {25, 60, 100} : OrElse(c.cost, cost) \in 0 .. 100
    BY <2>1 DEF OrElse
  <2>4. OrElse(c.quality, RoleQuality(c.role)) \in 0 .. 100
    BY <2>1, <2>2 DEF OrElse
  <2>5. OrElse(OrElse(c.latency, RoleLatency(c.role)), 0) \in Int
    BY <2>1, <2>2 DEF OrElse
  <2>6. (CASE c.cpu -> 25 [] ~c.cpu /\ c.role \in {"utility", "embed"} -> 60 [] OTHER -> 100)
          \in {25, 60, 100}
    OBVIOUS
  <2> QED
    BY <2>1, <2>3, <2>4, <2>5, <2>6 DEF SlotCandidate, Measured, c
<1>2. ASSUME NEW u \in funded PROVE Measured(UpstreamCandidate(u, UpstreamConfig[u]))
  BY HintAssumption DEF UpstreamCandidate, Measured, RoleQuality, OrElse
<1>3. /\ \A s \in Slots : SlotCandidate(s, SlotConfig[s], rows[s]).id = s
      /\ \A u \in funded : UpstreamCandidate(u, UpstreamConfig[u]).id = u
  BY DEF SlotCandidate, UpstreamCandidate
<1>4. \A c \in L \cup U : Measured(c)
  BY <1>1, <1>2
<1>5. \A c, d \in L \cup U : c.id = d.id => c = d
  BY <1>3, RoutingAssumption
<1>6. CandidatesOf(t, rows, funded) \subseteq L \cup U
  BY DEF CandidatesOf
<1> HIDE DEF L, U
<1> QED
  BY <1>4, <1>5, <1>6 DEF Comparable

LEMMA SizesKnown == \A needs \in AllNeeds : needs.ctx \in Nat
<1>1. NoNeeds.ctx = 0 /\ \A a : [NoNeeds EXCEPT !.localOnly = a].ctx = 0
  BY DEF NoNeeds
<1>2. \A needs \in AllNeeds : needs.ctx = 0 \/ \E r \in Requests : needs = NeedsOf(r)
  BY <1>1 DEF AllNeeds, Asks
<1> QED
  BY <1>2, HintAssumption

(* The list of rank_candidates is determined by the health it read and the   *)
(* upstreams it found funded: no request meets a tie, or finds no order.     *)
THEOREM RankingIsDetermined ==
  ASSUME NEW t \in Tasks, task[t].needs \in AllNeeds, NEW rows, NEW funded \in SUBSET Upstreams
  PROVE  \E ranked : Rankings(CandidatesOf(t, rows, funded), task[t].needs) = {ranked}
<1>1. IsFiniteSet(CandidatesOf(t, rows, funded))
  BY RoutingAssumption, CandidatesFinite
<1> QED
  BY <1>1, CandidatesComparable, SizesKnown, OneRanking

(* Under the default strategy a healthy slot that the gates admit keeps the  *)
(* decision local, whatever its role, its hints and the upstreams are.  The   *)
(* docstring of build_upstream_candidates says so of every strategy; of the  *)
(* others it is not true.                                                    *)
THEOREM HealthyStaysLocal ==
  ASSUME NEW t \in Tasks, task[t].needs \in AllNeeds, Balanced(task[t].needs),
         NEW rows, NEW funded \in SUBSET Upstreams,
         NEW s \in Slots, rows[s] = "healthy",
         ~Rejected(SlotCandidate(s, SlotConfig[s], rows[s]), task[t].needs),
         NEW ranked \in Rankings(CandidatesOf(t, rows, funded), task[t].needs)
  PROVE  ranked # <<>> /\ Head(ranked).source = "local"
<1> DEFINE S == CandidatesOf(t, rows, funded)
           needs == task[t].needs
           A == {c \in S : ~Rejected(c, needs)}
           n == Cardinality(A)
           own == SlotCandidate(s, SlotConfig[s], rows[s])
<1>1. IsFiniteSet(S) /\ Comparable(S) /\ needs.ctx \in Nat
  BY RoutingAssumption, CandidatesFinite, CandidatesComparable, SizesKnown
<1>2. own \in A /\ own.source = "local" /\ own.health = "healthy"
  BY DEF CandidatesOf, SlotCandidate
<1>3. \A c \in S : c.source = "local" \/ \E u \in funded : c = UpstreamCandidate(u, UpstreamConfig[u])
  BY DEF CandidatesOf, SlotCandidate
<1>4. /\ ranked \in [1 .. n -> A] /\ IsInjective(ranked)
      /\ \A i, j \in 1 .. n : i < j => Outranks(ranked[i], ranked[j], needs)
  BY DEF Rankings
<1>5. ranked \in Seq(S)
  BY <1>1, RankingIsSeq
<1>6. A \subseteq S
  OBVIOUS
<1> HIDE DEF S, needs, A, own
<1>7. IsFiniteSet(A) /\ n \in Nat
  BY <1>1, <1>6, FS_Subset, FS_CardinalityType
<1>8. PICK k \in 1 .. n : ranked[k] = own
  <2>1. IsFiniteSet(1 .. n) /\ Cardinality(1 .. n) = n
    BY <1>7, FS_Interval
  <2>2. ranked \in Injection(1 .. n, A)
    BY <1>4 DEF Injection
  <2>3. ranked \in Surjection(1 .. n, A)
    BY <1>7, <2>1, <2>2, FS_Injection
  <2> QED
    BY <1>2, <2>3 DEF Surjection
<1>9. 1 \in 1 .. n /\ ranked # <<>> /\ Head(ranked) = ranked[1] /\ ranked[1] \in A
  BY <1>4, <1>5, <1>7, <1>8
<1>10. CASE k = 1
  BY <1>2, <1>8, <1>9, <1>10
<1>11. CASE k # 1
  <2>1. Outranks(ranked[1], own, needs)
    BY <1>4, <1>8, <1>9, <1>11
  <2>2. Score(own, needs) >= 6075 /\ Score(own, needs) \in Int /\ Score(ranked[1], needs) \in Int
    <3>1. Measured(own) /\ Measured(ranked[1])
      BY <1>1, <1>2, <1>6, <1>9 DEF Comparable
    <3>2. Balanced(needs)
      BY DEF needs
    <3> QED
      BY <1>1, <1>2, <3>1, <3>2, LocalLead, ScoreIsInt
  <2>3. Score(ranked[1], needs) >= Score(own, needs)
    BY <2>1, <2>2 DEF Outranks
  <2>4. ASSUME NEW u \in funded, ranked[1] = UpstreamCandidate(u, UpstreamConfig[u]) PROVE FALSE
    <3>1. Score(ranked[1], needs) <= 5725
      BY <1>1, <2>4, UpstreamScore DEF needs
    <3> QED
      BY <2>2, <2>3, <3>1
  <2> QED
    BY <1>3, <1>6, <1>9, <2>4
<1> QED
  BY <1>10, <1>11

LEMMA IdleIsTask ==
  /\ Idle \in TaskRecords /\ Idle.pc = "idle" /\ ~Idle.awaiting /\ Idle.probe = NoProbe
  /\ Idle.needs = NoNeeds /\ Idle.result = "none" /\ Idle.rows \in Rows /\ Idle.refused = {}
  /\ Idle.fallback = NoSlot /\ NoProbe \in Probes /\ NoProbe.seen = "none"
<1>1. NoNeeds \in AllNeeds
  BY DEF AllNeeds, Asks
<1>2. NoProbe \in Probes /\ NoProbe.seen = "none"
  BY Sizes DEF NoProbe, Probes, Ages
<1>3. [s \in Slots |-> "unknown"] \in Rows
  BY DEF Rows, Verdicts
<1>4. <<>> \in SlotChains
  BY DEF SlotChains
<1>5. /\ NoSlot \in Names /\ NoSlot \in Fallbacks /\ NoSlot \in Pins /\ NoText \in Texts
      /\ FALSE \in Enforcings /\ {} \in Refusals /\ "idle" \in Pcs /\ "none" \in Results
      /\ FALSE \in BOOLEAN
  BY NamesKnown DEF Fallbacks, Pins, Texts, Enforcings, Refusals, Pcs, Results
<1> QED
  BY <1>1, <1>2, <1>3, <1>4, <1>5 DEF Idle, TaskRecords

(* A request that is decided. *)
LEMMA DecidedMoves ==
  ASSUME NEW t \in Tasks, NEW request \in TaskRecords, NEW result \in Results,
         NEW upstream \in Fallbacks, Decided(t, request, result, upstream),
         OrderGood(task[t], [pc |-> "decided"]),
         result = "upstream" =>
           /\ ~request.needs.localOnly
           /\ request.enforced =>
                Sheltered(Policy, TierOf(Policy, UpstreamTier[upstream]), request.text)
  PROVE  \E w : Moves(t, w)
<1> DEFINE w == [Idle EXCEPT !.pc = "decided", !.result = result, !.upstream = upstream,
                    !.text = request.text, !.enforced = request.enforced,
                    !.needs.localOnly = request.needs.localOnly]
           needs == [NoNeeds EXCEPT !.localOnly = request.needs.localOnly]
<1>1. /\ request.needs \in AllNeeds /\ request.text \in Texts /\ request.enforced \in Enforcings
  BY DEF TaskRecords
<1>2. needs \in AllNeeds /\ needs.localOnly = request.needs.localOnly
  BY <1>1, NeedsClosed
<1>3. w = [Idle EXCEPT !.pc = "decided", !.result = result, !.upstream = upstream,
             !.text = request.text, !.enforced = request.enforced, !.needs = needs]
  BY IdleIsTask DEF TaskRecords
<1> HIDE DEF needs
<1>4. /\ w \in TaskRecords /\ w.pc = "decided" /\ w.needs = needs /\ w.text = request.text
      /\ w.enforced = request.enforced /\ w.upstream = upstream /\ w.result = result
      /\ w.awaiting = Idle.awaiting /\ w.probe = Idle.probe
  <2>1. "decided" \in Pcs
    BY DEF Pcs
  <2> QED
    BY <1>1, <1>2, <1>3, <2>1, IdleIsTask DEF TaskRecords
<1>5. task' = [task EXCEPT ![t] = w] /\ loop' = NoTask
  BY DEF Decided
<1> HIDE DEF w
<1>6. ~Active(w)
  BY <1>4 DEF Active
<1>7. Fits(w, down)
  BY <1>2, <1>4, <1>6, IdleIsTask DEF Fits, Lawful
<1>8. StepGood(task[t], w)
  BY <1>4 DEF StepGood, DownGood, OrderGood
<1>9. ~Runs(w)
  BY <1>6 DEF Runs
<1> QED
  BY <1>4, <1>5, <1>7, <1>8, <1>9 DEF Moves

LEMMA ForwardedMoves ==
  ASSUME NEW t \in Tasks, NEW request \in TaskRecords, NEW upstream \in Upstreams,
         ~request.needs.localOnly, Forwarded(t, request, upstream),
         OrderGood(task[t], [pc |-> "decided"])
  PROVE  \E w : Moves(t, w)
<1>1. upstream \in Fallbacks /\ NoSlot \in Fallbacks /\ "upstream" \in Results /\ "refused" \in Results
  BY DEF Fallbacks, Results
<1>2. CASE MayForward(Policy, UpstreamTier[upstream], request.text, request.enforced)
  <2>1. Decided(t, request, "upstream", upstream)
    BY <1>2 DEF Forwarded
  <2>2. ASSUME request.enforced
        PROVE  Sheltered(Policy, TierOf(Policy, UpstreamTier[upstream]), request.text)
    <3>1. MayForward(Policy, UpstreamTier[upstream], request.text, TRUE)
      BY <1>2, <2>2 DEF MayForward
    <3> QED
      BY <3>1, GateShelters, PolicyAssumption
  <2> QED
    BY <1>1, <2>1, <2>2, DecidedMoves
<1>3. CASE ~MayForward(Policy, UpstreamTier[upstream], request.text, request.enforced)
  <2>1. Decided(t, request, "refused", NoSlot)
    BY <1>3 DEF Forwarded
  <2> QED
    BY <1>1, <2>1, DecidedMoves
<1> QED
  BY <1>2, <1>3

LEMMA ExhaustedMoves ==
  ASSUME NEW t \in Tasks, task[t] \in TaskRecords, NEW fallback \in Fallbacks,
         fallback # NoSlot => ~task[t].needs.localOnly, Exhausted(t, fallback),
         OrderGood(task[t], [pc |-> "decided"])
  PROVE  \E w : Moves(t, w)
<1>1. CASE fallback # NoSlot
  <2>1. fallback \in Upstreams /\ Forwarded(t, task[t], fallback)
    BY <1>1 DEF Fallbacks, Exhausted
  <2> QED
    BY <1>1, <2>1, ForwardedMoves
<1>2. CASE fallback = NoSlot
  <2>1. \E result \in {"unavailable", "no_slot"} : Decided(t, task[t], result, NoSlot)
    BY <1>2 DEF Exhausted
  <2>2. PICK result \in {"unavailable", "no_slot"} : Decided(t, task[t], result, NoSlot)
    BY <2>1
  <2>3. result \in Results /\ result # "upstream" /\ NoSlot \in Fallbacks
    BY DEF Results, Fallbacks
  <2> QED
    BY <2>2, <2>3, DecidedMoves
<1> QED
  BY <1>1, <1>2

LEMMA GoesMoves ==
  ASSUME NEW t \in Tasks, NEW w \in TaskRecords, Goes(t, w), Fits(w, down),
         StepGood(task[t], w), Active(w), ~w.awaiting
  PROVE  \E v : Moves(t, v)
BY DEF Goes, Moves, Runs

(* A request arrives. *)
LEMMA ArriveMoves ==
  ASSUME NEW t \in Tasks, NEW request \in Requests, Arrive(t, request)
  PROVE  \E w : Moves(t, w)
<1> DEFINE pin == request.pin
           asked == PinnedBody(request.body, pin)
           needs == NeedsOf(request)
           arrived == [Idle EXCEPT !.pin = pin, !.needs = needs, !.text = request.text,
                                   !.enforced = request.enforced]
           going == [arrived EXCEPT !.pc = "reading", !.slot = Min(Slots)]
<1>1. needs \in AllNeeds /\ pin \in Pins /\ request.text \in Texts /\ request.enforced \in Enforcings
  BY DEF AllNeeds, Asks, Pins, Texts, Enforcings
<1>2. /\ task[t].pc = "idle"
      /\ \/ asked.target \in Upstreams /\ RefusedByPrivacy(arrived.needs)
              /\ Decided(t, arrived, "refused", NoSlot)
         \/ asked.target \in Upstreams /\ ~RefusedByPrivacy(arrived.needs)
              /\ Forwarded(t, arrived, asked.target)
         \/ Decided(t, arrived, "unavailable", NoSlot)
         \/ Goes(t, going)
  BY DEF Arrive
<1> HIDE DEF needs, pin, asked
<1>3. /\ arrived \in TaskRecords /\ arrived.needs = needs /\ arrived.probe = NoProbe
      /\ ~arrived.awaiting /\ arrived.refused = {} /\ arrived.fallback = NoSlot
      /\ arrived.result = "none"
  BY <1>1, IdleIsTask DEF TaskRecords
<1> HIDE DEF arrived
<1>4. OrderGood(task[t], [pc |-> "decided"]) /\ \A w : StepGood(task[t], w)
  BY <1>2 DEF OrderGood, StepGood, DownGood
<1>5. NoSlot \in Fallbacks /\ "refused" \in Results /\ "unavailable" \in Results /\ "reading" \in Pcs
  BY DEF Fallbacks, Results, Pcs
<1>6. CASE Decided(t, arrived, "refused", NoSlot) \/ Decided(t, arrived, "unavailable", NoSlot)
  BY <1>3, <1>4, <1>5, <1>6, DecidedMoves
<1>7. CASE asked.target \in Upstreams /\ ~RefusedByPrivacy(arrived.needs)
             /\ Forwarded(t, arrived, asked.target)
  BY <1>3, <1>4, <1>7, ForwardedMoves DEF RefusedByPrivacy
<1>8. CASE Goes(t, going)
  <2>1. Min(Slots) \in Names
    BY MinIsLeast, RoutingAssumption, NamesKnown
  <2>2. /\ going \in TaskRecords /\ going.pc = "reading" /\ going.probe = NoProbe
        /\ ~going.awaiting /\ going.refused = {} /\ going.fallback = NoSlot /\ going.result = "none"
    BY <1>3, <1>5, <2>1 DEF TaskRecords
  <2> HIDE DEF going
  <2>3. Active(going) /\ Fits(going, down)
    BY <2>2, IdleIsTask DEF Fits, Active
  <2> QED
    BY <1>4, <1>8, <2>2, <2>3, GoesMoves
<1> QED
  BY <1>2, <1>6, <1>7, <1>8

(* The candidates have been read. *)
LEMMA RouteMoves ==
  ASSUME NEW t \in Tasks, task[t] \in TaskRecords, Fits(task[t], down), task[t].pc = "reading",
         NEW rows, Route(t, rows)
  PROVE  \E w : Moves(t, w)
<1> DEFINE was == task[t]
<1>1. PICK funded \in SUBSET Upstreams :
      \E ranked \in Rankings(CandidatesOf(t, rows, funded), was.needs) :
        LET needs == was.needs
            slots == RankedChain(ranked)
            role == IF ranked = <<>> THEN needs.role ELSE Head(ranked).role
            chain == IF slots = <<>> THEN Chains[role] ELSE slots
            first == IF ranked # <<>> /\ Head(ranked).slot # NoSlot
                     THEN Head(ranked).slot ELSE needs.preferred
            start == IF first # NoSlot THEN first ELSE IF chain = <<>> THEN NoSlot ELSE Head(chain)
            fallback == BestUpstream(ranked)
        IN  IF start = NoSlot THEN Exhausted(t, fallback)
            ELSE Goes(t, [was EXCEPT !.pc = "walking", !.slot = start, !.awaiting = FALSE,
                            !.probe = NoProbe, !.rows = Idle.rows, !.chain = chain,
                            !.fallback = fallback])
  BY DEF Route
<1> DEFINE S == CandidatesOf(t, rows, funded)
<1>2. PICK ranked \in Rankings(S, was.needs) :
        LET needs == was.needs
            slots == RankedChain(ranked)
            role == IF ranked = <<>> THEN needs.role ELSE Head(ranked).role
            chain == IF slots = <<>> THEN Chains[role] ELSE slots
            first == IF ranked # <<>> /\ Head(ranked).slot # NoSlot
                     THEN Head(ranked).slot ELSE needs.preferred
            start == IF first # NoSlot THEN first ELSE IF chain = <<>> THEN NoSlot ELSE Head(chain)
            fallback == BestUpstream(ranked)
        IN  IF start = NoSlot THEN Exhausted(t, fallback)
            ELSE Goes(t, [was EXCEPT !.pc = "walking", !.slot = start, !.awaiting = FALSE,
                            !.probe = NoProbe, !.rows = Idle.rows, !.chain = chain,
                            !.fallback = fallback])
  BY <1>1
<1> DEFINE needs == was.needs
           slots == RankedChain(ranked)
           role == IF ranked = <<>> THEN needs.role ELSE Head(ranked).role
           chain == IF slots = <<>> THEN Chains[role] ELSE slots
           first == IF ranked # <<>> /\ Head(ranked).slot # NoSlot
                    THEN Head(ranked).slot ELSE needs.preferred
           start == IF first # NoSlot THEN first ELSE IF chain = <<>> THEN NoSlot ELSE Head(chain)
           fallback == BestUpstream(ranked)
           w == [was EXCEPT !.pc = "walking", !.slot = start, !.awaiting = FALSE, !.probe = NoProbe,
                   !.rows = Idle.rows, !.chain = chain, !.fallback = fallback]
<1>3. IF start = NoSlot THEN Exhausted(t, fallback) ELSE Goes(t, w)
  BY <1>2
<1>4. IsFiniteSet(S) /\ \A c \in S : IsCandidate(c, was.needs)
  BY RoutingAssumption, CandidatesFinite
<1> HIDE DEF S
<1>5. ranked \in Seq(S) /\ Len(ranked) \in Nat /\ DOMAIN ranked = 1 .. Len(ranked)
      /\ (ranked # <<>> => Head(ranked) \in S)
      /\ \A n \in 1 .. Len(ranked) : ranked[n] \in S
  <2>1. ranked \in Seq(S)
    BY <1>4, RankingIsSeq
  <2> QED
    BY <2>1, HeadTailProperties, LenProperties, ElementOfSeq
<1>6. needs \in AllNeeds
  BY DEF TaskRecords
<1>7. slots \in Seq(Slots) /\ IsInjective(slots)
  <2>1. \A n \in 1 .. Len(ranked) : ranked[n].slot \in Slots \cup {NoSlot}
    BY <1>4, <1>5 DEF IsCandidate
  <2> QED
    BY <1>5, <2>1, NamesKnown, ChainOfRanked
<1>8. role \in DOMAIN Chains
  <2>1. ranked # <<>> => Head(ranked).role \in Roles
    BY <1>4, <1>5 DEF IsCandidate
  <2> QED
    BY <1>6, <2>1, RolesKnown
<1>9. fallback \in Fallbacks /\ (fallback # NoSlot => ~needs.localOnly)
  <2> DEFINE remote == {i \in DOMAIN ranked : ranked[i].source = "upstream"}
  <2>1. CASE remote = {}
    BY <2>1 DEF BestUpstream, Fallbacks
  <2>2. CASE remote # {}
    <3>1. remote \in SUBSET Nat
      BY <1>5
    <3> DEFINE m == Min(remote)
    <3>2. m \in remote
      BY <2>2, <3>1, MinIsLeast
    <3>3. fallback = ranked[m].id
      BY <2>2 DEF BestUpstream
    <3> HIDE DEF m
    <3> QED
      BY <1>4, <1>5, <3>2, <3>3 DEF IsCandidate, Fallbacks
  <2> QED
    BY <2>1, <2>2
<1>10. first \in Names
  <2>1. ranked # <<>> => Head(ranked).slot \in Slots \cup {NoSlot}
    BY <1>4, <1>5 DEF IsCandidate
  <2> QED
    BY <1>6, <2>1, NamesKnown
<1> HIDE DEF slots, role, fallback, first
<1>11. chain \in SlotChains /\ IsInjective(chain)
  <2>1. slots \in SlotChains
    BY <1>7, NamesKnown DEF SlotChains
  <2>2. Chains[role] \in SlotChains /\ IsInjective(Chains[role])
    <3> DEFINE A == Range(Chains[role]) \ {NoSlot}
               B == Names \ {NoSlot}
    <3>1. Chains[role] \in Seq(A) /\ IsInjective(Chains[role])
      BY <1>8, RoutingAssumption
    <3>2. A \subseteq B
      BY <1>8, NamesKnown
    <3>3. SlotChains = Seq(B)
      BY DEF SlotChains
    <3> HIDE DEF A, B
    <3> QED
      BY <3>1, <3>2, <3>3
  <2> QED
    BY <1>7, <2>1, <2>2
<1> HIDE DEF chain
<1>12. start \in Names
  <2>1. chain # <<>> => Head(chain) \in Names
    BY <1>11, HeadTailProperties DEF SlotChains
  <2> QED
    BY <1>10, <2>1, NamesKnown
<1> HIDE DEF start, needs
<1>13. OrderGood(was, [pc |-> "decided"]) /\ \A v : StepGood(was, v)
  BY DEF OrderGood, StepGood, DownGood
<1>14. CASE start = NoSlot
  BY <1>3, <1>9, <1>13, <1>14, ExhaustedMoves DEF needs
<1>15. CASE start # NoSlot
  <2>1. "walking" \in Pcs /\ FALSE \in BOOLEAN
    BY DEF Pcs
  <2>2. /\ w \in TaskRecords /\ w.pc = "walking" /\ w.slot = start /\ ~w.awaiting
        /\ w.probe = NoProbe /\ w.chain = chain /\ w.fallback = fallback
        /\ w.refused = was.refused /\ w.needs = needs /\ w.result = was.result
        /\ w.enforced = was.enforced /\ w.upstream = was.upstream /\ w.text = was.text
    BY <1>9, <1>11, <1>12, <2>1, IdleIsTask DEF TaskRecords, needs
  <2>3. Goes(t, w)
    BY <1>3, <1>15
  <2>4. was.refused = {} /\ (was.result = "upstream" => Lawful(was))
    BY DEF Fits
  <2> HIDE DEF w
  <2>5. Active(w) /\ Seen(w) = {start}
    BY <2>2, <2>4 DEF Active, Seen
  <2>6. InOrder(w)
    <3>1. DOMAIN chain \subseteq Nat
      BY <1>11 DEF SlotChains
    <3> SUFFICES ASSUME NEW k \in DOMAIN chain, chain[k] = start,
                        NEW i \in DOMAIN chain, NEW j \in DOMAIN chain, i < j, j <= k,
                        chain[i] \in {start}
                 PROVE  FALSE
      BY <1>11, <2>2, <2>5 DEF InOrder
    <3>2. i = k
      BY <1>11 DEF IsInjective
    <3> QED
      BY <3>1, <3>2
  <2>7. Fits(w, down)
    BY <1>9, <2>2, <2>4, <2>5, <2>6, IdleIsTask DEF Fits, Lawful, needs
  <2> QED
    BY <1>13, <2>2, <2>3, <2>5, <2>7, GoesMoves
<1> QED
  BY <1>14, <1>15

(* The slot that follows in a chain. *)
Follows(next, current, chain) ==
  /\ next = NoSlot => chain = <<>> \/ chain[Len(chain)] = current
  /\ next # NoSlot =>
       \E k \in DOMAIN chain :
         /\ chain[k] = next
         /\ k = 1 \/ (k - 1 \in DOMAIN chain /\ chain[k - 1] = current)
LEMMA NextLink ==
  ASSUME NEW chain \in SlotChains, NEW current
  PROVE  Follows(NextInChain(current, chain), current, chain)
<1> DEFINE next == NextInChain(current, chain)
<1> SUFFICES Follows(next, current, chain)
  OBVIOUS
<1>1. /\ Len(chain) \in Nat /\ DOMAIN chain = 1 .. Len(chain)
      /\ \A n \in 1 .. Len(chain) : chain[n] # NoSlot
  BY LenProperties, ElementOfSeq DEF SlotChains
<1>2. CASE chain = <<>>
  BY <1>1, <1>2 DEF NextInChain, Range, Follows
<1>3. CASE chain # <<>> /\ current \notin Range(chain)
  <2>1. Len(chain) # 0 /\ Head(chain) = chain[1] /\ next = Head(chain)
    BY <1>3, EmptySeq DEF NextInChain, SlotChains
  <2> QED
    BY <1>1, <2>1 DEF Follows
<1>4. CASE current \in Range(chain)
  <2> DEFINE i == CHOOSE j \in DOMAIN chain : chain[j] = current
  <2>1. i \in DOMAIN chain /\ chain[i] = current
    BY <1>4 DEF Range
  <2>2. next = IF i = Len(chain) THEN NoSlot ELSE chain[i + 1]
    BY <1>4 DEF NextInChain
  <2> HIDE DEF i, next
  <2>3. CASE i = Len(chain)
    BY <2>1, <2>2, <2>3 DEF Follows
  <2>4. CASE i # Len(chain)
    <3>1. i + 1 \in DOMAIN chain /\ (i + 1) - 1 = i
      BY <1>1, <2>1, <2>4
    <3> QED
      BY <1>1, <2>1, <2>2, <2>4, <3>1 DEF Follows
  <2> QED
    BY <2>3, <2>4
<1> QED
  BY <1>2, <1>3, <1>4

(* One link of the chain. *)
LEMMA WalkedMoves ==
  ASSUME NEW t \in Tasks, task[t] \in TaskRecords, Fits(task[t], down), task[t].pc = "walking",
         NEW verdict, task[t].slot \in Slots /\ verdict = "healthy" => down[task[t].slot] < Stale,
         Walked(t, verdict)
  PROVE  \E w : Moves(t, w)
<1> DEFINE was == task[t]
           s == was.slot
           chain == was.chain
           next == NextInChain(s, chain)
           taken == [was EXCEPT !.pc = "snapshot", !.awaiting = FALSE, !.probe = NoProbe]
           passed == [was EXCEPT !.slot = next, !.awaiting = FALSE, !.probe = NoProbe,
                                 !.refused = @ \cup {s}]
<1>1. /\ chain \in SlotChains /\ s \in Names /\ was.refused \in Refusals /\ was.fallback \in Fallbacks
  BY DEF TaskRecords
<1>2. InOrder(was) /\ (was.fallback # NoSlot => ~was.needs.localOnly)
      /\ (was.result = "upstream" => Lawful(was))
  BY DEF Fits, Active
<1>3. Len(chain) \in Nat /\ DOMAIN chain = 1 .. Len(chain) /\ DOMAIN chain \subseteq Nat
  BY <1>1, LenProperties DEF SlotChains
<1>4. IF s \in Slots /\ verdict = "healthy" THEN Goes(t, taken)
      ELSE IF next = NoSlot THEN Exhausted(t, was.fallback) ELSE Goes(t, passed)
  BY DEF Walked
<1>5. CASE s \in Slots /\ verdict = "healthy"
  <2>1. "snapshot" \in Pcs /\ FALSE \in BOOLEAN
    BY DEF Pcs
  <2>2. /\ taken \in TaskRecords /\ taken.pc = "snapshot" /\ ~taken.awaiting
        /\ taken.probe = NoProbe /\ taken.fallback = was.fallback /\ taken.needs = was.needs
        /\ taken.result = was.result /\ taken.enforced = was.enforced
        /\ taken.upstream = was.upstream /\ taken.text = was.text
    BY <2>1, IdleIsTask DEF TaskRecords
  <2>3. Goes(t, taken)
    BY <1>4, <1>5
  <2> HIDE DEF taken
  <2>4. Active(taken) /\ Fits(taken, down)
    BY <1>2, <2>2, IdleIsTask DEF Active, Fits, Lawful
  <2>5. OrderGood(was, taken)
    BY <1>2, <1>3, <2>2 DEF OrderGood, InOrder
  <2>6. StepGood(was, taken)
    BY <1>5, <2>5 DEF StepGood, DownGood
  <2> QED
    BY <2>2, <2>3, <2>4, <2>6, GoesMoves
<1>6. CASE ~(s \in Slots /\ verdict = "healthy") /\ next = NoSlot
  <2>1. Exhausted(t, was.fallback)
    BY <1>4, <1>6
  <2>2. chain = <<>> \/ chain[Len(chain)] = s
    BY <1>1, <1>6, NextLink DEF Follows
  <2>3. OrderGood(was, [pc |-> "decided"])
    <3> SUFFICES ASSUME NEW i \in DOMAIN chain, NEW j \in DOMAIN chain, i < j,
                        chain[i] \in Seen(was)
                 PROVE  chain[j] \in Seen(was)
      BY DEF OrderGood
    <3>1. Len(chain) \in DOMAIN chain /\ j <= Len(chain) /\ chain # <<>>
      BY <1>3
    <3> HIDE DEF chain, s
    <3> QED
      BY <1>2, <2>2, <3>1 DEF InOrder, chain, s
  <2> QED
    BY <1>1, <1>2, <2>1, <2>3, ExhaustedMoves
<1>7. CASE ~(s \in Slots /\ verdict = "healthy") /\ next # NoSlot
  <2>1. Goes(t, passed)
    BY <1>4, <1>7
  <2>2. PICK k \in DOMAIN chain :
           /\ chain[k] = next
           /\ k = 1 \/ (k - 1 \in DOMAIN chain /\ chain[k - 1] = s)
    BY <1>1, <1>7, NextLink DEF Follows
  <2> HIDE DEF next
  <2>3. next \in Names
    BY <1>1, <2>2, <1>3, ElementOfSeq DEF SlotChains
  <2>4. was.refused \cup {s} \in Refusals /\ FALSE \in BOOLEAN
    BY <1>1 DEF Refusals
  <2>5. /\ passed \in TaskRecords /\ passed.pc = "walking" /\ ~passed.awaiting
        /\ passed.probe = NoProbe /\ passed.fallback = was.fallback /\ passed.needs = was.needs
        /\ passed.result = was.result /\ passed.enforced = was.enforced
        /\ passed.upstream = was.upstream /\ passed.text = was.text
        /\ passed.slot = next /\ passed.refused = was.refused \cup {s} /\ passed.chain = chain
    BY <2>3, <2>4, IdleIsTask DEF TaskRecords
  <2> HIDE DEF passed
  <2>6. Seen(passed) = Seen(was) \cup {next}
    BY <2>5 DEF Seen
  <2>7. InOrder(passed)
    <3> SUFFICES ASSUME NEW l \in DOMAIN chain, chain[l] = next,
                        NEW i \in DOMAIN chain, NEW j \in DOMAIN chain, i < j, j <= l,
                        chain[i] \in Seen(was) \cup {next}
                 PROVE  chain[j] \in Seen(was) \cup {next}
      BY <1>2, <2>5, <2>6 DEF InOrder
    <3>1. l = k /\ IsInjective(chain)
      BY <1>2, <2>2 DEF InOrder, IsInjective
    <3> HIDE DEF chain, was, s
    <3>2. i \in Nat /\ j \in Nat /\ k \in Nat /\ i >= 1 /\ i < k /\ k # 1
      BY <1>3, <3>1
    <3>3. chain[i] \in Seen(was)
      BY <2>2, <3>1, <3>2 DEF IsInjective
    <3>4. k - 1 \in DOMAIN chain /\ chain[k - 1] = s
      BY <2>2, <3>2
    <3>5. CASE j = k
      BY <2>2, <3>5
    <3>6. CASE j # k
      <4>1. j <= k - 1
        BY <3>1, <3>2, <3>6
      <4> QED
        BY <1>2, <3>3, <3>4, <4>1 DEF InOrder, chain, s
    <3> QED
      BY <3>5, <3>6
  <2>8. Active(passed) /\ Fits(passed, down)
    BY <1>2, <2>5, <2>7, IdleIsTask DEF Active, Fits, Lawful
  <2>9. StepGood(was, passed)
    BY <2>5 DEF StepGood, DownGood, OrderGood
  <2> QED
    BY <2>1, <2>5, <2>8, <2>9, GoesMoves
<1> QED
  BY <1>5, <1>6, <1>7

(* A health check that has its verdict. *)
LEMMA ConcludedMoves ==
  ASSUME NEW t \in Tasks, task[t] \in TaskRecords, Fits(task[t], down), Active(task[t]),
         NEW verdict \in Verdicts,
         task[t].slot \in Slots /\ verdict = "healthy" => down[task[t].slot] < Stale,
         Concluded(t, verdict)
  PROVE  \E w : Moves(t, w)
<1> DEFINE was == task[t]
           s == was.slot
           rows == [was.rows EXCEPT ![s] = verdict]
           later == {q \in Slots : q > s}
           w == [was EXCEPT !.rows = rows, !.slot = Min(later), !.awaiting = FALSE,
                            !.probe = NoProbe]
<1>1. CASE was.pc = "reading" /\ later # {}
  <2>1. Goes(t, w)
    BY <1>1 DEF Concluded
  <2>2. Min(later) \in Names
    <3>1. later \in SUBSET Nat /\ later \in SUBSET Slots
      BY RoutingAssumption
    <3> HIDE DEF later
    <3> QED
      BY <1>1, <3>1, MinIsLeast, NamesKnown
  <2>3. rows \in Rows /\ FALSE \in BOOLEAN
    <3>1. was.rows \in Rows
      BY DEF TaskRecords
    <3> QED
      BY <3>1 DEF Rows
  <2> HIDE DEF rows, later
  <2>4. /\ w \in TaskRecords /\ w.pc = "reading" /\ ~w.awaiting
        /\ w.probe = NoProbe /\ w.fallback = was.fallback /\ w.needs = was.needs
        /\ w.result = was.result /\ w.enforced = was.enforced /\ w.refused = was.refused
        /\ w.upstream = was.upstream /\ w.text = was.text
    BY <1>1, <2>2, <2>3, IdleIsTask DEF TaskRecords
  <2> HIDE DEF w
  <2>5. Active(w) /\ Fits(w, down)
    BY <1>1, <2>4, IdleIsTask DEF Active, Fits, Lawful
  <2>6. StepGood(was, w)
    BY <1>1 DEF StepGood, DownGood, OrderGood
  <2> QED
    BY <2>1, <2>4, <2>5, <2>6, GoesMoves
<1>2. CASE was.pc = "reading" /\ later = {}
  <2>1. Route(t, rows)
    BY <1>2 DEF Concluded
  <2> QED
    BY <1>2, <2>1, RouteMoves
<1>3. CASE was.pc = "walking"
  <2>1. Walked(t, verdict)
    BY <1>3 DEF Concluded
  <2> QED
    BY <1>3, <2>1, WalkedMoves
<1>4. CASE was.pc = "snapshot"
  <2>1. PICK result \in {"unavailable", "local"} : Decided(t, was, result, NoSlot)
    BY <1>4 DEF Concluded
  <2>2. result \in Results /\ result # "upstream" /\ NoSlot \in Fallbacks
    BY DEF Results, Fallbacks
  <2>3. OrderGood(was, [pc |-> "decided"])
    BY <1>4 DEF OrderGood
  <2> QED
    BY <2>1, <2>2, <2>3, DecidedMoves
<1> QED
  BY <1>1, <1>2, <1>3, <1>4 DEF Active

-----------------------------------------------------------------------------
(* Steps keep the invariant. *)

(* The task of t becomes w; who else runs goes on running. *)
LEMMA Placed ==
  ASSUME TasksOK, HealthOK', NEW t \in Tasks, NEW w \in TaskRecords, Fits(w, down),
         StepGood(task[t], w), task' = [task EXCEPT ![t] = w], down' = down,
         loop' \in Tasks \cup {NoTask}, Runs(w) <=> loop' = t,
         \A u \in Tasks \ {t} : loop' = u <=> loop = u
  PROVE  SInv' /\ \A u \in Tasks : StepGood(task[u], task'[u])
<1>1. task' \in [Tasks -> TaskRecords]
  BY DEF TasksOK
<1>2. ASSUME NEW u \in Tasks
      PROVE  Fits(task[u], down)' /\ (Runs(task[u])' <=> loop' = u) /\ StepGood(task[u], task'[u])
  <2>1. CASE u = t
    <3>1. task'[u] = w
      BY <2>1 DEF TasksOK
    <3>2. Fits(task'[u], down') /\ (Runs(task'[u]) <=> loop' = u) /\ StepGood(task[u], task'[u])
      BY <2>1, <3>1
    <3> QED
      BY <3>2 DEF Fits, Lawful, InOrder, Seen, Active, Runs
  <2>2. CASE u # t
    <3>1. task'[u] = task[u]
      BY <2>2 DEF TasksOK
    <3>2. Fits(task[u], down) /\ (Runs(task[u]) <=> loop' = u)
      BY <2>2 DEF TasksOK
    <3>3. StepGood(task[u], task[u])
      BY DEF StepGood, DownGood, OrderGood
    <3> QED
      BY <3>1, <3>2, <3>3 DEF Fits, Lawful, InOrder, Seen, Active, Runs
  <2> QED
    BY <2>1, <2>2
<1>3. TasksOK'
  BY <1>1, <1>2 DEF TasksOK
<1> QED
  BY <1>2, <1>3 DEF SInv

LEMMA MovesKeep ==
  ASSUME TasksOK, HealthOK', NEW t \in Tasks, NEW w, Moves(t, w), down' = down,
         loop \in {t, NoTask}
  PROVE  SInv' /\ \A u \in Tasks : StepGood(task[u], task'[u])
<1>1. /\ w \in TaskRecords /\ Fits(w, down) /\ StepGood(task[t], w)
      /\ task' = [task EXCEPT ![t] = w] /\ IF Runs(w) THEN loop' = t ELSE loop' = NoTask
  BY DEF Moves
<1>2. /\ loop' \in Tasks \cup {NoTask} /\ (Runs(w) <=> loop' = t)
      /\ \A u \in Tasks \ {t} : loop' = u <=> loop = u
  BY <1>1, RoutingAssumption
<1> QED
  BY <1>1, <1>2, Placed

(* What the cache says of a slot is recent enough to go by. *)
LEMMA CachedIsRecent ==
  ASSUME HealthOK, NEW s \in Slots, cache[s].left > 0
  PROVE  cache[s].status \in Verdicts /\ (cache[s].status = "healthy" => down[s] < Stale)
<1>1. cache[s].left \in Nat /\ cache[s].status \in Verdicts /\ down[s] \in Nat
  BY Sizes DEF HealthOK, Entries
<1>2. cache[s].status = "healthy" => down[s] + cache[s].left <= CacheTtl + ProbeTimeout
  BY DEF HealthOK
<1> QED
  BY <1>1, <1>2, Sizes

(* What a probe brings back is recent enough to be kept. *)
LEMMA StoredHealth ==
  ASSUME HealthOK, NEW s \in Slots, NEW verdict \in Verdicts, cache' = Stored(s, verdict),
         verdict = "healthy" => down[s] <= ProbeTimeout,
         UNCHANGED <<up, down, flips>>
  PROVE  HealthOK'
<1> DEFINE entry == [left |-> CacheTtl, status |-> verdict]
<1>1. entry \in Entries /\ entry.left = CacheTtl /\ entry.status = verdict
  BY Sizes DEF Entries
<1>2. cache' = [cache EXCEPT ![s] = entry]
  BY DEF Stored
<1> HIDE DEF entry
<1>3. cache' \in [Slots -> Entries]
  BY <1>1, <1>2 DEF HealthOK
<1>4. ASSUME NEW q \in Slots, cache'[q].left > 0, cache'[q].status = "healthy"
      PROVE  down[q] + cache'[q].left <= CacheTtl + ProbeTimeout
  <2>1. CASE q = s
    <3>1. cache'[q] = entry
      BY <1>2, <2>1 DEF HealthOK
    <3>2. down[q] \in Nat /\ down[q] <= ProbeTimeout
      BY <1>1, <1>4, <2>1, <3>1, Sizes DEF HealthOK
    <3> QED
      BY <1>1, <3>1, <3>2, Sizes
  <2>2. CASE q # s
    <3>1. cache'[q] = cache[q]
      BY <1>2, <2>2 DEF HealthOK
    <3> QED
      BY <1>4, <3>1 DEF HealthOK
  <2> QED
    BY <2>1, <2>2
<1> QED
  BY <1>3, <1>4 DEF HealthOK

StepKeeps == SInv' /\ \A t \in Tasks : StepGood(task[t], task'[t])

LEMMA ArriveKeeps ==
  ASSUME SInv, NEW t \in Tasks, NEW request \in Requests, Arrive(t, request)
  PROVE  StepKeeps
<1>1. loop = NoTask /\ UNCHANGED <<up, down, cache, flips>>
  BY DEF Arrive
<1>2. HealthOK'
  BY <1>1 DEF SInv, HealthOK
<1>3. PICK w : Moves(t, w)
  BY ArriveMoves
<1> QED
  BY <1>1, <1>2, <1>3, MovesKeep DEF SInv, StepKeeps

LEMMA CheckKeeps ==
  ASSUME SInv, NEW t \in Tasks, CheckNow(t)
  PROVE  StepKeeps
<1> DEFINE s == task[t].slot
<1>1. /\ loop = t /\ (s \in Slots => cache[s].left > 0) /\ Concluded(t, Answer(s))
      /\ UNCHANGED <<up, down, cache, flips>>
  BY DEF CheckNow, Running, Answered, Fresh
<1>2. HealthOK'
  BY <1>1 DEF SInv, HealthOK
<1>3. task[t] \in TaskRecords /\ Fits(task[t], down) /\ Active(task[t])
  BY <1>1 DEF SInv, TasksOK, Runs
<1>4. Answer(s) \in Verdicts /\ (s \in Slots /\ Answer(s) = "healthy" => down[s] < Stale)
  BY <1>1, CachedIsRecent DEF SInv, Answer, Verdicts
<1>5. PICK w : Moves(t, w)
  BY <1>1, <1>3, <1>4, ConcludedMoves
<1> QED
  BY <1>1, <1>2, <1>5, MovesKeep DEF SInv, StepKeeps

LEMMA ProbeBeginsKeeps ==
  ASSUME SInv, NEW t \in Tasks, ProbeBegins(t)
  PROVE  StepKeeps
<1> DEFINE was == task[t]
           w == [was EXCEPT !.awaiting = TRUE]
<1>1. /\ loop = t /\ ~was.awaiting /\ was.slot \in Slots /\ task' = [task EXCEPT ![t].awaiting = TRUE]
      /\ loop' = NoTask /\ UNCHANGED <<up, down, cache, flips>>
  BY DEF ProbeBegins, Running, Answered
<1>2. HealthOK'
  BY <1>1 DEF SInv, HealthOK
<1>3. was \in TaskRecords /\ Fits(was, down) /\ Active(was)
  BY <1>1 DEF SInv, TasksOK, Runs
<1>4. task' = [task EXCEPT ![t] = w]
  BY <1>1 DEF SInv, TasksOK
<1>5. TRUE \in BOOLEAN
  OBVIOUS
<1>6. /\ w \in TaskRecords /\ w.awaiting /\ w.pc = was.pc /\ w.slot = was.slot /\ w.probe = was.probe
      /\ w.refused = was.refused /\ w.chain = was.chain /\ w.fallback = was.fallback
      /\ w.needs = was.needs /\ w.result = was.result /\ w.enforced = was.enforced
      /\ w.upstream = was.upstream /\ w.text = was.text
  BY <1>3, <1>5 DEF TaskRecords
<1> HIDE DEF w
<1>7. was.probe.seen = "none"
  BY <1>1, <1>3 DEF Fits
<1>8. Fits(w, down)
  BY <1>1, <1>3, <1>6, <1>7 DEF Fits, Active, InOrder, Seen, Lawful
<1>9. StepGood(was, w) /\ ~Runs(w)
  BY <1>6 DEF StepGood, DownGood, OrderGood, Runs
<1>10. Moves(t, w)
  BY <1>1, <1>4, <1>6, <1>8, <1>9 DEF Moves
<1> QED
  BY <1>1, <1>2, <1>10, MovesKeep DEF SInv, StepKeeps

LEMMA ProbeSeesKeeps ==
  ASSUME SInv, NEW t \in Tasks, ProbeSees(t)
  PROVE  StepKeeps
<1> DEFINE was == task[t]
           seen == IF up[was.slot] THEN "ok" ELSE "bad"
           probe == [was.probe EXCEPT !.seen = seen]
           w == [was EXCEPT !.probe = probe]
<1>1. /\ was.awaiting /\ task' = [task EXCEPT ![t].probe.seen = seen]
      /\ UNCHANGED <<up, down, cache, loop, flips>>
  BY DEF ProbeSees
<1>2. HealthOK'
  BY <1>1 DEF SInv, HealthOK
<1>3. was \in TaskRecords /\ Fits(was, down) /\ loop # t /\ loop \in Tasks \cup {NoTask}
  BY <1>1 DEF SInv, TasksOK, Runs
<1>4. task' = [task EXCEPT ![t] = w]
  BY <1>1 DEF SInv, TasksOK
<1>5. was.probe \in Probes
  BY <1>3 DEF TaskRecords
<1>6. probe \in Probes /\ probe.seen = seen /\ probe.age = was.probe.age /\ probe.age \in Nat
  BY <1>5, Sizes DEF Probes, Ages
<1> HIDE DEF probe
<1>7. /\ w \in TaskRecords /\ w.awaiting /\ w.pc = was.pc /\ w.slot = was.slot /\ w.probe = probe
      /\ w.refused = was.refused /\ w.chain = was.chain /\ w.fallback = was.fallback
      /\ w.needs = was.needs /\ w.result = was.result /\ w.enforced = was.enforced
      /\ w.upstream = was.upstream /\ w.text = was.text
  BY <1>1, <1>3, <1>6 DEF TaskRecords
<1> HIDE DEF w
<1>8. probe.seen = "ok" => down[was.slot] <= probe.age
  <2>1. was.slot \in Slots
    BY <1>1, <1>3 DEF Fits
  <2> QED
    BY <1>6, <2>1 DEF SInv, HealthOK
<1>9. Fits(w, down)
  BY <1>1, <1>3, <1>7, <1>8 DEF Fits, Active, InOrder, Seen, Lawful
<1>10. StepGood(was, w) /\ ~Runs(w)
  BY <1>7 DEF StepGood, DownGood, OrderGood, Runs
<1> QED
  BY <1>1, <1>2, <1>3, <1>4, <1>7, <1>9, <1>10, Placed DEF SInv, StepKeeps

LEMMA ProbeEndsKeeps ==
  ASSUME SInv, NEW t \in Tasks, ProbeEnds(t)
  PROVE  StepKeeps
<1> DEFINE was == task[t]
           s == was.slot
           verdict == IF was.probe.seen = "ok" THEN "healthy" ELSE "unhealthy"
<1>1. /\ was.awaiting /\ loop = NoTask /\ cache' = Stored(s, verdict) /\ Concluded(t, verdict)
      /\ UNCHANGED <<up, down, flips>>
  BY DEF ProbeEnds
<1>2. was \in TaskRecords /\ Fits(was, down) /\ Active(was) /\ s \in Slots
  BY <1>1 DEF SInv, TasksOK, Fits
<1>3. verdict \in Verdicts
  BY DEF Verdicts
<1>4. verdict = "healthy" => down[s] <= ProbeTimeout
  <2>1. was.probe \in Probes
    BY <1>2 DEF TaskRecords
  <2>2. was.probe.age \in Nat /\ was.probe.age <= ProbeTimeout
    BY <2>1, Sizes DEF Probes, Ages
  <2>3. was.probe.seen = "ok" => down[s] <= was.probe.age
    BY <1>1, <1>2 DEF Fits
  <2>4. down[s] \in Nat
    BY <1>2, Sizes DEF SInv, HealthOK
  <2> QED
    BY <2>2, <2>3, <2>4, Sizes
<1>5. verdict = "healthy" => down[s] < Stale
  <2>1. down[s] \in Nat
    BY <1>2, Sizes DEF SInv, HealthOK
  <2> HIDE DEF verdict
  <2> QED
    BY <1>4, <2>1, Sizes
<1> HIDE DEF verdict
<1>6. HealthOK'
  BY <1>1, <1>2, <1>3, <1>4, StoredHealth DEF SInv
<1>7. PICK w : Moves(t, w)
  BY <1>1, <1>2, <1>3, <1>5, ConcludedMoves
<1> QED
  BY <1>1, <1>6, <1>7, MovesKeep DEF SInv, StepKeeps

LEMMA FlipKeeps ==
  ASSUME SInv, NEW s \in Slots, Flip(s)
  PROVE  StepKeeps
<1>1. /\ up' = [up EXCEPT ![s] = ~@] /\ down' = [down EXCEPT ![s] = 0]
      /\ flips' = flips + 1 /\ flips < MaxFlips /\ UNCHANGED <<cache, task, loop>>
  BY DEF Flip
<1>2. up' \in [Slots -> BOOLEAN]
  BY <1>1 DEF SInv, HealthOK
<1>3. down' \in [Slots -> 0 .. Stale] /\ flips' \in 0 .. MaxFlips /\ cache' \in [Slots -> Entries]
  BY <1>1, Sizes, RoutingAssumption DEF SInv, HealthOK
<1>4. \A q \in Slots : down'[q] = 0 \/ (up'[q] = up[q] /\ down'[q] = down[q])
  BY <1>1 DEF SInv, HealthOK
<1>5. \A q \in Slots : down'[q] <= down[q] /\ down[q] \in Nat /\ down'[q] \in Nat
  BY <1>3, <1>4, Sizes DEF SInv, HealthOK
<1>6. HealthOK'
  <2> SUFFICES ASSUME NEW q \in Slots
               PROVE  /\ up'[q] => down'[q] = 0
                      /\ cache'[q].left > 0 /\ cache'[q].status = "healthy"
                           => down'[q] + cache'[q].left <= CacheTtl + ProbeTimeout
    BY <1>2, <1>3 DEF HealthOK
  <2>1. up'[q] => down'[q] = 0
    BY <1>4 DEF SInv, HealthOK
  <2>2. cache'[q] = cache[q] /\ cache[q].left \in Int
    BY <1>1, Sizes DEF SInv, HealthOK, Entries
  <2>3. cache[q].left > 0 /\ cache[q].status = "healthy"
           => down[q] + cache[q].left <= CacheTtl + ProbeTimeout
    BY DEF SInv, HealthOK
  <2> QED
    BY <1>5, <2>1, <2>2, <2>3, Sizes
<1>7. ASSUME NEW t \in Tasks PROVE Fits(task[t], down')
  <2>1. Fits(task[t], down) /\ task[t].probe \in Probes
    BY DEF SInv, TasksOK, TaskRecords
  <2>2. task[t].probe.age \in Nat
    BY <2>1, Sizes DEF Probes, Ages
  <2>3. task[t].awaiting /\ task[t].probe.seen = "ok" => down'[task[t].slot] <= task[t].probe.age
    BY <1>5, <2>1, <2>2 DEF Fits
  <2> QED
    BY <2>1, <2>3 DEF Fits
<1>8. TasksOK'
  BY <1>1, <1>7 DEF SInv, TasksOK, Fits, Lawful, InOrder, Seen, Active, Runs
<1>9. \A t \in Tasks : StepGood(task[t], task'[t])
  BY <1>1 DEF StepGood, DownGood, OrderGood
<1> QED
  BY <1>6, <1>8, <1>9 DEF SInv, StepKeeps

LEMMA TickKeeps ==
  ASSUME SInv, Tick
  PROVE  StepKeeps
<1>1. /\ loop = NoTask
      /\ \A t \in Tasks : task[t].awaiting => task[t].probe.age < ProbeTimeout
      /\ cache' = [s \in Slots |-> Aged(cache[s])]
      /\ down' = [s \in Slots |-> IF up[s] \/ down[s] = Stale THEN down[s] ELSE down[s] + 1]
      /\ task' = [t \in Tasks |-> IF task[t].awaiting THEN [task[t] EXCEPT !.probe.age = @ + 1]
                                                      ELSE task[t]]
      /\ UNCHANGED <<up, loop, flips>>
  BY DEF Tick
<1>2. ASSUME NEW s \in Slots
      PROVE  /\ down[s] \in Nat /\ down'[s] \in Nat /\ down'[s] <= Stale /\ down'[s] <= down[s] + 1
             /\ up[s] => down'[s] = down[s]
  <2>1. down[s] \in 0 .. Stale
    BY DEF SInv, HealthOK
  <2>2. down'[s] = IF up[s] \/ down[s] = Stale THEN down[s] ELSE down[s] + 1
    BY <1>1
  <2> QED
    BY <2>1, <2>2, Sizes
<1>3. down' \in [Slots -> 0 .. Stale]
  <2>1. down' = [s \in Slots |-> down'[s]]
    BY <1>1
  <2> QED
    BY <1>2, <2>1, Sizes
<1>4. ASSUME NEW s \in Slots
      PROVE  /\ cache'[s] \in Entries
             /\ cache'[s].left > 0 => cache'[s].left = cache[s].left - 1
                                        /\ cache[s].left > 0 /\ cache'[s].status = cache[s].status
  <2>1. cache[s] \in Entries /\ cache'[s] = Aged(cache[s])
    BY <1>1 DEF SInv, HealthOK
  <2>2. CASE cache[s].left > 1
    <3>1. cache'[s] = [cache[s] EXCEPT !.left = @ - 1]
      BY <2>1, <2>2 DEF Aged
    <3> QED
      BY <2>1, <2>2, <3>1, Sizes DEF Entries
  <2>3. CASE ~(cache[s].left > 1)
    <3>1. cache'[s] = NoEntry
      BY <2>1, <2>3 DEF Aged
    <3> QED
      BY <3>1, Sizes DEF Entries, NoEntry, Verdicts
  <2> QED
    BY <2>2, <2>3
<1>5. HealthOK'
  <2>1. cache' \in [Slots -> Entries]
    <3>1. cache' = [s \in Slots |-> cache'[s]]
      BY <1>1
    <3> QED
      BY <1>4, <3>1
  <2>2. ASSUME NEW s \in Slots, cache'[s].left > 0, cache'[s].status = "healthy"
        PROVE  down'[s] + cache'[s].left <= CacheTtl + ProbeTimeout
    <3>1. /\ cache[s].left > 0 /\ cache[s].status = "healthy"
          /\ cache'[s].left = cache[s].left - 1 /\ cache[s].left \in Nat
      BY <1>4, <2>2, Sizes DEF SInv, HealthOK, Entries
    <3>2. down[s] + cache[s].left <= CacheTtl + ProbeTimeout
      BY <3>1 DEF SInv, HealthOK
    <3> QED
      BY <1>2, <3>1, <3>2, Sizes
  <2>3. \A s \in Slots : up'[s] => down'[s] = 0
    BY <1>1, <1>2 DEF SInv, HealthOK
  <2> QED
    BY <1>1, <1>3, <2>1, <2>2, <2>3 DEF SInv, HealthOK
<1>6. ASSUME NEW t \in Tasks
      PROVE  /\ task'[t] \in TaskRecords /\ Fits(task'[t], down') /\ ~Runs(task'[t])
             /\ StepGood(task[t], task'[t])
  <2>1. task[t] \in TaskRecords /\ Fits(task[t], down) /\ ~Runs(task[t])
    BY <1>1, RoutingAssumption DEF SInv, TasksOK
  <2>2. CASE ~task[t].awaiting
    <3>1. task'[t] = task[t]
      BY <1>1, <2>2
    <3>2. Fits(task[t], down')
      BY <2>1, <2>2 DEF Fits
    <3> QED
      BY <2>1, <3>1, <3>2 DEF StepGood, DownGood, OrderGood
  <2>3. CASE task[t].awaiting
    <3> DEFINE was == task[t]
               probe == [was.probe EXCEPT !.age = @ + 1]
               w == [was EXCEPT !.probe = probe]
    <3>1. was.probe \in Probes
      BY <2>1 DEF TaskRecords
    <3>2. /\ probe \in Probes /\ probe.seen = was.probe.seen /\ probe.age = was.probe.age + 1
          /\ was.probe.age \in Nat
      <4>1. was.probe.age < ProbeTimeout
        BY <1>1, <2>3
      <4> QED
        BY <3>1, <4>1, Sizes DEF Probes, Ages
    <3>3. task'[t] = w
      BY <1>1, <2>3
    <3> HIDE DEF probe
    <3>4. /\ w \in TaskRecords /\ w.awaiting = was.awaiting /\ w.pc = was.pc /\ w.slot = was.slot
          /\ w.probe = probe /\ w.refused = was.refused /\ w.chain = was.chain
          /\ w.fallback = was.fallback /\ w.needs = was.needs /\ w.result = was.result
          /\ w.enforced = was.enforced /\ w.upstream = was.upstream /\ w.text = was.text
      BY <2>1, <3>2 DEF TaskRecords
    <3> HIDE DEF w
    <3>5. probe.seen = "ok" => down'[was.slot] <= probe.age
      <4>1. was.slot \in Slots /\ (was.probe.seen = "ok" => down[was.slot] <= was.probe.age)
        BY <2>1, <2>3 DEF Fits
      <4> QED
        BY <1>2, <3>2, <4>1
    <3>6. Fits(w, down')
      BY <2>1, <2>3, <3>4, <3>5 DEF Fits, Active, InOrder, Seen, Lawful
    <3>7. StepGood(was, w) /\ ~Runs(w)
      BY <2>3, <3>4 DEF StepGood, DownGood, OrderGood, Runs
    <3> QED
      BY <3>3, <3>4, <3>6, <3>7
  <2> QED
    BY <2>2, <2>3
<1>7. task' \in [Tasks -> TaskRecords]
  <2>1. task' = [t \in Tasks |-> task'[t]]
    BY <1>1
  <2> QED
    BY <1>6, <2>1
<1>8. ASSUME NEW t \in Tasks PROVE Fits(task[t], down)' /\ (Runs(task[t])' <=> loop' = t)
  <2>1. loop' # t
    BY <1>1, RoutingAssumption
  <2>2. Fits(task'[t], down') /\ ~Runs(task'[t])
    BY <1>6
  <2> QED
    BY <2>1, <2>2 DEF Fits, Lawful, InOrder, Seen, Active, Runs
<1> QED
  BY <1>1, <1>5, <1>6, <1>7, <1>8, RoutingAssumption DEF SInv, TasksOK, StepKeeps

LEMMA InitHolds == Init => SInv
<1> SUFFICES ASSUME Init PROVE SInv
  OBVIOUS
<1>1. HealthOK
  <2>1. NoEntry \in Entries /\ NoEntry.left = 0
    BY Sizes DEF NoEntry, Entries, Verdicts
  <2>2. flips \in 0 .. MaxFlips
    BY RoutingAssumption DEF Init
  <2> QED
    BY <2>1, <2>2, Sizes DEF Init, HealthOK
<1>2. TasksOK
  <2>1. ~Active(Idle)
    BY IdleIsTask DEF Active
  <2>2. Fits(Idle, down) /\ ~Runs(Idle)
    BY <2>1, IdleIsTask DEF Fits, Runs
  <2>3. \A t \in Tasks : task[t] = Idle
    BY DEF Init
  <2> QED
    BY <2>2, <2>3, IdleIsTask, RoutingAssumption DEF Init, TasksOK
<1> QED
  BY <1>1, <1>2 DEF SInv

LEMMA NextKeeps == SInv /\ [Next]_vars => SInv' /\ \A t \in Tasks : StepGood(task[t], task'[t])
<1> SUFFICES ASSUME SInv, [Next]_vars PROVE StepKeeps
  BY DEF StepKeeps
<1>1. CASE UNCHANGED vars
  <2>1. SInv'
    BY <1>1 DEF SInv, HealthOK, TasksOK, Fits, Lawful, InOrder, Seen, Active, Runs, vars
  <2>2. \A t \in Tasks : StepGood(task[t], task'[t])
    BY <1>1 DEF StepGood, DownGood, OrderGood, vars
  <2> QED
    BY <2>1, <2>2 DEF StepKeeps
<1>2. CASE Next
  BY <1>2, ArriveKeeps, CheckKeeps, ProbeBeginsKeeps, ProbeSeesKeeps, ProbeEndsKeeps, FlipKeeps,
     TickKeeps DEF Next
<1> QED
  BY <1>1, <1>2

-----------------------------------------------------------------------------
(* Results. *)

(* What routing rests on: no verdict that is cached or under way is older     *)
(* than the cache time and the probe timeout together, the walk has left no   *)
(* slot of its chain out, a fallback is for requests that may leave, and the  *)
(* loop is held by the one request that runs.                                *)
THEOREM RoutingInvariant == Spec => []SInv
BY InitHolds, NextKeeps, PTL DEF Spec

(* The variables of routing have their types.                                 *)
THEOREM RoutingTypeCorrect == Spec => []TypeOK
<1>1. SInv => TypeOK
  <2> SUFFICES ASSUME SInv PROVE TypeOK
    OBVIOUS
  <2>1. /\ up \in [Slots -> BOOLEAN] /\ down \in [Slots -> 0 .. Stale]
        /\ cache \in [Slots -> [left : 0 .. CacheTtl, status : Verdicts]]
        /\ loop \in Tasks \cup {NoTask} /\ flips \in 0 .. MaxFlips
    BY DEF SInv, HealthOK, TasksOK, Entries
  <2>2. ASSUME NEW t \in Tasks
        PROVE  /\ task[t].pc \in {"idle", "reading", "walking", "snapshot", "decided"}
               /\ task[t].slot \in Names /\ task[t].fallback \in Names
               /\ task[t].awaiting => task[t].slot \in Slots /\ task[t].probe.age <= ProbeTimeout
               /\ task[t].rows \in [Slots -> Verdicts]
               /\ task[t].pc \in {"reading", "walking", "snapshot"} /\ ~task[t].awaiting <=> loop = t
    <3>1. task[t] \in TaskRecords /\ Fits(task[t], down) /\ (Runs(task[t]) <=> loop = t)
      BY DEF SInv, TasksOK
    <3>2. /\ task[t].pc \in Pcs /\ task[t].slot \in Names /\ task[t].fallback \in Fallbacks
          /\ task[t].rows \in Rows /\ task[t].probe \in Probes
      BY <3>1 DEF TaskRecords
    <3>3. task[t].fallback \in Names /\ task[t].probe.age <= ProbeTimeout
      BY <3>2, NamesKnown, Sizes DEF Fallbacks, Probes, Ages
    <3>4. task[t].pc \in {"reading", "walking", "snapshot"} /\ ~task[t].awaiting <=> loop = t
      BY <3>1 DEF Runs, Active
    <3> QED
      BY <3>1, <3>2, <3>3, <3>4 DEF Pcs, Rows, Fits
  <2> QED
    BY <2>1, <2>2 DEF TypeOK
<1> QED
  BY <1>1, RoutingInvariant, PTL

(* Neither the client's wish that a request stay local nor the operator's     *)
(* disclosure rules are got round: not by naming an upstream, by a pin, or by *)
(* the fallback of a failover that found nobody.                             *)
THEOREM PrivacyAlwaysKept == Spec => []PrivacyKept
<1>1. SInv => PrivacyKept
  BY DEF SInv, TasksOK, Fits, Lawful, PrivacyKept, LocalOnlyStays, DisclosureHolds
<1> QED
  BY <1>1, RoutingInvariant, PTL

(* A slot that is taken has not been down for longer than a cached verdict    *)
(* lives and a probe takes, whichever requests shared the cache.             *)
THEOREM DownNeverSelected == Spec => DownNotSelected
<1>1. SInv /\ [Next]_vars
        => [\A t \in Tasks : task[t].pc = "walking" /\ task'[t].pc = "snapshot"
              => down[task[t].slot] < Stale]_vars
  BY NextKeeps DEF StepGood, DownGood
<1> QED
  BY <1>1, RoutingInvariant, PTL DEF Spec, DownNotSelected

(* The failover leaves no slot of its chain out, whether a slot is taken or   *)
(* the walk gives up.                                                        *)
THEOREM FailoverOrdered == Spec => FailoverInOrder
<1> DEFINE Ordered ==
  \A t \in Tasks :
       LET was == task[t]
           seen == was.refused \cup {was.slot}
           passed == {i \in DOMAIN was.chain :
                        \/ task'[t].pc = "decided"
                        \/ \E j \in DOMAIN was.chain : was.chain[j] = was.slot /\ i <= j}
       IN  was.pc = "walking" /\ task'[t].pc # "walking" =>
             \A i, j \in passed : i < j /\ was.chain[i] \in seen => was.chain[j] \in seen
<1>1. SInv /\ [Next]_vars => [Ordered]_vars
  BY NextKeeps DEF StepGood, OrderGood, Seen
<1> QED
  BY <1>1, RoutingInvariant, PTL DEF Spec, FailoverInOrder
========================================================================
