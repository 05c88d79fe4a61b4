---------------------------- MODULE SlotRouting ----------------------------
(***************************************************************************)
(* How a chat request finds its model: the slot the harness pins, an       *)
(* upstream it names, or the decision of RoutingIntentHandler, which reads *)
(* the health of every slot, ranks the candidates and walks the failover   *)
(* chain, checking health again (service/app.py, service/routing_intent.py, *)
(* helpers/llama_cpp_manager.py, helpers/smart_router).  What goes to an   *)
(* upstream passes the disclosure policy first.                            *)
(*                                                                         *)
(* All requests share one health cache.  A check that finds a fresh entry  *)
(* does not suspend, so the task that runs keeps the event loop: loop names *)
(* it, and nobody else and no time interferes until it awaits a probe.     *)
(***************************************************************************)
EXTENDS RoutingCatalog, Disclosure

CONSTANTS
  Slots,          \* the configured slots, a set of naturals
  SlotConfig,     \* their configuration, a function of the slot
  Upstreams,      \* ids of the declared upstream models, naturals
  UpstreamConfig, \* their declaration
  UpstreamTier,   \* the trust tier each declares, or any other text
  Policy,         \* the disclosure rules the service has loaded
  Chains,         \* failover_chains: a sequence of names for every role
  Tasks,          \* the tasks of the requests
  Requests,       \* what may arrive: a body, the slot a harness pins, or NoSlot, what the
                  \* body says, and whether denials are enforced when it is forwarded
  CacheTtl,       \* health_cache_ttl
  ProbeTimeout,   \* health_check_timeout
  NoTask,
  MaxFlips        \* bound: how often endpoints come and go

ASSUME RoutingAssumption ==
  /\ IsFiniteSet(Slots) /\ Slots \subseteq Nat /\ Slots # {} /\ IsFiniteSet(Upstreams)
  /\ NoSlot \notin Slots \cup Upstreams /\ NoTask \notin Tasks /\ Slots \cap Upstreams = {}
  /\ CacheTtl \in Nat \ {0} /\ ProbeTimeout \in Nat \ {0} /\ MaxFlips \in Nat
  \* a chain that named a slot twice would be walked in a circle
  /\ \A role \in DOMAIN Chains :
       Chains[role] \in Seq(Range(Chains[role]) \ {NoSlot}) /\ IsInjective(Chains[role])

(* A harness that is pinned to a slot decides for the client: of the routing *)
(* section only the privacy survives.  A pin may also name an upstream.      *)
PinnedBody(body, pin) ==
  IF pin \notin Slots THEN [body EXCEPT !.target = IF pin = NoSlot THEN @ ELSE pin]
  ELSE [body EXCEPT !.routing = [k \in DOMAIN body.routing \cap {"local_only", "privacy_mode"}
                         |-> body.routing[k]]
                      @@ ("preferred_slot" :> pin) @@ ("role" :> SlotConfig[pin].role)]
NeedsOf(request) == Needs(PinnedBody(request.body, request.pin))

(* What may be asked for has a chain: get_chain_for_role makes one up for    *)
(* any other role.                                                           *)
ASSUME RoleAssumption ==
  {"chat"} \cup {Hinted(SlotConfig[s]).role : s \in Slots} \cup {NeedsOf(r).role : r \in Requests}
    \subseteq DOMAIN Chains

(* What ranking compares are numbers: _float_hint clamps the hints to 0 .. 1, *)
(* and _positive_int takes no negative size.                                 *)
ASSUME HintAssumption ==
  /\ Upstreams \subseteq Nat
  /\ \A s \in Slots : LET c == Hinted(SlotConfig[s])
                     IN  /\ c.ctx \in Nat /\ OrElse(c.latency, 0) \in Int
                         /\ OrElse(c.quality, 0) \in 0 .. 100 /\ OrElse(c.cost, 0) \in 0 .. 100
  /\ \A r \in Requests : NeedsOf(r).ctx \in Nat

(* The rules in use are ones that parse_policy accepted. *)
ASSUME PolicyAssumption == OnLadder(Policy)

VARIABLES
  up,      \* up[s]: /health of slot s answers ok
  down,    \* down[s]: for how long it has not, up to Stale (ghost)
  cache,   \* SlotHealthChecker._cache
  task,    \* task[t]: where the request of t stands
  loop,    \* the task that runs, or NoTask
  flips

vars == <<up, down, cache, task, loop, flips>>

(* Older than any evidence may be. *)
Stale == CacheTtl + ProbeTimeout + 1

Verdicts == {"healthy", "unhealthy", "unknown"}
NoEntry == [left |-> 0, status |-> "unknown"]
NoProbe == [age |-> 0, seen |-> "none"]

-----------------------------------------------------------------------------
(* Health. *)

\* mutated: the end of the chain leads back to its beginning
NextInChainCircular(current, chain) ==
  IF current \notin Range(chain) THEN (IF chain = <<>> THEN NoSlot ELSE Head(chain))
  ELSE LET i == CHOOSE j \in DOMAIN chain : chain[j] = current
       IN  chain[1 + (i % Len(chain))]

\* mutated: the failover skips a slot
NextInChainSkipping(current, chain) ==
  IF current \notin Range(chain) THEN (IF chain = <<>> THEN NoSlot ELSE Head(chain))
  ELSE LET i == CHOOSE j \in DOMAIN chain : chain[j] = current
       IN  IF i + 1 >= Len(chain) THEN NoSlot ELSE chain[i + 2]

(* get_next_in_chain. *)
NextInChain(current, chain) ==
  IF current \notin Range(chain) THEN (IF chain = <<>> THEN NoSlot ELSE Head(chain))
  ELSE LET i == CHOOSE j \in DOMAIN chain : chain[j] = current
       IN  IF i = Len(chain) THEN NoSlot ELSE chain[i + 1]

\* mutated: an entry is served until somebody replaces it
AgedNever(entry) == entry

(* The entry a tick later. *)
Aged(entry) == IF entry.left > 1 THEN [entry EXCEPT !.left = @ - 1] ELSE NoEntry

(* _cached_status. *)
Fresh(s) == cache[s].left > 0

(* What _get_slot_health_async answers without a probe. *)
Answered(s) == s \in Slots => Fresh(s)
Answer(s) == IF s \notin Slots THEN "unknown" ELSE cache[s].status

\* mutated: an entry outlives the cache time by one
StoredLonger(s, v) == [cache EXCEPT ![s] = [left |-> CacheTtl + 1, status |-> v]]

(* _store_status. *)
Stored(s, v) == [cache EXCEPT ![s] = [left |-> CacheTtl, status |-> v]]

-----------------------------------------------------------------------------
(* A request.  pc: idle, reading (the health of every slot, before ranking), *)
(* walking (the failover chain), snapshot (the last health reading of the    *)
(* chosen slot), decided.                                                    *)

NoNeeds == [role |-> "chat", tools |-> FALSE, vision |-> FALSE, json |-> FALSE, ctx |-> 0,
            localOnly |-> FALSE, strategy |-> "balanced_local", preferred |-> NoSlot]

NoText == [words |-> {}, patterns |-> {}]

Idle ==
  [pc |-> "idle", pin |-> NoSlot, needs |-> NoNeeds,
   slot |-> NoSlot,           \* whose health is checked
   probe |-> NoProbe, awaiting |-> FALSE,
   rows |-> [s \in Slots |-> "unknown"],
   chain |-> <<>>, fallback |-> NoSlot,
   refused |-> {},            \* found not healthy while walking (ghost)
   text |-> NoText, enforced |-> FALSE,
   upstream |-> NoSlot,       \* the one the request was forwarded to
   result |-> "none"]

Running(t) == loop = t /\ ~task[t].awaiting

(* The request is decided, and the loop free. *)
Decided(t, request, result, upstream) ==
  /\ task' = [task EXCEPT ![t] = [Idle EXCEPT !.pc = "decided", !.result = result,
                                             !.upstream = upstream, !.text = request.text,
                                             !.enforced = request.enforced,
                                             !.needs.localOnly = request.needs.localOnly]]
  /\ loop' = NoTask

(* forward_to_upstream asks the disclosure policy, whichever way led to it.  *)
Forwarded(t, request, upstream) ==
  IF MayForward(Policy, UpstreamTier[upstream], request.text, request.enforced)
  THEN Decided(t, request, "upstream", upstream)
  ELSE Decided(t, request, "refused", NoSlot)

Goes(t, next) == task' = [task EXCEPT ![t] = next] /\ loop' = t

\* mutated: a request may name an upstream whatever its privacy
RefusedByPrivacyNever(needs) == FALSE

RefusedByPrivacy(needs) == needs.localOnly

(* A request arrives.  One that names an upstream model goes there, unless   *)
(* it is to stay local; a pin that is not configured serves nobody.          *)
Arrive(t, request) ==
  LET pin == request.pin
      asked == PinnedBody(request.body, pin)
      arrived == [Idle EXCEPT !.pin = pin, !.needs = NeedsOf(request), !.text = request.text,
                              !.enforced = request.enforced]
  IN  /\ task[t].pc = "idle" /\ loop = NoTask
      /\ \/ /\ asked.target \in Upstreams
            /\ IF RefusedByPrivacy(arrived.needs) THEN Decided(t, arrived, "refused", NoSlot)
               ELSE Forwarded(t, arrived, asked.target)
         \/ /\ asked.target \notin Upstreams
            /\ IF pin # NoSlot /\ pin \notin Slots
               THEN Decided(t, arrived, "unavailable", NoSlot)
               ELSE Goes(t, [arrived EXCEPT !.pc = "reading", !.slot = Min(Slots)])
      /\ UNCHANGED <<up, down, cache, flips>>

(* The candidates when every slot has been read.  An exhausted budget drops  *)
(* an upstream; embeddings and private requests never see one.               *)
CandidatesOf(t, rows, funded) ==
  {SlotCandidate(s, SlotConfig[s], rows[s]) : s \in Slots}
    \cup IF task[t].needs.localOnly \/ task[t].needs.role = "embed" THEN {}
         ELSE {UpstreamCandidate(u, UpstreamConfig[u]) : u \in funded}

(* Nothing local is left: the best upstream, if any, is the answer.          *)
Exhausted(t, fallback) ==
  IF fallback # NoSlot THEN Forwarded(t, task[t], fallback)
  ELSE Decided(t, task[t], IF task[t].pin # NoSlot THEN "unavailable" ELSE "no_slot", NoSlot)

(* The slots of what is ranked, in that order, and its best upstream.        *)
RankedChain(ranked) ==
  LET chain[n \in 0 .. Len(ranked)] ==
        IF n = 0 THEN <<>>
        ELSE IF ranked[n].slot \in {NoSlot} \cup Range(chain[n - 1]) THEN chain[n - 1]
        ELSE Append(chain[n - 1], ranked[n].slot)
  IN  chain[Len(ranked)]
BestUpstream(ranked) ==
  LET remote == {i \in DOMAIN ranked : ranked[i].source = "upstream"}
  IN  IF remote = {} THEN NoSlot ELSE ranked[Min(remote)].id

(* The ranked slots are the failover chain, else the chain of the role.      *)
Route(t, rows) ==
  \E funded \in SUBSET Upstreams :
  \E ranked \in Rankings(CandidatesOf(t, rows, funded), task[t].needs) :
    LET needs == task[t].needs
        slots == RankedChain(ranked)
        role == IF ranked = <<>> THEN needs.role ELSE Head(ranked).role
        chain == IF slots = <<>> THEN Chains[role] ELSE slots
        first == IF ranked # <<>> /\ Head(ranked).slot # NoSlot
                 THEN Head(ranked).slot ELSE needs.preferred
        start == IF first # NoSlot THEN first ELSE IF chain = <<>> THEN NoSlot ELSE Head(chain)
        fallback == BestUpstream(ranked)
    IN  IF start = NoSlot THEN Exhausted(t, fallback)
        ELSE Goes(t, [task[t] EXCEPT !.pc = "walking", !.slot = start, !.awaiting = FALSE,
                        !.probe = NoProbe, !.rows = Idle.rows, !.chain = chain,
                        !.fallback = fallback])

(* One link of the chain: its slot is taken when it is healthy.              *)
Walked(t, verdict) ==
  LET s == task[t].slot
      next == NextInChain(s, task[t].chain)
  IN  IF s \in Slots /\ verdict = "healthy"
      THEN Goes(t, [task[t] EXCEPT !.pc = "snapshot", !.awaiting = FALSE, !.probe = NoProbe])
      ELSE IF next = NoSlot THEN Exhausted(t, task[t].fallback)
      ELSE Goes(t, [task[t] EXCEPT !.slot = next, !.awaiting = FALSE, !.probe = NoProbe,
                                   !.refused = @ \cup {s}])

(* A health check of the request has its verdict. *)
Concluded(t, verdict) ==
  LET s == task[t].slot
      rows == [task[t].rows EXCEPT ![s] = verdict]
      later == {q \in Slots : q > s}
  IN  CASE task[t].pc = "reading" /\ later # {} ->
             Goes(t, [task[t] EXCEPT !.rows = rows, !.slot = Min(later),
                                     !.awaiting = FALSE, !.probe = NoProbe])
        [] task[t].pc = "reading" /\ later = {} -> Route(t, rows)
        [] task[t].pc = "walking" -> Walked(t, verdict)
        [] task[t].pc = "snapshot" ->
             Decided(t, task[t],
                     IF task[t].pin \notin {NoSlot, s} THEN "unavailable" ELSE "local", NoSlot)

CheckNow(t) ==
  /\ Running(t) /\ Answered(task[t].slot)
  /\ Concluded(t, Answer(task[t].slot))
  /\ UNCHANGED <<up, down, cache, flips>>

ProbeBegins(t) ==
  /\ Running(t) /\ ~Answered(task[t].slot)
  /\ task' = [task EXCEPT ![t].awaiting = TRUE]
  /\ loop' = NoTask
  /\ UNCHANGED <<up, down, cache, flips>>

(* The endpoint answers the probe, and the answer travels. *)
ProbeSees(t) ==
  /\ task[t].awaiting /\ task[t].probe.seen = "none"
  /\ task' = [task EXCEPT ![t].probe.seen = IF up[task[t].slot] THEN "ok" ELSE "bad"]
  /\ UNCHANGED <<up, down, cache, loop, flips>>

(* The probe returns, or its time is up; the verdict replaces whatever       *)
(* another request has stored in the meantime.                               *)
ProbeEnds(t) ==
  LET s == task[t].slot
      verdict == IF task[t].probe.seen = "ok" THEN "healthy" ELSE "unhealthy"
  IN  /\ task[t].awaiting /\ loop = NoTask
      /\ task[t].probe.seen # "none" \/ task[t].probe.age = ProbeTimeout
      /\ cache' = Stored(s, verdict)
      /\ Concluded(t, verdict)
      /\ UNCHANGED <<up, down, flips>>

-----------------------------------------------------------------------------
(* The environment. *)

(* A model process comes or goes (external). *)
Flip(s) ==
  /\ flips < MaxFlips
  /\ up' = [up EXCEPT ![s] = ~@]
  /\ down' = [down EXCEPT ![s] = 0]
  /\ flips' = flips + 1
  /\ UNCHANGED <<cache, task, loop>>

(* Time passes while the loop is free; no probe outlives its timeout.        *)
Tick ==
  /\ loop = NoTask
  /\ \A t \in Tasks : task[t].awaiting => task[t].probe.age < ProbeTimeout
  /\ cache' = [s \in Slots |-> Aged(cache[s])]
  /\ down' = [s \in Slots |-> IF up[s] \/ down[s] = Stale THEN down[s] ELSE down[s] + 1]
  /\ task' = [t \in Tasks |-> IF task[t].awaiting THEN [task[t] EXCEPT !.probe.age = @ + 1]
                                                  ELSE task[t]]
  /\ UNCHANGED <<up, loop, flips>>

-----------------------------------------------------------------------------
Init ==
  /\ up \in [Slots -> BOOLEAN]
  /\ down = [s \in Slots |-> IF up[s] THEN 0 ELSE Stale]
  /\ cache = [s \in Slots |-> NoEntry]
  /\ task = [t \in Tasks |-> Idle]
  /\ loop = NoTask
  /\ flips = 0

Step(t) == CheckNow(t) \/ ProbeBegins(t) \/ ProbeEnds(t)

Next ==
  \/ \E t \in Tasks : \/ \E request \in Requests : Arrive(t, request)
                      \/ CheckNow(t) \/ ProbeBegins(t) \/ ProbeSees(t) \/ ProbeEnds(t)
  \/ \E s \in Slots : Flip(s)
  \/ Tick

Spec == Init /\ [][Next]_vars

(* Time passes, and the event loop, which is fair, runs whoever can run.     *)
FairSpec == Spec /\ SF_vars(Tick) /\ \A t \in Tasks : SF_vars(Step(t))

-----------------------------------------------------------------------------
(* Properties. *)

Names == Slots \cup Upstreams \cup {NoSlot} \cup (UNION {Range(Chains[r]) : r \in DOMAIN Chains})
           \cup {NeedsOf(r).preferred : r \in Requests}

TypeOK ==
  /\ up \in [Slots -> BOOLEAN] /\ down \in [Slots -> 0 .. Stale]
  /\ cache \in [Slots -> [left : 0 .. CacheTtl, status : Verdicts]]
  /\ loop \in Tasks \cup {NoTask} /\ flips \in 0 .. MaxFlips
  /\ \A t \in Tasks :
       /\ task[t].pc \in {"idle", "reading", "walking", "snapshot", "decided"}
       /\ task[t].slot \in Names /\ task[t].fallback \in Names
       /\ task[t].awaiting => task[t].slot \in Slots /\ task[t].probe.age <= ProbeTimeout
       /\ task[t].rows \in [Slots -> Verdicts]
       \* between two awaits a task keeps the loop
       /\ task[t].pc \in {"reading", "walking", "snapshot"} /\ ~task[t].awaiting <=> loop = t

(* No request is given a slot whose endpoint has been down for longer than   *)
(* a cached verdict lives and a probe takes, whatever probes other requests  *)
(* had under way and in whichever order they came back.                      *)
DownNotSelected ==
  [][\A t \in Tasks : task[t].pc = "walking" /\ task'[t].pc = "snapshot"
       => down[task[t].slot] < Stale]_vars

(* Failover leaves no slot of the chain out: up to the slot that is taken,   *)
(* or to the end of the chain when the walk gives up and an upstream or      *)
(* nobody answers, every slot from the first one checked was found not       *)
(* healthy by this very request.                                             *)
FailoverInOrder ==
  [][\A t \in Tasks :
       LET was == task[t]
           seen == was.refused \cup {was.slot}
           passed == {i \in DOMAIN was.chain :
                        \/ task'[t].pc = "decided"
                        \/ \E j \in DOMAIN was.chain : was.chain[j] = was.slot /\ i <= j}
       IN  was.pc = "walking" /\ task'[t].pc # "walking" =>
             \A i, j \in passed : i < j /\ was.chain[i] \in seen => was.chain[j] \in seen]_vars

(* A private request is never answered by an upstream: not because it names  *)
(* one, is pinned to one, or finds every local slot ill.                     *)
LocalOnlyStays ==
  \A t \in Tasks : task[t].result = "upstream" => ~task[t].needs.localOnly

(* While denials are enforced, and whichever way a request came to be        *)
(* forwarded, the upstream is trusted enough for every class of content the  *)
(* text matches, and only the most trusted tier sees a text with a secret.   *)
DisclosureHolds ==
  \A t \in Tasks : task[t].result = "upstream" /\ task[t].enforced =>
    Sheltered(Policy, TierOf(Policy, UpstreamTier[task[t].upstream]), task[t].text)

(* Neither the client's wish nor the operator's rules are got round.         *)
PrivacyKept == LocalOnlyStays /\ DisclosureHolds

(* Every request is decided, also when all slots of its chain are ill.       *)
EveryRequestDecided == \A t \in Tasks : task[t].pc = "reading" ~> task[t].pc = "decided"
=============================================================================
