---------------------------- MODULE UsageBudget ----------------------------
(***************************************************************************)
(* Which upstreams still have a budget (helpers/usage_ledger.py, helpers/  *)
(* budget_engine.py): what was used is summed from a ledger over rolling   *)
(* windows and compared with the declared caps, unless the provider can be *)
(* asked.  Pure.  An event has an id of its own; times are seconds, shares *)
(* of a cap are tenths of a percent, rounded as the code rounds them.      *)
(***************************************************************************)
EXTENDS Integers, FiniteSetsExt

(* The ledger.  _record_upstream_usage records an answer that says what it   *)
(* used, never a stream; prune drops what is older than 35 days, which       *)
(* nobody reads anyway.                                                     *)
MaxAge == 35 * 86400
Recorded(ledger, event, streamed) ==
  IF streamed \/ event.tokens = 0 THEN ledger ELSE ledger \cup {event}
Pruned(ledger, now) == {e \in ledger : e.at >= now - MaxAge}

(* window_totals: the events of a provider that count at a time.             *)
Counted(ledger, provider, window, now) ==
  {e \in Pruned(ledger, now) : e.provider = provider /\ e.at >= now - window /\ e.at <= now}
TokensUsed(events) == MapThenSumSet(LAMBDA e : e.tokens, events)
RequestsUsed(events) == MapThenSumSet(LAMBDA e : e.requests, events)

(* _parse_limit and parse_window: a limit with a window that does not parse  *)
(* is left out; a cap of 0 or none is no cap.                                *)
Limits(raw) == {w \in raw : w.window > 0}
NoLimit == 0

(* used of cap is at least so many tenths of a percent, after rounding.      *)
AtLeast(used, cap, tenths) == cap # NoLimit /\ 2000 * used + cap >= 2 * tenths * cap
WarnAt == 800
ExhaustedAt == 1000

(* _declared_windows, and the worst of them.                                 *)
Reaches(w, tokens, requests, tenths) == AtLeast(tokens, w.tokens, tenths) \/ AtLeast(requests, w.requests, tenths)
SomeReaches(limits, ledger, provider, now, tenths) ==
  \E w \in limits : LET events == Counted(ledger, provider, w.window, now)
                    IN  Reaches(w, TokensUsed(events), RequestsUsed(events), tenths)
DeclaredStatus(limits, ledger, provider, now) ==
  IF SomeReaches(limits, ledger, provider, now, ExhaustedAt) THEN "exhausted"
  ELSE IF SomeReaches(limits, ledger, provider, now, WarnAt) THEN "warn" ELSE "ok"

(* A live reading: the shares of its windows, known or not.                  *)
UnknownShare == -1
LiveStatus(shares) ==
  IF \E s \in shares : s >= ExhaustedAt THEN "exhausted"
  ELSE IF \E s \in shares : s >= WarnAt THEN "warn" ELSE "ok"

(* provider_budget.  live is what asking gives, available and its shares;    *)
(* broken when a source raises.                                             *)
ProviderStatus(u, live, ledger, now) ==
  IF u.asks /\ live.available THEN LiveStatus(live.shares)
  ELSE IF u.limits # {} THEN DeclaredStatus(u.limits, ledger, u.name, now)
  ELSE IF u.asks THEN "unknown" ELSE "tracked"

(* _upstream_budget_status: one provider that raises leaves no data at all.  *)
NoData == "none"
Considered(u) == u.enabled \/ u.limits # {}
BudgetStatus(u, upstreams, live, ledger, now) ==
  IF \E v \in upstreams : Considered(v) /\ live[v].broken THEN NoData
  ELSE IF ~Considered(u) THEN NoData
  ELSE ProviderStatus(u, live[u], ledger, now)

(* What handle keeps as candidates.                                         *)
Funded(upstreams, live, ledger, now) ==
  {u \in upstreams : BudgetStatus(u, upstreams, live, ledger, now) # "exhausted"}
=============================================================================
