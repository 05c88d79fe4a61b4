---------------------- MODULE AgentOrchestratorProofs ----------------------
(***************************************************************************)
(* That AgentOrchestrator is type correct, gives out each lease once and   *)
(* keeps the order of dependencies, for any tickets, workers and drafts.   *)
(* And about the gate of ExecutionPolicy, which chooses a worker's model:  *)
(* for every catalogue, request, inventory and decision, the built-in      *)
(* provider's, one that a future provider takes, or none because it raised.*)
(***************************************************************************)
EXTENDS AgentOrchestrator, ExecutionPolicy, TLAPS

(* The handler under way, whose draft, ticket and plan exist.              *)
Handlers ==
  {Free} \cup [doing : {"create"}, draft : Drafts]
    \cup [doing : {"submit"}, ticket : DOMAIN row, status : Final]
    \cup [doing : {"refresh", "recompute", "publish"}, plan : DOMAIN plan]

(* Rows and memories are functions, and a plan in the making has a folder.   *)
Shape ==
  /\ row = [t \in DOMAIN row |-> row[t]] /\ plan = [p \in DOMAIN plan |-> plan[p]]
  /\ told \in [Workers -> [Tickets -> 0 .. MaxLease]]
  /\ busy \in Handlers
  /\ busy.doing = "create" => busy.draft.plan \in folder

(* Nobody owns a ticket that was never claimed; and a worker that counts on  *)
(* a lease is the ticket's owner and counts on no more than the row says.    *)
Believed ==
  /\ \A t \in DOMAIN row : row[t].status \in {"pending", "ready"} => row[t].owner = NoWorker
  /\ \A w \in Workers, t \in Tickets : told[w][t] > 0 =>
       t \in DOMAIN row /\ row[t].owner = w /\ told[w][t] <= row[t].lease

(* A ticket that says it is completed was.                                  *)
Reached == \A t \in DOMAIN row : row[t].status = "completed" => t \in achieved

IInv == TypeOK /\ Shape /\ Believed /\ Reached /\ DependenciesFirst

-----------------------------------------------------------------------------
LEMMA InitIInv == Init => IInv
BY OrchestratorAssumption
   DEF Init, IInv, TypeOK, Shape, Handlers, Free, Believed, Reached, DependenciesFirst

(* What a handler under way is, by what it does.                            *)
LEMMA HandlerKinds ==
  ASSUME busy \in Handlers
  PROVE  /\ busy.doing = "create" => busy.draft \in Drafts
         /\ busy.doing = "submit" => busy.ticket \in DOMAIN row /\ busy.status \in Final
         /\ busy.doing \in {"refresh", "recompute", "publish"} => busy.plan \in DOMAIN plan
BY DEF Handlers, Free

(* A handler that begins, ends or goes on to a plan of the table is one.     *)
LEMMA HandlerTypes ==
  /\ Free \in Handlers
  /\ \A d \in Drafts : [doing |-> "create", draft |-> d] \in Handlers
  /\ \A t \in DOMAIN row, s \in Final : [doing |-> "submit", ticket |-> t, status |-> s] \in Handlers
  /\ \A p \in DOMAIN plan, k \in {"refresh", "recompute", "publish"} : [doing |-> k, plan |-> p] \in Handlers
BY DEF Handlers

(* The actions that leave rows, plans and what is believed as they are.     *)
LEMMA FrameIInv ==
  ASSUME IInv, UNCHANGED <<row, plan, told, achieved>>,
         folder \subseteq folder', folder' \subseteq Plans, busy' \in Handlers,
         busy'.doing = "create" => busy'.draft.plan \in folder',
         submits' \in 0 .. MaxSubmits, failures' \in 0 .. MaxFailures
  PROVE  IInv'
<1>1. Handlers' = Handlers
  BY DEF Handlers
<1>2. TypeOK'
  <2>1. busy'.doing \in {"nothing", "create", "submit", "refresh", "recompute", "publish"}
    BY DEF Handlers, Free
  <2>. QED BY <2>1 DEF IInv, TypeOK
<1>3. Shape'
  BY <1>1 DEF IInv, Shape
<1>4. Believed' /\ Reached' /\ DependenciesFirst'
  BY DEF IInv, Believed, Reached, DependenciesFirst
<1>. QED BY <1>2, <1>3, <1>4 DEF IInv

-----------------------------------------------------------------------------
(* One lemma for each action that changes a row, a plan or a belief.        *)

(* No ticket of an older plan is replaced, and nobody counts on a new one.   *)
LEMMA CreateCommitsIInv ==
  ASSUME IInv, CreateCommits, DOMAIN busy.draft.tickets \cap DOMAIN row = {}
  PROVE  IInv'
<1>. DEFINE d == busy.draft
<1>1. d \in Drafts /\ d.plan \in folder
  BY HandlerKinds DEF IInv, Shape, CreateCommits
<1>2. /\ row' = [t \in DOMAIN row \cup DOMAIN d.tickets |->
                   IF t \in DOMAIN row THEN row[t] ELSE NewRow(d.plan, d.tickets[t])]
      /\ plan' = [p \in DOMAIN plan \cup {d.plan} |-> IF p = d.plan THEN "open" ELSE plan[p]]
      /\ UNCHANGED <<folder, told, achieved, submits, failures>> /\ busy' = Free
  BY DEF CreateCommits, files
<1>3. /\ DOMAIN row' = DOMAIN row \cup DOMAIN d.tickets
      /\ row' = [t \in DOMAIN row' |-> row'[t]]
      /\ \A t \in DOMAIN row : row'[t] = row[t]
      /\ \A t \in DOMAIN d.tickets : t \notin DOMAIN row /\ row'[t] = NewRow(d.plan, d.tickets[t])
  BY <1>2
<1>4. /\ DOMAIN plan' = DOMAIN plan \cup {d.plan}
      /\ plan' = [p \in DOMAIN plan' |-> plan'[p]]
      /\ \A p \in DOMAIN plan' : plan'[p] = IF p = d.plan THEN "open" ELSE plan[p]
  BY <1>2
<1>5. \A t \in DOMAIN d.tickets : /\ t \in Tickets /\ NewRow(d.plan, d.tickets[t]) \in RowType
                                  /\ row'[t].plan = d.plan /\ row'[t].owner = NoWorker
                                  /\ row'[t].status \in {"pending", "ready"}
                                  /\ row'[t].status = "ready" => row'[t].deps = {}
  <2>1. SUFFICES ASSUME NEW t \in DOMAIN d.tickets
        PROVE  /\ t \in Tickets /\ NewRow(d.plan, d.tickets[t]) \in RowType
               /\ row'[t].plan = d.plan /\ row'[t].owner = NoWorker
               /\ row'[t].status \in {"pending", "ready"}
               /\ row'[t].status = "ready" => row'[t].deps = {}
    OBVIOUS
  <2>2. /\ t \in Tickets /\ d.plan \in Plans
        /\ d.tickets[t].deps \subseteq Tickets /\ d.tickets[t].required \in BOOLEAN
    BY <1>1, OrchestratorAssumption
  <2>3. NewRow(d.plan, d.tickets[t]) \in RowType
    BY <2>2, OrchestratorAssumption DEF NewRow, RowType, Statuses
  <2>4. row'[t] = NewRow(d.plan, d.tickets[t])
    BY <1>3
  <2>. QED BY <2>2, <2>3, <2>4 DEF NewRow
<1>6. TypeOK'
  <2>1. DOMAIN row' \subseteq Tickets /\ \A t \in DOMAIN row' : row'[t] \in RowType
    BY <1>3, <1>5 DEF IInv, TypeOK
  <2>2. DOMAIN plan' \subseteq folder' /\ folder' \subseteq Plans
    BY <1>1, <1>2, <1>4 DEF IInv, TypeOK
  <2>3. \A p \in DOMAIN plan' : plan'[p] \in {"open", "needs_attention", "ready_for_planner"}
    BY <1>4 DEF IInv, TypeOK
  <2>4. \A t \in DOMAIN row' : row'[t].plan \in DOMAIN plan' /\ (row'[t].status = "running" => row'[t].owner \in Workers)
    BY <1>3, <1>4, <1>5 DEF IInv, TypeOK
  <2>. QED BY <1>2, <2>1, <2>2, <2>3, <2>4 DEF IInv, TypeOK, Free
<1>7. Shape'
  BY <1>2, <1>3, <1>4 DEF IInv, Shape, Handlers, Free
<1>8. Believed'
  BY <1>2, <1>3, <1>5 DEF IInv, Believed
<1>9. Reached' /\ DependenciesFirst'
  BY <1>2, <1>3, <1>5 DEF IInv, Reached, DependenciesFirst
<1>. QED BY <1>6, <1>7, <1>8, <1>9 DEF IInv

(* A claim takes the ticket from nobody who counts on it: it was ready, the  *)
(* claimer's own, or its lease had run out.                                  *)
LEMMA ClaimIInv ==
  ASSUME IInv, NEW t \in Tickets, NEW w \in Workers, NEW s \in 1 .. MaxLease, NEW a \in BOOLEAN,
         Claim(t, w, s, a)
  PROVE  IInv'
<1>1. /\ t \in DOMAIN row /\ MayClaim(t, w) /\ (Renewing(t, w) \/ row[t].attempt < MaxAttempts)
      /\ row' = [row EXCEPT ![t].status = "running", ![t].owner = w, ![t].lease = s,
                            ![t].attempt = IF Renewing(t, w) THEN @ ELSE @ + 1]
      /\ told' = [told EXCEPT ![w][t] = IF a \/ @ > s THEN s ELSE @]
      /\ UNCHANGED <<plan, folder, achieved, submits, failures>> /\ busy' = Free /\ busy = Free
  BY DEF Claim, files
<1>2. row[t] \in RowType /\ row[t].attempt \in 0 .. MaxAttempts
  BY <1>1 DEF IInv, TypeOK, RowType
<1>3. /\ DOMAIN row' = DOMAIN row /\ row' = [q \in DOMAIN row' |-> row'[q]]
      /\ \A q \in DOMAIN row : q # t => row'[q] = row[q]
      /\ row'[t].status = "running" /\ row'[t].owner = w /\ row'[t].lease = s
      /\ row'[t].plan = row[t].plan /\ row'[t].deps = row[t].deps
  BY <1>1, <1>2 DEF RowType
<1>4. row'[t] \in RowType
  BY <1>1, <1>2, OrchestratorAssumption DEF RowType, Statuses
<1>5. /\ told' \in [Workers -> [Tickets -> 0 .. MaxLease]] /\ told'[w][t] <= s
      /\ \A v \in Workers, q \in Tickets : v # w \/ q # t => told'[v][q] = told[v][q]
  BY <1>1, OrchestratorAssumption DEF IInv, Shape
<1>6. \A v \in Workers : told[v][t] > 0 => v = w
  <2>1. SUFFICES ASSUME NEW v \in Workers, told[v][t] > 0 PROVE v = w
    OBVIOUS
  <2>2. row[t].owner = v /\ row[t].lease > 0
    BY <1>2, <2>1 DEF IInv, Believed, Shape, RowType
  <2>. QED BY <1>1, <2>1, <2>2, OrchestratorAssumption DEF MayClaim, Expired, IInv, Believed
<1>7. TypeOK'
  BY <1>1, <1>3, <1>4 DEF IInv, TypeOK, Free
<1>8. Shape'
  BY <1>1, <1>3, <1>5 DEF IInv, Shape, Handlers, Free
<1>9. Believed'
  <2>1. \A q \in DOMAIN row' : row'[q].status \in {"pending", "ready"} => row'[q].owner = NoWorker
    BY <1>3 DEF IInv, Believed
  <2>2. ASSUME NEW v \in Workers, NEW q \in Tickets, told'[v][q] > 0
        PROVE  q \in DOMAIN row' /\ row'[q].owner = v /\ told'[v][q] <= row'[q].lease
    BY <1>1, <1>3, <1>5, <1>6, <2>2 DEF IInv, Believed
  <2>. QED BY <2>1, <2>2 DEF Believed
<1>10. Reached' /\ DependenciesFirst'
  BY <1>1, <1>3 DEF IInv, Reached, DependenciesFirst, MayClaim
<1>. QED BY <1>7, <1>8, <1>9, <1>10 DEF IInv

(* A submission ends the work on a ticket; what others wait for is achieved. *)
LEMMA SubmitCommitsIInv ==
  ASSUME IInv, SubmitCommits
  PROVE  IInv'
<1>. DEFINE t == busy.ticket
<1>1. t \in DOMAIN row /\ busy.status \in Final
  BY HandlerKinds DEF SubmitCommits, IInv, Shape
<1>2. row[t] \in RowType /\ row[t].plan \in DOMAIN plan
  BY <1>1 DEF IInv, TypeOK
<1>3. /\ row' = [row EXCEPT ![t].status = busy.status]
      /\ achieved' = IF busy.status = "completed" THEN achieved \cup {t} ELSE achieved
      /\ busy' = [doing |-> "refresh", plan |-> row[t].plan]
      /\ UNCHANGED <<plan, folder, told, submits, failures>>
  BY DEF SubmitCommits, files
<1>4. /\ DOMAIN row' = DOMAIN row /\ row' = [q \in DOMAIN row' |-> row'[q]]
      /\ \A q \in DOMAIN row : q # t => row'[q] = row[q]
      /\ row'[t].status = busy.status /\ row'[t].plan = row[t].plan /\ row'[t].owner = row[t].owner
      /\ row'[t].lease = row[t].lease
  BY <1>1, <1>2, <1>3 DEF RowType
<1>5. row'[t] \in RowType
  BY <1>1, <1>2, <1>3 DEF RowType, Statuses
<1>6. TypeOK'
  BY <1>1, <1>2, <1>3, <1>4, <1>5 DEF IInv, TypeOK, Final
<1>7. Shape'
  BY <1>2, <1>3, <1>4 DEF IInv, Shape, Handlers
<1>8. Believed'
  BY <1>1, <1>3, <1>4 DEF IInv, Believed, Final
<1>9. Reached' /\ DependenciesFirst'
  BY <1>1, <1>3, <1>4 DEF IInv, Reached, DependenciesFirst, Final
<1>. QED BY <1>6, <1>7, <1>8, <1>9 DEF IInv

(* A ticket becomes ready only when what it depends on is completed.         *)
LEMMA RefreshIInv ==
  ASSUME IInv, Refresh
  PROVE  IInv'
<1>. DEFINE p == busy.plan
            Wakes(t) == t \in TicketsOf(p) /\ row[t].status = "pending" /\ Unblocked(t, p)
<1>1. p \in DOMAIN plan
  BY HandlerKinds DEF Refresh, IInv, Shape
<1>2. /\ row' = [t \in DOMAIN row |-> IF Wakes(t) THEN [row[t] EXCEPT !.status = "ready"] ELSE row[t]]
      /\ busy' = [doing |-> "recompute", plan |-> p]
      /\ UNCHANGED <<plan, folder, told, achieved, submits, failures>>
  BY DEF Refresh, files
<1>3. \A t \in DOMAIN row : row[t] \in RowType
  BY DEF IInv, TypeOK
<1>4. /\ DOMAIN row' = DOMAIN row /\ row' = [q \in DOMAIN row' |-> row'[q]]
      /\ \A t \in DOMAIN row : /\ row'[t].plan = row[t].plan /\ row'[t].owner = row[t].owner
                               /\ row'[t].lease = row[t].lease /\ row'[t].deps = row[t].deps
                               /\ ~Wakes(t) => row'[t] = row[t]
                               /\ Wakes(t) => row'[t].status = "ready"
  BY <1>2, <1>3 DEF RowType
<1>5. \A t \in DOMAIN row : row'[t] \in RowType
  BY <1>2, <1>3 DEF RowType, Statuses
<1>6. \A t \in DOMAIN row : Wakes(t) => row[t].deps \subseteq achieved
  BY DEF IInv, Reached, Unblocked, Completed, TicketsOf
<1>7. TypeOK'
  BY <1>1, <1>2, <1>4, <1>5 DEF IInv, TypeOK
<1>8. Shape'
  BY <1>1, <1>2, <1>4 DEF IInv, Shape, Handlers
<1>9. Believed'
  BY <1>2, <1>4 DEF IInv, Believed
<1>10. Reached' /\ DependenciesFirst'
  BY <1>2, <1>4, <1>6 DEF IInv, Reached, DependenciesFirst
<1>. QED BY <1>7, <1>8, <1>9, <1>10 DEF IInv

LEMMA RecomputeCommitsIInv ==
  ASSUME IInv, RecomputeCommits
  PROVE  IInv'
<1>. DEFINE p == busy.plan
<1>1. p \in DOMAIN plan
  BY HandlerKinds DEF RecomputeCommits, IInv, Shape
<1>2. /\ plan' = [plan EXCEPT ![p] = PlanStatus(p)] /\ busy' = Free
      /\ UNCHANGED <<row, folder, told, achieved, submits, failures>>
  BY DEF RecomputeCommits, files
<1>3. PlanStatus(p) \in {"open", "needs_attention", "ready_for_planner"}
  BY DEF PlanStatus
<1>4. TypeOK'
  BY <1>1, <1>2, <1>3 DEF IInv, TypeOK, Free
<1>5. Shape'
  BY <1>1, <1>2 DEF IInv, Shape, Handlers, Free
<1>6. Believed' /\ Reached' /\ DependenciesFirst'
  BY <1>2 DEF IInv, Believed, Reached, DependenciesFirst
<1>. QED BY <1>4, <1>5, <1>6 DEF IInv

(* One clock: what a worker counts on runs out with the lease or before.     *)
LEMMA TickIInv ==
  ASSUME IInv, Tick
  PROVE  IInv'
<1>1. /\ row' = [t \in DOMAIN row |-> [row[t] EXCEPT !.lease = IF @ > 0 THEN @ - 1 ELSE 0]]
      /\ told' = [w \in Workers |-> [t \in Tickets |-> IF told[w][t] > 0 THEN told[w][t] - 1 ELSE 0]]
      /\ UNCHANGED <<plan, folder, busy, achieved, submits, failures>>
  BY DEF Tick, files
<1>2. \A t \in DOMAIN row : row[t] \in RowType /\ row[t].lease \in 0 .. MaxLease
  BY DEF IInv, TypeOK, RowType
<1>3. /\ DOMAIN row' = DOMAIN row /\ row' = [q \in DOMAIN row' |-> row'[q]]
      /\ \A t \in DOMAIN row : /\ row'[t].plan = row[t].plan /\ row'[t].owner = row[t].owner
                               /\ row'[t].status = row[t].status /\ row'[t].deps = row[t].deps
                               /\ row'[t].lease = IF row[t].lease > 0 THEN row[t].lease - 1 ELSE 0
  BY <1>1, <1>2 DEF RowType
<1>4. \A t \in DOMAIN row : row'[t] \in RowType
  BY <1>1, <1>2, OrchestratorAssumption DEF RowType
<1>5. told' \in [Workers -> [Tickets -> 0 .. MaxLease]]
  BY <1>1, OrchestratorAssumption DEF IInv, Shape
<1>6. TypeOK'
  BY <1>1, <1>3, <1>4 DEF IInv, TypeOK
<1>7. Shape'
  <2>1. Handlers' = Handlers
    BY <1>1, <1>3 DEF Handlers
  <2>. QED BY <1>1, <1>3, <1>5, <2>1 DEF IInv, Shape
<1>8. Believed'
  <2>1. \A q \in DOMAIN row' : row'[q].status \in {"pending", "ready"} => row'[q].owner = NoWorker
    BY <1>3 DEF IInv, Believed
  <2>2. ASSUME NEW w \in Workers, NEW t \in Tickets, told'[w][t] > 0
        PROVE  t \in DOMAIN row' /\ row'[t].owner = w /\ told'[w][t] <= row'[t].lease
    <3>1. told[w][t] \in Nat /\ told[w][t] > 0 /\ told'[w][t] = told[w][t] - 1
      BY <1>1, <2>2, OrchestratorAssumption DEF IInv, Shape
    <3>. QED BY <1>2, <1>3, <3>1 DEF IInv, Believed
  <2>. QED BY <2>1, <2>2 DEF Believed
<1>9. Reached' /\ DependenciesFirst'
  BY <1>1, <1>3 DEF IInv, Reached, DependenciesFirst
<1>. QED BY <1>6, <1>7, <1>8, <1>9 DEF IInv

-----------------------------------------------------------------------------
LEMMA NextIInv == IInv /\ [Next]_vars => IInv'
<1>. SUFFICES ASSUME IInv, [Next]_vars PROVE IInv'
  OBVIOUS
<1>. USE HandlerKinds, HandlerTypes
<1>1. /\ folder \subseteq Plans /\ submits \in 0 .. MaxSubmits /\ failures \in 0 .. MaxFailures
      /\ busy \in Handlers /\ (busy.doing = "create" => busy.draft.plan \in folder)
  BY DEF IInv, TypeOK, Shape
<1>2. Free \in Handlers /\ Free.doing # "create"
  BY DEF Free
<1>3. ASSUME NEW d \in Drafts, CreateBegins(d) PROVE IInv'
  <2>1. d.plan \in Plans
    BY OrchestratorAssumption
  <2>2. busy' = [doing |-> "create", draft |-> d] /\ folder' = folder \cup {d.plan}
    BY <1>3 DEF CreateBegins
  <2>3. busy' \in Handlers
    BY <2>2
  <2>. QED BY <1>1, <1>3, <2>1, <2>2, <2>3, FrameIInv DEF CreateBegins, rows, files
<1>4. ASSUME CreateRefused PROVE IInv'
  BY <1>1, <1>2, <1>4, FrameIInv DEF CreateRefused, rows, files
<1>5. ASSUME CreateCommits PROVE IInv'
  <2>1. CASE DOMAIN busy.draft.tickets \cap DOMAIN row = {}
    BY <1>5, <2>1, CreateCommitsIInv
  <2>2. CASE DOMAIN busy.draft.tickets \cap DOMAIN row # {}
    BY <1>1, <1>2, <1>5, <2>2, FrameIInv DEF CreateCommits, files
  <2>. QED BY <2>1, <2>2
<1>6. ASSUME NEW t \in Tickets, NEW w \in Workers, NEW s \in 1 .. MaxLease, NEW a \in BOOLEAN,
             Claim(t, w, s, a)
      PROVE  IInv'
  BY <1>6, ClaimIInv
<1>7. ASSUME NEW t \in Tickets, NEW w \in Workers \cup {NoWorker}, NEW s \in Final, SubmitMarks(t, w, s)
      PROVE  IInv'
  <2>1. busy' = [doing |-> "submit", ticket |-> t, status |-> s] /\ t \in DOMAIN row
    BY <1>7 DEF SubmitMarks
  <2>2. busy' \in Handlers /\ busy'.doing # "create"
    BY <2>1
  <2>3. submits' \in 0 .. MaxSubmits
    BY <1>1, <1>7, OrchestratorAssumption DEF SubmitMarks
  <2>. QED BY <1>1, <1>7, <2>2, <2>3, FrameIInv DEF SubmitMarks, rows
<1>8. ASSUME RecomputeWakes PROVE IInv'
  <2>1. busy' = [doing |-> "publish", plan |-> busy.plan] /\ busy.plan \in DOMAIN plan
    BY <1>1, <1>8 DEF RecomputeWakes
  <2>2. busy' \in Handlers /\ busy'.doing # "create"
    BY <2>1
  <2>. QED BY <1>1, <1>8, <2>2, FrameIInv DEF RecomputeWakes, rows
<1>9. ASSUME Fails PROVE IInv'
  <2>1. failures' \in 0 .. MaxFailures
    BY <1>1, <1>9, OrchestratorAssumption DEF Fails
  <2>. QED BY <1>1, <1>2, <1>9, <2>1, FrameIInv DEF Fails, rows, files
<1>10. CASE UNCHANGED vars
  BY <1>1, <1>10, FrameIInv DEF vars
<1>. QED
  BY <1>3, <1>4, <1>5, <1>6, <1>7, <1>8, <1>9, <1>10,
     SubmitCommitsIInv, RefreshIInv, RecomputeCommitsIInv, TickIInv DEF Next

(* The inductive invariant: shapes, what workers believe, what was achieved. *)
THEOREM OrchestratorInvariant == Spec => []IInv
BY InitIInv, NextIInv, PTL DEF Spec

(* Rows, files and handlers stay well formed, whatever fails and when.       *)
THEOREM OrchestratorTypeCorrect == Spec => []TypeOK
<1>1. IInv => TypeOK
  BY DEF IInv
<1>. QED BY <1>1, OrchestratorInvariant, PTL

(* No two workers ever both count on a lease of one ticket: for any workers, *)
(* leases and tickets, and however many answers get lost (claim_ticket).     *)
THEOREM OrchestratorLeaseExclusive == Spec => []LeaseExclusive
<1>1. IInv => LeaseExclusive
  BY DEF IInv, Believed, LeaseExclusive
<1>. QED BY <1>1, OrchestratorInvariant, PTL

(* No ticket is offered or worked on before what it depends on was completed *)
(* (_refresh_ready_tickets), for any plans and any graph of dependencies.    *)
THEOREM OrchestratorDependenciesFirst == Spec => []DependenciesFirst
<1>1. IInv => DependenciesFirst
  BY DEF IInv
<1>. QED BY <1>1, OrchestratorInvariant, PTL

-----------------------------------------------------------------------------
(* Plan, tickets and files.  Whoever waits has something to wait for.       *)
Settled(p) ==
  \A t \in TicketsOf(p) : row[t].status = "pending" =>
    \E d \in row[t].deps : d \in TicketsOf(p) => row[d].status # "completed"

(* How far the handler under way has got with its plan.                     *)
Underway ==
  /\ busy.doing = "create" => busy.draft.plan \notin DOMAIN plan
  /\ busy.doing = "submit" => busy.status \in marker[busy.ticket]
  /\ busy.doing \in {"refresh", "recompute", "publish"} => busy.plan \in torn
  /\ busy.doing \in {"recompute", "publish"} => Settled(busy.plan)
  /\ busy.doing = "publish" /\ PlanStatus(busy.plan) # "open"
       => wake[busy.plan] = PlanStatus(busy.plan)

Agreed == \A p \in DOMAIN plan \ torn : plan[p] = PlanStatus(p) /\ Settled(p)

FileShape ==
  /\ marker \in [Tickets -> SUBSET Final]
  /\ wake \in [Plans -> {"none", "needs_attention", "ready_for_planner"}]

AInv == FileShape /\ Underway /\ Agreed /\ FilesAgree

(* A plan looks the same when the tickets it has only go on towards their   *)
(* end without reaching it.                                                 *)
LEMMA SameView ==
  ASSUME NEW p, TicketsOf(p)' = TicketsOf(p),
         \A t \in TicketsOf(p) :
           /\ row'[t].deps = row[t].deps /\ row'[t].required = row[t].required
           /\ \/ row'[t].status = row[t].status
              \/ row[t].status \notin Final /\ row'[t].status \in {"ready", "running"}
  PROVE  PlanStatus(p)' = PlanStatus(p) /\ (Settled(p) => Settled(p)')
<1>1. \A t \in TicketsOf(p) : \A s \in Final : row'[t].status = s <=> row[t].status = s
  BY DEF Final
<1>2. RequiredOf(p)' = RequiredOf(p)
  BY DEF RequiredOf
<1>3. Completed(p)' = Completed(p)
  BY <1>1 DEF Completed, Final
<1>4. Stopped(p)' = Stopped(p)
  BY <1>1, <1>2 DEF Stopped, RequiredOf, Final
<1>5. PlanStatus(p)' = PlanStatus(p)
  BY <1>2, <1>3, <1>4 DEF PlanStatus
<1>6. ASSUME Settled(p) PROVE Settled(p)'
  BY <1>1, <1>6 DEF Settled, Final
<1>. QED BY <1>5, <1>6

(* What PlanStatus says, in the words of TicketsAgree.                       *)
LEMMA AgreedTickets == Agreed => TicketsAgree
<1>1. SUFFICES ASSUME Agreed, NEW p \in DOMAIN plan \ torn
      PROVE  LET ours == {t \in DOMAIN row : row[t].plan = p}
                 need == {t \in ours : row[t].required}
             IN  /\ plan[p] = "needs_attention" <=> \E t \in need : row[t].status \in {"blocked", "failed"}
                 /\ plan[p] = "ready_for_planner" <=> need # {} /\ \A t \in need : row[t].status = "completed"
                 /\ \A t \in ours : row[t].status = "pending" =>
                      \E d \in row[t].deps : d \in ours => row[d].status # "completed"
  BY DEF TicketsAgree
<1>2. plan[p] = PlanStatus(p) /\ Settled(p)
  BY <1>1 DEF Agreed
<1>3. Stopped(p) # {} <=> \E t \in RequiredOf(p) : row[t].status \in {"blocked", "failed"}
  BY DEF Stopped
<1>4. RequiredOf(p) \subseteq Completed(p) <=> \A t \in RequiredOf(p) : row[t].status = "completed"
  BY DEF RequiredOf, Completed
<1>. QED BY <1>2, <1>3, <1>4 DEF PlanStatus, Settled, RequiredOf, TicketsOf

LEMMA InitAInv == Init => AInv
BY DEF Init, AInv, FileShape, Underway, Agreed, FilesAgree, Free

(* Steps that leave plans and torn plans alone and start no refresh: every   *)
(* plan looks as it did, if its tickets do.                                 *)
LEMMA SameAgreed ==
  ASSUME Agreed, UNCHANGED <<plan, torn>>, DOMAIN row' = DOMAIN row,
         \A t \in DOMAIN row :
           /\ row'[t].plan = row[t].plan
           /\ row'[t].deps = row[t].deps /\ row'[t].required = row[t].required
           /\ \/ row'[t].status = row[t].status
              \/ row[t].status \notin Final /\ row'[t].status \in {"ready", "running"}
  PROVE  Agreed' /\ \A p : PlanStatus(p)' = PlanStatus(p) /\ (Settled(p) => Settled(p)')
<1>1. ASSUME NEW p PROVE PlanStatus(p)' = PlanStatus(p) /\ (Settled(p) => Settled(p)')
  <2>1. TicketsOf(p)' = TicketsOf(p) /\ TicketsOf(p) \subseteq DOMAIN row
    BY DEF TicketsOf
  <2>. QED BY <2>1, SameView
<1>2. Agreed'
  BY <1>1 DEF Agreed
<1>. QED BY <1>1, <1>2

(* A new plan is open, and its tickets wait for each other only.             *)
LEMMA CreateCommitsAInv ==
  ASSUME IInv, AInv, CreateCommits, DOMAIN busy.draft.tickets \cap DOMAIN row = {}
  PROVE  AInv'
<1>. DEFINE d == busy.draft
<1>1. d \in Drafts /\ d.plan \notin DOMAIN plan
  BY HandlerKinds DEF IInv, Shape, CreateCommits, AInv, Underway
<1>2. /\ row' = [t \in DOMAIN row \cup DOMAIN d.tickets |->
                   IF t \in DOMAIN row THEN row[t] ELSE NewRow(d.plan, d.tickets[t])]
      /\ plan' = [p \in DOMAIN plan \cup {d.plan} |-> IF p = d.plan THEN "open" ELSE plan[p]]
      /\ UNCHANGED <<marker, wake, torn>> /\ busy' = Free
  BY DEF CreateCommits, files
<1>3. /\ DOMAIN row' = DOMAIN row \cup DOMAIN d.tickets
      /\ \A t \in DOMAIN row : row'[t] = row[t] /\ row[t].plan # d.plan
      /\ \A t \in DOMAIN d.tickets :
           t \notin DOMAIN row /\ row'[t] = NewRow(d.plan, d.tickets[t])
  BY <1>1, <1>2 DEF IInv, TypeOK
<1>4. \A t \in DOMAIN d.tickets :
        /\ row'[t].plan = d.plan /\ row'[t].status \in {"pending", "ready"}
        /\ row'[t].status = "pending" => row'[t].deps # {}
  <2>1. SUFFICES ASSUME NEW t \in DOMAIN d.tickets
        PROVE  /\ row'[t].plan = d.plan /\ row'[t].status \in {"pending", "ready"}
               /\ row'[t].status = "pending" => row'[t].deps # {}
    OBVIOUS
  <2>2. d.tickets[t].deps \subseteq Tickets /\ row'[t] = NewRow(d.plan, d.tickets[t])
    BY <1>1, <1>3, OrchestratorAssumption
  <2>. QED BY <2>2 DEF NewRow
<1>5. ASSUME NEW p \in DOMAIN plan \ torn PROVE plan'[p] = PlanStatus(p)' /\ Settled(p)'
  <2>1. p # d.plan /\ plan'[p] = plan[p] /\ plan[p] = PlanStatus(p) /\ Settled(p)
    BY <1>1, <1>2, <1>5 DEF AInv, Agreed
  <2>2. TicketsOf(p)' = TicketsOf(p)
    BY <1>3, <1>4, <2>1 DEF TicketsOf
  <2>3. \A t \in TicketsOf(p) : row'[t] = row[t]
    BY <1>3 DEF TicketsOf
  <2>. QED BY <2>1, <2>2, <2>3, SameView
<1>6. ASSUME NEW p, p = d.plan PROVE plan'[p] = PlanStatus(p)' /\ Settled(p)'
  <2>1. TicketsOf(p)' = DOMAIN d.tickets
    BY <1>3, <1>4, <1>6 DEF TicketsOf
  <2>2. Stopped(p)' = {} /\ Completed(p)' = {}
    BY <1>4, <2>1 DEF Stopped, Completed, RequiredOf
  <2>3. PlanStatus(p)' = "open"
    BY <2>2 DEF PlanStatus
  <2>4. Settled(p)'
    BY <1>4, <2>1 DEF Settled
  <2>. QED BY <1>2, <1>6, <2>3, <2>4
<1>7. Agreed'
  BY <1>2, <1>5, <1>6 DEF Agreed
<1>8. FilesAgree'
  BY <1>1, <1>2, <1>3, <1>4 DEF AInv, FilesAgree, Final
<1>. QED BY <1>2, <1>7, <1>8 DEF AInv, FileShape, Underway, Free

LEMMA ClaimAInv ==
  ASSUME IInv, AInv, NEW t \in Tickets, NEW w \in Workers, NEW s \in 1 .. MaxLease,
         NEW a \in BOOLEAN, Claim(t, w, s, a)
  PROVE  AInv'
<1>1. t \in DOMAIN row /\ row[t] \in RowType /\ row[t].status \in {"ready", "running"}
  BY DEF Claim, MayClaim, IInv, TypeOK
<1>2. /\ row' = [row EXCEPT ![t].status = "running", ![t].owner = w, ![t].lease = s,
                            ![t].attempt = IF Renewing(t, w) THEN @ ELSE @ + 1]
      /\ UNCHANGED <<plan, marker, wake, torn>> /\ busy' = Free
  BY DEF Claim, files
<1>3. /\ DOMAIN row' = DOMAIN row /\ \A q \in DOMAIN row : q # t => row'[q] = row[q]
      /\ row'[t].status = "running" /\ row'[t].plan = row[t].plan
      /\ row'[t].deps = row[t].deps /\ row'[t].required = row[t].required
  BY <1>1, <1>2 DEF RowType
<1>4. Agreed'
  BY <1>1, <1>2, <1>3, SameAgreed DEF AInv, Final
<1>5. FilesAgree'
  BY <1>2, <1>3 DEF AInv, FilesAgree, Final
<1>. QED BY <1>2, <1>4, <1>5 DEF AInv, FileShape, Underway, Free

(* The plan is torn from here on, and the other plans have other tickets.    *)
LEMMA SubmitCommitsAInv ==
  ASSUME IInv, AInv, SubmitCommits
  PROVE  AInv'
<1>. DEFINE t == busy.ticket
<1>1. t \in DOMAIN row /\ busy.status \in Final /\ row[t] \in RowType /\ busy.status \in marker[t]
  BY HandlerKinds DEF SubmitCommits, IInv, Shape, TypeOK, AInv, Underway
<1>2. /\ row' = [row EXCEPT ![t].status = busy.status]
      /\ busy' = [doing |-> "refresh", plan |-> row[t].plan]
      /\ torn' = torn \cup {row[t].plan} /\ UNCHANGED <<plan, marker, wake>>
  BY DEF SubmitCommits, files
<1>3. /\ DOMAIN row' = DOMAIN row /\ \A q \in DOMAIN row : q # t => row'[q] = row[q]
      /\ row'[t].status = busy.status /\ row'[t].plan = row[t].plan
  BY <1>1, <1>2 DEF RowType
<1>4. ASSUME NEW p \in DOMAIN plan \ torn' PROVE plan'[p] = PlanStatus(p)' /\ Settled(p)'
  <2>1. p # row[t].plan /\ plan[p] = PlanStatus(p) /\ Settled(p)
    BY <1>2, <1>4 DEF AInv, Agreed
  <2>2. TicketsOf(p)' = TicketsOf(p) /\ \A q \in TicketsOf(p) : row'[q] = row[q]
    BY <1>3, <2>1 DEF TicketsOf
  <2>. QED BY <1>2, <2>1, <2>2, SameView
<1>5. Agreed'
  BY <1>2, <1>4 DEF Agreed
<1>6. FilesAgree'
  BY <1>1, <1>2, <1>3 DEF AInv, FilesAgree
<1>. QED BY <1>2, <1>5, <1>6 DEF AInv, FileShape, Underway

(* After it nobody waits without a reason.                                  *)
LEMMA RefreshAInv ==
  ASSUME IInv, AInv, Refresh
  PROVE  AInv'
<1>. DEFINE p == busy.plan
            Wakes(t) == t \in TicketsOf(p) /\ row[t].status = "pending" /\ Unblocked(t, p)
<1>1. /\ row' = [t \in DOMAIN row |-> IF Wakes(t) THEN [row[t] EXCEPT !.status = "ready"] ELSE row[t]]
      /\ busy' = [doing |-> "recompute", plan |-> p] /\ p \in torn
      /\ UNCHANGED <<plan, marker, wake, torn>>
  BY DEF Refresh, files, AInv, Underway
<1>2. \A t \in DOMAIN row : row[t] \in RowType
  BY DEF IInv, TypeOK
<1>3. /\ DOMAIN row' = DOMAIN row
      /\ \A t \in DOMAIN row :
           /\ row'[t].plan = row[t].plan /\ row'[t].deps = row[t].deps
           /\ row'[t].required = row[t].required
           /\ ~Wakes(t) => row'[t] = row[t]
           /\ Wakes(t) => row[t].status = "pending" /\ row'[t].status = "ready"
  BY <1>1, <1>2 DEF RowType
<1>4. Agreed'
  BY <1>1, <1>3, SameAgreed DEF AInv, Final
<1>5. FilesAgree'
  BY <1>1, <1>3 DEF AInv, FilesAgree, Final
<1>6. ASSUME NEW q, q = p PROVE Settled(q)'
  <2>1. SUFFICES ASSUME NEW t \in TicketsOf(q)', row'[t].status = "pending"
        PROVE  \E d \in row'[t].deps : d \in TicketsOf(q)' => row'[d].status # "completed"
    BY DEF Settled
  <2>2. t \in TicketsOf(q) /\ row[t].status = "pending" /\ ~Unblocked(t, q)
    BY <1>3, <1>6, <2>1 DEF TicketsOf
  <2>3. PICK d \in row[t].deps : d \notin Completed(q)
    BY <2>2 DEF Unblocked
  <2>4. d \in TicketsOf(q)' => row'[d].status # "completed"
    BY <1>3, <2>3 DEF Completed, TicketsOf
  <2>. QED BY <1>3, <2>2, <2>3, <2>4 DEF TicketsOf
<1>. QED BY <1>1, <1>4, <1>5, <1>6 DEF AInv, FileShape, Underway

LEMMA RecomputeWakesAInv ==
  ASSUME IInv, AInv, RecomputeWakes
  PROVE  AInv'
<1>1. PICK p : p = busy.plan
  OBVIOUS
<1>2. /\ p \in Plans /\ p \in torn /\ Settled(p)
      /\ wake' = IF PlanStatus(p) = "open" THEN wake ELSE [wake EXCEPT ![p] = PlanStatus(p)]
      /\ busy' = [doing |-> "publish", plan |-> p] /\ UNCHANGED <<row, plan, marker, torn>>
  BY <1>1, HandlerKinds DEF RecomputeWakes, rows, AInv, Underway, IInv, Shape, TypeOK
<1>3. PlanStatus(p) \in {"open", "needs_attention", "ready_for_planner"}
  BY DEF PlanStatus
<1>4. /\ \A q : TicketsOf(q)' = TicketsOf(q)
      /\ \A q : PlanStatus(q)' = PlanStatus(q) /\ (Settled(q) <=> Settled(q)')
  BY <1>2 DEF PlanStatus, Settled, TicketsOf, Stopped, RequiredOf, Completed
<1>5. FileShape'
  BY <1>2, <1>3 DEF AInv, FileShape
<1>6. Agreed'
  BY <1>2, <1>4 DEF AInv, Agreed
<1>7. FilesAgree'
  BY <1>2, <1>3 DEF AInv, FilesAgree, FileShape, IInv, TypeOK
<1>8. Underway'
  BY <1>2, <1>3, <1>4 DEF AInv, Underway, FileShape
<1>. QED BY <1>5, <1>6, <1>7, <1>8 DEF AInv

(* The end of a submission: the plan's row says what its tickets say.        *)
LEMMA RecomputeCommitsAInv ==
  ASSUME IInv, AInv, RecomputeCommits
  PROVE  AInv'
<1>1. PICK p : p = busy.plan
  OBVIOUS
<1>2. /\ p \in DOMAIN plan /\ Settled(p)
      /\ PlanStatus(p) # "open" => wake[p] = PlanStatus(p)
      /\ plan' = [plan EXCEPT ![p] = PlanStatus(p)] /\ torn' = torn \ {p}
      /\ busy' = Free /\ UNCHANGED <<row, marker, wake>>
  BY <1>1, HandlerKinds DEF RecomputeCommits, files, AInv, Underway, IInv, Shape
<1>3. \A q : PlanStatus(q)' = PlanStatus(q) /\ (Settled(q) <=> Settled(q)')
  BY <1>2 DEF PlanStatus, Settled, TicketsOf, Stopped, RequiredOf, Completed
<1>4. Agreed'
  BY <1>2, <1>3 DEF AInv, Agreed
<1>5. FilesAgree'
  <2>1. PlanStatus(p) \in {"open", "needs_attention", "ready_for_planner"}
    BY DEF PlanStatus
  <2>. QED BY <1>2, <2>1 DEF AInv, FilesAgree
<1>. QED BY <1>2, <1>4, <1>5 DEF AInv, FileShape, Underway, Free

LEMMA NextAInv == IInv /\ AInv /\ [Next]_vars => AInv'
<1>. SUFFICES ASSUME IInv, AInv, [Next]_vars PROVE AInv'
  OBVIOUS
<1>1. ASSUME UNCHANGED <<row, plan, marker, wake, torn>>,
             \/ busy' = Free
             \/ busy'.doing = "create" /\ busy'.draft.plan \notin DOMAIN plan
             \/ busy' = busy
      PROVE  AInv'
  <2>1. /\ \A q : PlanStatus(q)' = PlanStatus(q) /\ (Settled(q) <=> Settled(q)')
    BY <1>1 DEF PlanStatus, Settled, TicketsOf, Stopped, RequiredOf, Completed
  <2>2. Agreed' /\ FilesAgree' /\ FileShape'
    BY <1>1, <2>1 DEF AInv, Agreed, FilesAgree, FileShape
  <2>3. Underway'
    <3>1. CASE busy' # busy
      BY <1>1, <3>1 DEF Underway, Free
    <3>2. CASE busy' = busy
      BY <1>1, <2>1, <3>2 DEF AInv, Underway
    <3>. QED BY <3>1, <3>2
  <2>. QED BY <2>2, <2>3 DEF AInv
<1>2. ASSUME NEW d \in Drafts, CreateBegins(d) PROVE AInv'
  <2>1. busy' = [doing |-> "create", draft |-> d] /\ d.plan \notin DOMAIN plan
    BY <1>2 DEF CreateBegins, IInv, TypeOK
  <2>. QED BY <1>1, <1>2, <2>1 DEF CreateBegins, rows
<1>3. ASSUME CreateCommits PROVE AInv'
  <2>1. CASE DOMAIN busy.draft.tickets \cap DOMAIN row = {}
    BY <1>3, <2>1, CreateCommitsAInv
  <2>2. CASE DOMAIN busy.draft.tickets \cap DOMAIN row # {}
    BY <1>1, <1>3, <2>2 DEF CreateCommits, files
  <2>. QED BY <2>1, <2>2
<1>4. ASSUME NEW t \in Tickets, NEW w \in Workers \cup {NoWorker}, NEW s \in Final, SubmitMarks(t, w, s)
      PROVE  AInv'
  <2>1. /\ marker' = [marker EXCEPT ![t] = @ \cup {s}]
        /\ busy' = [doing |-> "submit", ticket |-> t, status |-> s]
        /\ UNCHANGED <<row, plan, wake, torn>>
    BY <1>4 DEF SubmitMarks, rows
  <2>2. /\ \A q : PlanStatus(q)' = PlanStatus(q) /\ (Settled(q) <=> Settled(q)')
    BY <2>1 DEF PlanStatus, Settled, TicketsOf, Stopped, RequiredOf, Completed
  <2>3. FileShape' /\ \A q \in Tickets : marker[q] \subseteq marker'[q]
    BY <2>1 DEF AInv, FileShape
  <2>4. s \in marker'[t]
    BY <2>1 DEF AInv, FileShape
  <2>5. Agreed' /\ FilesAgree'
    BY <2>1, <2>2, <2>3 DEF AInv, Agreed, FilesAgree, IInv, TypeOK
  <2>6. Underway'
    BY <2>1, <2>4 DEF Underway
  <2>. QED BY <2>3, <2>5, <2>6 DEF AInv
<1>5. ASSUME Tick PROVE AInv'
  <2>1. /\ row' = [t \in DOMAIN row |-> [row[t] EXCEPT !.lease = IF @ > 0 THEN @ - 1 ELSE 0]]
        /\ busy = Free /\ UNCHANGED <<plan, marker, wake, torn, busy>>
    BY <1>5 DEF Tick, files
  <2>2. /\ DOMAIN row' = DOMAIN row
        /\ \A t \in DOMAIN row :
             /\ row'[t].plan = row[t].plan /\ row'[t].deps = row[t].deps
             /\ row'[t].required = row[t].required /\ row'[t].status = row[t].status
    BY <2>1 DEF IInv, TypeOK, RowType
  <2>3. Agreed' /\ FilesAgree'
    BY <2>1, <2>2, SameAgreed DEF AInv, FilesAgree
  <2>. QED BY <2>1, <2>3 DEF AInv, FileShape, Underway, Free
<1>6. CASE CreateRefused \/ Fails \/ UNCHANGED vars
  BY <1>1, <1>6 DEF CreateRefused, Fails, vars, rows, files
<1>. QED
  BY <1>2, <1>3, <1>4, <1>5, <1>6, ClaimAInv, SubmitCommitsAInv, RefreshAInv,
     RecomputeWakesAInv, RecomputeCommitsAInv DEF Next

(* Unless the last submission to it was cut short, a plan says what its      *)
(* tickets say, its files say what the tables say, and nobody is kept        *)
(* waiting (finish, _refresh_ready_tickets, _recompute_plan_status): however *)
(* many submissions failed before, and at whatever point.                   *)
THEOREM OrchestratorPlanAgrees == Spec => []PlanAgrees
<1>1. AInv => PlanAgrees
  BY AgreedTickets DEF AInv, PlanAgrees
<1>. QED BY <1>1, OrchestratorInvariant, InitAInv, NextAInv, PTL DEF Spec

-----------------------------------------------------------------------------
(* The choice of a worker's model. *)

(* The lane that counts for an offered label is eligible and has the label. *)
LEMMA OfferedLane ==
  ASSUME NEW label, NEW lanes, NEW eligible, Offered(label, lanes, eligible)
  PROVE  /\ LaneOf(label, lanes, eligible) \in eligible
         /\ lanes[LaneOf(label, lanes, eligible)].label = label
  BY DEF Offered, LaneOf, LastWith

(* Raising a label ends at one that is offered too.                         *)
LEMMA RaisedIsOffered ==
  ASSUME NEW label, NEW r, NEW lanes, NEW eligible, Offered(label, lanes, eligible)
  PROVE  Offered(Raised(label, r, lanes, eligible), lanes, eligible)
  BY DEF Raised

(* What the gate lets through, label by label: nothing, or an offered lane,  *)
(* which the decision's confidence suffices for unless it is the review.    *)
LEMMA GateGives ==
  ASSUME NEW d, NEW r, NEW cat, NEW eligible, Offered(d.label, cat.lanes, eligible)
  PROVE  LET choice == Gate(d, r, cat, eligible)
         IN  \/ choice = HumanReview("confidence_below_minimum")
             \/ \E l : /\ Offered(l, cat.lanes, eligible)
                       /\ choice.lane = LaneOf(l, cat.lanes, eligible)
                       /\ choice.confidence = d.confidence
                       /\ l = "review_gate" \/ Minimum(l, cat.lanes, eligible) <= d.confidence
<1>. DEFINE label == Raised(d.label, r, cat.lanes, eligible)
            First(j) == MeetsFirst(j, d, label, cat.lanes, eligible)
            choice == Gate(d, r, cat, eligible)
<1>1. CASE Minimum(label, cat.lanes, eligible) <= d.confidence
  <2>1. choice.lane = LaneOf(label, cat.lanes, eligible) /\ choice.confidence = d.confidence
    BY <1>1 DEF Gate, FromLane
  <2>. QED
    BY <1>1, <2>1, RaisedIsOffered
<1>2. CASE /\ ~(Minimum(label, cat.lanes, eligible) <= d.confidence)
           /\ \E j \in DOMAIN d.distribution : First(j)
  <2>1. PICK j \in DOMAIN d.distribution :
             First(j) /\ choice = FromLane(LaneOf(d.distribution[j], cat.lanes, eligible), d.confidence, TRUE, "selected")
    BY <1>2 DEF Gate
  <2>2. Meets(j, d, label, cat.lanes, eligible)
    BY <2>1 DEF MeetsFirst
  <2>. QED
    BY <2>1, <2>2 DEF Meets, FromLane
<1>3. CASE /\ ~(Minimum(label, cat.lanes, eligible) <= d.confidence)
           /\ ~\E j \in DOMAIN d.distribution : First(j)
  <2>1. CASE Offered("review_gate", cat.lanes, eligible)
    <3>1. choice = FromLane(LaneOf("review_gate", cat.lanes, eligible), d.confidence, TRUE, "selected")
      BY <1>3, <2>1 DEF Gate
    <3>. QED
      BY <2>1, <3>1 DEF FromLane
  <2>2. CASE ~Offered("review_gate", cat.lanes, eligible)
    <3>1. choice = HumanReview("confidence_below_minimum")
      BY <1>3, <2>2 DEF Gate
    <3>. QED
      BY <3>1
  <2>. QED
    BY <2>1, <2>2
<1>. QED
  BY <1>1, <1>2, <1>3

(* No decision gets round the filter: the lane of a plan, if it has one, is *)
(* one the filter let through, by the provider's plan or by failing open. *)
THEOREM PlanIsEligible ==
  ASSUME NEW d, NEW r, NEW cat, NEW inv
  PROVE  BuildPlan(d, r, cat, inv).lane \in {NoLane} \cup Eligible(r, cat, inv)
<1>. DEFINE eligible == Eligible(r, cat, inv)
<1>1. CASE eligible = {}
  BY <1>1 DEF BuildPlan, HumanReview
<1>2. CASE eligible # {} /\ (d = NoDecision \/ ~Offered(d.label, cat.lanes, eligible))
  <2>1. BuildPlan(d, r, cat, inv) = FailOpen(cat, eligible)
    BY <1>2 DEF BuildPlan
  <2>2. CASE Offered(cat.failOpen, cat.lanes, eligible)
    <3>1. FailOpen(cat, eligible).lane = LaneOf(cat.failOpen, cat.lanes, eligible)
      BY <2>2 DEF FailOpen, FromLane
    <3>. QED
      BY <2>1, <2>2, <3>1, OfferedLane
  <2>3. CASE ~Offered(cat.failOpen, cat.lanes, eligible)
    BY <2>1, <2>3 DEF FailOpen, HumanReview
  <2>. QED
    BY <2>2, <2>3
<1>3. CASE eligible # {} /\ d # NoDecision /\ Offered(d.label, cat.lanes, eligible)
  <2>1. BuildPlan(d, r, cat, inv) = Gate(d, r, cat, eligible)
    BY <1>3 DEF BuildPlan
  <2>. QED
    BY <1>3, <2>1, GateGives, OfferedLane DEF HumanReview
<1>. QED
  BY <1>1, <1>2, <1>3

(* Hence a plan keeps the caller's constraints: no model class that is       *)
(* reserved for the main session goes to a worker, none that is remote to    *)
(* who did not allow it, and none that exceeds the free memory or the cap.   *)
THEOREM PlanKeepsConstraints ==
  ASSUME NEW d, NEW r, NEW cat, NEW inv, NEW choice, choice = BuildPlan(d, r, cat, inv),
         choice.lane # NoLane
  PROVE  LET c == cat.classes[cat.lanes[choice.lane].class]
         IN  /\ r.caller = "worker" => ~c.reserved
             /\ c.remote => r.allowRemote
             /\ c.vram <= inv.free /\ (r.vramCap # NoCap => c.vram <= r.vramCap)
             /\ r.minContext <= c.context
<1>1. choice.lane \in Eligible(r, cat, inv)
  BY PlanIsEligible
<1>. QED
  BY <1>1 DEF Eligible, LaneServes, ClassServes

(* A lane is not given a task with less confidence than it demands, except   *)
(* the review, which is where doubtful decisions go, and the lane the        *)
(* settings name for when no decision can be used.                          *)
THEOREM PlanIsConfident ==
  ASSUME NEW d, NEW r, NEW cat, NEW inv, NEW choice, choice = BuildPlan(d, r, cat, inv),
         choice.lane # NoLane, choice.reason # "fail_open", cat.lanes[choice.lane].label # "review_gate"
  PROVE  cat.lanes[choice.lane].minimum <= choice.confidence
<1>. DEFINE eligible == Eligible(r, cat, inv)
<1>1. eligible # {} /\ d # NoDecision /\ Offered(d.label, cat.lanes, eligible)
  <2>1. ASSUME eligible = {} PROVE FALSE
    BY <2>1 DEF BuildPlan, HumanReview
  <2>2. ASSUME eligible # {}, d = NoDecision \/ ~Offered(d.label, cat.lanes, eligible) PROVE FALSE
    <3>1. choice = FailOpen(cat, eligible)
      BY <2>2 DEF BuildPlan
    <3>. QED
      BY <3>1 DEF FailOpen, HumanReview, FromLane
  <2>. QED
    BY <2>1, <2>2
<1>2. choice = Gate(d, r, cat, eligible)
  BY <1>1 DEF BuildPlan
<1>3. PICK l : /\ Offered(l, cat.lanes, eligible)
               /\ choice.lane = LaneOf(l, cat.lanes, eligible)
               /\ choice.confidence = d.confidence
               /\ l = "review_gate" \/ Minimum(l, cat.lanes, eligible) <= d.confidence
  BY <1>1, <1>2, GateGives DEF HumanReview
<1>4. cat.lanes[choice.lane].label = l
  BY <1>3, OfferedLane
<1>. QED
  BY <1>3, <1>4 DEF Minimum
=============================================================================
