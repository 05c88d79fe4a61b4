------------------------- MODULE AgentOrchestrator -------------------------
(***************************************************************************)
(* The ticket coordinator (service/agent_orchestrator.py): plans and their *)
(* tickets in SQLite, marker files in the workspace, workers that claim    *)
(* tickets under a lease.                                                  *)
(*                                                                         *)
(* A handler runs on the event loop without an await, so no two handlers   *)
(* interleave; but one handler is several transactions and file writes,    *)
(* and the service may die, or a write fail, between any two of them.      *)
(* busy is the handler under way; everything else waits for it.            *)
(***************************************************************************)
EXTENDS Integers

CONSTANTS
  Drafts,       \* the bodies of create_plan: plan, sound, and its tickets,
                \* each with the tickets it depends on and whether it is required
  Plans, Tickets, Workers,
  NoWorker,
  MaxLease,     \* the longest lease_seconds
  MaxAttempts,  \* bound: how often a ticket is claimed anew
  MaxSubmits,   \* bound: how many submissions there are
  MaxFailures   \* bound: how often the service dies or a write fails

Final == {"completed", "blocked", "failed"}
Statuses == {"pending", "ready", "running"} \cup Final

ASSUME OrchestratorAssumption ==
  /\ NoWorker \notin Workers
  /\ MaxLease \in Nat \ {0}
  /\ MaxAttempts \in Nat \ {0} /\ MaxFailures \in Nat /\ MaxSubmits \in Nat
  /\ \A d \in Drafts :
       /\ d.plan \in Plans /\ d.sound \in BOOLEAN /\ DOMAIN d.tickets \subseteq Tickets
       /\ \A t \in DOMAIN d.tickets : /\ d.tickets[t].deps \subseteq Tickets
                                      /\ d.tickets[t].required \in BOOLEAN

VARIABLES
  row,       \* row[t]: the tickets table, on a subset of Tickets
  plan,      \* plan[p]: the status in the plans table, on a subset of Plans
  folder,    \* plans whose folder exists in the workspace
  marker,    \* marker[t]: the statuses t has a marker file of (DONE.json, ...)
  wake,      \* wake[p]: what WAKE.json says, or "none"
  busy,      \* the handler under way
  told,      \* told[w][t]: how much longer worker w counts on its lease of t
  achieved,  \* tickets that were ever completed (ghost)
  torn,      \* plans whose last submission did not run to its end (ghost)
  submits, failures

rows == <<row, plan>>
files == <<folder, marker, wake>>
vars == <<row, plan, folder, marker, wake, busy, told, achieved, torn, submits, failures>>

Free == [doing |-> "nothing"]

-----------------------------------------------------------------------------
(* create_plan. *)

\* mutated: the folder is left to whoever writes into it first
CreateBeginsNoFolder(d) ==
  /\ busy = Free /\ d.plan \notin DOMAIN plan
  /\ busy' = [doing |-> "create", draft |-> d]
  /\ UNCHANGED <<rows, files, told, achieved, torn, submits, failures>>

(* The folder of the plan is made first, and must not exist. *)
CreateBegins(d) ==
  /\ busy = Free /\ d.plan \notin folder
  /\ folder' = folder \cup {d.plan}
  /\ busy' = [doing |-> "create", draft |-> d]
  /\ UNCHANGED <<rows, marker, wake, told, achieved, torn, submits, failures>>

(* The tickets' files are written until one of them is not sound. *)
CreateRefused ==
  /\ busy.doing = "create" /\ ~busy.draft.sound
  /\ busy' = Free
  /\ UNCHANGED <<rows, files, told, achieved, torn, submits, failures>>

NewRow(p, ticket) ==
  [plan |-> p, deps |-> ticket.deps, required |-> ticket.required,
   status |-> IF ticket.deps = {} THEN "ready" ELSE "pending",
   owner |-> NoWorker, lease |-> 0, attempt |-> 0]

(* All rows are inserted in one transaction; a ticket that another plan has  *)
(* makes it fail.                                                            *)
CreateCommits ==
  LET d == busy.draft
  IN  /\ busy.doing = "create" /\ d.sound
      /\ busy' = Free
      /\ IF DOMAIN d.tickets \cap DOMAIN row # {}
         THEN UNCHANGED <<row, plan>>
         ELSE /\ row' = [t \in DOMAIN row \cup DOMAIN d.tickets |->
                           IF t \in DOMAIN row THEN row[t] ELSE NewRow(d.plan, d.tickets[t])]
              /\ plan' = [p \in DOMAIN plan \cup {d.plan} |-> IF p = d.plan THEN "open" ELSE plan[p]]
      /\ UNCHANGED <<files, told, achieved, torn, submits, failures>>

-----------------------------------------------------------------------------
(* Leases. *)

Expired(t) == row[t].lease = 0

\* mutated: a running ticket may be claimed by anybody
MayClaimAnybody(t, w) == row[t].status \in {"ready", "running"}

MayClaim(t, w) ==
  \/ row[t].status = "ready"
  \/ row[t].status = "running" /\ (row[t].owner = w \/ Expired(t))

Renewing(t, w) == row[t].status = "running" /\ row[t].owner = w

(* claim_ticket.  The answer may get lost: the worker then counts on no more *)
(* than it did, nor on more than it asked for.                               *)
Claim(t, w, seconds, answered) ==
  /\ busy = Free /\ t \in DOMAIN row /\ MayClaim(t, w)
  /\ Renewing(t, w) \/ row[t].attempt < MaxAttempts
  /\ row' = [row EXCEPT ![t].status = "running", ![t].owner = w, ![t].lease = seconds,
                        ![t].attempt = IF Renewing(t, w) THEN @ ELSE @ + 1]
  /\ told' = [told EXCEPT ![w][t] = IF answered \/ @ > seconds THEN seconds ELSE @]
  /\ UNCHANGED <<plan, files, busy, achieved, torn, submits, failures>>

Owns(t, w) == row[t].status = "running" /\ row[t].owner = w

-----------------------------------------------------------------------------
(* Submission: a worker that must own the ticket completes or blocks it      *)
(* (finish_claimed_ticket), or anybody submits it, in whatever state it is.  *)

(* The marker file is written inside the transaction. *)
SubmitMarks(t, w, status) ==
  /\ busy = Free /\ t \in DOMAIN row /\ submits < MaxSubmits
  /\ submits' = submits + 1
  /\ w # NoWorker => Owns(t, w) /\ status # "failed"
  /\ marker' = [marker EXCEPT ![t] = @ \cup {status}]
  /\ busy' = [doing |-> "submit", ticket |-> t, status |-> status]
  /\ UNCHANGED <<rows, folder, wake, told, achieved, torn, failures>>

SubmitCommits ==
  LET t == busy.ticket
  IN  /\ busy.doing = "submit"
      /\ row' = [row EXCEPT ![t].status = busy.status]
      /\ achieved' = IF busy.status = "completed" THEN achieved \cup {t} ELSE achieved
      /\ busy' = [doing |-> "refresh", plan |-> row[t].plan]
      /\ torn' = torn \cup {row[t].plan}
      /\ UNCHANGED <<plan, files, told, submits, failures>>

TicketsOf(p) == {t \in DOMAIN row : row[t].plan = p}
Completed(p) == {t \in TicketsOf(p) : row[t].status = "completed"}

\* mutated: dependencies may be finished in any way
UnblockedFinal(t, p) == \A d \in row[t].deps : d \in TicketsOf(p) /\ row[d].status \in Final

Unblocked(t, p) == row[t].deps \subseteq Completed(p)

(* _refresh_ready_tickets. *)
Refresh ==
  LET p == busy.plan
  IN  /\ busy.doing = "refresh"
      /\ row' = [t \in DOMAIN row |->
                   IF t \in TicketsOf(p) /\ row[t].status = "pending" /\ Unblocked(t, p)
                   THEN [row[t] EXCEPT !.status = "ready"] ELSE row[t]]
      /\ busy' = [doing |-> "recompute", plan |-> p]
      /\ UNCHANGED <<plan, files, told, achieved, torn, submits, failures>>

RequiredOf(p) == {t \in TicketsOf(p) : row[t].required}
Stopped(p) == {t \in RequiredOf(p) : row[t].status \in {"blocked", "failed"}}

\* mutated: a plan is done when all its required tickets are finished
PlanStatusFinal(p) ==
  IF RequiredOf(p) # {} /\ \A t \in RequiredOf(p) : row[t].status \in Final
  THEN "ready_for_planner" ELSE IF Stopped(p) # {} THEN "needs_attention" ELSE "open"

PlanStatus(p) ==
  IF Stopped(p) # {} THEN "needs_attention"
  ELSE IF RequiredOf(p) # {} /\ RequiredOf(p) \subseteq Completed(p)
  THEN "ready_for_planner" ELSE "open"

(* _recompute_plan_status writes WAKE.json and then the plan's row.          *)
RecomputeWakes ==
  LET p == busy.plan
  IN  /\ busy.doing = "recompute"
      /\ IF PlanStatus(p) = "open" THEN UNCHANGED wake
         ELSE wake' = [wake EXCEPT ![p] = PlanStatus(p)]
      /\ busy' = [doing |-> "publish", plan |-> p]
      /\ UNCHANGED <<rows, folder, marker, told, achieved, torn, submits, failures>>

RecomputeCommits ==
  LET p == busy.plan
  IN  /\ busy.doing = "publish"
      /\ plan' = [plan EXCEPT ![p] = PlanStatus(p)]
      /\ busy' = Free
      /\ torn' = torn \ {p}
      /\ UNCHANGED <<row, files, told, achieved, submits, failures>>

(* The service dies, or a write fails and the handler with it: what was      *)
(* committed and the files stay.  Workers know what they knew.               *)
Fails ==
  /\ busy # Free /\ failures < MaxFailures
  /\ failures' = failures + 1
  /\ busy' = Free
  /\ UNCHANGED <<rows, files, told, achieved, torn, submits>>

-----------------------------------------------------------------------------
(* Time, which one clock keeps for the table and the workers. *)
Tick ==
  /\ busy = Free
  /\ row' = [t \in DOMAIN row |-> [row[t] EXCEPT !.lease = IF @ > 0 THEN @ - 1 ELSE 0]]
  /\ told' = [w \in Workers |-> [t \in Tickets |-> IF told[w][t] > 0 THEN told[w][t] - 1 ELSE 0]]
  /\ UNCHANGED <<plan, files, busy, achieved, torn, submits, failures>>

-----------------------------------------------------------------------------
Init ==
  /\ row = [t \in {} |-> NewRow(t, t)] /\ plan = [p \in {} |-> p]
  /\ folder = {} /\ wake = [p \in Plans |-> "none"]
  /\ marker = [t \in Tickets |-> {}]
  /\ busy = Free
  /\ told = [w \in Workers |-> [t \in Tickets |-> 0]]
  /\ achieved = {} /\ torn = {} /\ submits = 0 /\ failures = 0

Next ==
  \/ \E d \in Drafts : CreateBegins(d)
  \/ CreateRefused \/ CreateCommits
  \/ \E t \in Tickets :
       \/ \E w \in Workers, s \in 1 .. MaxLease, answered \in BOOLEAN : Claim(t, w, s, answered)
       \/ \E w \in Workers \cup {NoWorker}, s \in Final : SubmitMarks(t, w, s)
  \/ SubmitCommits \/ Refresh \/ RecomputeWakes \/ RecomputeCommits
  \/ Fails \/ Tick

Spec == Init /\ [][Next]_vars

-----------------------------------------------------------------------------
(* Properties. *)

RowType ==
  [plan : Plans, deps : SUBSET Tickets, required : BOOLEAN, status : Statuses,
   owner : Workers \cup {NoWorker}, lease : 0 .. MaxLease, attempt : 0 .. MaxAttempts]

(* Rows, files and the handler under way are well formed; every ticket       *)
(* belongs to a plan with a folder, and a running one has an owner.          *)
TypeOK ==
  /\ DOMAIN row \subseteq Tickets /\ \A t \in DOMAIN row : row[t] \in RowType
  /\ DOMAIN plan \subseteq folder /\ folder \subseteq Plans
  /\ \A p \in DOMAIN plan : plan[p] \in {"open", "needs_attention", "ready_for_planner"}
  /\ \A t \in DOMAIN row : /\ row[t].plan \in DOMAIN plan
                           /\ row[t].status = "running" => row[t].owner \in Workers
  /\ busy.doing \in {"nothing", "create", "submit", "refresh", "recompute", "publish"}
  /\ submits \in 0 .. MaxSubmits /\ failures \in 0 .. MaxFailures

(* Two workers never both count on an unexpired lease of one ticket, though  *)
(* leases are renewed, shortened and taken over, and answers get lost.       *)
LeaseExclusive ==
  \A t \in Tickets, v, w \in Workers : told[v][t] > 0 /\ told[w][t] > 0 => v = w

(* A ticket is offered or worked on only when all tickets it depends on have *)
(* been completed.                                                           *)
DependenciesFirst ==
  \A t \in DOMAIN row : row[t].status \in {"ready", "running"} => row[t].deps \subseteq achieved

(* Unless the last submission to the plan was cut short, its status says     *)
(* what its tickets say, and no ticket is kept waiting without a reason: a   *)
(* complete submission repairs whatever earlier failures left behind.        *)
TicketsAgree ==
  \A p \in DOMAIN plan \ torn :
    LET ours == {t \in DOMAIN row : row[t].plan = p}
        need == {t \in ours : row[t].required}
    IN  /\ plan[p] = "needs_attention"
              <=> \E t \in need : row[t].status \in {"blocked", "failed"}
        /\ plan[p] = "ready_for_planner"
              <=> need # {} /\ \A t \in need : row[t].status = "completed"
        /\ \A t \in ours : row[t].status = "pending" =>
              \E d \in row[t].deps : d \in ours => row[d].status # "completed"

(* What the tables say is in the files, which agents read: a finished ticket *)
(* has its marker, and a plan that wants its planner the matching WAKE.json. *)
FilesAgree ==
  /\ \A t \in DOMAIN row : row[t].status \in Final => row[t].status \in marker[t]
  /\ \A p \in DOMAIN plan : plan[p] # "open" =>
       wake[p] # "none" /\ (p \notin torn => wake[p] = plan[p])

PlanAgrees == TicketsAgree /\ FilesAgree
=============================================================================
