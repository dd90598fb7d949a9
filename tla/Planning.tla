------------------------------ MODULE Planning ------------------------------
(***************************************************************************)
(* Ideas and the jobs they are planned into: POST /ideas and /ideas/:id/   *)
(* plan (routes/ideas.ts), createIdea and generateBrief (services/         *)
(* jobService.ts), the board and the task file that agents read            *)
(* (routes/jobs.ts).                                                       *)
(*                                                                         *)
(* A plan is a brief and one milestone with its job for each of the        *)
(* milestone types, inserted one statement after the other.  How an idea   *)
(* is funded or cancelled is in ChainSync and CreditLedger, what becomes   *)
(* of a job once it is queued in WorkRoutes: here both just happen.        *)
(***************************************************************************)
EXTENDS Access

CONSTANTS
    MilestoneOrder,        \* how many milestone types there are
    IdeaBudgets,           \* in cents
    MaxIdeas,
    Guests                 \* who posts without a session

VARIABLES
    ideas,                 \* the rows of ideas
    briefs,                \* the rows of briefs: the idea of each
    planned,               \* the rows of milestones and jobs: brief, order, status
    budgets,               \* what the jobs of each brief cost apiece
    board                  \* the last answer of GET /jobs?view=grouped

planVars == <<ideas, briefs, planned, budgets, board>>

PlanInit == ideas = <<>> /\ briefs = <<>> /\ planned = {} /\ budgets = <<>> /\ board = {}

Orders == 1..MilestoneOrder

-----------------------------------------------------------------------------
(* POST /ideas *)

\* The poster is the session's account; without a session, where none is needed, the
\* account the client names, verified by a World token or not at all.
CreateCall(p, a, budget) ==
    /\ Setting.strict => SignedIn(a) /\ HasRole(a, "poster")
    /\ Start(p, [op |-> "create", step |-> "insert", account |-> a, amount |-> budget])
    /\ UNCHANGED <<accessVars, planVars>>

CreateIdea(p) ==
    /\ At(p, "create", "insert") /\ Len(ideas) < MaxIdeas
    /\ ideas' = Append(ideas, [poster |-> proc[p].account, budget |-> proc[p].amount, status |-> "unfunded"])
    /\ Finish(p)
    /\ UNCHANGED <<job, syncs, accessVars, briefs, planned, budgets, board>> /\ Quiet

FundOrCancel(i) ==
    /\ i \in DOMAIN ideas /\ ideas[i].status = "unfunded"
    /\ \E status \in {"funded", "cancelled"} : ideas' = [ideas EXCEPT ![i].status = status]
    /\ UNCHANGED <<requestVars, accessVars, briefs, planned, budgets, board>>

-----------------------------------------------------------------------------
(* POST /ideas/:ideaId/plan *)

\* In strict mode only the poster's session plans; else anybody does, for the poster.
\* Whichever brief of the idea is found first is taken for its plan.
PlanCall(p, i, a) ==
    LET found == {b \in DOMAIN briefs : briefs[b] = i} IN
    /\ i \in DOMAIN ideas /\ ideas[i].status = "funded"
    /\ ideas[i].poster = a
    /\ Setting.strict => SignedIn(a)
    /\ \/ found = {} /\ Start(p, [op |-> "plan", step |-> "brief", idea |-> i, account |-> a])
       \/ \E b \in found : Start(p, [op |-> "plan", step |-> "reserve", idea |-> i, brief |-> b, account |-> a])
    /\ UNCHANGED <<accessVars, planVars>>

\* A slip: the budget is rounded up.
BudgetRoundedUp(cents) == {(cents \div MilestoneOrder) + 1}

\* toFixed of a quarter of the budget; at half a cent either way.
MilestoneBudget(cents) ==
    {m \in (cents \div MilestoneOrder)..((cents \div MilestoneOrder) + 1) :
        2 * (m * MilestoneOrder - cents) \in -MilestoneOrder..MilestoneOrder}

InsertBrief(p) ==
    /\ At(p, "plan", "brief")
    /\ briefs' = Append(briefs, proc[p].idea)
    /\ \E m \in MilestoneBudget(ideas[proc[p].idea].budget) : budgets' = Append(budgets, m)
    /\ proc' = [proc EXCEPT ![p] = With(proc[p], [step |-> "job", brief |-> Len(briefs) + 1, amount |-> 1])]
    /\ UNCHANGED <<job, syncs, accessVars, ideas, planned, board>> /\ Quiet

\* The next milestone with its job.
InsertJob(p) ==
    LET r == proc[p] IN
    /\ At(p, "plan", "job")
    /\ planned' = planned \cup {[brief |-> r.brief, order |-> r.amount, status |-> "created"]}
    /\ IF r.amount = MilestoneOrder
       THEN IF Setting.strict THEN Finish(p) ELSE Goto(p, "reserve")
       ELSE proc' = [proc EXCEPT ![p].amount = @ + 1]
    /\ UNCHANGED <<job, syncs, accessVars, ideas, briefs, budgets, board>> /\ Quiet

Reservation(b) == [tx |-> b, event |-> "milestone_reserved"]

\* Unless the mode is strict the route reserves what it finds, once per brief, with a
\* transaction of its own making; recordChainSync looks for it and inserts it later.
FindReservation(p) ==
    LET r == proc[p]
        found == {m.order : m \in {x \in planned : x.brief = r.brief}}
    IN
    /\ At(p, "plan", "reserve")
    /\ IF Setting.strict \/ found = {} \/ Reservation(r.brief) \in syncs THEN Finish(p)
       ELSE proc' = [proc EXCEPT ![p] = With(proc[p], [step |-> "reservation", found |-> found])]
    /\ UNCHANGED <<job, syncs, accessVars, planVars>> /\ Quiet

RecordReservation(p) ==
    /\ At(p, "plan", "reservation")
    /\ IF Reservation(proc[p].brief) \in syncs THEN Finish(p) ELSE Goto(p, "queue")
    /\ syncs' = syncs \cup {Reservation(proc[p].brief)}
    /\ UNCHANGED <<job, accessVars, planVars>> /\ Quiet

\* syncMilestoneReservation queues each of the jobs, whatever has become of it.
QueueJobs(p) ==
    LET Mine(m) == m.brief = proc[p].brief /\ m.order \in proc[p].found IN
    /\ At(p, "plan", "queue")
    /\ planned' = {m \in planned : ~Mine(m)} \cup
                  {[m EXCEPT !.status = "queued"] : m \in {x \in planned : Mine(x)}}
    /\ Finish(p)
    /\ UNCHANGED <<job, syncs, accessVars, ideas, briefs, budgets, board>> /\ Quiet

\* A worker takes a queued job.
TakeJob(m) ==
    /\ m.status = "queued"
    /\ planned' = (planned \ {m}) \cup {[m EXCEPT !.status = "claimed"]}
    /\ UNCHANGED <<requestVars, accessVars, ideas, briefs, budgets, board>>

-----------------------------------------------------------------------------
(* What agents read *)

\* GET /jobs?view=grouped: the queued jobs first, then all jobs of their briefs.
MatchingJobs(status) == {m \in planned : m.status = status}

BoardCall(p, status) ==
    /\ Start(p, [op |-> "board", step |-> "group", status |-> status, matching |-> MatchingJobs(status)])
    /\ UNCHANGED <<accessVars, planVars>>

Group(b, matching) ==
    [brief |-> b, idea |-> briefs[b],
     count |-> Cardinality({m \in matching : m.brief = b}),
     milestones |-> {m \in planned : m.brief = b}]

BuildGroupedJobBoard(p) ==
    LET matching == proc[p].matching IN
    /\ At(p, "board", "group")
    /\ board' = {Group(b, matching) : b \in {m.brief : m \in matching}}
    /\ Finish(p)
    /\ UNCHANGED <<job, syncs, accessVars, ideas, briefs, planned, budgets>> /\ Quiet

PlanArrives(p) ==
    \/ Serves("create") /\ \E a \in Accounts, b \in IdeaBudgets : CreateCall(p, a, b)
    \/ Serves("plan") /\ \E a \in Accounts, i \in DOMAIN ideas : PlanCall(p, i, a)
    \/ Serves("board") /\ \E status \in {"queued", "claimed"} : BoardCall(p, status)

PlanStep(p) ==
    /\ proc[p].op \in {"create", "plan", "board"}
    /\ \/ CreateIdea(p) \/ InsertBrief(p) \/ InsertJob(p)
       \/ FindReservation(p) \/ RecordReservation(p) \/ QueueJobs(p) \/ BuildGroupedJobBoard(p)

PlanMoves ==
    \/ \E i \in DOMAIN ideas : FundOrCancel(i)
    \/ \E m \in planned : TakeJob(m)

-----------------------------------------------------------------------------
(* Properties *)

PlanTypeOK ==
    /\ \A i \in DOMAIN ideas : ideas[i].poster \in Accounts \cup Guests /\ ideas[i].budget \in IdeaBudgets
    /\ \A b \in DOMAIN briefs : briefs[b] \in DOMAIN ideas
    /\ planned \subseteq [brief : DOMAIN briefs, order : Orders, status : {"created", "queued", "claimed"}]

\* An idea is planned once it was funded, and costs what it was funded with but for
\* half a cent per milestone; its jobs come in order, each once.  Until requests overlap
\* or one fails there is one plan, and it is whole (jobService.ts 52-111).
PlansAreWhole ==
    /\ \A b \in DOMAIN briefs :
          LET orders == {m.order : m \in {x \in planned : x.brief = b}} IN
          /\ ideas[briefs[b]].status = "funded"
          /\ 2 * (budgets[b] * MilestoneOrder - ideas[briefs[b]].budget) \in -MilestoneOrder..MilestoneOrder
          /\ orders = 1..Cardinality({m \in planned : m.brief = b})
          /\ alone /\ faults = 0 /\ (\A p \in Requests : proc[p] = Idle) => orders = Orders
    /\ alone => \A b, c \in DOMAIN briefs : briefs[b] = briefs[c] => b = c

\* A job is offered to agents only if its reservation is recorded; an idea's poster
\* holds the role in strict mode (routes/ideas.ts 40-141).
OfferedWereReserved ==
    /\ \A m \in planned : m.status # "created" => Reservation(m.brief) \in syncs \/ Serves("post")
    /\ Setting.strict => \A i \in DOMAIN ideas : HasRole(ideas[i].poster, "poster")

\* The board groups what it has read at two moments: each group counts at least one and
\* at most all of its milestones (routes/jobs.ts 129-243).
BoardCounts ==
    \A g \in board : g.count \in 1..Cardinality(g.milestones) /\ g.idea = briefs[g.brief]
=============================================================================
