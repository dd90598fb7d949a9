----------------------------- MODULE BoardPage -----------------------------
(***************************************************************************)
(* The two clients by which a worker works: the jobs board of the web      *)
(* application (web pages/JobsBoard.tsx, hooks, api.ts) and the command    *)
(* line (worker cli.ts), against the rows of jobs, claims and submissions. *)
(*                                                                         *)
(* A dialog keeps the row it was opened on, and closing it does not stop   *)
(* its handler.  A handler asks for a challenge, has the wallet sign it    *)
(* and calls the broker, whose routes are taken whole here (WorkRoutes     *)
(* has their steps); a request or its answer may be lost.                  *)
(***************************************************************************)
EXTENDS WorkRoutes

CONSTANT DemoWorker    \* makeDemoAddress("demo-worker:" and the job), for one job

VARIABLES
    claims,     \* the rows of claims, in order: job and worker
    active,     \* jobs.activeClaimId, or 0
    proofs,     \* the rows of submissions, in order; at: the claim then active
    pages,      \* pages[a]: the dialog on a's page and the claim of its banner
    notes       \* notes[a]: the claims whose ids a's terminal has shown

boardVars == <<claims, active, proofs, pages, notes>>

NoRow == [status |-> None, holder |-> None, claim |-> 0, by |-> None]
NoDialog == [kind |-> None, job |-> None, row |-> NoRow, busy |-> None]

BoardInit ==
    /\ claims = <<>> /\ active = [j \in Jobs |-> 0] /\ proofs = <<>>
    /\ pages = [a \in Accounts |-> [dialog |-> NoDialog, banner |-> 0]]
    /\ notes = [a \in Accounts |-> {}]

\* A milestone of GET /jobs?view=grouped, with who made its latest submission.
Milestone(j) ==
    LET mine == SelectSeq(proofs, LAMBDA s : s.job = j) IN
    [status |-> job[j], holder |-> holder[j], claim |-> active[j],
     by |-> IF mine = <<>> THEN None ELSE Last(mine).account]

-----------------------------------------------------------------------------
(* What the board offers *)

\* The profile of the page is that of agent g: an authorization that matches it is
\* preferred, then an active one, then any.
Preferred(a, g) ==
    LET mine == {i \in DOMAIN auths : auths[i].account = a /\ auths[i].role = "worker"}
        live == {i \in mine : auths[i].active}
    IN IF Matching(a, g, "worker") # {} THEN Matching(a, g, "worker") ELSE IF live # {} THEN live ELSE mine

Synced(i) == auths[i].active \/ auths[i].token # None

StrictClaimReady(a, g) ==
    SignedIn(a) /\ HasRole(a, "worker") /\ \E i \in Preferred(a, g) : Synced(i)

DemoClaimEnabled == ~Setting.strict
CanClaim(a, g) == StrictClaimReady(a, g) \/ DemoClaimEnabled

IsDemoOwned(row) == DemoWorker \in {row.holder, row.by}
Ownership(a, row) == a \in {row.holder, row.by} \/ (DemoClaimEnabled /\ IsDemoOwned(row))

\* A slip: the board asks who worked last, not who holds the claim.
CanUnclaimByWork(a, g, row) ==
    /\ row.status = "claimed"
    /\ IF DemoClaimEnabled THEN IsDemoOwned(row) ELSE StrictClaimReady(a, g) /\ Ownership(a, row)

CanUnclaimJob(a, g, row) ==
    /\ row.status = "claimed"
    /\ IF DemoClaimEnabled THEN IsDemoOwned(row) ELSE StrictClaimReady(a, g) /\ row.holder = a

CanSubmitProof(a, g, row) ==
    /\ row.status = "claimed" /\ row.claim # 0
    /\ IF DemoClaimEnabled THEN IsDemoOwned(row) ELSE StrictClaimReady(a, g) /\ Ownership(a, row)

\* The buttons of a row: rework is reviewed here, never claimed again.
Offers(a, g, row) ==
    {kind \in {"claim", "unclaim", "submit", "review"} :
        CASE kind = "claim" -> row.status = "queued" /\ CanClaim(a, g)
          [] kind = "unclaim" -> CanUnclaimJob(a, g, row)
          [] kind = "submit" -> CanSubmitProof(a, g, row)
          [] kind = "review" -> row.status \in {"submitted", "accepted", "rework"}}

\* The next step of the checklist that the page has a button for.
Onboarding(a, g) ==
    IF StrictClaimReady(a, g) \/ DemoClaimEnabled THEN None
    ELSE IF ~SignedIn(a) THEN "login"
    ELSE IF HasRole(a, "worker") /\ Preferred(a, g) = {} THEN "authorize"
    ELSE None

\* Who a handler acts as: unsigned as whoever the row says holds the job.
DemoIdentity(row) == IF row.holder = None THEN DemoWorker ELSE row.holder
Unsigned(kind) == DemoClaimEnabled /\ kind # "claim"
ActsAs(a, kind, row) == IF Unsigned(kind) THEN DemoIdentity(row) ELSE a
AgentOf(g, kind) == IF Unsigned(kind) THEN None ELSE g

-----------------------------------------------------------------------------
(* The page *)

ServedByBroker == UNCHANGED <<accessVars, walletVars, store, spends, acts, held, kept>>

OpenDialog(a, g, j, kind) ==
    /\ pages[a].dialog = NoDialog /\ kind \in Offers(a, g, Milestone(j)) \ {"review"}
    /\ kind = "claim" => StrictClaimReady(a, g)
    /\ pages' = [pages EXCEPT ![a] = [dialog |-> [kind |-> kind, job |-> j, row |-> Milestone(j), busy |-> None],
                                      banner |-> 0]]
    /\ UNCHANGED <<requestVars, holder, claims, active, proofs, notes>> /\ ServedByBroker

\* Escape closes a dialog at any time.
CloseDialog(a) ==
    /\ pages[a].dialog # NoDialog
    /\ pages' = [pages EXCEPT ![a].dialog = NoDialog]
    /\ UNCHANGED <<requestVars, holder, claims, active, proofs, notes>> /\ ServedByBroker

\* handleClaim, handleUnclaim or handleSubmit begins, again after an error.
Press(p, a, g) ==
    LET d == pages[a].dialog IN
    /\ d # NoDialog /\ d.busy = None
    /\ Start(p, [op |-> "page", kind |-> d.kind, job |-> d.job, account |-> ActsAs(a, d.kind, d.row),
                 agent |-> AgentOf(g, d.kind), page |-> a, claim |-> d.row.claim,
                 step |-> IF Unsigned(d.kind) THEN "call" ELSE "sign"])
    /\ pages' = [pages EXCEPT ![a].dialog.busy = p]
    /\ UNCHANGED <<holder, claims, active, proofs, notes>> /\ ServedByBroker

IsDemoClaim(p) == proc[p].op = "page" /\ proc[p].kind = "claim" /\ proc[p].agent = None

\* handleDemoClaim, when the page is not ready to sign; one at a time.
HandleDemoClaim(p, a, g, j) ==
    /\ pages[a].dialog = NoDialog /\ ~StrictClaimReady(a, g) /\ "claim" \in Offers(a, g, Milestone(j))
    /\ \A q \in Requests : ~(IsDemoClaim(q) /\ proc[q].page = a)
    /\ Start(p, [op |-> "page", kind |-> "claim", job |-> j, account |-> DemoWorker, agent |-> None,
                 page |-> a, claim |-> 0, step |-> "call"])
    /\ pages' = [pages EXCEPT ![a].banner = 0]
    /\ UNCHANGED <<holder, claims, active, proofs, notes>> /\ ServedByBroker

\* iex-bridge claim, unclaim and submit; submit needs the id of a claim.
Command(p, a, g, j, kind, n) ==
    /\ IF kind = "submit" THEN n \in notes[a] ELSE n = 0
    /\ Start(p, [op |-> "cli", kind |-> kind, job |-> j, account |-> a, agent |-> g, page |-> a,
                 claim |-> n, step |-> "sign"])
    /\ UNCHANGED boardVars /\ UNCHANGED holder /\ ServedByBroker

-----------------------------------------------------------------------------
(* The handlers *)

IsWorker(p) == proc[p].op \in {"page", "cli"}

\* The challenge is issued and signed.
SignAction(p) ==
    /\ proc[p].step = "sign"
    /\ Goto(p, "call")
    /\ UNCHANGED <<job, syncs, holder, boardVars>> /\ Quiet /\ ServedByBroker

Asked(p) == [op |-> proc[p].kind, job |-> proc[p].job, account |-> proc[p].account, agent |-> proc[p].agent]

Permitted(p) ==
    \/ proc[p].agent = None
    \/ /\ RoleIfStrict(proc[p].account, "worker")
       /\ MayFind(proc[p].account, proc[p].agent, "worker", Permission[proc[p].kind], TRUE)

\* What is shown for an error: the handler's dialog is idle again, with the reason.
Shown(p) == [pages EXCEPT ![proc[p].page].dialog.busy = IF @ = p THEN None ELSE @]

Refused(p) ==
    /\ proc[p].step = "call"
    /\ ~RowAllows(Asked(p)) \/ ~Permitted(p)
    /\ pages' = Shown(p) /\ Finish(p)
    /\ UNCHANGED <<job, syncs, holder, claims, active, proofs, notes>> /\ Quiet /\ ServedByBroker

Taken(p) == proc[p].step = "call" /\ RowAllows(Asked(p)) /\ Permitted(p)

ClaimJob(p) ==
    LET j == proc[p].job IN
    /\ Taken(p) /\ proc[p].kind = "claim"
    /\ claims' = Append(claims, [job |-> j, account |-> proc[p].account])
    /\ active' = [active EXCEPT ![j] = Len(claims) + 1]
    /\ job' = [job EXCEPT ![j] = "claimed"] /\ holder' = [holder EXCEPT ![j] = proc[p].account]
    /\ proc' = [proc EXCEPT ![p] = With(proc[p], [step |-> "answer", claim |-> Len(claims) + 1])]
    /\ UNCHANGED <<syncs, proofs, pages, notes>> /\ Quiet /\ ServedByBroker

UnclaimJob(p) ==
    LET j == proc[p].job IN
    /\ Taken(p) /\ proc[p].kind = "unclaim"
    /\ active' = [active EXCEPT ![j] = 0]
    /\ job' = [job EXCEPT ![j] = "queued"] /\ holder' = [holder EXCEPT ![j] = None]
    /\ Goto(p, "answer")
    /\ UNCHANGED <<syncs, claims, proofs, pages, notes>> /\ Quiet /\ ServedByBroker

\* The claim id that was sent is stored; the claim that ends is the job's.
SubmitProof(p) ==
    LET j == proc[p].job IN
    /\ Taken(p) /\ proc[p].kind = "submit"
    /\ proofs' = Append(proofs, [job |-> j, account |-> proc[p].account, claim |-> proc[p].claim, at |-> active[j]])
    /\ \/ job' = [job EXCEPT ![j] = "submitted"] /\ UNCHANGED <<active, holder>>
       \/ /\ job' = [job EXCEPT ![j] = "rework"]
          /\ active' = [active EXCEPT ![j] = 0] /\ holder' = [holder EXCEPT ![j] = None]
    /\ Goto(p, "answer")
    /\ UNCHANGED <<syncs, claims, pages, notes>> /\ Quiet /\ ServedByBroker

\* onSuccess closes the dialog of its kind that is open by then; the command line
\* prints the claim.
Answered(p) ==
    LET a == proc[p].page
        d == pages[a].dialog
    IN
    /\ proc[p].step = "answer"
    /\ IF proc[p].op = "page"
       THEN /\ pages' = [pages EXCEPT ![a] =
                           [dialog |-> IF d.kind = proc[p].kind /\ ~IsDemoClaim(p) THEN NoDialog ELSE d,
                            banner |-> IF proc[p].kind = "claim" THEN proc[p].claim ELSE pages[a].banner]]
            /\ UNCHANGED notes
       ELSE /\ notes' = IF proc[p].kind = "claim" THEN [notes EXCEPT ![a] = @ \cup {proc[p].claim}] ELSE notes
            /\ UNCHANGED pages
    /\ Finish(p)
    /\ UNCHANGED <<job, syncs, holder, claims, active, proofs>> /\ Quiet /\ ServedByBroker

\* The network or the wallet fails: the handler ends with an error.
PageFails(p) ==
    /\ Fail(p)
    /\ pages' = Shown(p)
    /\ UNCHANGED <<holder, claims, active, proofs, notes>> /\ ServedByBroker

\* The lease sweep; a bound: only the first claim lapses.
LeaseLapses(j) ==
    /\ active[j] = 1 /\ job[j] = "claimed"
    /\ job' = [job EXCEPT ![j] = "queued"] /\ holder' = [holder EXCEPT ![j] = None]
    /\ active' = [active EXCEPT ![j] = 0]
    /\ UNCHANGED <<scene, syncs, proc, starts, faults, applied, again, alone, claims, proofs, pages, notes>>
    /\ ServedByBroker

AtWork == Serves("page") \/ Serves("cli")

BoardArrives(p) ==
    \E a \in Accounts, g \in Setting.agents :
        \/ Serves("page") /\ (Press(p, a, g) \/ \E j \in Jobs : HandleDemoClaim(p, a, g, j))
        \/ /\ Serves("cli")
           /\ \E j \in Jobs, kind \in {"claim", "unclaim", "submit"}, n \in notes[a] \cup {0} :
                 Command(p, a, g, j, kind, n)

BoardStep(p) ==
    /\ IsWorker(p)
    /\ \/ SignAction(p) \/ Refused(p) \/ ClaimJob(p) \/ UnclaimJob(p) \/ SubmitProof(p) \/ Answered(p)
       \/ PageFails(p)

BoardMoves ==
    \/ /\ Serves("page")
       /\ \E a \in Accounts : CloseDialog(a) \/
             \E g \in Setting.agents, j \in Jobs, kind \in {"claim", "unclaim", "submit"} : OpenDialog(a, g, j, kind)
    \/ AtWork /\ \E j \in Jobs : LeaseLapses(j)

-----------------------------------------------------------------------------
(* Properties *)

BoardTypeOK ==
    /\ \A j \in Jobs : active[j] \in 0..Len(claims) /\ (active[j] # 0 => claims[active[j]].account = holder[j])
    /\ \A a \in Accounts : pages[a].banner \in 0..Len(claims) /\ notes[a] \subseteq DOMAIN claims

\* A worker whose client is ready can finish or give back what he holds, however
\* answers were lost: the board, read afresh, offers both, and the broker takes both.
\* Without strict mode the board offers them for demo claims only: a signed claim can be
\* given back from the command line (JobsBoard.tsx 1406-1423, jobService.ts 159-286).
HolderCanFinish ==
    \A j \in Jobs, a \in Accounts, g \in Setting.agents :
        job[j] = "claimed" =>
            /\ Setting.strict /\ holder[j] = a /\ StrictClaimReady(a, g) =>
                  {"submit", "unclaim"} \subseteq Offers(a, g, Milestone(j))
            /\ ~Setting.strict /\ holder[j] = DemoWorker /\ active[j] # 0 =>
                  {"submit", "unclaim"} \subseteq Offers(a, g, Milestone(j))
            /\ RowAllows([op |-> "unclaim", job |-> j, account |-> holder[j], agent |-> g])

\* What the board offers the broker takes, if nothing has moved since: a claim, the
\* return of a claim, and proof of one's own claim; the broker refuses proof offered for
\* another's claim on work that was one's own before (JobsBoard.tsx 1370-1423).
BoardOffersWhatIsTaken ==
    \A j \in Jobs, a \in Accounts, g \in Setting.agents :
        LET row == Milestone(j) IN
        \A kind \in Offers(a, g, row) \ {"review"} :
            \/ kind = "submit" /\ row.holder # IF Setting.strict THEN a ELSE DemoWorker
            \/ RowAllows([op |-> kind, job |-> j, account |-> ActsAs(a, kind, row), agent |-> AgentOf(g, kind)])

\* Proof is the work of whoever held the job's claim then, whatever dialogs were open;
\* banners and terminals show claims of their own worker (JobsBoard.tsx 318-690).
ProofIsHoldersWork ==
    /\ \A n \in DOMAIN proofs : proofs[n].at # 0 => claims[proofs[n].at] = [job |-> proofs[n].job, account |-> proofs[n].account]
    /\ \A a \in Accounts :
          /\ pages[a].banner # 0 => claims[pages[a].banner].account \in {a, DemoWorker}
          /\ \A n \in notes[a] : claims[n].account = a

\* The step that the checklist offers is one the broker takes (JobsBoard.tsx 182-290).
OnboardingLeads ==
    \A a \in Accounts, g \in Setting.agents :
        Onboarding(a, g) = "authorize" => SignedIn(a) /\ RoleIfStrict(a, "worker") /\ Matching(a, g, "worker") = {}

\* What the board offers is taken, what is held can be finished, and nobody's work is
\* taken for another's.
BoardKept ==
    AtWork => BoardTypeOK /\ HolderCanFinish /\ BoardOffersWhatIsTaken /\ ProofIsHoldersWork /\ OnboardingLeads
=============================================================================
