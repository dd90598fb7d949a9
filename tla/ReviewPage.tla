----------------------------- MODULE ReviewPage -----------------------------
(***************************************************************************)
(* The page on which submitted work is accepted, sent back, paid out and   *)
(* attested (web pages/ReviewPanel.tsx), against the rows of jobs,         *)
(* attestations, releases and chain events.                                *)
(*                                                                         *)
(* The page reads its job every five seconds, so it may show an old row,   *)
(* and keeps the answer to its own acceptance for as long as it is open.   *)
(* The routes are taken whole (JobLifecycle, CreditLedger and ChainSync    *)
(* have their steps), their answers may be lost.                           *)
(***************************************************************************)
EXTENDS WorkRoutes

CONSTANTS
    Owner,            \* the poster of the jobs
    DemoReviewer,     \* the account of a review without a session
    Workers,          \* who may submit work
    TxHashes          \* transactions that are reported from the page

VARIABLES
    reviews,          \* reviews[a]: the page in a's browser
    attests,          \* attests[j]: the rows of accepted_attestations, in order
    payouts,         \* the rows of escrow_releases: job and payee
    reputation,       \* history: the attestations that reports have counted
    revoked           \* history: has accepted work been sent back?

reviewVars == <<reviews, attests, payouts, reputation, revoked>>

NoAttestation == [reviewer |-> None, worker |-> None]

\* What the page reads of a job.
JobRow(j) ==
    [status |-> job[j], holder |-> holder[j],
     attestation |-> IF attests[j] = <<>> THEN NoAttestation ELSE Last(attests[j])]

Opened(j) == [job |-> j, row |-> JobRow(j), form |-> FALSE, flow |-> FALSE, got |-> NoAttestation,
              synced |-> FALSE, recorded |-> FALSE]

ReviewInit ==
    LET j == CHOOSE x \in Jobs : TRUE IN
    /\ attests = [x \in Jobs |-> <<>>] /\ payouts = {} /\ reputation = {} /\ revoked = FALSE
    /\ reviews = [a \in Accounts |-> [job |-> j, row |-> [status |-> "queued", holder |-> None,
                                                           attestation |-> NoAttestation],
                                      form |-> FALSE, flow |-> FALSE, got |-> NoAttestation,
                                      synced |-> FALSE, recorded |-> FALSE]]

-----------------------------------------------------------------------------
(* What the page shows and offers *)

CanReview(a) ==
    ~Setting.strict \/ (SignedIn(a) /\ (a = Owner \/ HasRole(a, "reviewer")))

\* AuthGate: a way in for those who cannot review yet.
AuthGate(a) == IF ~CanReview(a) /\ ~SignedIn(a) THEN {"login"} ELSE {}

\* Any other status, settled too, is shown as awaiting a submission.
Reviewable(view) == view.row.status \in {"submitted", "accepted", "rejected", "rework"}

Effective(view) == IF view.got # NoAttestation THEN view.got ELSE view.row.attestation

FlowVisible(view) ==
    /\ Reviewable(view) /\ Effective(view) # NoAttestation
    /\ view.flow \/ view.row.status = "accepted"

ReleaseFlowVisible(a) == FlowVisible(reviews[a])

Deciding(a) == \E p \in Requests : proc[p].op = "review" /\ proc[p].page = a /\ proc[p].kind \in {"accept", "reject"}
Attesting(a) == \E p \in Requests : proc[p].op = "review" /\ proc[p].page = a /\ proc[p].kind = "attest"
Releasing(a) == \E p \in Requests : proc[p].op = "review" /\ proc[p].page = a /\ proc[p].kind = "release"

DecisionPanel(a) ==
    IF reviews[a].row.status # "submitted" \/ Deciding(a) THEN {}
    ELSE IF reviews[a].form THEN {"reject", "cancel"}
    ELSE IF CanReview(a) THEN {"accept", "form"} ELSE {}

AcceptedBanner(a) ==
    IF reviews[a].row.status = "accepted" /\ ~ReleaseFlowVisible(a) THEN {"proceed"} ELSE {}

\* The release is synced once; reputation is written by the wallet of whoever
\* accepted, or the hash of a transaction already sent is synced.
AttestationPanel(a) ==
    IF ~ReleaseFlowVisible(a) THEN {}
    ELSE {control \in {"release", "record", "sync"} :
            CASE control = "release" -> ~reviews[a].synced /\ ~Releasing(a)
              [] control = "record" -> /\ ~reviews[a].recorded /\ ~Attesting(a)
                                       /\ Effective(reviews[a]).reviewer = a
              [] control = "sync" -> ~reviews[a].recorded /\ ~Attesting(a)}

ReviewControls(a) ==
    AuthGate(a) \cup DecisionPanel(a) \cup AcceptedBanner(a) \cup AttestationPanel(a)

-----------------------------------------------------------------------------
(* What the reviewer does *)

ReviewServed == UNCHANGED <<accessVars, walletVars, store, spends, acts, held, kept>>

PageBecomes(a, change) == reviews' = [reviews EXCEPT ![a] = With(@, change)]

\* The panel of the release flow forgets when it is hidden.
Seeing(view) ==
    IF FlowVisible(view) THEN view ELSE With(view, [synced |-> FALSE, recorded |-> FALSE])

Refetch(a) ==
    /\ reviews[a].row # JobRow(reviews[a].job)
    /\ reviews' = [reviews EXCEPT ![a] = Seeing(With(@, [row |-> JobRow(@.job)]))]
    /\ UNCHANGED <<requestVars, holder, attests, payouts, reputation, revoked>> /\ ReviewServed

ToggleForm(a) ==
    /\ {"form", "cancel"} \cap ReviewControls(a) # {}
    /\ PageBecomes(a, [form |-> ~reviews[a].form])
    /\ UNCHANGED <<requestVars, holder, attests, payouts, reputation, revoked>> /\ ReviewServed

Proceed(a) ==
    /\ "proceed" \in ReviewControls(a) /\ PageBecomes(a, [flow |-> TRUE])
    /\ UNCHANGED <<requestVars, holder, attests, payouts, reputation, revoked>> /\ ReviewServed

\* A handler holds what its panel was given when it began; a new acceptance forgets
\* the answer to the last.
Ask(p, a, control, kind, step, tx) ==
    /\ control \in ReviewControls(a)
    /\ Start(p, [op |-> "review", kind |-> kind, step |-> step, page |-> a, job |-> reviews[a].job,
                 tx |-> tx, payee |-> reviews[a].row.holder, attestation |-> Effective(reviews[a])])
    /\ reviews' = IF kind = "accept"
                  THEN [reviews EXCEPT ![a] = Seeing(With(@, [got |-> NoAttestation]))] ELSE reviews
    /\ UNCHANGED <<holder, attests, payouts, reputation, revoked>> /\ ReviewServed

AskAccept(p, a) == Ask(p, a, "accept", "accept", "call", None)
AskReject(p, a) == Ask(p, a, "reject", "reject", "call", None)

\* syncRelease needs the worker whose job it is.
AskRelease(p, a, h) == reviews[a].row.holder # None /\ Ask(p, a, "release", "release", "call", h)
AskSync(p, a, h) == Ask(p, a, "sync", "attest", "call", h)
AskRecord(p, a) == Ask(p, a, "record", "attest", "send", None)

-----------------------------------------------------------------------------
(* The handlers and the routes *)

Reviewing(p, kind, step) == proc[p].kind = kind /\ proc[p].step = step

Reviewer(a) == IF SignedIn(a) THEN a ELSE DemoReviewer

\* POST /ideas/:id/accept and reject: requireWorldRole unless it is the poster.
LetIn(a) == Setting.strict => SignedIn(a) /\ (a = Owner \/ HasRole(a, "reviewer"))

\* A slip: nobody compares the reviewer with the worker and the poster.
AcceptTakenFromAll(a, j) == LetIn(a) /\ job[j] = "submitted"

\* acceptJob takes work from nobody who posted or did it.
AcceptTaken(a, j) ==
    LetIn(a) /\ job[j] = "submitted" /\ Reviewer(a) \notin {holder[j], Owner}

RejectTaken(a, j) == LetIn(a) /\ job[j] \in {"submitted", "accepted"}

AcceptRoute(p) ==
    LET j == proc[p].job IN
    /\ Reviewing(p, "accept", "call") /\ AcceptTaken(proc[p].page, j)
    /\ job' = [job EXCEPT ![j] = "accepted"]
    /\ LET row == [reviewer |-> Reviewer(proc[p].page), worker |-> holder[j]] IN
          /\ attests' = [attests EXCEPT ![j] = Append(@, row)]
          /\ proc' = [proc EXCEPT ![p] = With(proc[p], [step |-> "answer", attestation |-> row])]
    /\ UNCHANGED <<syncs, holder, reviews, payouts, reputation, revoked>> /\ Quiet /\ ReviewServed

\* Settlement fails after the job has become accepted: no attestation.
AcceptHalf(p) ==
    LET j == proc[p].job IN
    /\ Reviewing(p, "accept", "call") /\ AcceptTaken(proc[p].page, j) /\ faults < Scenes[scene].faults
    /\ faults' = faults + 1
    /\ job' = [job EXCEPT ![j] = "accepted"] /\ Finish(p)
    /\ UNCHANGED <<scene, starts, alone, applied, again, syncs, holder, reviewVars>> /\ ReviewServed

RejectRoute(p) ==
    LET j == proc[p].job IN
    /\ Reviewing(p, "reject", "call") /\ RejectTaken(proc[p].page, j)
    /\ revoked' = (revoked \/ job[j] = "accepted")
    /\ job' = [job EXCEPT ![j] = "rework"] /\ holder' = [holder EXCEPT ![j] = None]
    /\ Goto(p, "answer")
    /\ UNCHANGED <<syncs, reviews, attests, payouts, reputation>> /\ Quiet /\ ReviewServed

ReportRow(p, event) == [tx |-> proc[p].tx, event |-> event]

\* POST /chain/sync of milestone_released, by the poster's session: whatever has become
\* of the job, it is settled; a second release of a job is refused by the index.
ReleaseRoute(p) ==
    LET j == proc[p].job
        row == ReportRow(p, "milestone_released")
    IN
    /\ Reviewing(p, "release", "call") /\ SignedIn(proc[p].page) /\ proc[p].page = Owner
    /\ syncs' = syncs \cup {row}
    /\ IF row \in syncs THEN UNCHANGED <<job, payouts>> /\ Goto(p, "answer")
       ELSE IF \E r \in payouts : r.job = j THEN UNCHANGED <<job, payouts>> /\ Finish(p)
       ELSE /\ payouts' = payouts \cup {[job |-> j, payee |-> proc[p].payee]}
            /\ job' = [job EXCEPT ![j] = "settled"] /\ Goto(p, "answer")
    /\ UNCHANGED <<holder, reviews, attests, reputation, revoked>> /\ Quiet /\ ReviewServed

\* recordAttestationOnChain: the page asks not whether the transaction reverted.
RecordOnChain(p, h) ==
    /\ Reviewing(p, "attest", "send")
    /\ proc' = [proc EXCEPT ![p] = With(proc[p], [step |-> "call", tx |-> h])]
    /\ UNCHANGED <<job, syncs, holder, reviewVars>> /\ Quiet /\ ReviewServed

\* POST /chain/sync of accepted_submission_attested: each transaction counts once.
AttestRoute(p) ==
    LET row == ReportRow(p, "accepted_submission_attested") IN
    /\ Reviewing(p, "attest", "call") /\ SignedIn(proc[p].page)
    /\ proc[p].page = Owner \/ RoleIfStrict(proc[p].page, "reviewer")
    /\ syncs' = syncs \cup {row}
    /\ reputation' = IF row \in syncs THEN reputation
                     ELSE reputation \cup {[tx |-> proc[p].tx, job |-> proc[p].job, of |-> proc[p].attestation]}
    /\ Goto(p, "answer")
    /\ UNCHANGED <<job, holder, reviews, attests, payouts, revoked>> /\ Quiet /\ ReviewServed

\* onSuccess: the job is read again.
ReviewAnswered(p) ==
    LET a == proc[p].page
        kind == proc[p].kind
        Then == CASE kind = "accept" -> [flow |-> TRUE, got |-> proc[p].attestation]
                  [] kind = "reject" -> [form |-> FALSE]
                  [] kind = "release" -> [synced |-> TRUE]
                  [] kind = "attest" -> [recorded |-> TRUE]
    IN
    /\ proc[p].step = "answer"
    /\ reviews' = [reviews EXCEPT ![a] = Seeing(With(@, Then))] /\ Finish(p)
    /\ UNCHANGED <<job, syncs, holder, attests, payouts, reputation, revoked>> /\ Quiet /\ ReviewServed

\* The broker refuses; the page shows why.
ReviewRefused(p) ==
    LET a == proc[p].page IN
    /\ \/ Reviewing(p, "accept", "call") /\ ~AcceptTaken(a, proc[p].job)
       \/ Reviewing(p, "reject", "call") /\ ~RejectTaken(a, proc[p].job)
       \/ Reviewing(p, "release", "call") /\ ~(SignedIn(a) /\ a = Owner)
       \/ Reviewing(p, "attest", "call") /\ ~(SignedIn(a) /\ (a = Owner \/ RoleIfStrict(a, "reviewer")))
    /\ Finish(p)
    /\ UNCHANGED <<job, syncs, holder, reviewVars>> /\ Quiet /\ ReviewServed

ReviewFails(p) ==
    /\ Fail(p)
    /\ UNCHANGED <<holder, reviewVars>> /\ ReviewServed

\* A worker takes the job and submits work.
Resubmit(j, w) ==
    /\ Submit(j) /\ holder' = [holder EXCEPT ![j] = w]
    /\ UNCHANGED reviewVars /\ ReviewServed

\* The page is opened anew.
OpenReview(a) ==
    /\ faults < Scenes[scene].faults /\ faults' = faults + 1
    /\ reviews[a] # Opened(reviews[a].job) /\ ~Deciding(a) /\ ~Attesting(a) /\ ~Releasing(a)
    /\ reviews' = [reviews EXCEPT ![a] = Opened(reviews[a].job)]
    /\ UNCHANGED <<scene, job, syncs, proc, starts, applied, again, alone>>
    /\ UNCHANGED <<holder, attests, payouts, reputation, revoked>> /\ ReviewServed

ReviewArrives(p) ==
    /\ MayStart(p)
    /\ \E a \in Accounts :
          \/ AskAccept(p, a) \/ AskReject(p, a) \/ AskRecord(p, a)
          \/ \E h \in TxHashes : AskRelease(p, a, h) \/ AskSync(p, a, h)

ReviewStep(p) ==
    /\ proc[p].op = "review"
    /\ \/ AcceptRoute(p) \/ AcceptHalf(p) \/ RejectRoute(p) \/ ReleaseRoute(p) \/ AttestRoute(p)
       \/ \E h \in TxHashes : RecordOnChain(p, h)
       \/ ReviewAnswered(p) \/ ReviewRefused(p) \/ ReviewFails(p)

ReviewMoves ==
    \/ \E a \in Accounts : Refetch(a) \/ ToggleForm(a) \/ Proceed(a) \/ OpenReview(a)
    \/ \E j \in Jobs, w \in Workers : Resubmit(j, w)

AtReview == Serves("review")

-----------------------------------------------------------------------------
(* Properties *)

ReviewTypeOK ==
    /\ \A a \in Accounts : reviews[a].job \in Jobs /\ reviews[a].synced \in BOOLEAN
    /\ \A r \in payouts : r.job \in Jobs /\ r.payee \in Workers

\* Nobody reviews his own work or his own idea's, whatever his page offers; everybody
\* else whose page offers a decision on what the job still is has it taken
\* (ReviewPanel.tsx 488-540, jobService.ts 328-347).
DecisionsAreTaken ==
    \A a \in Accounts :
        LET j == reviews[a].job IN
        /\ \A n \in DOMAIN attests[j] : attests[j][n].reviewer \notin {attests[j][n].worker, Owner}
        /\ reviews[a].row = JobRow(j) /\ CanReview(a) =>
              /\ "accept" \in ReviewControls(a) =>
                    AcceptTaken(a, j) \/ Reviewer(a) \in {holder[j], Owner}
              /\ "reject" \in ReviewControls(a) => RejectTaken(a, j)

\* What a page pays out was accepted, and goes to the worker it was accepted from unless
\* accepted work was sent back: then a page that is still open pays whoever holds the
\* job (ReviewPanel.tsx 188-212, 617-622, jobService.ts 411-431).
PayoutsWereAccepted ==
    \A r \in payouts :
        \E n \in DOMAIN attests[r.job] : revoked \/ attests[r.job][n].worker = r.payee

\* Reputation that a page reports is that of attestations which were issued
\* (ReviewPanel.tsx 214-289, chainService.ts 261-303).
ReputationWasIssued == \A x \in reputation : x.of \in Range(attests[x.job])

\* Until a job is settled a page that shows what it has become leads on: a decision, or
\* the release of what was accepted (ReviewPanel.tsx 488-520, 612-640).
ReviewLeads ==
    \A a \in Accounts :
        reviews[a].row = JobRow(reviews[a].job) =>
            /\ reviews[a].row.status = "accepted" /\ attests[reviews[a].job] # <<>> => ReleaseFlowVisible(a)
            /\ reviews[a].row.status = "submitted" /\ ~Deciding(a) =>
                  \/ {"accept", "reject"} \cap ReviewControls(a) # {}
                  \/ ~CanReview(a)

ReviewPageKept ==
    AtReview => ReviewTypeOK /\ DecisionsAreTaken /\ PayoutsWereAccepted /\ ReputationWasIssued /\ ReviewLeads
=============================================================================
