----------------------------- MODULE ChainSync -----------------------------
(***************************************************************************)
(* How the broker follows the chain: the sync route (services/             *)
(* chainService.ts) records a reported transaction and applies it, the Arc *)
(* webhook (routes/arc.ts) applies events as they arrive, and an           *)
(* acceptance is attested, counted as reputation and sent to               *)
(* AgentIdentityRegistry by calls nobody waits for.                        *)
(*                                                                         *)
(* The milestone of a job in AdvancedArcEscrow is external here: it is     *)
(* released, or disputed and resolved, and its events may be delivered in  *)
(* any order and more than once.  All jobs are done by one agent, known to *)
(* the broker and the registry.                                            *)
(***************************************************************************)
EXTENDS BrokerRequests

VARIABLES
    attestations, \* the rows of accepted_attestations, by job
    accepted,     \* agent_identities.acceptedCount
    tasks,        \* calls in the background, started by acceptances
    nonce, attested, onChainCount,   \* AgentIdentityRegistry: attestorNonces of the
                  \* broker, attestedJobs, acceptedCount of the agent
    releases,     \* the jobs with a row in escrow_releases
    milestone,    \* milestone[j]: state of the milestone on chain
    emitted       \* events of milestones, by job and name

reputationVars == <<attestations, accepted, tasks, nonce, attested, onChainCount>>
arcVars == <<milestone, emitted>>
syncVars == <<reputationVars, releases, arcVars>>

SyncEvents == {"idea_funded", "milestone_reserved", "milestone_released",
               "accepted_submission_attested"}

SyncInit ==
    /\ attestations = [j \in Jobs |-> 0]
    /\ accepted = 0 /\ tasks = {}
    /\ nonce = 0 /\ attested = {} /\ onChainCount = 0
    /\ releases = {}
    /\ milestone = [j \in Jobs |-> "reserved"] /\ emitted = {}

-----------------------------------------------------------------------------
(* POST /chain/sync: applyChainSync.  A report that is recorded already is   *)
(* answered from the table; a payload is looked at after it is recorded.     *)

SyncRead(p, x, event, j, valid) ==
    /\ [tx |-> x, event |-> event] \notin syncs
    /\ Begin(p, [Idle EXCEPT !.op = "sync", !.step = "record", !.tx = x, !.event = event,
                             !.job = j, !.valid = valid])
    /\ UNCHANGED syncVars

Applying(p, event) == At(p, "sync", "apply") /\ proc[p].event = event

\* A payload that lacks a field: the report stays recorded and is not applied.
RejectPayload(p) ==
    /\ At(p, "sync", "apply") /\ ~proc[p].valid
    /\ Finish(p)
    /\ UNCHANGED <<job, syncs, syncVars>> /\ Quiet

\* syncMilestoneReservation, whatever has become of the job since.
Reserve(p) ==
    /\ Applying(p, "milestone_reserved") /\ proc[p].valid
    /\ job' = [job EXCEPT ![proc[p].job] = "queued"]
    /\ Apply(p) /\ Finish(p)
    /\ UNCHANGED <<syncs, reputationVars, releases, arcVars>>

\* The row of escrow_releases; a unique index refuses a second one for the job.
InsertRelease(p) ==
    /\ \/ Applying(p, "milestone_released") /\ proc[p].valid
       \/ At(p, "hook", "MilestoneReleased")
    /\ IF proc[p].job \in releases THEN Finish(p) /\ UNCHANGED releases
       ELSE releases' = releases \cup {proc[p].job} /\ Goto(p, "settled")
    /\ UNCHANGED <<job, syncs, reputationVars, arcVars>> /\ Quiet

MarkSettled(p) ==
    /\ proc[p].step = "settled"
    /\ job' = [job EXCEPT ![proc[p].job] = "settled"]
    /\ IF proc[p].op = "sync" THEN Apply(p) ELSE Quiet
    /\ Finish(p)
    /\ UNCHANGED <<syncs, reputationVars, releases, arcVars>>

\* syncAcceptedSubmissionAttestation: the agent's row is read and written later.
ReportRead(p) ==
    /\ Applying(p, "accepted_submission_attested") /\ proc[p].valid
    /\ IF attestations[proc[p].job] = 0 THEN Finish(p)
       ELSE proc' = [proc EXCEPT ![p].step = "count", ![p].seen = accepted]
    /\ UNCHANGED <<job, syncs, syncVars>> /\ Quiet

ReportCount(p) ==
    /\ At(p, "sync", "count")
    /\ accepted' = proc[p].seen + 1
    /\ Apply(p) /\ Finish(p)
    /\ UNCHANGED <<job, syncs, attestations, tasks, nonce, attested, onChainCount, releases,
                   arcVars>>

-----------------------------------------------------------------------------
(* The milestone on chain, and POST /webhook/escrow-event *)

Emit(j, event, state) ==
    /\ milestone' = [milestone EXCEPT ![j] = state]
    /\ emitted' = emitted \cup {<<j, event>>}
    /\ UNCHANGED <<requestVars, reputationVars, releases>>

MilestoneStep(j) ==
    \/ milestone[j] = "reserved" /\ Emit(j, "MilestoneReleased", "released")
    \/ milestone[j] = "reserved" /\ Emit(j, "DisputeRaised", "disputed")
    \/ milestone[j] = "disputed" /\ Emit(j, "DisputeResolved", "resolved")

\* The first statement finds the job; the step is named after the event.
Deliver(p, j, event) ==
    /\ <<j, event>> \in emitted
    /\ Begin(p, [Idle EXCEPT !.op = "hook", !.step = event, !.job = j])
    /\ UNCHANGED syncVars

DisputeStatus == [DisputeRaised |-> "disputed", DisputeResolved |-> "resolved"]

HookStatus(p) ==
    /\ proc[p].op = "hook" /\ proc[p].step \in DOMAIN DisputeStatus
    /\ job' = [job EXCEPT ![proc[p].job] = DisputeStatus[proc[p].step]]
    /\ Finish(p)
    /\ UNCHANGED <<syncs, syncVars>> /\ Quiet

-----------------------------------------------------------------------------
(* The end of acceptJob: the attestation is inserted, then reputation and    *)
(* registry are told in the background.                                      *)

Task(kind, j, n) == [kind |-> kind, job |-> j, number |-> n, step |-> "read", seen |-> 0]

Attest(p) ==
    LET j == proc[p].job
        n == Total(attestations) + 1
    IN  /\ At(p, "accept", "attest")
        /\ attestations' = [attestations EXCEPT ![j] = @ + 1]
        /\ tasks' = tasks \cup {Task("reputation", j, n), Task("registry", j, n)}
        /\ Finish(p)
        /\ UNCHANGED <<job, syncs, accepted, nonce, attested, onChainCount, releases, arcVars>> /\ Quiet

\* Reads the count it will add to, or the nonce it will follow.
TaskRead(t) ==
    /\ t \in tasks /\ t.step = "read"
    /\ tasks' = (tasks \ {t}) \cup
                {[t EXCEPT !.step = "write",
                           !.seen = IF t.kind = "reputation" THEN accepted ELSE nonce]}
    /\ UNCHANGED <<requestVars, attestations, accepted, nonce, attested, onChainCount, releases,
                   arcVars>>

\* updateAgentReputation
ReputationWrite(t) ==
    /\ t \in tasks /\ t.step = "write" /\ t.kind = "reputation"
    /\ accepted' = t.seen + 1
    /\ tasks' = tasks \ {t}
    /\ UNCHANGED <<requestVars, attestations, nonce, attested, onChainCount, releases, arcVars>>

\* recordAcceptedSubmission: a job counts once, and a nonce must be new.
RecordSubmission(j, n) ==
    IF j \notin attested /\ n > nonce
    THEN nonce' = n /\ attested' = attested \cup {j} /\ onChainCount' = onChainCount + 1
    ELSE UNCHANGED <<nonce, attested, onChainCount>>

\* recordAcceptedSubmissionOnChain sends with the nonce it signed, and tries again
\* with the same one; the call is lost if every attempt fails.
RegistrySend(t) ==
    /\ t \in tasks /\ t.step = "write" /\ t.kind = "registry"
    /\ tasks' = tasks \ {t}
    /\ \/ RecordSubmission(t.job, t.seen + 1)
       \/ UNCHANGED <<nonce, attested, onChainCount>>
    /\ UNCHANGED <<requestVars, attestations, accepted, releases, arcVars>>

LoseTasks == tasks' = {} /\ UNCHANGED <<attestations, accepted, nonce, attested, onChainCount,
                                        releases, arcVars>>

SyncStep(p) ==
    \/ RejectPayload(p) \/ Reserve(p) \/ InsertRelease(p) \/ MarkSettled(p)
    \/ ReportRead(p) \/ ReportCount(p) \/ HookStatus(p) \/ Attest(p)

SyncCall(p) ==
    \/ /\ Serves("sync")
       /\ \E x \in Txs :
             \/ SyncRead(p, x, "idea_funded", "-", TRUE)
             \/ \E event \in SyncEvents \ {"idea_funded"}, j \in Jobs, valid \in BOOLEAN :
                   SyncRead(p, x, event, j, valid)
    \/ \E d \in emitted : Deliver(p, d[1], d[2])

Background ==
    \/ \E t \in tasks : TaskRead(t) \/ ReputationWrite(t) \/ RegistrySend(t)
    \/ Serves("hook") /\ \E j \in Jobs : MilestoneStep(j)

-----------------------------------------------------------------------------
(* Properties *)

\* Reputation is never invented: every point is an attestation, or a report of one.
ReputationEarned ==
    accepted <= Total(attestations)
                + Cardinality({r \in applied : r.event = "accepted_submission_attested"})

\* The registry counts accepted jobs only, each once, and leaves no gap between
\* nonces: the count, the jobs and the nonce say the same.
RegistryAgrees ==
    /\ onChainCount = Cardinality(attested) /\ nonce = onChainCount
    /\ \A j \in attested : attestations[j] > 0

\* A job is marked as settled only after its release has been recorded.
SettledWasReleased == \A j \in Jobs : job[j] = "settled" => j \in releases

SyncTypeOK ==
    /\ attestations \in [Jobs -> Nat] /\ accepted \in Nat
    /\ \A t \in tasks : t.kind \in {"reputation", "registry"} /\ t.job \in Jobs
    /\ nonce \in Nat /\ attested \subseteq Jobs /\ releases \subseteq Jobs
=============================================================================
