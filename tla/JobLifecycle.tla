--------------------------- MODULE JobLifecycle ---------------------------
(***************************************************************************)
(* The life of a job in the broker: claimJob, unclaimJob, submitJob,       *)
(* acceptJob and rejectJob of services/jobService.ts, and the lease sweep  *)
(* of queue/milestoneQueue.ts, on the tables jobs, claims and submissions. *)
(*                                                                         *)
(* A handler is a sequence of awaited SQL statements with no transaction,  *)
(* no row lock and no condition on the row it updates, so the event loop   *)
(* may run another request between any two of them.  Each request and each *)
(* sweep is a process; its first action is the SELECT of the job with the  *)
(* checks on what it read, and every later statement is an action that     *)
(* uses what was read then.  Any of them may throw: that ends the request, *)
(* or the run of the sweep, and nothing takes back what it has written.  A *)
(* call that is refused changes nothing and is no step.                    *)
(*                                                                         *)
(* jobs.activeClaimId, activeClaimWorkerId and leaseExpiry are always      *)
(* written together and from one row of claims: the model keeps the claim  *)
(* and reads the other two from its row.                                   *)
(***************************************************************************)
EXTENDS Naturals, Sequences, FiniteSets

CONSTANTS
    Jobs,
    Workers, Reviewers,   \* accounts; an account may be both
    Poster,               \* the account that posted the idea of the jobs
    Requests,             \* slots for HTTP requests being served
    Timers,               \* slots for runs of the sweep's setInterval callback
    MaxInFlight,          \* bound on requests and sweeps running at once
    MaxClaims,            \* bound on rows of claims
    MaxCrashes,           \* bound on broker restarts
    MaxFaults             \* bound on statements that throw

ASSUME BoundsAssumption ==
    /\ Requests \cap Timers = {}
    /\ MaxInFlight \in Nat \ {0} /\ MaxClaims \in Nat
    /\ MaxCrashes \in Nat /\ MaxFaults \in Nat

NoClaim == 0              \* SQL null in activeClaimId

VARIABLES
    job,          \* job[j]: status and active claim of the row of jobs
    claims,       \* the rows of claims, in order of insertion
    submissions,  \* the rows of submissions: job, worker and score gate
    credited,     \* the rows of accepted_attestations
    proc,         \* proc[p]: what request or sweep p has read and does next
    crashes,      \* broker restarts so far
    faults,       \* statements that threw so far
    calm,         \* history: so far nothing overlapped
    cut           \* history: claims that a call or a sweep left halfway

vars == <<job, claims, submissions, credited, proc, crashes, faults, calm, cut>>

stops == <<crashes, faults, cut>>

Procs == Requests \cup Timers

Idle == [op |-> "idle", step |-> "-", job |-> "-", who |-> "-",
         claim |-> NoClaim, passed |-> FALSE, batch |-> {}]

Init ==
    /\ job = [j \in Jobs |-> [status |-> "created", claim |-> NoClaim]]
    /\ claims = <<>>
    /\ submissions = {}
    /\ credited = {}
    /\ proc = [p \in Procs |-> Idle]
    /\ crashes = 0
    /\ faults = 0
    /\ calm = TRUE
    /\ cut = {}

-----------------------------------------------------------------------------
(* Helpers *)

Holder(c) == IF c = NoClaim THEN "-" ELSE claims[c].worker

Lapsed(c) == c # NoClaim /\ claims[c].lapsed     \* now > expiresAt

SetClaim(c, status) ==
    IF c = NoClaim THEN claims ELSE [claims EXCEPT ![c].status = status]

SetJob(j, status, c) == job' = [job EXCEPT ![j] = [status |-> status, claim |-> c]]

Start(p, r) ==
    /\ proc[p] = Idle
    /\ Cardinality({q \in Procs : proc[q] # Idle}) < MaxInFlight
    /\ proc' = [proc EXCEPT ![p] = r]
    /\ calm' = (calm /\ \A q \in Procs : proc[q] = Idle)

At(p, op, step) == proc[p].op = op /\ proc[p].step = step

Goto(p, step) == proc' = [proc EXCEPT ![p].step = step]

Finish(p) == proc' = [proc EXCEPT ![p] = Idle]

-----------------------------------------------------------------------------
(* claimJob: SELECT the job; INSERT the claim; UPDATE the job *)

ClaimRead(p, j, w) ==
    /\ job[j].status \in {"queued", "rework"}
    /\ Len(claims) < MaxClaims
    /\ Start(p, [Idle EXCEPT !.op = "claim", !.step = "insert", !.job = j, !.who = w])
    /\ UNCHANGED <<job, claims, submissions, credited, stops>>

ClaimInsert(p) ==
    /\ At(p, "claim", "insert")
    /\ Len(claims) < MaxClaims
    /\ claims' = Append(claims, [job |-> proc[p].job, worker |-> proc[p].who,
                                 status |-> "active", lapsed |-> FALSE])
    /\ proc' = [proc EXCEPT ![p].step = "take", ![p].claim = Len(claims) + 1]
    /\ UNCHANGED <<job, submissions, credited, stops, calm>>

ClaimTake(p) ==
    /\ At(p, "claim", "take")
    /\ SetJob(proc[p].job, "claimed", proc[p].claim)
    /\ Finish(p)
    /\ UNCHANGED <<claims, submissions, credited, stops, calm>>

-----------------------------------------------------------------------------
(* unclaimJob: SELECT the job; UPDATE the job; UPDATE the claim *)

UnclaimRead(p, j, w) ==
    /\ job[j].status = "claimed"
    /\ job[j].claim # NoClaim
    /\ Holder(job[j].claim) = w
    /\ Start(p, [Idle EXCEPT !.op = "unclaim", !.step = "job", !.job = j, !.claim = job[j].claim])
    /\ UNCHANGED <<job, claims, submissions, credited, stops>>

\* A slip the checks must notice: the job keeps the claim that is cancelled.
UnclaimWithoutJob(p) ==
    /\ At(p, "unclaim", "job")
    /\ claims' = SetClaim(proc[p].claim, "cancelled")
    /\ Finish(p)
    /\ UNCHANGED <<job, submissions, credited, stops, calm>>

UnclaimJob(p) ==
    /\ At(p, "unclaim", "job")
    /\ SetJob(proc[p].job, "queued", NoClaim)
    /\ Goto(p, "claim")
    /\ UNCHANGED <<claims, submissions, credited, stops, calm>>

\* A slip the checks must notice: the claim given back stays active.
UnclaimWithoutClaim(p) ==
    /\ At(p, "unclaim", "claim")
    /\ Finish(p)
    /\ UNCHANGED <<job, claims, submissions, credited, stops, calm>>

UnclaimClaim(p) ==
    /\ At(p, "unclaim", "claim")
    /\ claims' = SetClaim(proc[p].claim, "cancelled")
    /\ Finish(p)
    /\ UNCHANGED <<job, submissions, credited, stops, calm>>

-----------------------------------------------------------------------------
(* submitJob: SELECT the job; INSERT the submission with its score; UPDATE   *)
(* the job; UPDATE the claim.  The clock is compared with the lease after    *)
(* one more SELECT, so later than here; a check that passes then passes here *)

SubmitRead(p, j, w, passed) ==
    /\ job[j].claim # NoClaim => Holder(job[j].claim) = w
    /\ ~Lapsed(job[j].claim)
    /\ job[j].status \in {"claimed", "running"}
    /\ Start(p, [Idle EXCEPT !.op = "submit", !.step = "insert", !.job = j, !.who = w,
                             !.claim = job[j].claim, !.passed = passed])
    /\ UNCHANGED <<job, claims, submissions, credited, stops>>

SubmitInsert(p) ==
    /\ At(p, "submit", "insert")
    /\ submissions' = submissions \cup
          {[job |-> proc[p].job, worker |-> proc[p].who, passed |-> proc[p].passed]}
    /\ Goto(p, "job")
    /\ UNCHANGED <<job, claims, credited, stops, calm>>

\* Slips the checks must notice: the score gate is not applied to the job; work
\* that fails it is rejected for good.
SubmitUngated(p) ==
    /\ At(p, "submit", "job")
    /\ SetJob(proc[p].job, "submitted", proc[p].claim)
    /\ Goto(p, "claim")
    /\ UNCHANGED <<claims, submissions, credited, stops, calm>>

SubmitOrReject(p) ==
    /\ At(p, "submit", "job")
    /\ SetJob(proc[p].job, IF proc[p].passed THEN "submitted" ELSE "rejected", proc[p].claim)
    /\ Goto(p, "claim")
    /\ UNCHANGED <<claims, submissions, credited, stops, calm>>

SubmitJob(p) ==
    /\ At(p, "submit", "job")
    /\ \/ /\ proc[p].passed
          /\ SetJob(proc[p].job, "submitted", proc[p].claim)
       \/ /\ ~proc[p].passed
          /\ SetJob(proc[p].job, "rework", NoClaim)
    /\ Goto(p, "claim")
    /\ UNCHANGED <<claims, submissions, credited, stops, calm>>

\* A slip the checks must notice: the claim of submitted work stays active.
SubmitWithoutClaim(p) ==
    /\ At(p, "submit", "claim")
    /\ Finish(p)
    /\ UNCHANGED <<job, claims, submissions, credited, stops, calm>>

SubmitClaim(p) ==
    /\ At(p, "submit", "claim")
    /\ claims' = SetClaim(proc[p].claim, IF proc[p].passed THEN "submitted" ELSE "cancelled")
    /\ Finish(p)
    /\ UNCHANGED <<job, submissions, credited, stops, calm>>

-----------------------------------------------------------------------------
(* acceptJob: SELECT the job; SELECT a submission of its worker, in no       *)
(* particular order; UPDATE the job; UPDATE the claim; settle the credits,   *)
(* which may throw; INSERT the attestation                                   *)

AcceptRead(p, j, r) ==
    /\ job[j].status = "submitted"
    /\ r # Holder(job[j].claim)
    /\ r # Poster
    /\ Start(p, [Idle EXCEPT !.op = "accept", !.step = "pick", !.job = j, !.who = r,
                             !.claim = job[j].claim])
    /\ UNCHANGED <<job, claims, submissions, credited, stops>>

MatchingSubmissions(p) ==
    {s \in submissions : s.job = proc[p].job /\ s.worker = Holder(proc[p].claim)}

AcceptPick(p) ==
    /\ At(p, "accept", "pick")
    /\ \/ \E s \in MatchingSubmissions(p) :
             proc' = [proc EXCEPT ![p].step = "job", ![p].passed = s.passed]
       \/ /\ MatchingSubmissions(p) = {}
          /\ Finish(p)
    /\ UNCHANGED <<job, claims, submissions, credited, stops, calm>>

AcceptJob(p) ==
    /\ At(p, "accept", "job")
    /\ job' = [job EXCEPT ![proc[p].job].status = "accepted"]
    /\ Goto(p, "claim")
    /\ UNCHANGED <<claims, submissions, credited, stops, calm>>

AcceptClaim(p) ==
    /\ At(p, "accept", "claim")
    /\ claims' = SetClaim(proc[p].claim, "submitted")
    /\ Goto(p, "credit")
    /\ UNCHANGED <<job, submissions, credited, stops, calm>>

\* A slip the checks must notice: the credit goes to whoever holds the job now.
CreditCurrentHolder(p) ==
    /\ At(p, "accept", "credit")
    /\ credited' = credited \cup
          {[job |-> proc[p].job, worker |-> Holder(job[proc[p].job].claim),
            reviewer |-> proc[p].who, passed |-> proc[p].passed]}
    /\ Finish(p)
    /\ UNCHANGED <<job, claims, submissions, stops, calm>>

AcceptCredit(p) ==
    /\ At(p, "accept", "credit")
    /\ credited' = credited \cup
          {[job |-> proc[p].job, worker |-> Holder(proc[p].claim),
            reviewer |-> proc[p].who, passed |-> proc[p].passed]}
    /\ Finish(p)
    /\ UNCHANGED <<job, claims, submissions, stops, calm>>

\* settleAcceptedJobCredits throws: the request fails, the job stays accepted
AcceptSettleFails(p) ==
    /\ At(p, "accept", "credit")
    /\ Finish(p)
    /\ UNCHANGED <<job, claims, submissions, credited, stops, calm>>

-----------------------------------------------------------------------------
(* rejectJob: SELECT the job; UPDATE the job; UPDATE the claim (the refund   *)
(* of credits that follows is in the credit ledger)                          *)

RejectRead(p, j) ==
    /\ job[j].status \in {"submitted", "accepted"}
    /\ Start(p, [Idle EXCEPT !.op = "reject", !.step = "job", !.job = j, !.claim = job[j].claim])
    /\ UNCHANGED <<job, claims, submissions, credited, stops>>

RejectJob(p) ==
    /\ At(p, "reject", "job")
    /\ SetJob(proc[p].job, "rework", NoClaim)
    /\ Goto(p, "claim")
    /\ UNCHANGED <<claims, submissions, credited, stops, calm>>

RejectClaim(p) ==
    /\ At(p, "reject", "claim")
    /\ claims' = SetClaim(proc[p].claim, "cancelled")
    /\ Finish(p)
    /\ UNCHANGED <<job, submissions, credited, stops, calm>>

-----------------------------------------------------------------------------
(* The lease sweep: SELECT the active claims past their expiry, in no order; *)
(* for each one UPDATE the claim, UPDATE its job, enqueue it in BullMQ, which *)
(* may throw at every run: the rest of the batch is left to the next one      *)

Overdue == {c \in 1..Len(claims) : claims[c].status = "active" /\ claims[c].lapsed}

SweepSelect(p) ==
    /\ Overdue # {}
    /\ Start(p, [Idle EXCEPT !.op = "sweep", !.step = "claim", !.batch = Overdue])
    /\ UNCHANGED <<job, claims, submissions, credited, stops>>

TakeFromBatch(p, c) ==
    /\ c \in proc[p].batch
    /\ proc' = [proc EXCEPT ![p].step = "job", ![p].claim = c, ![p].batch = @ \ {c}]

\* A slip the checks must notice: the claim is requeued but never expired.
SweepLeavesClaim(p) ==
    /\ At(p, "sweep", "claim")
    /\ \E c \in proc[p].batch : TakeFromBatch(p, c)
    /\ UNCHANGED <<job, claims, submissions, credited, stops, calm>>

SweepClaim(p) ==
    /\ At(p, "sweep", "claim")
    /\ \E c \in proc[p].batch :
          /\ TakeFromBatch(p, c)
          /\ claims' = SetClaim(c, "expired")
    /\ UNCHANGED <<job, submissions, credited, stops, calm>>

\* A slip the checks must notice: the claim expires, its job is left as it is.
SweepLeavesJob(p) ==
    /\ At(p, "sweep", "job")
    /\ Goto(p, "enqueue")
    /\ UNCHANGED <<job, claims, submissions, credited, stops, calm>>

SweepJob(p) ==
    /\ At(p, "sweep", "job")
    /\ SetJob(claims[proc[p].claim].job, "queued", NoClaim)
    /\ Goto(p, "enqueue")
    /\ UNCHANGED <<claims, submissions, credited, stops, calm>>

SweepEnqueue(p) ==
    /\ At(p, "sweep", "enqueue")
    /\ \/ proc[p].batch # {} /\ Goto(p, "claim")
       \/ proc[p].batch = {} /\ Finish(p)
    /\ UNCHANGED <<job, claims, submissions, credited, stops, calm>>

SweepAborts(p) ==
    /\ At(p, "sweep", "enqueue")
    /\ Finish(p)
    /\ UNCHANGED <<job, claims, submissions, credited, stops, calm>>

-----------------------------------------------------------------------------
(* The environment *)

\* The milestone's budget is reserved (syncMilestoneReservation).  An assumption:
\* this happens once to a job.  The code applies a transaction once, but one more
\* that names the job sets it queued whatever it is by then.
Publish(j) ==
    /\ job[j].status = "created"
    /\ SetJob(j, "queued", NoClaim)
    /\ UNCHANGED <<claims, submissions, credited, proc, stops, calm>>

\* The clock passes the expiry of claim c.  All leases last 45 minutes, so they
\* lapse in the order they were granted, and never within the claimJob call
\* that grants them.
Lapse(c) ==
    /\ c \in 1..Len(claims)
    /\ ~claims[c].lapsed
    /\ \A d \in 1..(c - 1) : claims[d].lapsed
    /\ ~\E p \in Requests : At(p, "claim", "take") /\ proc[p].claim = c
    /\ claims' = [claims EXCEPT ![c].lapsed = TRUE]
    /\ UNCHANGED <<job, submissions, credited, proc, stops, calm>>

\* Between its UPDATE of the job and that of the claim, in whatever order.
Halfway(p) ==
    \/ At(p, "claim", "take") \/ At(p, "unclaim", "claim")
    \/ At(p, "submit", "claim") \/ At(p, "sweep", "job")

CutBy(P) == {proc[p].claim : p \in {q \in P : Halfway(q)}}

\* A statement throws: the handler rejects, or the sweep's catch ends its run.
Fail(p) ==
    /\ faults < MaxFaults
    /\ proc[p] # Idle
    /\ Finish(p)
    /\ faults' = faults + 1
    /\ cut' = cut \cup CutBy({p})
    /\ UNCHANGED <<job, claims, submissions, credited, crashes, calm>>

\* The broker restarts: what was in flight is gone, the tables stay.
Crash ==
    /\ crashes < MaxCrashes
    /\ \E p \in Procs : proc[p] # Idle
    /\ proc' = [p \in Procs |-> Idle]
    /\ crashes' = crashes + 1
    /\ cut' = cut \cup CutBy(Procs)
    /\ UNCHANGED <<job, claims, submissions, credited, faults, calm>>

-----------------------------------------------------------------------------

Call(p) ==
    \E j \in Jobs :
        \/ \E w \in Workers :
              \/ ClaimRead(p, j, w)
              \/ UnclaimRead(p, j, w)
              \/ \E passed \in BOOLEAN : SubmitRead(p, j, w, passed)
        \/ \E r \in Reviewers : AcceptRead(p, j, r)
        \/ RejectRead(p, j)

Continue(p) ==
    \/ ClaimInsert(p) \/ ClaimTake(p)
    \/ UnclaimJob(p) \/ UnclaimClaim(p)
    \/ SubmitInsert(p) \/ SubmitJob(p) \/ SubmitClaim(p)
    \/ AcceptPick(p) \/ AcceptJob(p) \/ AcceptClaim(p)
    \/ AcceptCredit(p) \/ AcceptSettleFails(p)
    \/ RejectJob(p) \/ RejectClaim(p)

ContinueSweep(p) ==
    SweepClaim(p) \/ SweepJob(p) \/ SweepEnqueue(p) \/ SweepAborts(p)

Next ==
    \/ \E p \in Requests : Call(p) \/ Continue(p)
    \/ \E p \in Timers : SweepSelect(p) \/ ContinueSweep(p)
    \/ \E j \in Jobs : Publish(j)
    \/ \E c \in 1..MaxClaims : Lapse(c)
    \/ \E p \in Procs : Fail(p)
    \/ Crash

\* The event loop runs what has been started, the interval timer fires and the
\* clock advances; nobody has to send a request.
Fairness ==
    /\ \A p \in Requests : WF_vars(Continue(p))
    /\ \A p \in Timers : WF_vars(SweepSelect(p)) /\ WF_vars(ContinueSweep(p))
    /\ \A c \in 1..MaxClaims : WF_vars(Lapse(c))

Spec == Init /\ [][Next]_vars /\ Fairness

-----------------------------------------------------------------------------
(* Properties *)

ClaimIds == 1..Len(claims)

TypeOK ==
    /\ \A j \in Jobs :
          /\ job[j].status \in {"created", "queued", "claimed", "submitted", "accepted", "rework"}
          /\ job[j].claim \in {NoClaim} \cup ClaimIds
    /\ \A c \in ClaimIds :
          claims[c] \in [job : Jobs, worker : Workers, lapsed : BOOLEAN,
                         status : {"active", "submitted", "cancelled", "expired"}]
    /\ submissions \subseteq [job : Jobs, worker : Workers, passed : BOOLEAN]
    /\ credited \subseteq [job : Jobs, worker : Workers, reviewer : Reviewers, passed : BOOLEAN]
    /\ \A p \in Procs : proc[p].claim \in {NoClaim} \cup ClaimIds

\* A claimed job is backed by its own active claim, or by one that a running sweep
\* has just expired and will requeue: the sweep, which looks at claims only, can find
\* every job it has to requeue, but for those it was itself stopped at, by a restart
\* or a statement that threw, after it had expired their claim.
SweepCanFindClaimedJobs ==
    \A j \in Jobs :
        job[j].status = "claimed" =>
            LET c == job[j].claim IN
            /\ c # NoClaim
            /\ claims[c].job = j
            /\ \/ claims[c].status = "active"
               \/ \E p \in Timers : At(p, "sweep", "job") /\ proc[p].claim = c
               \/ c \in cut

\* A submitted job names a worker who has a submission for it that passed the
\* score gate, however stale the row that submitJob wrote back.
SubmittedWorkPassed ==
    \A j \in Jobs :
        job[j].status = "submitted" =>
            [job |-> j, worker |-> Holder(job[j].claim), passed |-> TRUE] \in submissions

\* Whoever is credited for a job passed its score gate and was judged by
\* somebody else than himself or the poster.
CreditIsEarned ==
    \A k \in credited :
        /\ [job |-> k.job, worker |-> k.worker, passed |-> TRUE] \in submissions
        /\ k.reviewer \notin {k.worker, Poster}

\* Every claim comes to an end, even if the broker crashes and statements throw: it is
\* submitted, cancelled or, at the latest, swept.
IsActive(c) == c \in ClaimIds /\ claims[c].status = "active"

ClaimsEnd == \A c \in 1..MaxClaims : IsActive(c) ~> ~IsActive(c)

\* A claimed job does not stay claimed for ever, whatever throws and whenever the
\* broker restarts, unless that stopped the sweep between the claim and its job.
LeaseEndsUnlessCut ==
    \A j \in Jobs : (job[j].status = "claimed") ~> (job[j].status # "claimed" \/ job[j].claim \in cut)

\* A worker who claims and never starts, or a broker that restarts, does not
\* keep the job from others: the lease expires and the job is requeued.
LeaseEnds ==
    \A j \in Jobs : (job[j].status = "claimed") ~> (job[j].status # "claimed")

ActiveClaims(j) == {c \in ClaimIds : claims[c].job = j /\ IsActive(c)}

\* A lease is exclusive: one active claim per job.
ExclusiveLease == \A j \in Jobs : Cardinality(ActiveClaims(j)) <= 1

\* The score an attestation carries is that of work that passed the gate.
AttestedScorePassed == \A k \in credited : k.passed

\* No call and no sweep was stopped halfway on a claim of job j.
Whole(j) == \A c \in cut : claims[c].job # j

\* As long as every call and every sweep has run on its own, the tables agree
\* between two of them, also after calls that failed: a job that none was stopped on
\* halfway is claimed exactly when the claim it names is active, and no other is.
TablesAgreeWhenCalm ==
    calm /\ (\A p \in Procs : proc[p] = Idle) =>
        \A j \in Jobs : Whole(j) =>
            ActiveClaims(j) = IF job[j].status = "claimed" THEN {job[j].claim} ELSE {}

StatusGraph ==
    [created |-> {"queued"}, queued |-> {"claimed"},
     claimed |-> {"queued", "submitted", "rework"}, submitted |-> {"accepted", "rework"},
     accepted |-> {"rework"}, rework |-> {"claimed"}]

\* As long as nothing overlaps, a job that nothing was stopped on halfway moves along
\* the graph of its statuses: a sweep never requeues submitted work, a submission never
\* reopens a job that was decided, and only a rejection undoes an acceptance.
StatusGraphWhenCalm ==
    [][\A j \in Jobs :
          calm' /\ Whole(j) /\ job'[j].status # job[j].status =>
              job'[j].status \in StatusGraph[job[j].status]]_vars
=============================================================================
