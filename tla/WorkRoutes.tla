----------------------------- MODULE WorkRoutes -----------------------------
(***************************************************************************)
(* The routes by which an agent works on a job (routes/jobs.ts): claim,    *)
(* unclaim and submit, signed with a challenge or not, their idempotency   *)
(* keys (services/idempotencyStore.ts), spend events and disputes; with    *)
(* the acceptance that settles a job and the ways it loses its worker.     *)
(*                                                                         *)
(* The rows of claims, leases and scores are those of JobLifecycle: a      *)
(* lease may lapse at any time here, and a submission pass or not.         *)
(***************************************************************************)
EXTENDS BrokerWallet

CONSTANTS Keys, KeyTTL     \* Setting.keys: those that clients send, or None

ASSUME KeyTTLAssumption == KeyTTL \in Nat

VARIABLES
    holder,     \* jobs.activeClaimWorkerId
    store,      \* the entries of the idempotency store: key and creation
    spends,     \* the rows of agent_spend_events: job and worker
    acts,       \* history: the requests that had an effect, in order
    held,       \* history: who ever held which job
    kept        \* history: no lease lapsed, no work was sent back

workVars == <<holder, store, spends, acts, held, kept>>

WorkInit ==
    /\ holder = [j \in Jobs |-> None]
    /\ store = {} /\ spends = {} /\ acts = <<>> /\ held = {} /\ kept = TRUE

-----------------------------------------------------------------------------
(* The idempotency store: in memory, for any route that is asked with a key  *)

Fresh(e) == clock - e.created <= KeyTTL

Cached(key) == \E e \in store : e.key = key /\ Fresh(e)

\* Expired entries are cleaned up whenever the store is used.
StoreResult(key) ==
    store' = IF key = None THEN store
             ELSE {e \in store : Fresh(e) /\ e.key # key} \cup {[key |-> key, created |-> clock]}

-----------------------------------------------------------------------------
(* POST /jobs/:jobId/claim, unclaim and submit                               *)

Purpose == [claim |-> "worker_claim", unclaim |-> "worker_unclaim", submit |-> "worker_submit"]
Permission == [claim |-> "claim_jobs", unclaim |-> "claim_jobs", submit |-> "submit_results"]

\* A key that is found is answered with what was stored under it, of whatever route,
\* job or account.
WorkCall(p, op, j, a, agent, key) ==
    /\ key # None => ~Cached(key)
    /\ \/ \E c \in DOMAIN challenges :
             /\ Active(c, a, Purpose[op], j, agent)
             /\ Start(p, [op |-> op, step |-> "use", job |-> j, account |-> a, agent |-> agent,
                          key |-> key, challenge |-> c, asked |-> clock])
       \/ /\ ~Setting.strict
          /\ Start(p, [op |-> op, step |-> IF op = "claim" THEN "stake" ELSE "row", job |-> j,
                       account |-> a, agent |-> agent, key |-> key, challenge |-> 0, asked |-> clock])
    /\ UNCHANGED <<accessVars, walletVars, workVars>>

ClaimRoute(p, j, a, agent, key) == Serves("claim") /\ WorkCall(p, "claim", j, a, agent, key)
SubmitRoute(p, j, a, agent, key) == Serves("submit") /\ WorkCall(p, "submit", j, a, agent, key)
UnclaimRoute(p, j, a, agent) == Serves("unclaim") /\ WorkCall(p, "unclaim", j, a, agent, None)

\* A slip: the route forgets to ask for the authorization.
SkipPermission(p) ==
    /\ proc[p].op \in DOMAIN Purpose /\ proc[p].step = "permission"
    /\ Goto(p, IF proc[p].op = "claim" THEN "stake" ELSE "row")
    /\ UNCHANGED <<job, syncs, accessVars, walletVars, workVars>> /\ Quiet

\* requireWorldRoleIfStrict and requireAgentAuthorization
CheckPermission(p) ==
    LET r == proc[p] IN
    /\ r.op \in DOMAIN Purpose /\ r.step = "permission"
    /\ \/ /\ RoleIfStrict(r.account, "worker")
          /\ MayFind(r.account, r.agent, "worker", Permission[r.op], TRUE)
          /\ Goto(p, IF r.op = "claim" THEN "stake" ELSE "row")
       \/ /\ ~RoleIfStrict(r.account, "worker")
             \/ MayFind(r.account, r.agent, "worker", Permission[r.op], FALSE)
          /\ Finish(p)
    /\ UNCHANGED <<job, syncs, accessVars, walletVars, workVars>> /\ Quiet

\* checkWorkerStake: WorkerStakeManager refuses, or it allows or cannot be asked.
CheckWorkerStake(p) ==
    /\ At(p, "claim", "stake")
    /\ Goto(p, "row") \/ Finish(p)
    /\ UNCHANGED <<job, syncs, accessVars, walletVars, workVars>> /\ Quiet

Registered(a) ==
    {g \in Agents : <<a, g>> \in Fingerprints /\ identities[<<a, g>>] # NoIdentity}

\* The checks of claimJob, unclaimJob and submitJob on the job's row; submitJob
\* compares the agent with one of those the account has registered.
RowAllows(r) ==
    LET mine == Registered(r.account) IN
    CASE r.op = "claim" -> job[r.job] \in {"queued", "rework"}
      [] r.op = "unclaim" -> job[r.job] = "claimed" /\ holder[r.job] = r.account
      [] r.op = "submit" -> /\ job[r.job] = "claimed" /\ holder[r.job] \in {None, r.account}
                            /\ mine = {} \/ r.agent \in mine

RowRefuses(r) ==
    \/ ~RowAllows(r)
    \/ r.op = "submit" /\ Registered(r.account) \ {r.agent} # {}

RowRead(p) ==
    /\ proc[p].op \in DOMAIN Purpose /\ proc[p].step = "row"
    /\ \/ /\ RowAllows(proc[p])
          /\ proc' = [proc EXCEPT ![p] = With(proc[p], [step |-> "write", was |-> holder[proc[p].job]])]
       \/ RowRefuses(proc[p]) /\ Finish(p)
    /\ UNCHANGED <<job, syncs, accessVars, walletVars, workVars>> /\ Quiet

\* The status and the worker of the job; a submission that fails its gate leaves
\* none, one that passes the worker that was read.
RowWrite(p) ==
    LET r == proc[p] IN
    /\ r.op \in DOMAIN Purpose /\ r.step = "write"
    /\ \E status \in CASE r.op = "claim" -> {"claimed"}
                       [] r.op = "unclaim" -> {"queued"}
                       [] r.op = "submit" -> {"submitted", "rework"} :
          /\ job' = [job EXCEPT ![r.job] = status]
          /\ holder' = [holder EXCEPT ![r.job] = CASE status = "claimed" -> r.account
                                                   [] status = "submitted" -> r.was
                                                   [] OTHER -> None]
          /\ kept' = (kept /\ status # "rework")
    /\ held' = IF r.op = "claim" THEN held \cup {<<r.job, r.account>>} ELSE held
    /\ acts' = Append(acts, [op |-> r.op, job |-> r.job, account |-> r.account, agent |-> r.agent,
                             key |-> r.key, challenge |-> r.challenge, asked |-> r.asked, at |-> clock])
    /\ Goto(p, "answer")
    /\ UNCHANGED <<syncs, accessVars, walletVars, store, spends>> /\ Quiet

\* Once the event is logged: TaskEscrow is told, and the result stored.
Answer(p) ==
    LET r == proc[p] IN
    /\ r.op \in DOMAIN Purpose /\ r.step = "answer"
    /\ Cardinality(scripts) < MaxScripts
    /\ CASE r.op = "claim" -> SetWorkerOnEscrow(r.job, r.account)
         [] r.op = "unclaim" -> ClearWorkerOnEscrow(r.job)
         [] OTHER -> UNCHANGED <<scripts, orderly>>
    /\ StoreResult(r.key)
    /\ Finish(p)
    /\ UNCHANGED <<job, syncs, accessVars, contractVars, settled, accepts, missed>>
    /\ UNCHANGED <<holder, spends, acts, held, kept>>
    /\ Quiet

-----------------------------------------------------------------------------
(* What else moves the job *)

\* The lease sweep requeues the job; nobody tells TaskEscrow.
Lapse(j) ==
    /\ Serves("lapse") /\ job[j] = "claimed"
    /\ job' = [job EXCEPT ![j] = "queued"]
    /\ holder' = [holder EXCEPT ![j] = None] /\ kept' = FALSE
    /\ UNCHANGED <<scene, syncs, proc, starts, faults, applied, again, alone>>
    /\ UNCHANGED <<accessVars, walletVars, store, spends, acts, held>>

\* acceptJob by another account; CreditLedger has the credits it settles.
AcceptWork(p, j, a) ==
    /\ job[j] = "submitted" /\ a # holder[j]
    /\ Start(p, [op |-> "accepting", step |-> "job", job |-> j, account |-> holder[j]])
    /\ UNCHANGED <<accessVars, walletVars, workVars>>

JobAccepted(p) ==
    /\ At(p, "accepting", "job")
    /\ job' = [job EXCEPT ![proc[p].job] = "accepted"]
    /\ Goto(p, "settle")
    /\ UNCHANGED <<syncs, accessVars, walletVars, workVars>> /\ Quiet

\* Only a job without the mark of an earlier release is settled.
SettleOnChain(p) ==
    /\ At(p, "accepting", "settle") /\ Cardinality(scripts) < MaxScripts
    /\ IF proc[p].job \in settled \/ proc[p].account = None
       THEN UNCHANGED <<scripts, orderly, accepts>>
       ELSE Settle(proc[p].job, proc[p].account)
    /\ Finish(p)
    /\ UNCHANGED <<job, syncs, accessVars, contractVars, settled, missed, workVars>> /\ Quiet

\* rejectJob, without what it does to credits; nobody tells TaskEscrow.
RejectWork(p, j) ==
    /\ job[j] \in {"submitted", "accepted"}
    /\ Start(p, [op |-> "rejecting", step |-> "job", job |-> j])
    /\ UNCHANGED <<accessVars, walletVars, workVars>>

JobRejected(p) ==
    /\ At(p, "rejecting", "job")
    /\ job' = [job EXCEPT ![proc[p].job] = "rework"]
    /\ holder' = [holder EXCEPT ![proc[p].job] = None] /\ kept' = FALSE
    /\ Finish(p)
    /\ UNCHANGED <<syncs, accessVars, walletVars, store, spends, acts, held>> /\ Quiet

-----------------------------------------------------------------------------
(* POST /jobs/:jobId/spend and /dispute *)

\* recordSpendEvent: the job's row is read and the event inserted later.  Without a
\* session, where none is needed, the client names the worker.
SpendCall(p, j, a) ==
    /\ Setting.strict => SignedIn(a) /\ HasRole(a, "worker")
    /\ job[j] \in {"claimed", "submitted", "accepted"} /\ holder[j] = a
    /\ Start(p, [op |-> "spend", step |-> "insert", job |-> j, account |-> a])
    /\ UNCHANGED <<accessVars, walletVars, workVars>>

SpendInsert(p) ==
    /\ At(p, "spend", "insert")
    /\ spends' = spends \cup {<<proc[p].job, proc[p].account>>}
    /\ Finish(p)
    /\ UNCHANGED <<job, syncs, accessVars, walletVars, holder, store, acts, held, kept>> /\ Quiet

\* DisputeResolution is external here; the route asks it to open a dispute between
\* any two accounts about any job.
OpenDispute(p, j, a) ==
    /\ Setting.strict => SignedIn(a)
    /\ Cardinality(scripts) < MaxScripts
    /\ Start(p, [op |-> "idle"])
    /\ Launch(Script(<<Call("openDispute", j, None)>>, j, None))
    /\ UNCHANGED <<accessVars, contractVars, settled, accepts, missed, workVars>>

WorkArrives(p) ==
    /\ Scenes[scene].calls \cap {"claim", "submit", "unclaim", "accepting", "spend"} # {}
    /\ \E j \in Jobs, a \in Accounts :
        \/ /\ a \in Setting.users
           /\ \E g \in Setting.agents, key \in Setting.keys :
                 ClaimRoute(p, j, a, g, key) \/ SubmitRoute(p, j, a, g, key) \/ UnclaimRoute(p, j, a, g)
        \/ Serves("accepting") /\ (AcceptWork(p, j, a) \/ RejectWork(p, j))
        \/ Serves("spend") /\ (SpendCall(p, j, a) \/ OpenDispute(p, j, a))

WorkStep(p) ==
    /\ proc[p].op \in {"claim", "unclaim", "submit", "accepting", "rejecting", "spend"}
    /\ \/ CheckPermission(p) \/ CheckWorkerStake(p) \/ RowRead(p) \/ RowWrite(p) \/ Answer(p)
       \/ JobAccepted(p) \/ SettleOnChain(p) \/ JobRejected(p) \/ SpendInsert(p)

\* The store is the process's memory, like the scripts.
ForgetWork == LoseScripts /\ store' = {} /\ UNCHANGED <<holder, spends, acts, held, kept>>

-----------------------------------------------------------------------------
(* Properties *)

\* A key answers for its time: until requests overlap or one fails, a second effect
\* under it comes only after its entry has expired (idempotencyStore.ts 20-63).
KeysAnswer ==
    alone /\ faults = 0 =>
        \A m, n \in DOMAIN acts :
            m < n /\ acts[m].key # None /\ acts[m].key = acts[n].key =>
                acts[n].asked - acts[m].at > KeyTTL

\* Whoever worked was allowed to: each signed act used up a challenge that the account
\* signed for this job, this agent and this purpose, one act each until requests
\* overlap; the account had registered the agent; and in strict mode it holds the role
\* and no act was unsigned (routes/jobs.ts 468-687).
ActsAllowed ==
    /\ \A n \in DOMAIN acts :
          LET r == acts[n] IN
          /\ Setting.strict => r.challenge # 0 /\ HasRole(r.account, "worker")
          /\ r.challenge # 0 =>
                /\ challenges[r.challenge] =
                      [account |-> r.account, purpose |-> Purpose[r.op], job |-> r.job, agent |-> r.agent,
                       expires |-> challenges[r.challenge].expires, used |-> TRUE]
                /\ \E i \in Matching(r.account, r.agent, "worker") : auths[i].token # None
    /\ alone => \A m, n \in DOMAIN acts :
          acts[m].challenge # 0 /\ acts[m].challenge = acts[n].challenge => m = n

\* TaskEscrow pays who holds the job: while the calls to it come in order and no worker
\* loses the job but by giving it back, its worker is the holder or not set once all of
\* them are mined; and an event of spending names someone who held the job.
EscrowFollows ==
    /\ orderly /\ kept /\ scripts = {} /\ mined = Len(sent) /\ faults = 0 /\ alone
       /\ (\A p \in Requests : proc[p] = Idle) =>
          \A j \in Jobs : escrow[j].state = "funded" => escrow[j].worker \in {None, holder[j]}
    /\ spends \subseteq held
=============================================================================
