# Intelligence Exchange: a TLA+ verification project

The Intelligence Exchange lets a *poster* fund an idea, which the broker breaks
into milestones and jobs; *workers* (agents run by people) claim jobs on a lease
and submit work; *reviewers* accept or reject it; acceptance settles INTEL, off
chain in the broker's ledger and on chain in the escrow contracts. This project
keeps the models of that system, the TLC runs that check them on small
instances and the TLAPS proofs that hold for every instance.

Paths below are under `src/`; `broker/` stands for
`src/apps/intelligence-exchange-cannes-broker/src/`, `web/` for
`src/apps/intelligence-exchange-cannes-web/src/` and `contracts/` for
`src/packages/intelligence-exchange-cannes-contracts/src/`.

## 1. The system

### Components

| Component | State | Operations | Right when |
|---|---|---|---|
| Job service (`broker/services/jobService.ts`) | tables `jobs`, `claims`, `submissions` | claim, unclaim, submit, accept, reject | one lease per job; a job's status and its claim agree; only work that passed the gate is reviewed and credited; every lease ends |
| Lease sweep (`broker/queue/milestoneQueue.ts`) | timer, BullMQ queue | every 10 s: expire overdue claims, requeue their jobs | every lapsed lease is found, submitted work is never requeued |
| Credit ledger (`broker/services/tokenomicsService.ts`) | `token_accounts`, `idea_token_reserves`, `token_ledger_entries` | mint on funding, settle on acceptance, refund on rejection | the three records of the same credits agree |
| Chain sync (`broker/services/chainService.ts`, `routes/{chain,ideas,arc}.ts`) | `chain_syncs`, `escrow_releases`, attestations | record a receipt, apply it to ideas, jobs, reputation | an event is applied once, also after a failure |
| Access (`broker/services/{auth,world,authorization,agentkit,worldchain}Service.ts`) | challenges, sessions, roles, authorizations, registrations, nonces, trials | sign in, verify, authorize, register, gate | nobody acts without having signed; one human, one role |
| Work routes (`broker/routes/jobs.ts`, `idempotencyStore.ts`) | idempotency keys, leases, scores | claim, unclaim and submit as a client sees them | a key answers with its own call; who acts may |
| Broker's wallet (`chainService.ts` 507-1012, `routes/admin.ts`) | nonce, scripts in flight | set a worker, release, deposit, administer | escrow, deposits and marks follow the jobs |
| Planning and board (`routes/ideas.ts`, `jobService.ts` 52-111) | ideas, briefs, milestones, jobs | create, plan, list | plans are whole and cost the budget |
| Limits (`middleware/rateLimit.ts`, `circuitBreakerService.ts`, `routes/admin.ts`) | counters in Redis or memory, breaker | count, refuse, trip, reset | those who ask too often are refused, nobody else |
| Web pages and CLI (`web/pages`, worker `cli.ts`) | what a page shows, dialogs, handlers in flight | claim, submit, post, pay, review, set up an agent | what is offered the broker takes; what was begun can be finished |
| TaskEscrow | INTEL per task, split, windows, roles | fund, set/clear worker, release, auto-release, refund, configure | solvent; each task leaves once, in full, at the split of its funding |
| IntelStaking | stakes, yield accumulators, epochs, allowances | stake, unstake, deposit and claim yield, advance epoch, allowance | principal is never spent as yield beyond dust; caps and cooldowns hold |
| AdvancedArcEscrow | budget per idea, milestones, disputes | fund, reserve, submit, approve, release as it vests, dispute, refund, withdraw | no idea spends another's money; each milestone pays once and in full |
| IntelToken, IntelMintController, LiquidityMining, BuybackBurn, IntelPOLManager, EpochRewardDistributor, IntelVesting, IdeaEscrow | INTEL held, caps, rewards, price window | mint, buy, burn, mine, vest, claim | each can pay what it owes; caps and delays hold |
| ReviewerQueue, ReviewerCredential, ReviewerStakeManager, WorkerStakeManager, DisputeResolution | assignments, tiers, bonds, juries | assign, review, slash, vote, resolve | bonds are covered; a review counts once; a dispute ends once |
| Timelock, CategoryRegistry, WorkReceipt1155, AgentIdentityRegistry, IdentityGate | scheduled calls, records | schedule, execute, record | an operation is executed once, in its window |
| Scoring, AIU index, GitHub sessions, scripts, simulator, shared types, protocol-core | none the rest depends on | | |

### How they interact, and what is hard

A claim, submission or decision is an HTTP request. Its handler is a chain of
awaited SQL statements with **no transaction, no row lock and no condition in
the updates**, so the event loop may run any other request, or the sweep, between
two statements, and each handler goes on with the row it read at the start.
Acceptance calls the credit ledger and, without waiting, TaskEscrow, IntelStaking
and ReviewerStakeManager; claims call `setWorker`, without waiting. All those
transactions leave from one key with one nonce. The broker keeps queues, limits
and idempotency keys in memory and may restart anywhere; nothing repairs the
tables at start-up. Chain events arrive over routes and webhooks, possibly late,
twice or out of order. A page keeps what it was opened on, its handlers outlive
their dialogs, and an answer may be lost after the broker has acted.

On chain a call is atomic, and the difficulty is in sequences of calls: money of
several tasks in one account, shares that round, parameters that change while
funds are held, a dependency (`depositYield`) that reverts, windows and epochs,
contracts that slash and refuse each other.

`PROJECT.json` lists these points under `hazards`, each at its line with the
properties that would catch it going wrong.

## 2. The modules

On chain, one action is one external function, its reverts are guards, and a
reverted call is no step. In the broker and its clients, a process is a request;
its first action is its first read with the checks on it, and each further action
is one awaited statement that uses what was read before.

| Module | What it models |
|---|---|
| `TaskEscrow` | TaskEscrow.sol, every external function; refines `OneShotEscrow` |
| `OneShotEscrow` | abstract: a deposit is taken once, held, and leaves once and in full |
| `AdvancedArcEscrow` | AdvancedArcEscrow.sol, every external function; each of its milestones refines `OneShotEscrow` |
| `IntelStaking` | IntelStaking.sol, every external function |
| `Roles` | the owner, nominee and operators that most contracts repeat |
| `IntelToken`, `IntelMintController`, `Liquidity` (LiquidityMining, BuybackBurn, IntelPOLManager), `IntelPayouts` (EpochRewardDistributor, IntelVesting, IdeaEscrow), `Governance` (timelock, CategoryRegistry, WorkReceipt1155) | the contracts of their names |
| `TokenEconomy` | composes the row above on one token and one clock |
| `ReviewerQueue`, `StakeManagers` (ReviewerStakeManager, WorkerStakeManager, ReviewerCredential), `DisputeResolution` | the contracts of their names |
| `ReviewSystem` | composes the row above: a slash takes a reviewer out of the queue |
| `JobLifecycle` | jobService.ts's handlers and the lease sweep, statement by statement |
| `BrokerRequests` | what requests share: processes, jobs' status, `chain_syncs`, failures, restarts |
| `CreditLedger`, `ChainSync` | tokenomicsService.ts; chainService.ts, the Arc webhook, attestation and reputation |
| `BrokerMoney` | composes the two: settlement obeys marks that chain events set |
| `Access`, `BrokerWallet`, `WorkRoutes`, `Planning`, `Limits` | sessions and roles; the broker's transactions; the agents' routes; ideas and the board; rate limits and the breaker |
| `BoardPage`, `IdeaPage`, `ReviewPage`, `AgentPage` | JobsBoard.tsx and the CLI; IdeaSubmission.tsx; ReviewPanel.tsx; AgentsPage.tsx |
| `BrokerServices` | composes the two rows above |
| `SumTheorems` | lemmas about sums over finite sets, rounding and products |
| `IntelStaking_proofs`, `TokenEconomy_proofs` | theorems about the module before the underscore |
| `ArcReview_proofs` | theorems about `AdvancedArcEscrow`, whose specification is `ArcSpec`, and about `ReviewSystem` |
| `BrokerMoney_proofs` | theorems about `BrokerMoney`, and the lemmas about `BrokerWallet` and `Limits` |
| `BrokerAccess_proofs`, `BrokerServices_proofs` | theorems about `BrokerServices`; the first has the lemmas on who changes which table, and types, sessions, roles and registrations |
| `JobPayment_proofs` | theorems about `JobLifecycle`, and about `TaskEscrow`, whose specification is `EscrowSpec` |
| `MC*` | the instances TLC checks |

### How state and actions correspond to the code

**TaskEscrow.** `tasks` is the mapping, with the split snapshot of each task;
`balance` holds the INTEL of wallets, escrow and staking contract; `payout`
records what the events `TaskReleased` and `TaskRefunded` say, which the
contract does not store but every property about money needs. The outcome of
`staking.depositYield` is a parameter: when it fails, the catch branch gives the
staker share to the treasury. Reentrancy is left out: every function that moves
INTEL is `nonReentrant`, and INTEL calls nobody.

**AdvancedArcEscrow.** `ideas`, `milestones` and `disputes` are the mappings,
`held` the token's balance, `totalEscrowed` the contract's own counter; `paid`
and `withdrawn` are history, from the events. Vesting is computed as in the
code, by integer division, at once, on a line or with a quarter at the cliff.

**IntelStaking.** The INTEL and the ETH accumulator are one function `acc` by
asset; where the code treats the two differently (the flush of the pool) so does
the model. A call works on *books*: the state after the `_advanceEpochIfNeeded`
with which it starts. History: `edge` (what a wallet was paid less its exact part
of what was distributed), `syncs` (how often its debts were set anew), `locked`
(the latest of the cooldowns it asked for) and `shortened` (the owner once
lowered the cooldown).

**JobLifecycle.** `job`, `claims`, `submissions` and `credited` are the tables,
`proc[p]` a request or a run of the sweep with what it has read. `Fail(p)` is any
statement of a handler or of the sweep throwing: the handler rejects, the sweep's
catch ends its run, and nothing takes back what was written. `SweepAborts` is
BullMQ's `add` throwing, which may happen at every run. `Crash` loses
what is in flight and keeps the tables. `Lapse(c)` is the clock passing the
expiry of a claim; all leases last 45 minutes, so they lapse in the order they
were granted. The score gate is an input of `SubmitRead`. `AcceptSettleFails` is
settlement throwing: the job stays accepted, no attestation is issued, and no
call tries again. Two histories let properties say what the handlers do right on
their own: `calm`, nothing has overlapped so far, and `cut`, the claims between whose
update and that of their job a throw or a restart stopped something. A job is `Whole`
when none of its claims is in `cut`.
`Publish` assumes that a job is reserved once: the code applies a transaction once,
but one more that names the job sets it to queued, whatever it is by then.

**Broker modules.** `proc[p]` is as above. `Fail` is any statement throwing, `Restart`
the process ending; memory is lost, rows and Redis stay. In `BrokerWallet` a call to a
contract is two steps, the estimate with the nonce and sending, because two calls in
flight read the same nonce. What is sent is mined by a step of its own (`sent`, `mined`,
`Mine`), for nobody waits for a receipt: a call may be estimated before the one it rests
on is mined, and a mark written before its release is. Of the chain this assumes that
gas is estimated on the latest block, that the nonce counts what is pending, that a
nonce in use is refused, and that nothing sent is dropped. The contracts behind are
external there and have their own modules. In `CreditLedger` a database transaction is
one step (its first statement locks the poster's account), except in a refund, whose
statements are increments.

**Pages.** A page's variables are its React state; a handler keeps what its
render closed over. Routes are taken whole from a page (the broker's modules have
their steps), and both a request and its answer may be lost.

**Scenes.** `TokenEconomy`, `ReviewSystem`, `BrokerMoney` and `BrokerServices`
fix a scene in `Init`: which contracts or requests a behaviour uses, in which
configuration, and how many calls, overlaps and failures. The behaviours of a
composition are the sum and not the product of the scenes'; scenes that matter
together (acceptance with chain events, slash with assignment, page with broker)
are scenes of their own.

## 3. What the runs check

| Run | Checks | Shows |
|---|---|---|
| `task_escrow` (207,578 states) | `EscrowTypeOK`, `Solvency`, `PaidInFull`, `SplitFixedAtFunding`, `NeverLocked`, `OneTaskPaysOrReceives`, `KeepsPromise` | two tasks, two wallets, amounts that round, one change of the configuration, failing deposits |
| `arc_escrow` (590,754) | `ArcTypeOK`, `MoneyAccounted`, `LockedOnlyByRefunds`, `KeepsPromise` | two ideas and two milestones, paid at once, on a line or in steps, with reviews that time out, disputes and refunds; the counter `totalEscrowed` lags by exactly the refunds, and nothing else locks money |
| `staking` (1,799,033) | `TypeOK`, `SolventUpToDust`, `NoOneTakesAnothersYield`, `EpochCapHolds`, `CooldownKept` | two stakers, both yields with their divisions, epochs with caps, one change of the parameters |
| `review_system` (1,054,820) | `ReviewTypeOK`, `ReviewsKept`, `EveryoneCovered`, `DowngradeAnnounced` | queue, bonds, credentials and disputes, alone and composed |
| `token_economy` (960,060) | `EconomyTypeOK`, `FundsBacked`, `RecordsAgree`, `LimitsKept` | nine scenes on one token: what each contract owes it has; caps, delays and announcements are kept |
| `jobs_interleaved` (2,936,745, workers and requests symmetric) | `TypeOK`, `SweepCanFindClaimedJobs`, `SubmittedWorkPassed`, `CreditIsEarned` | two requests, or one and the sweep, interleaved at every await, one restart, one statement that throws |
| `jobs_leases` (376,223) | `TablesAgreeWhenCalm`, `StatusGraphWhenCalm`, `ClaimsEnd`, `LeaseEndsUnlessCut` | one request and the sweep, one restart, one statement that throws; liveness: claims end, and so do leases, but for one that the sweep was stopped on between its two updates; without overlap, tables and statuses are right on every job that nothing was stopped on halfway |
| `broker_money` (580,263) | `BrokerTypeOK`, `CreditsAddUp`, `ChainCountsOnce` | funding, acceptance, rework and refund, reports of the chain, seven scenes, failures and restarts |
| `broker_services` (1,708,348) | `ServicesTypeOK`, `AccessKept`, `WorkKept`, `PlansKept`, `ClientsKept` | over forty scenes, one per question: requests of each service interleaved, transactions mined late, lost answers, restarts, reloads, a clock |
| `job_exclusive` | `ExclusiveLease`, violated | two claims read the job as queued; both insert an active claim and return a lease. `spec/CANNES_2026_MVP_SPEC.md:251`: "Only one active claim exists for a `claim`-mode milestone in MVP." |
| `job_lease_crash` | `LeaseEnds`, violated | a restart between the sweep's update of the claim and its update of the job strands the job. `spec/CANNES_2026_EDGE_CASES.md:26`: "lease expires and job requeues" |
| `job_score` | `AttestedScorePassed`, violated, with one request at a time | after a failed and a passed submission of one worker, `acceptJob` may attest the failing score. `spec/CANNES_2026_MVP_SPEC.md:252`: "No payout releases without: accepted score state" |

Every property of a passing run is also shown to notice a plausible slip: the
definitions named for one (`StrandedShares`, `SubmitUngated`, ...) stand before
the definition they would replace, and `PROJECT.json` lists the pairs.

### Bounds, and why they are enough

- *Two tasks, two ideas, two milestones, two stakers*: the second one's money is
  what a double payment of the first would come from. The proofs of section 4
  lift these bounds for the eight modules they are about.
- *Amounts* (1 and 15; 15 of 30; stakes 1 and 2, yield 3, `PRECISION` 2) make
  every division round, the dust of two roundings add up, and a cap be reached.
- *One administrative call* while funds are held changes any one parameter;
  pairs of changes are tried where two of them interact (`MaxAdminCalls` by scene).
- *Clocks* pass every window once (`MaxTime`); windows that the code keeps apart
  are kept apart.
- *One job, two workers, two claims* (`MaxClaims`): handlers touch one job, and
  the sweep's batch of two claims is reached with two active claims on it. Two
  claims give a stale lease and a fresh one. *Two in flight*: every pair of
  handlers interleaves at every await. *One crash and one statement that throws*: the
  states a second one finds are tables a first one left. `jobs_interleaved` takes
  requests, and the two workers, who are both reviewers, to be interchangeable: no
  action names one of them, and the run has no liveness property.
- *Scenes* bound the number of requests (`starts`), of those in flight (`slots`)
  and of failures. Two in flight and one failure are enough for a handler to go on
  with a stale row, an event to be applied twice, and a retry to meet what its
  first attempt left; a third request is given where the effect of the overlap
  shows only in what a later request reads (a budget paid twice, a lost mark).
- `CHECK_DEADLOCK FALSE`: nobody has to send a request, and bounds on time,
  claims and calls end every behaviour.

### Fairness

Stated in `JobLifecycle` only: weak fairness of `Continue(p)` (the event loop finishes a
started handler), of `SweepSelect` and `ContinueSweep` (the interval timer fires), and
of `Lapse` (the clock advances). None on requests: nobody has to call. `SweepAborts` is
a disjunct of `ContinueSweep`, so BullMQ may throw at every run, and the leases end all
the same: the claim that aborted the run is no longer active in the next. `Fail` is no
part of any fairness: no statement has to throw. On chain nothing happens unless
somebody calls, so there is no fairness to assume; that money is never stuck is said by
`NeverLocked` and `LockedOnlyByRefunds`, which ask that a call that moves it is enabled.

## 4. What is proved

The theorems hold for all sets of tasks, ideas, milestones, wallets, jobs,
workers and requests, and for all amounts, parameters and bounds on time, that
satisfy the modules' named assumptions. Those say: the contracts' own accounts are
no wallets; sets that are summed over are finite; amounts, windows and bounds are
naturals; `PRECISION` is not zero; requests and timers differ. `Scale`, a common
multiple by which `IntelStaking`'s history counts fractions, is divisible by every
total up to `MaxStaked`. Reviewers of `JobLifecycle` may be its workers. The shares
of a settlement are at most the whole, which `splitSettlementIntel` checks, and the
protocol's is at least the rebate of 200 basis points that is taken out of it; it is
1000 unless configured otherwise, and nothing checks this. In `TokenEconomy` those
whom a contract pays, its treasury or beneficiary, are wallets and not contracts of
the model; the mining, buyback and idea contracts are deployed without INTEL; the
categories' weights add up, which the constructor checks. In `BrokerServices`
`None` is no account, agent, job, human, token or number; accounts and agents are
finite sets; settings are records of what a scene starts from; and there are humans
enough for every account to be somebody's (`Injection(Accounts, Humans) # {}`), since
some scenes start with every account verified. An open breaker closes no sooner than its
window ends (five minutes and one in the code).

**Sums** (`SumTheorems`). Every statement about a contract's money is about a sum
over a finite set, which is a fold defined by a recursive function. No induction
theorem with an operator parameter is used: a property of all subsets that fails
somewhere fails at a least subset (`LeastSubset`, from the well-foundedness of
inclusion on finite sets), and there one element is taken out. Hence
`SumTakesOut`, `SumOfOneChange` (what a step of one wallet does to a total),
`SumOfSums`, `SumAtMost`, and facts on rounding and products.

**TaskEscrow.** `LifeInv` adds to the types that the split in force and every
snapshot add up to 10,000 basis points (else the remainder that goes to the
treasury may be negative), and that `payout` is, in each state of a task's life,
determined by the task. `StepShape` shows that a step moves no money, or that of
one task: this is the step form of solvency and the refinement. Theorems:
`TypeCorrect`, `LifeInvariant`, `EscrowIsSolvent`, `EveryTaskIsCovered`,
`PaysInFull`, `SplitIsFixed`, `BalanceFollowsTasks`, `ImplementsOneShotEscrow`.

**AdvancedArcEscrow.** `ArcInv` says for every milestone what its status tells of
its amount, of what it has released and of its dispute (`LifeOf`), and that it has
paid what it should, its fees within their rates over all tranches and its
tranches within the schedule; with it, that each idea's funding is what is
available, owed, paid and withdrawn, and that `totalEscrowed` lags by the refunds.
Vesting is the hard part: that a floor of a line never overtakes the line, also
when a quarter is paid at the cliff (`VestedBounds`). Theorems: `ArcInvHolds`,
`ArcTyped`, `ArcMoneyAccounted`, `ArcImplementsOneShotEscrow`; the last makes the
milestones of this contract keep the same promise as the tasks of the other.

**IntelStaking.** What a wallet has accrued beyond its debt, `Excess`, is kept as
a multiple of 1 / `PRECISION`, so that the invariant loses nothing to rounding and
the rounded properties follow. `StakingInv`: the contract has, up to one unit for
each debt set anew, all stakes, the pool and all excess; a wallet's excess and what
it was paid are at most its exact part and the same dust; what an epoch's cap has
left is what the wallets have not used; what is pending waits for every cooldown
asked for. It is stated of the books a call starts from, and shown first of
those that advancing the epoch makes. Theorems: `StakingInvHolds`, `StakingTyped`,
`StakingSolvent`, `YieldIsFair`, `CapIsKept`, `CooldownIsKept`.

**JobLifecycle.** `Inv` says what each process holds: the row it read may be stale,
but a claim keeps its job and its worker, submissions are only added, a claim not
yet written into its job is known to its process alone (`OnlyTaker`), and a process
about to end a claim has seen its job leave it (`JobHasLeft`). So whatever overlaps,
throws or restarts, a claimed job is backed by an active claim, or by one in `cut`;
submitted work has passed the gate, and credit is earned. `CalmInv` is a second
invariant, for behaviours without overlap: what a process read is still so, and on a job
of which no claim is in `cut` one claim at most disagrees with it, the one that the
process now running holds.
Theorems: `InvHolds`, `JobsTyped`, `SweepFindsClaimedJobs`, `SubmittedJobsPassed`,
`CreditsAreEarned`, `CalmInvHolds`, `CalmTablesAgree`, `CalmStatusGraph`.

**BrokerMoney.** `RequestsInv` says what each request has in its hands: which step
of which route, for whom, and what the row it read was when it was read. A request
that has recorded a report and not applied it is the only one to hold that row
(`OwnRow`), from which a report is applied once. `MoneyInv` needs nothing about
overlaps, since accounts and ledger are moved by increments in one transaction.
`ReputationInv` counts what is under way: the agent's count, and every count that was
read and may be written back, is at most the attestations and reports less the
attestations whose call in the background has not counted yet. `RegistryInv` says that
a call holds a nonce the registry has reached. `AloneInv` is for behaviours without
overlap: what settlement read of the row still holds, and the row is within one
`Tolerance` of the account for each settlement made (`RowFits`). Most of the work is
that the roundings of a split leave nothing negative, with and without the rebate and
the referral's bonus. Theorems: `BrokerTyped`, `CreditsAlwaysAddUp`,
`ChainAlwaysCountsOnce`.

**ReviewSystem.** Each contract has an invariant of its own that only its own operations
disturb: a slash by the stake manager or by a verdict is an operation of the queue and
of the stake manager, whoever calls it, so that the five are proved one by one and put
together in `CallKeeps` and `AdminKeeps`. `QueueInv`: an array's length is the count of
active reviews and of the slips of removals that found no index, and an index that is
set is the place of its task; this is what swap-and-pop has to keep, and what keeps a
running review from being lost (`Indexed`, `RemovedFits`). `RSMInv`, `WSMInv` and
`DisputeInv` say what the balances are exactly: bonds, pending unstakes and the fees
deposited less those claimed; stakes; the bonds of pending disputes and the funds given,
less the jurors' rewards. The inequalities that the properties state, with the two leaks
they name, follow. `CredentialInv`: a probation that runs was announced, and lasts its
grace period from then. Theorems: `ReviewTyped`, `ReviewsAreKept`, `EveryoneIsCovered`,
`DowngradesAnnounced`.

**TokenEconomy.** A contract's invariant is about its own storage, the histories of
it, and its one entry in the token's balances (`MiningInv`, `RewardInv`, ...). A call
of it keeps that invariant and the token's, and is `Quiet`: it moves no other
contract's entry, but for the market's two. So the invariant survives the calls of
all others (`OthersKept`, `PartKeeps`), and the calls are proved one contract at a
time, without the scene, but for the timelock, whose clock has to be later than the
mark of what was executed. What the parts needed beside the stated properties:
what the mint controller counted is what was minted in the epoch it counts
(`MintInv`); a pending address pair or rate is as old as its announcement; what is
vested is never below what was released (`VestedGrows`); an epoch not distributed
owes nothing; an idea never funded holds nothing. The rewards are the hard part: a
worker with two ranks counts twice in what is shared out, is paid once, and the last
one gets what the floors of all the ranks leave, which never adds up to more than the
pool (`EarnedFits`, `OncePaidAtMost`). Theorems:
`EconomyInvariant`, `EconomyTyped`, `FundsAreBacked`, `RecordsAreKept`,
`LimitsAreKept`.

**BrokerServices.** `AccessKept` and `WorkKept` are proved of `ClientSpec`, for every
scene and setting and whoever overlaps. The steps are many, and few of them touch what
a promise speaks of. `AccessTyped` says for each kind of request which fields its row
carries, and that what it names exists: the challenge it presents, the authorization
it writes. With it a step of the whole is one of access, or is `Aside`: it moves rows
of other kinds only (`AllSteps`, `OtherOps`); and for each table a lemma lists the
actions that write it (`ChallengesKept`, `RolesMove`, `KitMoves`, ...). Then each
promise has an invariant. `SignedInv`: a login that is about to open a session has used
up its challenge, which only its account's owner signs. `RolesInv`: one human has one
row of roles, and a page offers or makes a verification only where there was none.
`RegInv`: while nothing overlaps, an authorization is written for the row that was
found, or none was. `IdInv`: while nothing overlaps or fails, an identity either agrees
with what is activated or a request under way is about to publish it. `TrialInv`: a
nonce that was claimed is held by one request and by no grant, so that grants are
counted one by one. `GateInv`: whoever asks to be let in by a strict gate has the role,
and roles stay.

*Limits.* `LimitInv` speaks of the rate limits and of the breaker, beside which any
other part of the broker may step (`LimitsStill`), so it is proved of `Limits` first
(`BrokerMoney_proofs`) and then of every step of the services. `RefusedAskedOften`
follows from what a counter stands for, the answers since its window began, each of
them a place in `answers` (`AskedFit`). For `PassedAreBounded` that is not enough:
`PassedFit` says for every answer that what has passed in the window it begins, and
what may still pass before that window ends (`Room`: what the running counters allow,
and a whole limit for each that expires in time), is at most its quota, which grows by
twice the limit with each fault and once with each reset by hand. The quota this
project assumed at first, two periods for each kind of request, is too small for the
breaker, and the attempt to prove it showed why: the breaker counts anew when its
window ends and again when it closes by itself, so three of its periods meet one
window. The run's limit and clock are too small to show it; with a limit of one and a
window of three TLC does. The property now says three, and assumes what
`LimitsAssumption` says: an open breaker closes no sooner than its window ends.

*Work.* `WorkTyped` says what jobs, acts and the rows of claims, submissions,
acceptances and spendings hold. `KeysInv`: while nothing overlaps or fails, the store
remembers what a key answered for as long as it is fresh, and a request under way with
that key asked after it lapsed. `AllowedInv`: who has acted, and who is about to, was
given the permission and used up its challenge. `HeldInv` and `FollowInv` relate a
job's row, its holder and the task in TaskEscrow: whoever holds a job or may spend it
held it, and while nothing overlaps, fails or is lost the escrow's worker is the holder
where a request, a script or a transaction on its way does not make him so. Since what
is sent is not mined yet, this speaks of the worker that all of the transactions will
leave: `WorkerAfter` each of them, `WorkerLast` after all; while the broker is in order
each finds the worker it is meant for (`InTurn`), so that the last one is the holder, or
the script about to be sent makes him so. `DepositsInv` and `MarksInv`
are about the wallet alone, for whatever order it is told to do things in: a script is
one call or the calls left of a settlement (`Onwards`). What the contracts have, may
still take, and will be allowed or given by what is sent is at most what was settled
(`Bounded`); in order, an approval or deposit is sent only after those before it
(`InOrder`), a deposit is given unless its estimate found its approval not mined
(`missed`), and a deposit that was estimated still finds its allowance when it is mined
(`Ready`). A release that is sent was estimated, so its task had a fitting worker
(`Estimated`); where it reverts all the same, the task has left or another worker was
set before it (`WasSet`, `Vain`); and a mark is written only after a release is sent
(`Marked`, `Released`). Scenes of pages take the
routes whole; in those there is no act and no call (`Bare`, `Unasked`).

`AccessInv`, `ClientWorkInv` and `ClientLimitInv` are inductive in this order, each with
the ones before. Theorems: `TypesKept`, `AccessInductive`, `WorkInductive`,
`WorkIsKept`, `LimitsInductive`, `AccessIsKept`.

### Only model-checked

- `ClaimsEnd` and `LeaseEndsUnlessCut` are liveness under fairness, `NeverLocked`
  and `LockedOnlyByRefunds` use `ENABLED`: neither is in the prover's reach.
- Of `BrokerServices`, `PlansKept` and `ClientsKept`; and `ServicesTypeOK`, since the
  ids of minted tokens are a bounded set in the run, which a behaviour with any number
  of mints leaves.

## 5. Plan

1. The invariants behind `PlansKept` and `ClientsKept`, for all scenes.
2. The Arc routes as a client of `AdvancedArcEscrow`, once they answer.

## 6. Not modelled

Scoring is a pure function whose result is an input; the AIU index, referral
statistics and GitHub sessions keep no state another part reads; the tokenomics
simulator, shared types and the SDK are arithmetic and declarations; the contracts
of protocol-core are an earlier generation that nothing here deploys or calls.
Uniswap, signatures, World ID proofs and the model that plans an idea are external:
they answer anything their callers accept. The routes and pages that only read, the
Arc routes that build transactions (which keep no state), audit logs and columns on
which nothing decides are left out. `PROJECT.json` lists every component with its
status.

## 7. What the models record about the code

The models follow the code where it is surprising. These are the places, for
whoever changes either.

*Escrows.* `TaskEscrow.autoRelease` pays the worker its caller names (257).
`AdvancedArcEscrow.totalEscrowed` is reduced by a refund and once more when the
refunded money leaves. `IdeaEscrow` keeps the dust of its three-way split, and
`rescueFunds` leaves `totalFunded` as it was.

*Staking.* Debts round down when they are set anew (494), which is the dust. The
flush of the INTEL pool lacks the `uint128` cap of the ETH one (299), which drops
what exceeds it (559-563). Setting the epoch's cap to 0 lifts it at once (412-414).
A shortened cooldown lets an earlier request ride on a later, shorter clock.

*Token economy.* `BuybackBurn` swaps in the right direction only if INTEL is token0
(163-164); `_tickToPrice` is the inverse of its natspec; `setLpMining` allows 3000
where its comment says 5000; WETH that `collectFees` brings is never moved, and
unwrapped WETH is counted in `totalEthReceived` again. A worker listed twice in
an epoch's scores leaves INTEL stuck. In `LiquidityMining` an interval that
ends at or after `rewardEndTime` accrues nothing, a new rate is committed without
`_updatePool`, and a rate of 0 cannot be committed; once a reward would take
the accumulator past its `uint128` cap (238), stakes, unstakes, claims and deposits are
refused, and `emergencyWithdraw` is the way out. The mint cap "can only be
increased", but 0 lifts it.

*Reviews.* `removeEligibleReviewer` zeroes a count that `reassign` then
underflows; `assignReview` on an assigned task leaks capacity; `completeReview` takes
any reviewer it is told; fees are paid from the balance of the bonds; a reviewer's
slash cannot reach what is pending; `setMinReviewerBond` does not refresh
eligibility; a rejected dispute's bond is paid twice; a dispute with no window can be
resolved at once; a jury can be selected again, and the quorum uses today's
`jurorCount`; an evaluation that keeps the tier does not clear a probation.

*Jobs.* The sweep's catch (milestoneQueue.ts 138-140) swallows whatever throws: if that
is the update of the job (111) after that of its claim (106), the job stays claimed by an
expired claim with no restart, and no later run selects it. A handler whose second or
third statement throws leaves what the first ones wrote: after a `submitJob` that could
not update its claim, the claim of the submitted job is still active, and when its lease
lapses the sweep requeues the job. The sweep also requeues submitted work when its batch
is stale, and a stale `submitJob` sends submitted or accepted work back to rework.

*Broker.* A protocol fee configured below the 2 % rebate pays the worker more than
anybody is debited (tokenomicsService.ts 49, 270). The mark `onChainSettled` after a
first payment keeps a reworked job's second acceptance from being settled; a release is
marked when its transaction is sent, pending or reverted (chainService.ts 979-1003); a
deposit is sent without waiting for the receipt of its approval (565-600, 761-796), so
when the approval is not mined by the time its gas is estimated the deposit is skipped
and the approval stays; approvals of concurrent settlements overwrite each other, and
concurrent transactions take the same nonce; two accepts that overlap, or a rejection of
work never paid, move credits that nothing backs, and the ledger agrees with the
accounts about them; settlement that throws, or reads the column `poster_id`, which is
not there (tokenomicsService.ts 261), leaves an accepted job that nobody settles; a
report or a funding recorded before a failure is never applied; reputation counted by
two calls at once counts once; the worker of a job claimed before its funding is not set
on the escrow, and lapsed or rejected work leaves it set. The sync route may record
`idea_funded` so that the funding request with the same transaction never mints. The
digest the broker signs has seven fields, the contract's eight. `isOpen` of the breaker
is never consulted. Rate limits are fixed windows where the comment says sliding, and a
crash between INCR and EXPIRE leaves a counter that never expires. An idempotency key is
shared by claim and submit, jobs and accounts. `submitJob` does not compare the claim's
id. Concurrent plans make two briefs, and one that fails midway stays incomplete;
rounded milestones may cost cents more than the budget; a second reservation requeues
jobs whatever became of them. Every Arc route that builds a transaction ends in an
error.

*Pages.* Funding from the wallet is a plain transfer, and a receipt that times out
invites a second payment; a reload loses the idea and the hash; a hash already used is
answered as a funding that the idea does not have; the demo hash is the same for the
same title and budget, and its button, where it is shown, overwrites the hash of a
payment that a wallet has made (IdeaSubmission.tsx 998-1006); leaving the demo mode lets
an idea be paid twice, or no longer match its poster. `ReviewPanel` offers the poster to
accept, which `acceptJob` refuses him; a page left open over rework still offers the
release, and pays whoever holds the job then; after the release's sync no reputation can
be recorded. The board offers no claim on rework, offers to submit on another's claim,
and hides budgets above $1000; a dialog closed does not stop its handler, whose success
closes whichever is open then. A worker on the command line who loses the answer to a
claim can only unclaim. If the registration of an agent is mined and its sync is lost,
the page can never record the token.
