-------------------------- MODULE AdvancedArcEscrow --------------------------
(***************************************************************************)
(* AdvancedArcEscrow.sol: a poster funds an idea, reserves its money for   *)
(* milestones, and each milestone leaves by one of many ways: released as  *)
(* it vests, auto-released after the review timeout, divided by the        *)
(* resolver of a dispute, or refunded.  One action per external function;  *)
(* a call that reverts is no step.                                         *)
(*                                                                         *)
(* The payment token is what the contract holds of it; what the parties    *)
(* have received is kept per milestone, as the events say.  Hashes, event  *)
(* previews and timestamps no guard reads are left out.  All functions     *)
(* that pay are nonReentrant, except autoResolveDispute, which its token   *)
(* (USDC) gives no occasion to re-enter.  disputes, resolveDispute,        *)
(* setReviewTimeout and transferOwnership are called milestoneDisputes,    *)
(* ResolveMilestone, SetMilestoneTimeout and TransferEscrow: ReviewSystem  *)
(* has functions of those names too.                                       *)
(***************************************************************************)
EXTENDS Integers, FiniteSets, Functions

CONSTANTS
    Ideas, Milestones,
    Posters, IdeaWorkers, IdeaReviewers,    \* accounts verified by the IdentityGate
    Owner, Resolver,              \* accounts the constructor is given
    Governors,                    \* accounts the owner may name owner or resolver
    ZeroAddress,                  \* address(0)
    Fundings, Amounts,            \* amounts an idea is funded and a milestone reserved with
    Schedules,                    \* vesting terms a poster may ask for
    Payouts,                      \* worker's basis points a resolver may decide on
    MinVesting,                   \* MIN_VESTING_DURATION, 1 day
    ReviewTimeout,                \* 7 days
    DisputeWindow,                \* 3 days
    ResolutionTimeout,            \* disputeResolutionTimeout, 14 days
    Windows,                      \* windows and timeouts the owner may set
    MaxTimestamp,                 \* bound on block.timestamp
    MaxOwnerCalls                 \* bound on the owner's configuration calls

BPS == 10000
StakerBPS == 900
TreasuryBPS == 1000

People == Posters \cup IdeaWorkers \cup IdeaReviewers \cup Governors

Vesting == [duration : Nat, cliff : Nat, linear : BOOLEAN]

ASSUME AccountsAssumption ==
    /\ ZeroAddress \notin People /\ {Owner, Resolver} \subseteq Governors
    /\ IsFiniteSet(Ideas) /\ IsFiniteSet(Milestones)

ASSUME NumbersAssumption ==
    /\ Fundings \cup Amounts \cup Payouts \cup Windows \subseteq Nat
    /\ Schedules \subseteq Vesting
    /\ {MinVesting, ReviewTimeout, DisputeWindow, ResolutionTimeout} \subseteq Nat
    /\ {MaxTimestamp, MaxOwnerCalls} \subseteq Nat

VARIABLES
    ideas,           \* poster, totalFunded and available of each idea
    milestones,      \* the milestones mapping
    milestoneDisputes, \* raisedAt, resolutionDeadline and resolved of each dispute
    totalEscrowed,
    held,            \* the contract's balance of the payment token
    paid,            \* what has been transferred for each milestone, by receiver
    withdrawn,       \* what each poster has withdrawn of each idea
    config,          \* owner, resolver, review timeout and dispute window
    timestamp,       \* block.timestamp
    ownerCalls       \* configuration calls made, for the bound

arcVars == <<ideas, milestones, milestoneDisputes, totalEscrowed, held, paid, withdrawn,
             config, timestamp, ownerCalls>>

money == <<totalEscrowed, held, paid, withdrawn>>

NoIdea == [poster |-> ZeroAddress, funded |-> 0, available |-> 0]

Unvested == [duration |-> 0, cliff |-> 0, linear |-> FALSE]

NoMilestone ==
    [idea |-> ZeroAddress, amount |-> 0, status |-> "None", worker |-> ZeroAddress,
     reviewer |-> ZeroAddress, reviewAt |-> 0, startTime |-> 0, vesting |-> Unvested,
     released |-> 0]

NoDispute == [raisedAt |-> 0, deadline |-> 0, resolved |-> FALSE]

Nothing == [worker |-> 0, staker |-> 0, treasury |-> 0, poster |-> 0]

ArcInit ==
    /\ ideas = [i \in Ideas |-> NoIdea]
    /\ milestones = [m \in Milestones |-> NoMilestone]
    /\ milestoneDisputes = [m \in Milestones |-> NoDispute]
    /\ totalEscrowed = 0
    /\ held = 0
    /\ paid = [m \in Milestones |-> Nothing]
    /\ withdrawn = [i \in Ideas |-> 0]
    /\ config = [owner |-> Owner, resolver |-> Resolver,
                 reviewTimeout |-> ReviewTimeout, disputeWindow |-> DisputeWindow]
    /\ timestamp = 1                       \* a block's timestamp is never 0
    /\ ownerCalls = 0

-----------------------------------------------------------------------------
(* Shares, vesting, and the one way money goes out *)

Fee(amount, bps) == (amount * bps) \div BPS

\* 81/9/10, the worker taking what the rounding of the others leaves
Split(amount) ==
    [worker   |-> amount - Fee(amount, StakerBPS) - Fee(amount, TreasuryBPS),
     staker   |-> Fee(amount, StakerBPS),
     treasury |-> Fee(amount, TreasuryBPS),
     poster   |-> 0]

Sum4(s) == s.worker + s.staker + s.treasury + s.poster

\* A slip the checks must notice: the cliff is forgotten.
VestedWithoutCliff(m) ==
    LET f == milestones[m]  v == f.vesting  elapsed == timestamp - f.startTime  IN
    IF f.startTime = 0 THEN 0
    ELSE IF v.duration = 0 \/ elapsed >= v.duration THEN f.amount
    ELSE (f.amount * elapsed) \div v.duration

\* _calculateReleasable: what has vested so far, released or not
Vested(m) ==
    LET f == milestones[m]
        v == f.vesting
        elapsed == timestamp - f.startTime
        atCliff == f.amount \div 4
    IN  IF f.startTime = 0 THEN 0
        ELSE IF v.duration = 0 THEN f.amount
        ELSE IF elapsed < v.cliff THEN f.released
        ELSE IF elapsed >= v.duration THEN f.amount
        ELSE IF v.linear THEN (f.amount * elapsed) \div v.duration
        ELSE atCliff + ((f.amount - atCliff) * (elapsed - v.cliff))
                          \div (v.duration - v.cliff)

Add(s, t) == [k \in DOMAIN s |-> s[k] + t[k]]

\* Shares s of milestone m are transferred; the counter and the token's own
\* check revert on underflow.
Pay(m, s) ==
    /\ totalEscrowed >= Sum4(s) /\ held >= Sum4(s)
    /\ totalEscrowed' = totalEscrowed - Sum4(s)
    /\ held' = held - Sum4(s)
    /\ paid' = [paid EXCEPT ![m] = Add(@, s)]
    /\ UNCHANGED withdrawn

InState(m, s) == milestones[m].status = s

PosterOf(m) == IF InState(m, "None") THEN ZeroAddress ELSE ideas[milestones[m].idea].poster

-----------------------------------------------------------------------------
(* Funding, reserving, submitting *)

FundIdea(caller, i, amount) ==
    /\ caller \in Posters
    /\ amount > 0
    /\ ideas[i] = NoIdea
    /\ ideas' = [ideas EXCEPT ![i] = [poster |-> caller, funded |-> amount,
                                      available |-> amount]]
    /\ totalEscrowed' = totalEscrowed + amount
    /\ held' = held + amount
    /\ UNCHANGED <<milestones, milestoneDisputes, paid, withdrawn, config, timestamp, ownerCalls>>

ValidTerms(amount, v) ==
    /\ amount > 0
    /\ v.duration > 0 => v.duration >= MinVesting
    /\ v.cliff <= v.duration

\* reserveMilestone, and reserveMilestones of the ids of batch in one call, on
\* equal terms (a batch that names a milestone twice reverts)
Reserve(caller, i, batch, amount, v) ==
    LET total == amount * Cardinality(batch) IN
    /\ caller = ideas[i].poster
    /\ ValidTerms(amount, v)
    /\ ideas[i].available >= total
    /\ \A m \in batch : InState(m, "None")
    /\ ideas' = [ideas EXCEPT ![i].available = @ - total]
    /\ milestones' = [m \in Milestones |->
          IF m \in batch
          THEN [NoMilestone EXCEPT !.idea = i, !.amount = amount,
                                   !.status = "Reserved", !.vesting = v]
          ELSE milestones[m]]
    /\ UNCHANGED <<milestoneDisputes, money, config, timestamp, ownerCalls>>

SubmitMilestone(caller, m) ==
    /\ caller \in IdeaWorkers
    /\ InState(m, "Reserved")
    /\ milestones' = [milestones EXCEPT ![m].worker = caller, ![m].status = "Submitted"]
    /\ UNCHANGED <<ideas, milestoneDisputes, money, config, timestamp, ownerCalls>>

-----------------------------------------------------------------------------
(* Review and release *)

StartReview(caller, m) ==
    /\ caller \in IdeaReviewers
    /\ InState(m, "Submitted")
    /\ caller # PosterOf(m)
    /\ milestones' = [milestones EXCEPT ![m].reviewer = caller, ![m].reviewAt = timestamp,
                                        ![m].status = "UnderReview"]
    /\ UNCHANGED <<ideas, milestoneDisputes, money, config, timestamp, ownerCalls>>

ApproveMilestone(caller, m) ==
    /\ caller = milestones[m].reviewer
    /\ InState(m, "UnderReview")
    /\ timestamp >= milestones[m].reviewAt + config.disputeWindow
    /\ milestones' = [milestones EXCEPT ![m].startTime = timestamp, ![m].status = "Approved"]
    /\ UNCHANGED <<ideas, milestoneDisputes, money, config, timestamp, ownerCalls>>

\* A slip the checks must notice: what was released before is not recorded.
ReleaseForgetful(m) ==
    /\ InState(m, "Approved")
    /\ Vested(m) > 0 /\ Vested(m) > milestones[m].released
    /\ Pay(m, Split(Vested(m) - milestones[m].released))
    /\ milestones' = [milestones EXCEPT
          ![m].status = IF Vested(m) >= milestones[m].amount THEN "Released" ELSE @]
    /\ UNCHANGED <<ideas, milestoneDisputes, config, timestamp, ownerCalls>>

ReleaseMilestone(m) ==
    /\ InState(m, "Approved")
    /\ Vested(m) > 0 /\ Vested(m) > milestones[m].released
    /\ Pay(m, Split(Vested(m) - milestones[m].released))
    /\ milestones' = [milestones EXCEPT
          ![m].released = Vested(m),
          ![m].status = IF Vested(m) >= milestones[m].amount THEN "Released" ELSE @]
    /\ UNCHANGED <<ideas, milestoneDisputes, config, timestamp, ownerCalls>>

\* A slip the checks must notice: a dispute does not stop the timeout.
AutoReleaseDisputed(m) ==
    \/ /\ milestones[m].status \in {"UnderReview", "Disputed"}
       /\ timestamp >= milestones[m].reviewAt + config.reviewTimeout
       /\ Pay(m, Split(milestones[m].amount))
       /\ milestones' = [milestones EXCEPT ![m].status = "AutoReleased"]
       /\ UNCHANGED <<ideas, milestoneDisputes, config, timestamp, ownerCalls>>
    \/ ReleaseMilestone(m)

AutoReleaseMilestone(m) ==
    \/ /\ InState(m, "UnderReview")
       /\ timestamp >= milestones[m].reviewAt + config.reviewTimeout
       /\ Pay(m, Split(milestones[m].amount))
       /\ milestones' = [milestones EXCEPT ![m].status = "AutoReleased"]
       /\ UNCHANGED <<ideas, milestoneDisputes, config, timestamp, ownerCalls>>
    \/ ReleaseMilestone(m)

-----------------------------------------------------------------------------
(* Disputes *)

RaiseDispute(caller, m) ==
    /\ InState(m, "UnderReview")
    /\ caller \in {milestones[m].worker, PosterOf(m), milestones[m].reviewer}
    /\ timestamp < milestones[m].reviewAt + config.disputeWindow
    /\ milestoneDisputes[m].raisedAt = 0
    /\ milestoneDisputes' = [milestoneDisputes EXCEPT ![m] =
          [raisedAt |-> timestamp, deadline |-> timestamp + ResolutionTimeout, resolved |-> FALSE]]
    /\ milestones' = [milestones EXCEPT ![m].status = "Disputed"]
    /\ UNCHANGED <<ideas, money, config, timestamp, ownerCalls>>

IsResolver(caller) == caller \in {config.resolver, config.owner}

\* A slip the checks must notice: a dispute past its deadline is given up.
DisputeOpenUntilDeadline(m) ==
    /\ milestoneDisputes[m].raisedAt # 0 /\ ~milestoneDisputes[m].resolved
    /\ timestamp < milestoneDisputes[m].deadline

DisputeOpen(m) == milestoneDisputes[m].raisedAt # 0 /\ ~milestoneDisputes[m].resolved

\* what each side gets under a resolution; bps counts for "Split" only
Award(m, resolution, bps) ==
    LET s == Split(milestones[m].amount)
        share == Fee(s.worker, bps)
    IN  CASE resolution = "WorkerWins" -> s
          [] resolution = "PosterWins" -> [Nothing EXCEPT !.poster = milestones[m].amount]
          [] resolution = "Split"      -> [s EXCEPT !.worker = share, !.poster = s.worker - share]

Resolve(m, resolution, bps) ==
    /\ DisputeOpen(m)
    /\ resolution = "Split" => bps <= BPS
    /\ Pay(m, Award(m, resolution, bps))
    /\ milestoneDisputes' = [milestoneDisputes EXCEPT ![m].resolved = TRUE]
    /\ milestones' = [milestones EXCEPT ![m].status =
          IF resolution = "PosterWins" THEN "Refunded" ELSE "Released"]
    /\ UNCHANGED <<ideas, config, timestamp, ownerCalls>>

ResolveMilestone(caller, m, resolution, bps) ==
    /\ IsResolver(caller)
    /\ Resolve(m, resolution, bps)

AutoResolveDispute(caller, m) ==
    /\ IsResolver(caller)
    /\ DisputeOpen(m)
    /\ timestamp >= milestoneDisputes[m].deadline
    /\ Resolve(m, "Split", 5000)

-----------------------------------------------------------------------------
(* Refund and withdrawal *)

RefundMilestone(caller, m) ==
    /\ InState(m, "Reserved")
    /\ caller \in {PosterOf(m), config.owner}
    /\ totalEscrowed >= milestones[m].amount
    /\ milestones' = [milestones EXCEPT ![m].status = "Refunded"]
    /\ ideas' = [ideas EXCEPT ![milestones[m].idea].available = @ + milestones[m].amount]
    /\ totalEscrowed' = totalEscrowed - milestones[m].amount
    /\ UNCHANGED <<milestoneDisputes, held, paid, withdrawn, config, timestamp, ownerCalls>>

\* Slips in the withdrawal that the checks must notice: more than is available
\* is paid, it stays available, it is counted twice.
Overdraw(caller, i, amount) ==
    /\ caller = ideas[i].poster
    /\ totalEscrowed >= amount /\ held >= amount
    /\ ideas' = [ideas EXCEPT ![i].available = @ - amount]
    /\ totalEscrowed' = totalEscrowed - amount
    /\ held' = held - amount
    /\ withdrawn' = [withdrawn EXCEPT ![i] = @ + amount]
    /\ UNCHANGED <<milestones, milestoneDisputes, paid, config, timestamp, ownerCalls>>

WithdrawAvailable(caller, i, amount) ==
    /\ caller = ideas[i].poster
    /\ ideas[i].available >= amount
    /\ totalEscrowed >= amount /\ held >= amount
    /\ ideas' = [ideas EXCEPT ![i].available = @ - amount]
    /\ totalEscrowed' = totalEscrowed - amount
    /\ held' = held - amount
    /\ withdrawn' = [withdrawn EXCEPT ![i] = @ + amount]
    /\ UNCHANGED <<milestones, milestoneDisputes, paid, config, timestamp, ownerCalls>>

-----------------------------------------------------------------------------
(* Configuration.  The receivers of fees are known by their role in paid, so *)
(* setTreasuryReceiver and setStakerYieldReceiver change nothing here.       *)

OwnerCall(caller) ==
    /\ caller = config.owner
    /\ ownerCalls < MaxOwnerCalls
    /\ ownerCalls' = ownerCalls + 1
    /\ UNCHANGED <<ideas, milestones, milestoneDisputes, money, timestamp>>

SetDisputeResolver(caller, a) ==
    OwnerCall(caller) /\ config' = [config EXCEPT !.resolver = a]

SetMilestoneTimeout(caller, w) ==
    OwnerCall(caller) /\ config' = [config EXCEPT !.reviewTimeout = w]

SetDisputeWindow(caller, w) ==
    OwnerCall(caller) /\ config' = [config EXCEPT !.disputeWindow = w]

TransferEscrow(caller, a) ==
    OwnerCall(caller) /\ config' = [config EXCEPT !.owner = a]

Configure ==
    \E caller \in People :
        \/ \E a \in Governors : SetDisputeResolver(caller, a) \/ TransferEscrow(caller, a)
        \/ \E w \in Windows : SetMilestoneTimeout(caller, w) \/ SetDisputeWindow(caller, w)

Elapse ==
    /\ timestamp < MaxTimestamp
    /\ timestamp' = timestamp + 1
    /\ UNCHANGED <<ideas, milestones, milestoneDisputes, money, config, ownerCalls>>

ArcNext ==
    \/ \E i \in Ideas, caller \in People :
          \/ \E amount \in Fundings : FundIdea(caller, i, amount)
          \/ \E batch \in SUBSET Milestones \ {{}}, amount \in Amounts, v \in Schedules :
                Reserve(caller, i, batch, amount, v)
          \/ \E amount \in Amounts : WithdrawAvailable(caller, i, amount)
    \/ \E m \in Milestones, caller \in People :
          \/ SubmitMilestone(caller, m)
          \/ StartReview(caller, m)
          \/ ApproveMilestone(caller, m)
          \/ RaiseDispute(caller, m)
          \/ \E bps \in Payouts, resolution \in {"WorkerWins", "PosterWins", "Split"} :
                ResolveMilestone(caller, m, resolution, bps)
          \/ AutoResolveDispute(caller, m)
          \/ RefundMilestone(caller, m)
    \/ \E m \in Milestones : AutoReleaseMilestone(m)
    \/ Configure
    \/ Elapse

ArcSpec == ArcInit /\ [][ArcNext]_arcVars

-----------------------------------------------------------------------------
(* Properties *)

Statuses == {"None", "Reserved", "Submitted", "UnderReview", "Disputed",
             "Approved", "Released", "AutoReleased", "Refunded"}

Settled == {"Released", "AutoReleased", "Refunded"}

MilestoneType ==
    [idea : Ideas \cup {ZeroAddress}, amount : Nat, status : Statuses,
     worker : IdeaWorkers \cup {ZeroAddress}, reviewer : IdeaReviewers \cup {ZeroAddress},
     reviewAt : Nat, startTime : Nat, vesting : Vesting, released : Nat]

\* Every storage slot holds a value of its Solidity type; in particular no
\* unsigned amount is taken below zero.
ArcTypeOK ==
    /\ ideas \in [Ideas -> [poster : Posters \cup {ZeroAddress}, funded : Nat, available : Nat]]
    /\ milestones \in [Milestones -> MilestoneType]
    /\ milestoneDisputes \in [Milestones -> [raisedAt : Nat, deadline : Nat, resolved : BOOLEAN]]
    /\ totalEscrowed \in Nat
    /\ held \in Nat
    /\ paid \in [Milestones -> [worker : Nat, staker : Nat, treasury : Nat, poster : Nat]]
    /\ withdrawn \in [Ideas -> Nat]
    /\ config \in [owner : Governors, resolver : Governors, reviewTimeout : Nat, disputeWindow : Nat]
    /\ timestamp \in Nat /\ ownerCalls \in Nat

PaidOut(m) == Sum4(paid[m])

\* What milestone m may still claim of its idea's money.
Owed(m) ==
    IF milestones[m].status \in Settled \cup {"None"} THEN 0
    ELSE milestones[m].amount - milestones[m].released

Obligations ==
    SumFunctionOnSet([i \in Ideas |-> ideas[i].available], Ideas)
    + SumFunctionOnSet([m \in Milestones |-> Owed(m)], Milestones)

\* Refunded by refundMilestone, into the idea, and not by a resolver.
ReturnedToIdea(m) == InState(m, "Refunded") /\ ~milestoneDisputes[m].resolved

Returned(m) == IF ReturnedToIdea(m) THEN milestones[m].amount ELSE 0

TakenFrom(i, m) == IF milestones[m].idea = i THEN Owed(m) + PaidOut(m) ELSE 0

\* No idea spends the money of another: what an idea was funded with is at any
\* time what is available, what its milestones are owed, what they have paid
\* and what its poster has withdrawn, over all the ways out of a milestone.
IdeasKeepApart ==
    \A i \in Ideas :
        ideas[i].funded =
            ideas[i].available + withdrawn[i]
            + SumFunctionOnSet([m \in Milestones |-> TakenFrom(i, m)], Milestones)

\* The contract holds exactly what it owes; totalEscrowed is that amount less
\* everything refundMilestone ever put back, which is subtracted there and once
\* more when it is withdrawn or paid from a new milestone.
CounterLagsByRefunds ==
    /\ held = Obligations
    /\ totalEscrowed = held - SumFunctionOnSet([m \in Milestones |-> Returned(m)], Milestones)

PaidRight(m) ==
    /\ PaidOut(m) = IF milestones[m].status \in Settled
                    THEN milestones[m].amount - Returned(m)
                    ELSE milestones[m].released
    /\ paid[m].staker * BPS <= PaidOut(m) * StakerBPS
    /\ paid[m].treasury * BPS <= PaidOut(m) * TreasuryBPS

\* A settled milestone has paid its amount once, whatever the number of
\* tranches and however it was settled; one that is being released has paid what
\* it says it has; and over all tranches the fees stay within their rates, so
\* that streaming costs the worker nothing.
SettledInFull == \A m \in Milestones : PaidRight(m)

\* What has been released of m by now, r, is within its terms: nothing before the
\* cliff, then the line, or a quarter at the cliff and the rest on a line.
OnSchedule(m, r) ==
    LET f == milestones[m]
        v == f.vesting
        elapsed == timestamp - f.startTime
        after == elapsed - v.cliff
        rest == v.duration - v.cliff
    IN  /\ elapsed >= v.cliff
        /\ IF v.linear
           THEN r * v.duration <= f.amount * elapsed
           ELSE 4 * (r * rest) <= f.amount * (rest + 3 * after)

WithinSchedule(m) ==
    InState(m, "Approved") /\ milestones[m].released > 0
        => OnSchedule(m, milestones[m].released)

\* A vesting milestone never releases before its cliff, nor faster than its
\* schedule allows.
NeverAheadOfSchedule == \A m \in Milestones : WithinSchedule(m)

\* All of it together: the money of each idea is accounted for, the contract
\* holds what it owes, its counter is off by the refunds and by nothing else, and
\* what a milestone has paid is what it should, and when
\* (AdvancedArcEscrow.sol 396-826).
MoneyAccounted ==
    /\ IdeasKeepApart /\ CounterLagsByRefunds /\ SettledInFull
    /\ NeverAheadOfSchedule

\* Unless some milestone was refunded into its idea, money is never stuck for
\* good: an overdue review and a vested milestone can be paid by anyone, an open
\* dispute can be ended by the owner ("prevents indefinite locks").
LockedOnlyByRefunds ==
    (\A m \in Milestones : ~ReturnedToIdea(m)) =>
        \A m \in Milestones :
            /\ InState(m, "UnderReview") /\ timestamp >= milestones[m].reviewAt + config.reviewTimeout
                 => ENABLED AutoReleaseMilestone(m)
            /\ InState(m, "Approved") /\ timestamp >= milestones[m].startTime + milestones[m].vesting.duration
                 => ENABLED AutoReleaseMilestone(m)
            /\ InState(m, "Disputed")
                 => ENABLED ResolveMilestone(config.owner, m, "WorkerWins", 0)

-----------------------------------------------------------------------------
(* Each reserved milestone is a deposit of OneShotEscrow *)

FateOf(status) ==
    CASE status = "None" -> "none"
      [] status \in {"Released", "AutoReleased"} -> "paid"
      [] status = "Refunded" -> "returned"
      [] OTHER -> "held"

Promise == INSTANCE OneShotEscrow
              WITH Deposits <- Milestones,
                   Values   <- Amounts,
                   fate     <- [m \in Milestones |-> FateOf(milestones[m].status)],
                   worth    <- [m \in Milestones |-> milestones[m].amount],
                   out      <- [m \in Milestones |->
                                   IF milestones[m].status \in Settled
                                   THEN PaidOut(m) + Returned(m) ELSE 0]

\* A milestone is reserved once and settled once, in full, for the parties or
\* back to the poster, whatever happened in between.
KeepsPromise == Promise!Spec
=============================================================================
