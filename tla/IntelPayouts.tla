--------------------------- MODULE IntelPayouts ----------------------------
(***************************************************************************)
(* EpochRewardDistributor.sol: an operator submits the scores of an epoch, *)
(* in one list or several; the first of them share a pool drawn from the   *)
(* treasury; each worker claims.                                           *)
(*                                                                         *)
(* IntelVesting.sol: an allocation that vests linearly from a cliff; the   *)
(* treasury may take everything back until an hour before the cliff.       *)
(*                                                                         *)
(* IdeaEscrow.sol, the first escrow, still deployed: a poster funds an     *)
(* idea with INTEL, reserves milestones out of it, and releases or refunds *)
(* each; a release is split 81, 9 and 10 per cent among worker, stakers    *)
(* and treasury, which leaves the dust of the three divisions here.        *)
(***************************************************************************)
EXTENDS IntelToken, Sequences

-----------------------------------------------------------------------------
(* EpochRewardDistributor.sol *)

CONSTANTS
    Epochs,            \* the epochs scores are submitted for
    RewardTreasury     \* the account pools are drawn from, which has approved this

VARIABLES
    rewards,           \* by epoch: EpochReward
    rewardConf         \* pool, topBps, minAiu, maxJobs; jobs counted, by epoch

rewardVars == <<rewards, rewardConf>>

NoScores == [ranked |-> <<>>, top |-> 0, distributed |-> FALSE,
             aiu |-> [w \in Users |-> 0], earned |-> [w \in Users |-> 0],
             claimed |-> {}]

RewardsInit(pool, maxJobs) ==
    /\ rewards = [e \in Epochs |-> NoScores]
    /\ rewardConf = [pool |-> pool, topBps |-> 1000, minAiu |-> 1, maxJobs |-> maxJobs,
                     epoch |-> 1, jobs |-> [e \in Epochs |-> [w \in Users |-> 0]]]

\* Workers at their limit of jobs are left out.
Listed(e, list) ==
    LET free == {i \in DOMAIN list : rewardConf.jobs[e][list[i].worker] < rewardConf.maxJobs}
        Nth(n) == CHOOSE i \in free : Cardinality({j \in free : j <= i}) = n
    IN  [n \in 1..Cardinality(free) |-> list[Nth(n)]]

\* The scores after listed: those a worker had, unless he is listed, then his last.
Scores(aiu, listed) ==
    LET LastOf(w) == {i \in DOMAIN listed :
                         /\ listed[i].worker = w
                         /\ \A j \in DOMAIN listed : listed[j].worker = w => j <= i}
    IN  [w \in Users |-> IF LastOf(w) = {} THEN aiu[w]
                         ELSE listed[CHOOSE i \in LastOf(w) : TRUE].aiu]

\* how many ranks of a list of this length share the pool, at least one
TopCount(list) ==
    LET share == (Len(list) * rewardConf.topBps) \div 10000
    IN  IF share = 0 /\ list # <<>> THEN 1 ELSE share

\* Those left out are counted for the top share.  A worker submitted again keeps his
\* earlier rank, gets the new score and a second rank.
SubmitEpochScores(caller, e, list) ==
    LET listed == Listed(e, list) IN
    /\ IsOperator("rewards", caller)
    /\ \A i \in DOMAIN list : list[i].aiu >= rewardConf.minAiu
    /\ rewards' = [rewards EXCEPT
          ![e].ranked = @ \o [i \in DOMAIN listed |-> listed[i].worker],
          ![e].top = TopCount(list),
          ![e].aiu = Scores(@, listed)]
    /\ UNCHANGED <<rewardConf, tokenVars>>

TopOf(r) ==
    LET top == IF r.top = 0 THEN 1 ELSE r.top
    IN  SubSeq(r.ranked, 1, IF top > Len(r.ranked) THEN Len(r.ranked) ELSE top)

\* the sum of val over the workers of top, each as often as he has a rank
OverRanks(val, top) ==
    SumFunctionOnSet([i \in DOMAIN top |-> val[top[i]]], DOMAIN top)

\* A slip the checks must notice: every rank of a worker pays, out of the scores of
\* the workers and not of the ranks.
EarnedPerRank(r, pool) ==
    LET top == TopOf(r)
        ranks(w) == Cardinality({i \in DOMAIN top : top[i] = w})
        total == SumFunctionOnSet(r.aiu, {top[i] : i \in DOMAIN top})
    IN  [w \in Users |-> ranks(w) * ((pool * r.aiu[w]) \div total)]

\* What each worker earns: a rank twice pays once, and what rounding leaves goes
\* to the last.
Earned(r, pool) ==
    LET top == TopOf(r)
        total == OverRanks(r.aiu, top)
        reward == [w \in Users |-> (pool * r.aiu[w]) \div total]
        left == pool - OverRanks(reward, top)
    IN  [w \in Users |-> (IF \E i \in DOMAIN top : top[i] = w THEN reward[w] ELSE 0)
                         + (IF w = top[Len(top)] THEN left ELSE 0)]

DistributeEpochRewards(caller, e) ==
    LET r == rewards[e] IN
    /\ IsOperator("rewards", caller)
    /\ r.ranked # <<>>
    /\ ~r.distributed
    /\ OverRanks(r.aiu, TopOf(r)) > 0
    /\ rewardConf.pool > 0
    /\ Move(RewardTreasury, "rewards", rewardConf.pool)
    /\ rewards' = [rewards EXCEPT ![e].distributed = TRUE,
                                  ![e].earned = Earned(r, rewardConf.pool)]
    /\ UNCHANGED rewardConf

ClaimReward(w, e) ==
    /\ rewards[e].distributed
    /\ rewards[e].earned[w] > 0
    /\ w \notin rewards[e].claimed
    /\ Move("rewards", w, rewards[e].earned[w])
    /\ rewards' = [rewards EXCEPT ![e].claimed = @ \cup {w}]
    /\ UNCHANGED rewardConf

DepositRewardPool(from, amount) ==
    /\ amount > 0
    /\ Move(from, "rewards", amount)
    /\ UNCHANGED rewardVars

\* advanceEpoch, incrementEpochJobCount
CountJob(caller, e, w) ==
    /\ IsOperator("rewards", caller)
    /\ rewardConf' \in {[rewardConf EXCEPT !.epoch = @ + 1],
                        [rewardConf EXCEPT !.jobs[e][w] = @ + 1]}
    /\ UNCHANGED <<rewards, tokenVars>>

\* setEpochRewardPool, setTopPercentileBps, setMinAiuThreshold, setMaxJobsPerWalletPerEpoch
SetRewardConf(caller, pool, topBps, minAiu, maxJobs) ==
    /\ IsOwner("rewards", caller)
    /\ \/ rewardConf' \in {[rewardConf EXCEPT !.pool = pool], [rewardConf EXCEPT !.minAiu = minAiu],
                           [rewardConf EXCEPT !.maxJobs = maxJobs]}
       \/ topBps <= 10000 /\ rewardConf' = [rewardConf EXCEPT !.topBps = topBps]
    /\ UNCHANGED <<rewards, tokenVars>>

RewardsSetOperator(caller) == SetOperator("rewards", caller)
RewardsTransferOwnership(caller) == TransferOwnership("rewards", caller)
RewardsAcceptOwnership(caller) == AcceptOwnership("rewards", caller)

-----------------------------------------------------------------------------
(* IntelVesting.sol *)

CONSTANTS
    Beneficiary, VestingTreasury,
    Cliff, VestingDuration, Allocation,    \* immutables
    Blackout                               \* the hour before the cliff

VARIABLES
    vesting        \* released, revoked

VestingInit == vesting = [released |-> 0, revoked |-> FALSE]

VestedAmount(t) ==
    IF vesting.revoked THEN vesting.released
    ELSE IF t < Cliff THEN 0
    ELSE IF t - Cliff >= VestingDuration THEN Allocation
    ELSE (Allocation * (t - Cliff)) \div VestingDuration

Releasable ==
    LET vested == VestedAmount(now)
    IN  IF vested > vesting.released THEN vested - vesting.released ELSE 0

\* by anyone; fails while the contract has not been given enough
ReleaseVesting ==
    /\ Releasable > 0
    /\ Move("vesting", Beneficiary, Releasable)
    /\ vesting' = [vesting EXCEPT !.released = @ + Releasable]

RevokeVesting ==
    /\ ~vesting.revoked
    /\ now < Cliff - Blackout
    /\ vesting' = [vesting EXCEPT !.revoked = TRUE]
    /\ IF balance["vesting"] > 0 THEN Move("vesting", VestingTreasury, balance["vesting"])
       ELSE UNCHANGED tokenVars

-----------------------------------------------------------------------------
(* IdeaEscrow.sol *)

CONSTANTS
    Ideas, Milestones,     \* identifiers
    Stakers, TreasuryReceiver,   \* the accounts of the other shares
    IdeasOwner

VARIABLES
    ideas,          \* by idea: poster, totalFunded, available, exists
    milestones,     \* by milestone: amount, status, and the idea it is of
    dust            \* history: what the divisions left

ideaVars == <<ideas, milestones, dust>>

IdeasInit ==
    /\ ideas = [i \in Ideas |-> [poster |-> NoOne, total |-> 0, available |-> 0, exists |-> FALSE]]
    /\ milestones = [m \in Milestones |-> [amount |-> 0, status |-> "None", idea |-> NoOne]]
    /\ dust = 0

Reserved(i) == {m \in Milestones : milestones[m].status = "Reserved" /\ milestones[m].idea = i}

FundIdea(poster, i, amount) ==
    /\ amount > 0
    /\ ~ideas[i].exists
    /\ Move(poster, "ideas", amount)
    /\ ideas' = [ideas EXCEPT ![i] = [poster |-> poster, total |-> amount, available |-> amount,
                                      exists |-> TRUE]]
    /\ UNCHANGED <<milestones, dust>>

IsPoster(caller, i) == ideas[i].exists /\ caller = ideas[i].poster

\* reserveMilestone, and reserveMilestones, which refuses the whole list when any of
\* it, a repeated milestone among it, is refused
ReserveMilestones(caller, i, amounts) ==
    LET total == SumFunctionOnSet(amounts, DOMAIN amounts) IN
    /\ IsPoster(caller, i)
    /\ \A m \in DOMAIN amounts : amounts[m] > 0 /\ milestones[m].status = "None"
    /\ ideas[i].available >= total
    /\ ideas' = [ideas EXCEPT ![i].available = @ - total]
    /\ milestones' = [m \in Milestones |->
                         IF m \in DOMAIN amounts
                         THEN [amount |-> amounts[m], status |-> "Reserved", idea |-> i]
                         ELSE milestones[m]]
    /\ UNCHANGED <<dust, tokenVars>>

Share(amount, bps) == (amount * bps) \div 10000

ReleaseMilestone(caller, i, m, worker) ==
    LET amount == milestones[m].amount
        toWorker == Share(amount, 8100)
        toStakers == Share(amount, 900)
        toTreasury == Share(amount, 1000)
        sent == toWorker + toStakers + toTreasury
        paid == [[[[balance EXCEPT !["ideas"] = @ - sent] EXCEPT ![worker] = @ + toWorker]
                     EXCEPT ![Stakers] = @ + toStakers] EXCEPT ![TreasuryReceiver] = @ + toTreasury]
    IN
    /\ IsPoster(caller, i)
    /\ m \in Reserved(i)
    /\ ~token.paused /\ balance["ideas"] >= sent
    /\ balance' = paid
    /\ milestones' = [milestones EXCEPT ![m].status = "Released"]
    /\ dust' = dust + amount - sent
    /\ UNCHANGED <<ideas, allowance, token>>

RefundMilestone(caller, i, m) ==
    /\ IsPoster(caller, i)
    /\ m \in Reserved(i)
    /\ milestones' = [milestones EXCEPT ![m].status = "Refunded"]
    /\ ideas' = [ideas EXCEPT ![i].available = @ + milestones[m].amount]
    /\ UNCHANGED <<dust, tokenVars>>

WithdrawIdea(caller, i) ==
    LET amount == ideas[i].available IN
    /\ caller = ideas[i].poster
    /\ amount > 0
    /\ amount <= ideas[i].total
    /\ Move("ideas", caller, amount)
    /\ ideas' = [ideas EXCEPT ![i].available = 0, ![i].total = @ - amount]
    /\ UNCHANGED <<milestones, dust>>

\* totalFunded stays as it was
RescueFunds(caller, i, to) ==
    /\ caller = IdeasOwner
    /\ ideas[i].exists
    /\ Move("ideas", to, ideas[i].available)
    /\ ideas' = [ideas EXCEPT ![i].available = 0]
    /\ UNCHANGED <<milestones, dust>>

-----------------------------------------------------------------------------
(* Properties *)

RewardTypeOK ==
    \A e \in Epochs :
       /\ rewards[e].ranked \in Seq(Users) /\ rewards[e].top \in Nat
       /\ rewards[e].aiu \in [Users -> Nat] /\ rewards[e].earned \in [Users -> Nat]
       /\ rewards[e].claimed \subseteq {w \in Users : rewards[e].earned[w] > 0}

Unclaimed(e) == SumFunctionOnSet(rewards[e].earned, Users \ rewards[e].claimed)

\* Whatever was submitted twice, and in whatever order epochs are distributed and
\* claimed, the contract holds what its workers have earned and not claimed.
RewardsCovered ==
    balance["rewards"] >= SumFunctionOnSet([e \in Epochs |-> Unclaimed(e)], Epochs)

VestingTypeOK == vesting \in [released : 0..Allocation, revoked : BOOLEAN]

\* What has vested is the beneficiary's: from an hour before the cliff on nothing
\* makes it less, and no call takes INTEL out of the contract but to release it.
VestingKept ==
    now >= Cliff - Blackout /\ ~vesting.revoked =>
        /\ ~vesting'.revoked
        /\ vesting'.released <= VestedAmount(now)
        /\ balance'["vesting"] >= balance["vesting"] - (vesting'.released - vesting.released)

IdeaTypeOK ==
    /\ ideas \in [Ideas -> [poster : Users \cup {NoOne}, total : Nat, available : Nat,
                            exists : BOOLEAN]]
    /\ milestones \in [Milestones -> [amount : Nat, idea : Ideas \cup {NoOne},
                                      status : {"None", "Reserved", "Released", "Refunded"}]]

Held(i) == ideas[i].available + SumFunctionOnSet([m \in Milestones |-> milestones[m].amount], Reserved(i))

\* The escrow holds exactly what is available to the posters, what is reserved,
\* and the dust of its releases; and no idea ever owes more than it was funded with,
\* so that no refund or withdrawal of it draws on another's.
IdeasApart ==
    /\ balance["ideas"] = SumFunctionOnSet([i \in Ideas |-> Held(i)], Ideas) + dust
    /\ \A i \in Ideas : Held(i) <= ideas[i].total
=============================================================================
