--------------------------- MODULE StakeManagers ---------------------------
(***************************************************************************)
(* ReviewerStakeManager.sol: reviewers post a bond to be eligible, earn    *)
(* fees for reviews, leave after a cooldown, and are slashed, which takes  *)
(* those below the minimum out of the ReviewerQueue.  Bonds and fees share *)
(* one balance.                                                            *)
(*                                                                         *)
(* WorkerStakeManager.sol: workers stake INTEL, leave after a cooldown,    *)
(* and are slashed, first what is staked, then what is pending, in favour  *)
(* of the treasury and of whoever reported them.  The minimum for claiming *)
(* work (setMinStake, setHighValueThreshold, canClaim) is only read off    *)
(* the chain.  Who the treasuries are matters to no step and is left out.  *)
(*                                                                         *)
(* ReviewerCredential.sol: a token of the reviewer's tier that cannot be   *)
(* transferred.  The tier follows the reviews and slashes an operator      *)
(* reports; it falls only after a grace period.                            *)
(***************************************************************************)
EXTENDS ReviewerQueue

-----------------------------------------------------------------------------
(* ReviewerStakeManager.sol *)

CONSTANTS SlashLockWindow    \* SLASH_LOCK_WINDOW

VARIABLES
    reviewers,     \* the mappings, by reviewer
    rsm,           \* minReviewerBond, reviewerFeeShareBps, unstakeCooldown, queue set?
    rsmBalance,    \* INTEL the contract holds
    feeFund        \* history: fees deposited less fees claimed

rsmVars == <<reviewers, rsm, rsmBalance, feeFund>>

NoBond == [bond |-> 0, eligible |-> FALSE, reviews |-> 0, fees |-> 0,
           pending |-> 0, availableAt |-> 0, lockedUntil |-> 0]

RSMInit(minBond, cooldown, wired) ==
    /\ reviewers = [r \in Reviewers |-> NoBond]
    /\ rsm = [minBond |-> minBond, feeBps |-> 1000, cooldown |-> cooldown, queue |-> wired]
    /\ rsmBalance = 0
    /\ feeFund = 0

RegisterAsReviewer(r, amount) ==
    /\ amount > 0
    /\ reviewers' = [reviewers EXCEPT ![r].bond = @ + amount,
                                      ![r].eligible = reviewers[r].bond + amount >= rsm.minBond]
    /\ rsmBalance' = rsmBalance + amount
    /\ UNCHANGED <<rsm, feeFund>>

RequestUnstake(r, amount) ==
    LET old == reviewers[r]
        left == old.bond - amount
    IN
    /\ amount > 0 /\ old.bond >= amount
    /\ reviewers' = [reviewers EXCEPT ![r] =
          [old EXCEPT !.bond = left, !.pending = old.pending + amount,
                      !.availableAt = now + rsm.cooldown, !.lockedUntil = now + SlashLockWindow,
                      !.eligible = old.eligible /\ left >= rsm.minBond]]
    /\ UNCHANGED <<rsm, rsmBalance, feeFund>>

FinalizeUnstake(r) ==
    /\ reviewers[r].pending > 0
    /\ now >= reviewers[r].availableAt
    /\ now >= reviewers[r].lockedUntil
    /\ rsmBalance >= reviewers[r].pending
    /\ rsmBalance' = rsmBalance - reviewers[r].pending
    /\ reviewers' = [reviewers EXCEPT ![r].pending = 0, ![r].availableAt = 0]
    /\ UNCHANGED <<rsm, feeFund>>

RecordReview(caller, r, taskValue) ==
    /\ IsOperator("rsm", caller)
    /\ reviewers[r].eligible
    /\ taskValue > 0
    /\ LET old == reviewers[r]
           fee == (taskValue * rsm.feeBps) \div 10000
       IN  reviewers' = [reviewers EXCEPT ![r] =
              [old EXCEPT !.reviews = old.reviews + 1, !.fees = old.fees + fee]]
    /\ UNCHANGED <<rsm, rsmBalance, feeFund>>

\* paid from whatever the contract holds
ClaimReviewFees(r) ==
    /\ reviewers[r].fees > 0
    /\ rsmBalance >= reviewers[r].fees
    /\ reviewers' = [reviewers EXCEPT ![r].fees = 0]
    /\ rsmBalance' = rsmBalance - reviewers[r].fees
    /\ feeFund' = feeFund - reviewers[r].fees
    /\ UNCHANGED rsm

DepositFees(caller, amount) ==
    /\ IsOperator("rsm", caller)
    /\ amount > 0
    /\ rsmBalance' = rsmBalance + amount
    /\ feeFund' = feeFund + amount
    /\ UNCHANGED <<reviewers, rsm>>

CanSlashReviewer(caller, r, amount) ==
    /\ IsOperator("rsm", caller)
    /\ amount > 0
    /\ reviewers[r].bond >= amount
    /\ rsmBalance >= amount

\* what slash does, queue included; a removal that fails is only logged
SlashReviewer(r, amount) ==
    LET below == reviewers[r].bond - amount < rsm.minBond IN
    /\ reviewers' = [reviewers EXCEPT
          ![r].bond = @ - amount, ![r].lockedUntil = now + SlashLockWindow,
          ![r].eligible = @ /\ ~below]
    /\ rsmBalance' = rsmBalance - amount
    /\ IF below /\ rsm.queue /\ IsOperator("queue", "rsm")
       THEN QueueWithout(r)
       ELSE UNCHANGED <<assignments, queues>>
    /\ UNCHANGED <<rsm, feeFund, rq, verified>>

Slash(caller, r, amount) == CanSlashReviewer(caller, r, amount) /\ SlashReviewer(r, amount)

SetMinReviewerBond(caller, newMin) ==
    /\ IsOwner("rsm", caller)
    /\ rsm' = [rsm EXCEPT !.minBond = newMin]
    /\ UNCHANGED <<reviewers, rsmBalance, feeFund>>

SetReviewerFeeShareBps(caller, bps) ==
    /\ IsOwner("rsm", caller)
    /\ rsm' = [rsm EXCEPT !.feeBps = bps]
    /\ UNCHANGED <<reviewers, rsmBalance, feeFund>>

SetUnstakeCooldown(caller, cooldown) ==
    /\ IsOwner("rsm", caller)
    /\ rsm' = [rsm EXCEPT !.cooldown = cooldown]
    /\ UNCHANGED <<reviewers, rsmBalance, feeFund>>

SetReviewerQueue(caller, set) ==
    /\ IsOwner("rsm", caller)
    /\ rsm' = [rsm EXCEPT !.queue = set]
    /\ UNCHANGED <<reviewers, rsmBalance, feeFund>>

RSMSetOperator(caller) == SetOperator("rsm", caller)
RSMTransferOwnership(caller) == TransferOwnership("rsm", caller)
RSMAcceptOwnership(caller) == AcceptOwnership("rsm", caller)

-----------------------------------------------------------------------------
(* WorkerStakeManager.sol *)

CONSTANTS Workers, WorkerLockWindow    \* SLASH_LOCK_WINDOW

VARIABLES
    workers,       \* the mappings, by worker
    wsm,           \* cooldown, slashTreasuryBps
    wsmBalance     \* INTEL the contract holds

wsmVars == <<workers, wsm, wsmBalance>>

NoStake == [staked |-> 0, pending |-> 0, availableAt |-> 0, lockedUntil |-> 0]

WSMInit(cooldown) ==
    /\ workers = [w \in Workers |-> NoStake]
    /\ wsm = [cooldown |-> cooldown, treasuryBps |-> 5000]
    /\ wsmBalance = 0

WorkerStake(w, amount) ==
    /\ amount > 0
    /\ workers' = [workers EXCEPT ![w].staked = @ + amount]
    /\ wsmBalance' = wsmBalance + amount
    /\ UNCHANGED wsm

WorkerRequestUnstake(w, amount) ==
    /\ amount > 0
    /\ workers[w].staked >= amount
    /\ workers' = [workers EXCEPT ![w] =
          [staked |-> @.staked - amount, pending |-> @.pending + amount,
           availableAt |-> now + wsm.cooldown, lockedUntil |-> now + WorkerLockWindow]]
    /\ UNCHANGED <<wsm, wsmBalance>>

WorkerFinalizeUnstake(w) ==
    /\ workers[w].pending > 0
    /\ now >= workers[w].availableAt
    /\ now >= workers[w].lockedUntil
    /\ wsmBalance >= workers[w].pending
    /\ wsmBalance' = wsmBalance - workers[w].pending
    /\ workers' = [workers EXCEPT ![w].pending = 0, ![w].availableAt = 0]
    /\ UNCHANGED wsm

CanSlashWorker(caller, w, amount) ==
    /\ IsOperator("wsm", caller)
    /\ amount > 0
    /\ amount <= workers[w].staked + workers[w].pending
    /\ wsmBalance >= amount

\* What is slashed of a stake; what the shares of treasury and reporter are does
\* not change that they add up to it.
Slashed(s, amount) ==
    LET fromStake == IF s.staked >= amount THEN amount ELSE s.staked IN
    [s EXCEPT !.staked = @ - fromStake, !.pending = @ - (amount - fromStake),
              !.lockedUntil = now + WorkerLockWindow]

\* A slip the checks must notice: what is pending is safe from the slash.
SlashedStakeOnly(w, amount) ==
    /\ workers' = [workers EXCEPT ![w].staked = IF @ >= amount THEN @ - amount ELSE 0]
    /\ wsmBalance' = wsmBalance - amount
    /\ UNCHANGED wsm

SlashWorker(w, amount) ==
    /\ workers' = [workers EXCEPT ![w] = Slashed(workers[w], amount)]
    /\ wsmBalance' = wsmBalance - amount
    /\ UNCHANGED wsm

WorkerSlash(caller, w, amount) == CanSlashWorker(caller, w, amount) /\ SlashWorker(w, amount)

SetCooldown(caller, cooldown) ==
    /\ IsOwner("wsm", caller)
    /\ wsm' = [wsm EXCEPT !.cooldown = cooldown]
    /\ UNCHANGED <<workers, wsmBalance>>

SetSlashSplit(caller, bps) ==
    /\ IsOwner("wsm", caller)
    /\ bps <= 10000
    /\ wsm' = [wsm EXCEPT !.treasuryBps = bps]
    /\ UNCHANGED <<workers, wsmBalance>>

WSMSetOperator(caller) == SetOperator("wsm", caller)
WSMTransferOwnership(caller) == TransferOwnership("wsm", caller)
WSMAcceptOwnership(caller) == AcceptOwnership("wsm", caller)

-----------------------------------------------------------------------------
(* ReviewerCredential.sol *)

CONSTANTS
    MinReviews, MaxSlashBps,  \* TIER_i_MIN_REVIEWS, TIER_i_MAX_SLASH_BPS, by tier
    GracePeriod               \* TIER_GRACE_PERIOD

VARIABLE
    creds     \* by reviewer: hasMinted, currentTier, slashCount, tierProbationaryUntil,
              \* tokens, the ids whose balance is 1, and announced, history: when an
              \* evaluation first found the present tier too high

NotYet == -1

NoCredential ==
    [minted |-> FALSE, tier |-> 0, slashes |-> 0, probation |-> 0, tokens |-> {},
     announced |-> NotYet]

CredentialInit == creds = [r \in Reviewers |-> NoCredential]

MintInitialCredential(caller, r) ==
    /\ IsOperator("credential", caller)
    /\ ~creds[r].minted
    /\ reviewers[r].eligible
    /\ creds' = [creds EXCEPT ![r].minted = TRUE, ![r].tier = 0, ![r].slashes = 0,
                              ![r].tokens = @ \cup {0}]

\* _computeTier
ComputeTier(reviews, slashCount) ==
    LET fits == {i \in 1..3 : /\ reviews > 0
                              /\ reviews >= MinReviews[i]
                              /\ (slashCount * 10000) \div reviews <= MaxSlashBps[i]}
    IN  CHOOSE i \in fits \cup {0} : \A j \in fits : i >= j

\* A slip the checks must notice: the token of the old tier is not burned.
UpdateTierUnburned(c, newTier) ==
    [c EXCEPT !.tier = newTier, !.tokens = @ \cup {newTier}, !.probation = 0,
              !.announced = NotYet]

\* _updateTier
UpdateTier(c, newTier) ==
    [c EXCEPT !.tier = newTier, !.tokens = (@ \ {c.tier}) \cup {newTier},
              !.probation = 0, !.announced = NotYet]

\* A slip the checks must notice: an upgrade keeps the probation of the tier
\* below.
Evaluated(c, newTier) ==
    IF newTier = c.tier THEN c
    ELSE IF newTier > c.tier THEN [UpdateTier(c, newTier) EXCEPT !.probation = c.probation]
    ELSE IF c.probation = 0
         THEN [c EXCEPT !.probation = now + GracePeriod,
                        !.announced = IF @ = NotYet THEN now ELSE @]
    ELSE IF now < c.probation THEN c
    ELSE UpdateTier(c, newTier)

\* an evaluation that confirms the tier leaves its probation running
Evaluation(c, newTier) ==
    IF newTier = c.tier THEN c
    ELSE IF newTier > c.tier THEN UpdateTier(c, newTier)
    ELSE IF c.probation = 0
         THEN [c EXCEPT !.probation = now + GracePeriod,
                        !.announced = IF @ = NotYet THEN now ELSE @]
    ELSE IF now < c.probation THEN c
    ELSE UpdateTier(c, newTier)

EvaluateAndUpdateTier(caller, r, newSlashCount) ==
    /\ IsOperator("credential", caller)
    /\ creds[r].minted
    /\ newSlashCount >= creds[r].slashes
    /\ creds' = [creds EXCEPT ![r] =
          [Evaluation(creds[r], ComputeTier(reviewers[r].reviews, newSlashCount))
              EXCEPT !.slashes = newSlashCount]]

CredentialSetOperator(caller) == SetOperator("credential", caller)
CredentialTransferOwnership(caller) == TransferOwnership("credential", caller)
CredentialAcceptOwnership(caller) == AcceptOwnership("credential", caller)

-----------------------------------------------------------------------------
(* Properties *)

RSMTypeOK ==
    /\ reviewers \in [Reviewers -> [bond : Nat, eligible : BOOLEAN, reviews : Nat, fees : Nat,
                                    pending : Nat, availableAt : Nat, lockedUntil : Nat]]
    /\ rsm \in [minBond : Nat, feeBps : Nat, cooldown : Nat, queue : BOOLEAN]
    /\ rsmBalance \in Nat
    /\ feeFund \in Int

\* Every bond and every pending unstake can be paid out, except for what fees
\* were claimed beyond the fees deposited: those come out of the bonds.
BondsCovered ==
    LET owed == SumFunction([r \in Reviewers |-> reviewers[r].bond + reviewers[r].pending])
    IN  rsmBalance >= owed + (IF feeFund < 0 THEN feeFund ELSE 0)

WSMTypeOK ==
    /\ workers \in [Workers -> [staked : Nat, pending : Nat, availableAt : Nat, lockedUntil : Nat]]
    /\ wsm \in [cooldown : Nat, treasuryBps : 0..10000]
    /\ wsmBalance \in Nat

\* Every worker's stake and pending unstake can be paid out, after any sequence
\* of slashes that split over the two.
StakesCovered ==
    wsmBalance >= SumFunction([w \in Workers |-> workers[w].staked + workers[w].pending])

\* Besides, "each reviewer holds exactly one active tier token".
CredentialTypeOK ==
    /\ creds \in [Reviewers -> [minted : BOOLEAN, tier : 0..3, slashes : Nat, probation : Nat,
                                tokens : SUBSET (0..3), announced : Nat \cup {NotYet}]]
    /\ \A r \in Reviewers : creds[r].tokens = IF creds[r].minted THEN {creds[r].tier} ELSE {}

\* A tier falls only when an evaluation at least a grace period earlier, and
\* since the reviewer reached the tier, has announced it.  (That the reviewer may
\* have qualified again in between, and is then given no new grace, is what the
\* code does.)
DowngradeAnnounced ==
    [][\A r \in Reviewers :
          creds'[r].tier < creds[r].tier =>
              creds[r].announced # NotYet /\ now >= creds[r].announced + GracePeriod]_creds
=============================================================================
