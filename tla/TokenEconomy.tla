---------------------------- MODULE TokenEconomy ----------------------------
(***************************************************************************)
(* The contracts that issue, spread and burn INTEL, on one token and one   *)
(* clock: IntelToken and its minter IntelMintController, LiquidityMining   *)
(* with BuybackBurn and IntelPOLManager, EpochRewardDistributor,           *)
(* IntelVesting, IdeaEscrow; with the timelock and the registries, which   *)
(* hold none.                                                              *)
(*                                                                         *)
(* scene, fixed at the start, picks the contracts that are called in a     *)
(* behaviour: the number of behaviours is the sum and not the product of   *)
(* theirs.  Contracts of different scenes share the token alone, and each  *)
(* moves only what it holds and what its caller has approved.              *)
(***************************************************************************)
EXTENDS IntelMintController, Liquidity, IntelPayouts, Governance

CONSTANTS
    Shares,              \* by scene: INTEL held at the start
    Values,              \* by scene: amounts
    Twaps, Prices,       \* prices that may be reported
    ScoreLists,          \* lists of scores that may be submitted
    Weights,             \* the weights the categories start with
    MaxCalls, MaxAdminCalls, MaxTime    \* by scene: bounds on calls, on the
                         \* calls of owners among them, and on time

\* The contracts are accounts of their own, and who is paid by one is none of them;
\* a contract under test starts with no INTEL of its own.
ASSUME EconomyAssumption ==
    /\ IsFiniteSet(Accounts) /\ NoOne \notin Accounts
    /\ Contracts \cap (Users \cup Officers) = {}
    /\ {"intel", "mint", "mining", "buyback", "pol", "market", "rewards", "vesting", "ideas",
        "categories", "receipts"} \subseteq Contracts
    /\ Deployer \in Officers
    /\ {Treasury, RewardTreasury, Beneficiary, VestingTreasury, Stakers, TreasuryReceiver}
          \subseteq Users \cup Officers
    /\ {MaxSupply, TwapMaxAge, BaseCap, AccCap, RateDelay, One, Allocation, Cliff, Blackout,
        BPSTotal} \subseteq Nat
    /\ {RoutingTimelock, Precision, VestingDuration} \subseteq Nat \ {0}
    /\ Route # {} /\ NoOne \notin Route /\ Quotas \subseteq Nat
    /\ IsFiniteSet(Epochs) /\ IsFiniteSet(Ideas) /\ IsFiniteSet(Milestones) /\ IsFiniteSet(Agents)
    /\ ScoreLists \subseteq Seq([worker : Users, aiu : Nat])
    /\ IsFiniteSet(Categories) /\ Categories \subseteq Nat /\ 0 \in Categories
    /\ Weights \in [Categories -> 0..BPSTotal] /\ SumFunctionOnSet(Weights, Categories) = BPSTotal
    /\ \A op \in Operations :
          /\ op.call = "delay" => op.delay \in Nat
          /\ op.call = "proposer" => op.approved \in BOOLEAN
          /\ op.call \in {"proposer", "admin"} => op.who \in Officers
    /\ Twaps \subseteq Nat
    /\ \A s \in DOMAIN MaxCalls :
          /\ Values[s] \subseteq Nat
          /\ DOMAIN Shares[s] \subseteq Accounts \ {"mining", "buyback", "ideas"}
          /\ \A a \in DOMAIN Shares[s] : Shares[s][a] \in Nat
          /\ MaxSupply > 0 => SumFunctionOnSet(Shares[s], DOMAIN Shares[s]) <= MaxSupply

VARIABLES scene, calls, adminCalls

vars == <<tokenVars, mintVars, miningVars, buybackVars, rewardVars, vesting, ideaVars,
          timelockVars, registryVars, roles, now, scene, calls, adminCalls>>

\* BuybackBurn is deployed with the mining contract, which lets it deposit, or without.
Wirings == IF scene = "buyback" THEN BOOLEAN ELSE {FALSE}

Wired(wired) ==
    /\ RolesInit([c \in Contracts |-> IF wired /\ c = "mining" THEN {"buyback"} ELSE {}])
    /\ BuybackInit(1, wired, 2500)

Init ==
    /\ scene \in DOMAIN MaxCalls
    /\ now = IF scene = "timelock" THEN 2 ELSE 0
    /\ calls = 0 /\ adminCalls = 0
    /\ \E wired \in Wirings : Wired(wired)
    /\ TokenInit(Shares[scene], IF scene = "mint" THEN "mint" ELSE NoOne)
    /\ MintInit(100, 2000, 100, CHOOSE route \in Route : TRUE, 4)
    /\ MiningInit
    /\ RewardsInit(5, 1)
    /\ VestingInit /\ IdeasInit
    /\ TimelockInit(Deployer, MinimumDelay, {})
    /\ CategoryInit(Weights)

V == Values[scene]

\* Only the variables of one part change.
But(part) ==
    /\ part # "mint" => UNCHANGED mintVars
    /\ part # "mining" => UNCHANGED <<miningVars, buybackVars>>
    /\ part # "rewards" => UNCHANGED rewardVars
    /\ part # "vesting" => UNCHANGED vesting
    /\ part # "ideas" => UNCHANGED ideaVars
    /\ part # "timelock" => UNCHANGED timelockVars
    /\ part # "registry" => UNCHANGED registryVars

TokenCall ==
    /\ \E u \in Users, x \in V :
          \/ \E to \in Users : Move(u, to, x) \/ Mint(u, to, x)
          \/ \E s \in Users : Approve(u, s, x) \/ BurnFrom(s, u, x)
          \/ \E s, to \in Users : TransferFrom(s, u, to, x)
          \/ Burn(u, x)
    /\ But("token") /\ UNCHANGED roles

TokenAdmin ==
    /\ \E caller \in Officers :
          \/ \E to \in Users, x \in V : Mint(caller, to, x)
          \/ Pause(caller) \/ Unpause(caller)
          \/ \E a \in Users \cup {NoOne} : SetMinter(caller, a)
    /\ But("token") /\ UNCHANGED roles

MintCall ==
    /\ \/ \E caller \in Users \cup Officers, to \in Users, x \in V, price \in Prices :
             \/ MintForEther(caller, to, x, price)
             \/ ExecuteMintERC20(caller, to, x, price)
       \/ UNCHANGED tokenVars /\ NextStakingEpoch
       \/ UNCHANGED tokenVars /\ ReceiveEther(1)
    /\ But("mint") /\ UNCHANGED roles

MintAdmin ==
    /\ \E caller \in Officers :
          \/ \E twap \in Twaps : UpdateTWAP(caller, twap) \/ PullTWAP(caller, twap)
          \/ \E volume \in V : UpdateUtilization(caller, volume, 2) \/ UpdateEpochCapFromActivity(caller, 100 * volume)
          \/ \E cap \in {0, 2, 6} : SetEpochMintCap(caller, cap)
          \/ \E enabled \in BOOLEAN : PauseMinting(caller, enabled) \/ SetTwapDeviation(caller, 0, enabled)
          \/ SetActivityCap(caller, 50, BPS \div 2, BPS, TRUE)
          \/ \E r \in Route : ProposeRoutingAddresses(caller, r)
          \/ ApplyRoutingAddresses(caller) \/ CancelRoutingAddresses(caller)
          \/ SetPrices(caller, 90, 0)
          \/ SweepETH(caller)
    /\ But("mint") /\ UNCHANGED <<tokenVars, roles>>

MiningCall ==
    /\ \/ \E u \in Users, x \in V : MineStake(u, x) \/ MineUnstake(u, x)
       \/ \E u \in Users : ClaimRewards(u) \/ EmergencyWithdraw(u)
       \/ \E caller \in Officers, x \in V : DepositRewards(caller, x)
    /\ But("mining") /\ UNCHANGED <<buybackVars, roles>>

MiningAdmin ==
    /\ \E caller \in Officers :
          CommitRewardRate(caller) \/ \E rate \in {1, 3} : SetRewardRate(caller, rate)
    /\ But("mining") /\ UNCHANGED <<buybackVars, roles>>

BuybackCall ==
    /\ \/ \E x \in V : DepositEth(x) \/ ReceivePol(x)
       \/ \E caller \in Officers, price \in Twaps, received \in V :
             ExecuteBuyback(caller, price, received)
    /\ But("mining") /\ UNCHANGED roles

BuybackAdmin ==
    /\ \E caller \in Officers, x \in V :
          \/ WithdrawEth(caller, x) \/ RecoverTrappedMiningRewards(caller)
          \/ \E on \in BOOLEAN, share \in {3000, 5000} : SetLpMining(caller, on, share)
          \/ SetBuybackParams(caller, 0, 2, 1)
          \/ WithdrawPolEth(caller, x) \/ \E u \in Users : WithdrawIntel(caller, u, x)
          \/ \E usedI, usedE \in {1, x} : DeployToUniV3(caller, x, x, usedI, usedE)
          \/ CollectFees(caller, 1, x) \/ SetTwapPool(caller)
    /\ But("mining") /\ UNCHANGED roles

RewardsCall ==
    /\ \/ \E w \in Users, e \in Epochs : ClaimReward(w, e)
       \/ \E caller \in Officers, e \in Epochs :
             \/ \E list \in ScoreLists : SubmitEpochScores(caller, e, list)
             \/ DistributeEpochRewards(caller, e)
             \/ \E w \in Users : CountJob(caller, e, w)
       \/ \E u \in Users, x \in V : DepositRewardPool(u, x)
    /\ But("rewards") /\ UNCHANGED roles

RewardsAdmin ==
    /\ \E caller \in Officers : SetRewardConf(caller, 3, 10000, 2, 0)
    /\ But("rewards") /\ UNCHANGED roles

VestingCall ==
    /\ \/ ReleaseVesting \/ RevokeVesting
       \/ UNCHANGED vesting /\ \E u \in Users, x \in V : Move(u, "vesting", x)
    /\ But("vesting") /\ UNCHANGED roles

IdeaCall ==
    /\ \E u \in Users, i \in Ideas :
          \/ \E x \in V : FundIdea(u, i, x)
          \/ \E ms \in SUBSET Milestones : \E amounts \in [ms -> V] : ReserveMilestones(u, i, amounts)
          \/ \E m \in Milestones :
                RefundMilestone(u, i, m) \/ \E worker \in Users : ReleaseMilestone(u, i, m, worker)
          \/ WithdrawIdea(u, i)
          \/ \E caller \in Officers : RescueFunds(caller, i, u)
    /\ But("ideas") /\ UNCHANGED roles

TimelockCall ==
    /\ \E op \in Operations :
          Execute(op) \/ \E caller \in Officers : Queue(caller, op) \/ Cancel(caller, op)
    /\ But("timelock") /\ UNCHANGED <<tokenVars, roles>>

RegistryCall ==
    /\ \E caller \in Officers :
          \/ \E a \in Agents, c \in Categories, x \in V :
                \/ RecordCategoryCompletion(caller, a, c, x)
                \/ UpdateEpochVolume(caller, c, x)
          \/ \E a \in Agents, t \in Tasks : MintReceipt(caller, a, t, 100)
    /\ But("registry") /\ UNCHANGED <<tokenVars, roles>>

RegistryAdmin ==
    /\ \E caller \in Officers, c \in Categories :
          \/ \E w \in {1, 70, BPSTotal} : SetCategoryWeight(caller, c, w)
          \/ \E active \in BOOLEAN : SetCategoryActive(caller, c, active)
    /\ But("registry") /\ UNCHANGED <<tokenVars, roles>>

\* the owners' and the nominees' calls that change roles, by scene
RolesCall ==
    /\ \E caller \in Officers :
          \/ scene = "token" /\ (IntelTransferOwnership(caller) \/ IntelAcceptOwnership(caller))
          \/ scene = "mint" /\ (\/ MintSetOperator(caller)
                                \/ MintTransferOwnership(caller) \/ MintAcceptOwnership(caller))
          \/ scene = "mining" /\ (\/ MiningSetOperator(caller)
                                  \/ MiningTransferOwnership(caller) \/ MiningAcceptOwnership(caller))
          \/ scene = "buyback" /\ (\/ BuybackSetOperator(caller) \/ MiningSetOperator(caller)
                                   \/ BuybackTransferOwnership(caller) \/ BuybackAcceptOwnership(caller)
                                   \/ PolTransferOwnership(caller) \/ PolAcceptOwnership(caller))
          \/ scene = "rewards" /\ (\/ RewardsSetOperator(caller)
                                   \/ RewardsTransferOwnership(caller) \/ RewardsAcceptOwnership(caller))
          \/ scene = "registry" /\ (\/ CategoriesSetOperator(caller)
                                    \/ CategoriesTransferOwnership(caller) \/ CategoriesAcceptOwnership(caller)
                                    \/ ReceiptsSetOperator(caller)
                                    \/ ReceiptsTransferOwnership(caller) \/ ReceiptsAcceptOwnership(caller))
    /\ But("roles") /\ UNCHANGED tokenVars

Call ==
    /\ calls < MaxCalls[scene]
    /\ calls' = calls + 1
    /\ \/ scene = "token" /\ TokenCall
       \/ scene = "mint" /\ MintCall
       \/ scene \in {"mining", "buyback"} /\ MiningCall
       \/ scene = "buyback" /\ BuybackCall
       \/ scene = "rewards" /\ RewardsCall
       \/ scene = "vesting" /\ VestingCall
       \/ scene = "ideas" /\ IdeaCall
       \/ scene = "timelock" /\ TimelockCall
       \/ scene = "registry" /\ RegistryCall
    /\ UNCHANGED <<now, scene, adminCalls>>

Admin ==
    /\ calls < MaxCalls[scene] /\ adminCalls < MaxAdminCalls[scene]
    /\ calls' = calls + 1
    /\ adminCalls' = adminCalls + 1
    /\ \/ scene = "token" /\ TokenAdmin
       \/ scene = "mint" /\ MintAdmin
       \/ scene \in {"mining", "buyback"} /\ MiningAdmin
       \/ scene = "buyback" /\ BuybackAdmin
       \/ scene = "rewards" /\ RewardsAdmin
       \/ scene = "registry" /\ RegistryAdmin
       \/ RolesCall
    /\ UNCHANGED <<now, scene>>

Tick ==
    /\ now < MaxTime[scene]
    /\ now' = now + 1
    /\ But("nobody") /\ UNCHANGED <<tokenVars, roles, scene, calls, adminCalls>>

Next == Call \/ Admin \/ Tick

Spec == Init /\ [][Next]_vars

-----------------------------------------------------------------------------
(* Properties of the whole *)

\* Every slot of the contracts holds a value of its type.
EconomyTypeOK ==
    /\ roles \in [Contracts -> RoleType]
    /\ TokenTypeOK /\ MintTypeOK /\ MiningTypeOK /\ BuybackTypeOK /\ RewardTypeOK /\ VestingTypeOK
    /\ IdeaTypeOK /\ TimelockTypeOK /\ RegistryTypeOK

\* The token's supply is accounted for, and each contract that holds INTEL holds
\* what it owes.
FundsBacked == SupplyBacked /\ StakesApart /\ RewardsCovered /\ IdeasApart /\ BurnFloor

\* What the protocol promises to announce is announced: the addresses paid, the
\* reward rate, what the timelock executes; what has vested stays, and no epoch mints
\* above its cap.
LimitsKept == [][MintCapKept /\ RoutingAnnounced /\ RateAnnounced /\ VestingKept]_vars

\* What is recorded once is consistent with all that was recorded before: the
\* operations of the timelock and the registries.
RecordsAgree == OperationsKept /\ ProfilesAgree
=============================================================================
