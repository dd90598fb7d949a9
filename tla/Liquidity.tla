----------------------------- MODULE Liquidity -----------------------------
(***************************************************************************)
(* LiquidityMining.sol: miners stake INTEL and share the INTEL operators   *)
(* deposit, at a rate per second while it lasts.  The pool is charged      *)
(* twice, when a reward accrues and when it is paid, so that every reward  *)
(* accrued stays in the contract for ever: accrued.                        *)
(*                                                                         *)
(* BuybackBurn.sol and IntelPOLManager.sol: ether buys INTEL on a market,  *)
(* of which a share goes to the miners and the rest is burned; the         *)
(* protocol's own liquidity is put on that market, whose average price     *)
(* the POL manager reports.  The market, Uniswap, is the account "market"  *)
(* and opaque: it pays any amount a caller accepts, takes any part of what *)
(* it is offered, and reports any average price.  Prices are scaled by One.*)
(***************************************************************************)
EXTENDS IntelToken

-----------------------------------------------------------------------------
(* LiquidityMining.sol *)

CONSTANTS
    Precision,       \* PRECISION
    AccCap,          \* the accumulator's cap, type(uint128).max
    RateDelay        \* 2 days

VARIABLES
    mining,          \* the storage of the contract
    miners,          \* staked and rewardDebt, by user
    accrued,         \* history: the rewards added to accRewardPerShare
    rateQueuedAt     \* history: when the pending rate was queued

miningVars == <<mining, miners, accrued, rateQueuedAt>>

MiningInit ==
    /\ mining = [rate |-> 0, pendingRate |-> 0, rateAt |-> 0, endTime |-> 0, acc |-> 0,
                 lastUpdate |-> 0, totalStaked |-> 0, pool |-> 0]
    /\ miners = [u \in Users |-> [staked |-> 0, debt |-> 0]]
    /\ accrued = 0
    /\ rateQueuedAt = 0

\* What _updatePool accrues now.  From endTime on that is nothing, not even what
\* the time before endTime has earned.
Accruing ==
    LET untilEnd == IF now < mining.endTime THEN mining.endTime - mining.lastUpdate ELSE 0
        elapsed == now - mining.lastUpdate
    IN  IF elapsed > untilEnd THEN untilEnd ELSE elapsed

\* _updatePool: the storage after it, and the reward that accrued
UpdatePool ==
    LET earned == Accruing * mining.rate
        reward == IF earned > mining.pool THEN mining.pool ELSE earned
    IN
    IF mining.totalStaked = 0 \/ earned = 0
    THEN [m |-> [mining EXCEPT !.lastUpdate = now], reward |-> 0]
    ELSE [m |-> [mining EXCEPT !.acc = @ + (reward * Precision) \div mining.totalStaked,
                               !.pool = @ - reward,
                               !.lastUpdate = @ + Accruing],
          reward |-> reward]

\* or the call reverts: the accumulator is at its cap
PoolUpdates == UpdatePool.m.acc <= AccCap

Accumulated(m, staked) == (staked * m.acc) \div Precision

\* _settleReward pays what the pool has left and forgets the rest
SettleReward(m, u) ==
    LET due == Accumulated(m, miners[u].staked) - miners[u].debt IN
    IF miners[u].staked = 0 \/ due <= 0 THEN 0 ELSE IF due > m.pool THEN m.pool ELSE due

\* stake and unstake: update, settle, change the stake, and move the INTEL
MineStake(u, amount) ==
    LET up == UpdatePool
        claimed == SettleReward(up.m, u)
    IN
    /\ amount > 0 /\ PoolUpdates
    /\ ~token.paused /\ balance[u] + claimed >= amount
    /\ mining' = [up.m EXCEPT !.pool = @ - claimed, !.totalStaked = @ + amount]
    /\ miners' = [miners EXCEPT ![u] = [staked |-> @.staked + amount,
                                        debt |-> Accumulated(up.m, @.staked + amount)]]
    /\ balance' = [balance EXCEPT ![u] = @ + claimed - amount, !["mining"] = @ + amount - claimed]
    /\ accrued' = accrued + up.reward
    /\ UNCHANGED <<allowance, token, rateQueuedAt>>

MineUnstake(u, amount) ==
    LET up == UpdatePool
        claimed == SettleReward(up.m, u)
    IN
    /\ amount > 0 /\ PoolUpdates
    /\ miners[u].staked >= amount
    /\ ~token.paused /\ balance["mining"] >= claimed + amount
    /\ mining' = [up.m EXCEPT !.pool = @ - claimed, !.totalStaked = @ - amount]
    /\ miners' = [miners EXCEPT ![u] = [staked |-> @.staked - amount,
                                        debt |-> Accumulated(up.m, @.staked - amount)]]
    /\ balance' = Moved(balance, "mining", u, claimed + amount)
    /\ accrued' = accrued + up.reward
    /\ UNCHANGED <<allowance, token, rateQueuedAt>>

ClaimRewards(u) ==
    LET up == UpdatePool
        claimed == SettleReward(up.m, u)
    IN
    /\ claimed > 0 /\ PoolUpdates
    /\ ~token.paused /\ balance["mining"] >= claimed
    /\ mining' = [up.m EXCEPT !.pool = @ - claimed]
    /\ miners' = [miners EXCEPT ![u].debt = Accumulated(up.m, miners[u].staked)]
    /\ balance' = Moved(balance, "mining", u, claimed)
    /\ accrued' = accrued + up.reward
    /\ UNCHANGED <<allowance, token, rateQueuedAt>>

\* depositRewards, by an operator, or by a contract that is one; what it does to
\* everything but the balances
Deposited(amount) ==
    LET up == UpdatePool
        extension == amount \div up.m.rate
    IN
    /\ mining' = [up.m EXCEPT !.pool = @ + amount,
                              !.endTime = IF up.m.rate = 0 THEN @
                                          ELSE (IF now >= @ THEN now ELSE @) + extension]
    /\ accrued' = accrued + up.reward
    /\ UNCHANGED <<miners, rateQueuedAt>>

DepositRewards(caller, amount) ==
    /\ IsOperator("mining", caller)
    /\ amount > 0 /\ PoolUpdates
    /\ Deposited(amount)
    /\ Move(caller, "mining", amount)

SetRewardRate(caller, rate) ==
    LET up == UpdatePool
        active == up.m.endTime > 0 /\ now < up.m.endTime
    IN
    /\ IsOwner("mining", caller)
    /\ PoolUpdates
    /\ IF active
       THEN /\ mining' = [up.m EXCEPT !.pendingRate = rate, !.rateAt = now + RateDelay]
            /\ rateQueuedAt' = now
       ELSE /\ rate > 0 \/ up.m.endTime = 0
            /\ mining' = [up.m EXCEPT !.rate = rate]
            /\ UNCHANGED rateQueuedAt
    /\ accrued' = accrued + up.reward
    /\ UNCHANGED <<miners, tokenVars>>

\* without _updatePool: the time since the last update is paid at the new rate
CommitRewardRate(caller) ==
    /\ IsOwner("mining", caller)
    /\ mining.pendingRate # 0
    /\ now >= mining.rateAt
    /\ mining' = [mining EXCEPT !.rate = mining.pendingRate, !.pendingRate = 0, !.rateAt = 0]
    /\ UNCHANGED <<miners, accrued, rateQueuedAt, tokenVars>>

EmergencyWithdraw(u) ==
    /\ miners[u].staked > 0
    /\ Move("mining", u, miners[u].staked)
    /\ mining' = [mining EXCEPT !.totalStaked = @ - miners[u].staked]
    /\ miners' = [miners EXCEPT ![u] = [staked |-> 0, debt |-> 0]]
    /\ UNCHANGED <<accrued, rateQueuedAt>>

MiningSetOperator(caller) == SetOperator("mining", caller)
MiningTransferOwnership(caller) == TransferOwnership("mining", caller)
MiningAcceptOwnership(caller) == AcceptOwnership("mining", caller)

-----------------------------------------------------------------------------
(* BuybackBurn.sol, IntelPOLManager.sol *)

CONSTANTS
    One,              \* 1e18
    IntelIsToken0,    \* whether INTEL has the lower address of the pair
    Treasury          \* where trapped INTEL goes

VARIABLES
    bb,               \* BuybackBurn: ether, parameters
    pol,              \* IntelPOLManager: ether, wrapped ether, position, pool set
    bought            \* history: INTEL bought, and of it burned, by buybacks

buybackVars == <<bb, pol, bought>>

\* After deployment, or when the owner has set the miners' share and the pool.
BuybackInit(minEth, wired, share) ==
    /\ bb = [eth |-> 0, slippage |-> 200, minEth |-> minEth, minTwap |-> 0,
             mining |-> wired, share |-> IF wired THEN share ELSE 0]
    /\ pol = [eth |-> 0, weth |-> 0, received |-> 0, position |-> FALSE, pool |-> wired]
    /\ bought = [all |-> 0, burned |-> 0]

-----------------------------------------------------------------------------
(* The price *)

\* pullTWAP with _tickToPrice: price is what the pool reports, token1 per token0
TwapOf(price) == IF IntelIsToken0 THEN (One * One) \div price ELSE price

MinIntelOut(twap) == (((bb.eth * One) \div twap) * (10000 - bb.slippage)) \div 10000

-----------------------------------------------------------------------------
(* BuybackBurn *)

DepositEth(amount) ==
    /\ amount > 0
    /\ bb' = [bb EXCEPT !.eth = @ + amount]
    /\ UNCHANGED <<pol, bought, miningVars, tokenVars>>

WithdrawEth(caller, amount) ==
    /\ IsOwner("buyback", caller)
    /\ amount > 0 /\ amount <= bb.eth
    /\ bb' = [bb EXCEPT !.eth = @ - amount]
    /\ UNCHANGED <<pol, bought, miningVars, tokenVars>>

MiningAccepts == IsOperator("mining", "buyback") /\ PoolUpdates /\ ~token.paused

\* The swap asks for ether's wrapper as the input only when INTEL is token0:
\* otherwise it asks for INTEL, which nobody has approved.  A share the miners'
\* contract refuses stays here.
ExecuteBuyback(caller, price, received) ==
    LET twap == TwapOf(price)
        share == IF bb.mining THEN (received * bb.share) \div 10000 ELSE 0
        taken == IF MiningAccepts THEN share ELSE 0
        burned == received - share
    IN
    /\ IsOperator("buyback", caller)
    /\ bb.eth > 0 /\ bb.eth >= bb.minEth
    /\ pol.pool
    /\ twap > 0 /\ twap >= bb.minTwap
    /\ IntelIsToken0
    /\ received >= MinIntelOut(twap)
    /\ ~token.paused
    /\ balance["market"] >= received
    /\ bb' = [bb EXCEPT !.eth = 0]
    /\ balance' = [balance EXCEPT !["market"] = @ - received, !["mining"] = @ + taken,
                                  !["buyback"] = @ + received - taken - burned]
    /\ token' = [token EXCEPT !.supply = @ - burned]
    /\ IF taken > 0 THEN Deposited(taken) ELSE UNCHANGED miningVars
    /\ bought' = [all |-> bought.all + received, burned |-> bought.burned + burned]
    /\ UNCHANGED <<allowance, pol>>

RecoverTrappedMiningRewards(caller) ==
    LET trapped == balance["buyback"] IN
    /\ IsOwner("buyback", caller)
    /\ trapped > 0
    /\ IF bb.mining /\ MiningAccepts
       THEN Move("buyback", "mining", trapped) /\ Deposited(trapped)
       ELSE Move("buyback", Treasury, trapped) /\ UNCHANGED miningVars
    /\ UNCHANGED buybackVars

SetLpMining(caller, on, share) ==
    /\ IsOwner("buyback", caller)
    /\ share <= 3000
    /\ bb' = [bb EXCEPT !.mining = on, !.share = share]
    /\ UNCHANGED <<pol, bought, miningVars, tokenVars>>

\* setMaxSlippage, setMinBuybackEth, setMinTwap
SetBuybackParams(caller, slippage, minEth, minTwap) ==
    /\ IsOwner("buyback", caller)
    /\ \/ slippage <= 10000 /\ bb' = [bb EXCEPT !.slippage = slippage]
       \/ bb' \in {[bb EXCEPT !.minEth = minEth], [bb EXCEPT !.minTwap = minTwap]}
    /\ UNCHANGED <<pol, bought, miningVars, tokenVars>>

BuybackSetOperator(caller) == SetOperator("buyback", caller)
BuybackTransferOwnership(caller) == TransferOwnership("buyback", caller)
BuybackAcceptOwnership(caller) == AcceptOwnership("buyback", caller)

-----------------------------------------------------------------------------
(* IntelPOLManager *)

ReceivePol(amount) ==
    /\ pol' = [pol EXCEPT !.eth = @ + amount, !.received = @ + amount]
    /\ UNCHANGED <<bb, bought, miningVars, tokenVars>>

WithdrawPolEth(caller, amount) ==
    /\ IsOwner("pol", caller)
    /\ amount <= pol.eth
    /\ pol' = [pol EXCEPT !.eth = @ - amount]
    /\ UNCHANGED <<bb, bought, miningVars, tokenVars>>

WithdrawIntel(caller, to, amount) ==
    /\ IsOwner("pol", caller)
    /\ amount > 0
    /\ Move("pol", to, amount)
    /\ UNCHANGED <<buybackVars, miningVars>>

\* Mints the position or adds to it.  What the market does not take of the wrapped
\* ether is unwrapped, which receive() counts as ether received once more.
DeployToUniV3(caller, intelAmount, ethAmount, usedIntel, usedEth) ==
    /\ IsOwner("pol", caller)
    /\ intelAmount > 0 /\ ethAmount > 0
    /\ intelAmount <= balance["pol"] /\ ethAmount <= pol.eth
    /\ usedIntel <= intelAmount /\ usedEth <= ethAmount
    /\ Move("pol", "market", usedIntel)
    /\ pol' = [pol EXCEPT !.eth = @ - usedEth, !.received = @ + ethAmount - usedEth,
                          !.position = TRUE]
    /\ UNCHANGED <<bb, bought, miningVars>>

\* the wrapped ether collected stays wrapped: no function moves it on
CollectFees(caller, intelFees, wethFees) ==
    /\ IsOwner("pol", caller)
    /\ pol.position
    /\ Move("market", "pol", intelFees)
    /\ pol' = [pol EXCEPT !.weth = @ + wethFees]
    /\ UNCHANGED <<bb, bought, miningVars>>

SetTwapPool(caller) ==
    /\ IsOwner("pol", caller)
    /\ pol' = [pol EXCEPT !.pool = TRUE]
    /\ UNCHANGED <<bb, bought, miningVars, tokenVars>>

PolTransferOwnership(caller) == TransferOwnership("pol", caller)
PolAcceptOwnership(caller) == AcceptOwnership("pol", caller)

-----------------------------------------------------------------------------
(* Properties *)

MiningTypeOK ==
    /\ mining \in [rate : Nat, pendingRate : Nat, rateAt : Nat, endTime : Nat, acc : Nat,
                   lastUpdate : Nat, totalStaked : Nat, pool : Nat]
    /\ miners \in [Users -> [staked : Nat, debt : Nat]]
    /\ accrued \in Nat

\* The contract holds every stake and the pool, so that nobody is kept from his
\* stake by the rewards; and besides, exactly, every reward that ever accrued:
\* claims are paid out of what has not accrued yet.
StakesApart ==
    /\ mining.totalStaked = SumFunctionOnSet([u \in Users |-> miners[u].staked], Users)
    /\ balance["mining"] = mining.totalStaked + mining.pool + accrued

\* While rewards run, the rate changes only to one that was queued for two days.
RateAnnounced ==
    mining'.rate # mining.rate /\ mining.endTime > 0 /\ now < mining.endTime =>
        now >= rateQueuedAt + RateDelay

BuybackTypeOK ==
    /\ bb \in [eth : Nat, slippage : 0..10000, minEth : Nat, minTwap : Nat,
               mining : BOOLEAN, share : 0..3000]
    /\ pol \in [eth : Nat, weth : Nat, received : Nat, position : BOOLEAN, pool : BOOLEAN]
    /\ pol.eth <= pol.received

\* However often the share is changed and the miners refuse theirs, at least 70 %
\* of all the INTEL ever bought has been burned, and the rest is not lost here:
\* what the contract keeps is at most what it bought and did not burn.
BurnFloor ==
    /\ 10 * bought.burned >= 7 * bought.all
    /\ balance["buyback"] <= bought.all - bought.burned
=============================================================================
