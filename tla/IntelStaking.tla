---------------------------- MODULE IntelStaking ----------------------------
(***************************************************************************)
(* IntelStaking.sol: INTEL is staked; yield, in INTEL and in ETH, is       *)
(* divided over the stakes by an accumulator of yield per share; each      *)
(* epoch gives a stake an allowance to mint.  One action per external      *)
(* function; a call that reverts is no step.                               *)
(*                                                                         *)
(* The two accumulators work alike, so acc, pool and each staker's debt    *)
(* are indexed by the asset; where the code treats the two differently     *)
(* (the flush of the pool) the model does.  What the contract holds of     *)
(* each asset is balance; wallets hold enough, and accept ETH.  The        *)
(* snapshots of past epochs and stakedAt are written and never read: they  *)
(* are left out.                                                           *)
(*                                                                         *)
(* edge, syncs, locked and shortened are history variables, for the        *)
(* properties.                                                             *)
(***************************************************************************)
EXTENDS Integers, FiniteSets, Functions

CONSTANTS
    Wallets,
    Deployer,            \* msg.sender of the constructor
    Governors,           \* accounts the owner may name owner or operator
    NoOne,               \* address(0)
    Stakes, Yields,      \* amounts staked or unstaked; yield deposited
    Mints,               \* amounts of allowance an operator consumes
    ParamSets,           \* parameters the owner may set
    Params,              \* parameters of the constructor
    PRECISION,           \* scale of the accumulators, 1e36
    AccCap,              \* their cap, type(uint128).max
    KScale,              \* 1e18, the scale of k
    BonusDelay,          \* 1 day
    BonusMinStake,       \* FLOW_BONUS_MIN_STAKE
    MaxStake,            \* maxStakePerDeposit of the constructor
    Caps,                \* caps the owner may set
    MaxStaked,           \* bound on totalStaked
    MaxSyncs,            \* bound on the calls of stake and requestUnstake
    MaxDeposits,         \* bound on deposits of yield
    MaxTime, MaxAdminCalls,
    Scale                \* of edge: a multiple of every total that can be staked

Assets == {"intel", "eth"}
BPS == 10000
BonusBPS == 1500

ParamType == [epochLength : Nat, cooldown : Nat, k : Nat, walletCap : Nat, epochCap : Nat]

ASSUME AccountsAssumption ==
    /\ NoOne \notin Wallets \cup Governors /\ Deployer \in Governors
    /\ IsFiniteSet(Wallets)

ASSUME NumbersAssumption ==
    /\ Stakes \cup Yields \cup Mints \cup Caps \subseteq Nat
    /\ ParamSets \cup {Params} \subseteq ParamType
    /\ {PRECISION, KScale} \subseteq Nat \ {0}
    /\ {AccCap, BonusDelay, BonusMinStake, MaxStake} \subseteq Nat
    /\ {MaxStaked, MaxSyncs, MaxDeposits, MaxTime, MaxAdminCalls} \subseteq Nat
    /\ Scale \in Nat \ {0} /\ \A t \in 1..MaxStaked : t * (Scale \div t) = Scale

VARIABLES
    stakers,       \* the stakers mapping
    totalStaked,
    acc, pool,     \* yield per share, and yield not yet distributed, by asset
    balance,       \* what the contract holds, by asset
    epoch,         \* currentEpoch, epochStartTime and globalCapRemaining
    params,
    paused, maxStake,
    roles,         \* owner, pendingOwner and operators
    now,           \* block.timestamp
    adminCalls, deposits,  \* calls made, for the bounds
    edge,          \* history: what each wallet was paid of each asset, less its
                   \* exact pro-rata part of what was distributed, times Scale
    syncs,         \* history: how often each wallet's debts were set anew
    locked,        \* history: when all the cooldowns a wallet has asked for end
    shortened      \* history: has the owner ever shortened the cooldown?

govern == <<paused, maxStake, roles, shortened>>
vars == <<stakers, totalStaked, acc, pool, balance, epoch, params, govern, now,
          adminCalls, deposits, edge, syncs, locked>>

SumOf(f) == SumFunctionOnSet(f, Wallets)

Zero == [a \in Assets |-> 0]

NoStake ==
    [staked |-> 0, pending |-> 0, availableAt |-> 0, debt |-> Zero,
     used |-> 0, lastEpoch |-> 0, newStake |-> 0, newStakeEpoch |-> 0, bonusAt |-> 0]

Init ==
    /\ stakers = [w \in Wallets |-> NoStake]
    /\ totalStaked = 0
    /\ acc = Zero /\ pool = Zero /\ balance = Zero
    /\ epoch = [n |-> 1, start |-> 0, capLeft |-> Params.epochCap,
                cap |-> Params.epochCap, lifted |-> Params.epochCap = 0]
    /\ params = Params
    /\ paused = FALSE
    /\ maxStake = MaxStake
    /\ roles = [owner |-> Deployer, pendingOwner |-> NoOne, operators |-> {}]
    /\ now = 0
    /\ adminCalls = 0 /\ deposits = 0
    /\ edge = [w \in Wallets |-> Zero]
    /\ syncs = [w \in Wallets |-> 0]
    /\ locked = [w \in Wallets |-> 0]
    /\ shortened = FALSE

-----------------------------------------------------------------------------
(* Yield per share *)

PerShare(amount) == (amount * PRECISION) \div totalStaked

\* the exact parts of amount are taken from the wallets' edges
Shared(e, a, amount) ==
    [w \in Wallets |->
        [e[w] EXCEPT ![a] = @ - (Scale \div totalStaked) * amount * stakers[w].staked]]

\* What distribution and epochs change, as a record a call passes along.
Books == [acc |-> acc, pool |-> pool, epoch |-> epoch, edge |-> edge]

\* _advanceEpoch's flush of one pool; above the cap the ETH is dropped
Flush(b, a) ==
    IF b.pool[a] = 0 \/ totalStaked = 0 THEN b
    ELSE LET sum == b.acc[a] + PerShare(b.pool[a]) IN
         IF a = "eth" /\ sum > AccCap
         THEN [b EXCEPT !.pool[a] = 0]
         ELSE [b EXCEPT !.acc[a] = sum, !.pool[a] = 0,
                        !.edge = Shared(b.edge, a, b.pool[a])]

\* the cap history starts with the epoch; the cap is lifted while params has none
NextEpoch(b) ==
    [b EXCEPT !.epoch = [n |-> b.epoch.n + 1, start |-> now,
                         capLeft |-> params.epochCap, cap |-> params.epochCap,
                         lifted |-> params.epochCap = 0]]

EpochOver == now >= epoch.start + params.epochLength

Advanced == NextEpoch(Flush(Flush(Books, "intel"), "eth"))

\* _advanceEpochIfNeeded
Current == IF EpochOver THEN Advanced ELSE Books

SetBooks(b) ==
    /\ acc' = b.acc
    /\ pool' = b.pool
    /\ epoch' = b.epoch
    /\ edge' = b.edge

Accrued(b, w, a) == (stakers[w].staked * b.acc[a]) \div PRECISION

\* _settleYield, _settleEthYield: what the call pays
Claim(b, w, a) ==
    LET due == Accrued(b, w, a) - stakers[w].debt[a] IN IF due > 0 THEN due ELSE 0

Paid(e, w, a, amount) == [e EXCEPT ![w][a] = @ + Scale * amount]

\* Both settlements and what they pay, over the books b of the call.
SettleBoth(b, w) ==
    /\ \A a \in Assets : balance[a] >= Claim(b, w, a)
    /\ SetBooks([b EXCEPT !.edge =
          Paid(Paid(@, w, "intel", Claim(b, w, "intel")), w, "eth", Claim(b, w, "eth"))])

DebtsAt(b, staked) == [a \in Assets |-> (staked * b.acc[a]) \div PRECISION]

AnotherSync == SumOf(syncs) < MaxSyncs

-----------------------------------------------------------------------------
(* Staking *)

\* A slip the checks must notice: a new stake owes nothing to the yield that
\* accumulated before it.
StakeWithoutDebt(w, amount) ==
    LET b == Current  s == stakers[w] IN
    /\ ~paused /\ amount > 0
    /\ maxStake > 0 => amount <= maxStake
    /\ totalStaked + amount <= MaxStaked /\ AnotherSync
    /\ SettleBoth(b, w)
    /\ balance' = [a \in Assets |-> balance[a] - Claim(b, w, a) + IF a = "intel" THEN amount ELSE 0]
    /\ stakers' = [stakers EXCEPT ![w].staked = s.staked + amount]
    /\ totalStaked' = totalStaked + amount
    /\ syncs' = [syncs EXCEPT ![w] = @ + 1]
    /\ UNCHANGED <<params, govern, now, adminCalls, deposits, locked>>

Stake(w, amount) ==
    LET b == Current
        s == stakers[w]
        sameEpoch == s.newStakeEpoch = b.epoch.n
    IN
    /\ ~paused
    /\ amount > 0
    /\ maxStake > 0 => amount <= maxStake
    /\ totalStaked + amount <= MaxStaked /\ AnotherSync
    /\ SettleBoth(b, w)
    /\ balance' = [a \in Assets |-> balance[a] - Claim(b, w, a)
                                    + IF a = "intel" THEN amount ELSE 0]
    /\ stakers' = [stakers EXCEPT ![w] =
          [s EXCEPT !.staked = @ + amount,
                    !.debt = DebtsAt(b, s.staked + amount),
                    !.newStake = amount + IF sameEpoch THEN @ ELSE 0,
                    !.newStakeEpoch = b.epoch.n,
                    !.bonusAt = now + BonusDelay]]
    /\ totalStaked' = totalStaked + amount
    /\ syncs' = [syncs EXCEPT ![w] = @ + 1]
    /\ UNCHANGED <<params, govern, now, adminCalls, deposits, locked>>

RequestWith(w, amount, availableAt) ==
    LET b == Current
        s == stakers[w]
    IN
    /\ ~paused
    /\ amount > 0
    /\ totalStaked >= amount /\ AnotherSync
    /\ SettleBoth(b, w)
    /\ balance' = [a \in Assets |-> balance[a] - Claim(b, w, a)]
    /\ stakers' = [stakers EXCEPT ![w] =
          [s EXCEPT !.staked = @ - amount,
                    !.pending = @ + amount,
                    !.availableAt = availableAt,
                    !.debt = DebtsAt(b, s.staked - amount)]]
    /\ totalStaked' = totalStaked - amount
    /\ syncs' = [syncs EXCEPT ![w] = @ + 1]
    /\ locked' = [locked EXCEPT ![w] =
          IF now + params.cooldown > @ THEN now + params.cooldown ELSE @]
    /\ UNCHANGED <<params, govern, now, adminCalls, deposits>>

\* Slips the checks must notice: the stake is not looked at; a second request
\* keeps the clock of the first.
RequestUnchecked(w, amount) == RequestWith(w, amount, now + params.cooldown)

RequestOnOldClock(w, amount) ==
    /\ stakers[w].staked >= amount
    /\ RequestWith(w, amount, IF stakers[w].pending > 0 THEN stakers[w].availableAt
                              ELSE now + params.cooldown)

RequestUnstake(w, amount) ==
    /\ stakers[w].staked >= amount
    /\ RequestWith(w, amount, now + params.cooldown)

\* A slip the checks must notice: the stake that leaves stays pending.
UnstakeAgain(w) ==
    /\ ~paused
    /\ stakers[w].pending > 0
    /\ now >= stakers[w].availableAt
    /\ balance["intel"] >= stakers[w].pending
    /\ balance' = [balance EXCEPT !["intel"] = @ - stakers[w].pending]
    /\ UNCHANGED <<stakers, totalStaked, acc, pool, epoch, params, govern, now,
                   adminCalls, deposits, edge, syncs, locked>>

Unstake(w) ==
    /\ ~paused
    /\ stakers[w].pending > 0
    /\ now >= stakers[w].availableAt
    /\ balance["intel"] >= stakers[w].pending
    /\ balance' = [balance EXCEPT !["intel"] = @ - stakers[w].pending]
    /\ stakers' = [stakers EXCEPT ![w].pending = 0, ![w].availableAt = 0]
    /\ locked' = [locked EXCEPT ![w] = 0]
    /\ UNCHANGED <<totalStaked, acc, pool, epoch, params, govern, now,
                   adminCalls, deposits, edge, syncs>>

-----------------------------------------------------------------------------
(* Yield *)

IsOperator(caller) == caller \in roles.operators \cup {roles.owner}

\* depositYield, depositEthYield and, from anyone, receive
DepositYield(caller, a, amount) ==
    /\ a = "intel" => IsOperator(caller)
    /\ amount > 0
    /\ deposits < MaxDeposits
    /\ deposits' = deposits + 1
    /\ balance' = [balance EXCEPT ![a] = @ + amount]
    /\ IF totalStaked > 0
       THEN /\ acc[a] + PerShare(amount) <= AccCap
            /\ acc' = [acc EXCEPT ![a] = @ + PerShare(amount)]
            /\ edge' = Shared(edge, a, amount)
            /\ UNCHANGED pool
       ELSE /\ pool' = [pool EXCEPT ![a] = @ + amount]
            /\ UNCHANGED <<acc, edge>>
    /\ UNCHANGED <<stakers, totalStaked, epoch, params, govern, now, adminCalls, syncs, locked>>

\* claimYield, claimEthYield
ClaimYield(w, a) ==
    LET b == Current IN
    /\ ~paused
    /\ Claim(b, w, a) > 0
    /\ balance[a] >= Claim(b, w, a)
    /\ SetBooks([b EXCEPT !.edge = Paid(@, w, a, Claim(b, w, a))])
    /\ balance' = [balance EXCEPT ![a] = @ - Claim(b, w, a)]
    /\ stakers' = [stakers EXCEPT ![w].debt[a] = Accrued(b, w, a)]
    /\ UNCHANGED <<totalStaked, params, govern, now, adminCalls, deposits, syncs, locked>>

-----------------------------------------------------------------------------
(* Epochs and allowances *)

AdvanceEpoch ==
    /\ EpochOver
    /\ SetBooks(Advanced)
    /\ UNCHANGED <<stakers, totalStaked, balance, params, govern, now,
                   adminCalls, deposits, syncs, locked>>

Sqrt(x) == CHOOSE y \in 0..x : y * y <= x /\ x < (y + 1) * (y + 1)

Least(x, y) == IF x < y THEN x ELSE y

UsedInEpoch(w) == IF stakers[w].lastEpoch = epoch.n THEN stakers[w].used ELSE 0

\* _mintAllowance
MintAllowance(w) ==
    LET s == stakers[w]
        raw == (params.k * Sqrt(s.staked)) \div KScale
        bonus == /\ s.newStakeEpoch = epoch.n
                 /\ s.newStake >= BonusMinStake
                 /\ now >= s.bonusAt
        full == raw + IF bonus THEN (raw * BonusBPS) \div BPS ELSE 0
        own == IF params.walletCap > 0 THEN Least(full, params.walletCap) ELSE full
        top == IF params.epochCap > 0 THEN Least(own, epoch.capLeft) ELSE own
    IN  IF UsedInEpoch(w) >= top THEN 0 ELSE top - UsedInEpoch(w)

ConsumeAllowance(caller, w, amount) ==
    /\ IsOperator(caller)
    /\ amount <= MintAllowance(w)
    /\ stakers' = [stakers EXCEPT ![w].used = UsedInEpoch(w) + amount,
                                  ![w].lastEpoch = epoch.n]
    /\ epoch' = [epoch EXCEPT !.capLeft = IF @ >= amount THEN @ - amount ELSE 0]
    /\ UNCHANGED <<totalStaked, acc, pool, balance, params, govern, now,
                   adminCalls, deposits, edge, syncs, locked>>

-----------------------------------------------------------------------------
(* Configuration, by the owner; two-step ownership *)

OwnerCall(caller) ==
    /\ caller = roles.owner
    /\ adminCalls < MaxAdminCalls
    /\ adminCalls' = adminCalls + 1
    /\ UNCHANGED <<stakers, totalStaked, acc, pool, balance, now, deposits, edge, syncs, locked>>

\* A slip the checks must notice: the cap of the current epoch starts anew.
SetParamsResetCap(caller, p) ==
    /\ OwnerCall(caller)
    /\ params' = p
    /\ epoch' = [epoch EXCEPT !.capLeft = p.epochCap, !.lifted = @ \/ p.epochCap = 0]
    /\ shortened' = (shortened \/ p.cooldown < params.cooldown)
    /\ UNCHANGED <<paused, maxStake, roles>>

\* The cap of the current epoch stays as it is; lifted and shortened are history:
\* without a cap in params nothing binds for the rest of the epoch.
SetParams(caller, p) ==
    /\ OwnerCall(caller)
    /\ params' = p
    /\ epoch' = [epoch EXCEPT !.lifted = @ \/ p.epochCap = 0]
    /\ shortened' = (shortened \/ p.cooldown < params.cooldown)
    /\ UNCHANGED <<paused, maxStake, roles>>

SetPaused(caller, p) ==
    /\ OwnerCall(caller)
    /\ paused' = p
    /\ UNCHANGED <<params, epoch, maxStake, roles, shortened>>

SetMaxStakePerDeposit(caller, cap) ==
    /\ OwnerCall(caller)
    /\ cap = 0 \/ cap >= maxStake
    /\ maxStake' = cap
    /\ UNCHANGED <<params, epoch, paused, roles, shortened>>

SetOperator(caller, op, approved) ==
    /\ OwnerCall(caller)
    /\ roles' = [roles EXCEPT !.operators = IF approved THEN @ \cup {op} ELSE @ \ {op}]
    /\ UNCHANGED <<params, epoch, paused, maxStake, shortened>>

TransferOwnership(caller, a) ==
    /\ OwnerCall(caller)
    /\ roles' = [roles EXCEPT !.pendingOwner = a]
    /\ UNCHANGED <<params, epoch, paused, maxStake, shortened>>

AcceptOwnership(caller) ==
    /\ caller = roles.pendingOwner
    /\ roles' = [roles EXCEPT !.owner = caller, !.pendingOwner = NoOne]
    /\ UNCHANGED <<stakers, totalStaked, acc, pool, balance, epoch, params, paused, maxStake,
                   shortened, now, adminCalls, deposits, edge, syncs, locked>>

Configure ==
    \E caller \in Governors :
        \/ \E p \in ParamSets : SetParams(caller, p)
        \/ \E p \in BOOLEAN : SetPaused(caller, p)
        \/ \E cap \in Caps : SetMaxStakePerDeposit(caller, cap)
        \/ \E a \in Governors :
              \/ \E approved \in BOOLEAN : SetOperator(caller, a, approved)
              \/ TransferOwnership(caller, a)
        \/ AcceptOwnership(caller)

Tick ==
    /\ now < MaxTime
    /\ now' = now + 1
    /\ UNCHANGED <<stakers, totalStaked, acc, pool, balance, epoch, params, govern,
                   adminCalls, deposits, edge, syncs, locked>>

Next ==
    \/ \E w \in Wallets :
          \/ \E amount \in Stakes : Stake(w, amount) \/ RequestUnstake(w, amount)
          \/ Unstake(w)
          \/ \E a \in Assets : ClaimYield(w, a)
          \/ \E caller \in Governors, amount \in Mints : ConsumeAllowance(caller, w, amount)
    \/ \E caller \in Governors, a \in Assets, amount \in Yields : DepositYield(caller, a, amount)
    \/ AdvanceEpoch
    \/ Configure
    \/ Tick

Spec == Init /\ [][Next]_vars

-----------------------------------------------------------------------------
(* Properties *)

StakerType ==
    [staked : Nat, pending : Nat, availableAt : Nat, debt : [Assets -> Nat],
     used : Nat, lastEpoch : Nat, newStake : Nat, newStakeEpoch : Nat, bonusAt : Nat]

\* Every storage slot holds a value of its Solidity type; in particular no
\* stake, balance or cap is taken below zero.
TypeOK ==
    /\ stakers \in [Wallets -> StakerType]
    /\ totalStaked \in Nat
    /\ acc \in [Assets -> Nat] /\ pool \in [Assets -> Nat] /\ balance \in [Assets -> Nat]
    /\ epoch \in [n : Nat, start : Nat, capLeft : Nat, cap : Nat, lifted : BOOLEAN]
    /\ params \in ParamType
    /\ paused \in BOOLEAN /\ maxStake \in Nat
    /\ roles \in [owner : Governors, pendingOwner : Governors \cup {NoOne},
                  operators : SUBSET Governors]
    /\ {now, adminCalls, deposits} \subseteq Nat
    /\ edge \in [Wallets -> [Assets -> Int]]
    /\ syncs \in [Wallets -> Nat] /\ locked \in [Wallets -> Nat] /\ shortened \in BOOLEAN

Principal(a) ==
    IF a = "intel" THEN SumOf([w \in Wallets |-> stakers[w].staked + stakers[w].pending])
                   ELSE 0

\* The contract can pay every stake, every pending unstake, every claim and the
\* undistributed pool, short of at most one unit for each time a debt was set
\* anew: stake and requestUnstake round the debt down, so a wallet may be paid
\* a fraction it did not earn, from the stakes of the others.
SolventUpToDust ==
    /\ totalStaked = SumOf([w \in Wallets |-> stakers[w].staked])
    /\ \A a \in Assets :
          balance[a] + SumOf(syncs) >=
              Principal(a) + pool[a] + SumOf([w \in Wallets |-> Claim(Books, w, a)])

\* No wallet is paid, or may claim, more than its part of what was distributed
\* while it was staked, and one unit for each time its debts were set anew: a
\* late staker gets nothing of earlier yield, an early unstaker keeps earning
\* on the rest only.
NoOneTakesAnothersYield ==
    \A w \in Wallets, a \in Assets :
        edge[w][a] + Scale * Claim(Books, w, a) <= Scale * syncs[w]

\* All wallets together never consume more in an epoch than its cap, whatever
\* the owner sets in the middle of it (the "H4 fix" of setParams), unless he
\* lifts the cap altogether by setting it to 0, which takes effect at once.
EpochCapHolds ==
    ~epoch.lifted => SumOf([w \in Wallets |-> UsedInEpoch(w)]) + epoch.capLeft = epoch.cap

\* Everything a wallet withdraws has waited its own cooldown: a request never
\* rides on the clock of an earlier one, unless the owner once shortened the
\* cooldown.
CooldownKept ==
    [][\A w \in Wallets :
          stakers[w].pending > 0 /\ stakers'[w].pending = 0 /\ ~shortened
             => now >= locked[w]]_vars
=============================================================================
