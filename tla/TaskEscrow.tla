---------------------------- MODULE TaskEscrow ----------------------------
(***************************************************************************)
(* TaskEscrow.sol: INTEL held per task, released by an operator (or, after *)
(* the auto-release window, by anyone) in three shares, or refunded to the *)
(* funder.  One action per external function; a call that reverts is no    *)
(* step.  The INTEL token is its balances (while it is paused every call   *)
(* that moves INTEL reverts, so is no step); IntelStaking is the account   *)
(* STAKING, whose depositYield either takes the staker share or reverts    *)
(* (paused, escrow not an operator, zero share).                           *)
(***************************************************************************)
EXTENDS Integers, FiniteSetsExt

CONSTANTS
    Tasks,              \* task ids
    Wallets,            \* externally owned accounts, the callers
    NoOne,              \* address(0)
    THIS, STAKING,      \* the two contracts' own INTEL accounts
    Deployer, Treasury, \* the constructor's msg.sender and _treasury
    Amounts,            \* amounts a funder may escrow
    Purse,              \* INTEL each wallet starts with
    Splits,             \* the splits the owner may try to set
    Windows,            \* the windows the owner may try to set
    RefundWindow,       \* the constructor's 7 days
    AutoReleaseWindow,  \* the constructor's 30 days
    MinAutoWindow,      \* the least auto-release window, 7 days
    MaxTime,            \* bound on block.timestamp
    MaxAdminCalls       \* bound on the owner's configuration calls

BPS == 10000

SplitType == [worker : Nat, staker : Nat, treasury : Nat]

DefaultSplit == [worker |-> 8100, staker |-> 900, treasury |-> 1000]

ASSUME AccountsAssumption ==
    /\ NoOne \notin Wallets
    /\ {THIS, STAKING} \cap Wallets = {}
    /\ THIS # STAKING
    /\ {Deployer, Treasury} \subseteq Wallets
    /\ Tasks # {} /\ IsFiniteSet(Tasks)

ASSUME NumbersAssumption ==
    /\ Amounts \subseteq Nat
    /\ Purse \in Nat
    /\ Splits \subseteq SplitType
    /\ Windows \subseteq Nat
    /\ {RefundWindow, AutoReleaseWindow, MinAutoWindow} \subseteq Nat
    /\ {MaxTime, MaxAdminCalls} \subseteq Nat

VARIABLES
    tasks,         \* the tasks mapping, with the split snapshot of each task
    payout,        \* the shares of TaskReleased / the amount of TaskRefunded
    balance,       \* INTEL balances
    split,         \* workerBps, stakerBps, treasuryBps
    treasury,
    operators,
    owner, pendingOwner,
    refundWindow, autoReleaseWindow,
    now,           \* block.timestamp
    adminCalls     \* configuration calls made, for the bound

config == <<split, treasury, operators, owner, pendingOwner,
            refundWindow, autoReleaseWindow>>
escrowVars == <<tasks, payout, balance, config, now, adminCalls>>

Accounts == Wallets \cup {THIS, STAKING}

EmptyTask ==
    [state |-> "Empty", funder |-> NoOne, worker |-> NoOne, amount |-> 0,
     fundedAt |-> 0, split |-> [worker |-> 0, staker |-> 0, treasury |-> 0]]

NoPayout == [worker |-> 0, staker |-> 0, treasury |-> 0, funder |-> 0]

EscrowInit ==
    /\ tasks = [t \in Tasks |-> EmptyTask]
    /\ payout = [t \in Tasks |-> NoPayout]
    /\ balance = [a \in Accounts |-> IF a \in Wallets THEN Purse ELSE 0]
    /\ split = DefaultSplit
    /\ treasury = Treasury
    /\ operators = {}
    /\ owner = Deployer
    /\ pendingOwner = NoOne
    /\ refundWindow = RefundWindow
    /\ autoReleaseWindow = AutoReleaseWindow
    /\ now = 0
    /\ adminCalls = 0

-----------------------------------------------------------------------------
(* Helpers *)

Transfer(b, from, to, amount) ==
    [b EXCEPT ![from] = @ - amount, ![to] = @ + amount]

Funded(t) == tasks[t].state = "Funded"

IsOperator(caller) == caller \in operators \/ caller = owner

\* the floor of the amount's share, in basis points
Share(amount, bps) == (amount * bps) \div BPS

\* Slips in the shares that the checks must notice: the staker share of a
\* failed deposit is kept, the treasury share is rounded too, the split in
\* force today is used.
StrandedShares(task, deposited) ==
    LET worker == Share(task.amount, task.split.worker)
        staker == Share(task.amount, task.split.staker)
    IN  [worker |-> worker, staker |-> IF deposited THEN staker ELSE 0,
         treasury |-> task.amount - worker - staker, funder |-> 0]

RoundedShares(task, deposited) ==
    LET worker == Share(task.amount, task.split.worker)
    IN  [worker   |-> worker,
         staker   |-> IF deposited THEN Share(task.amount, task.split.staker) ELSE 0,
         treasury |-> IF deposited THEN Share(task.amount, task.split.treasury)
                                   ELSE task.amount - worker,
         funder   |-> 0]

SharesOfToday(task, deposited) ==
    LET worker == Share(task.amount, split.worker)
        staker == IF deposited THEN Share(task.amount, split.staker) ELSE 0
    IN  [worker |-> worker, staker |-> staker,
         treasury |-> task.amount - worker - staker, funder |-> 0]

Shares(task, deposited) ==
    LET worker == Share(task.amount, task.split.worker)
        staker == Share(task.amount, task.split.staker)
    IN  [worker   |-> worker,
         staker   |-> IF deposited THEN staker ELSE 0,
         treasury |-> IF deposited THEN task.amount - worker - staker
                                   ELSE task.amount - worker,
         funder   |-> 0]

-----------------------------------------------------------------------------
(* Funding and worker assignment *)

\* A slip the checks must notice: the funder's balance is not looked at.
FundOnCredit(caller, t, amount) ==
    /\ amount > 0
    /\ tasks[t].state = "Empty"
    /\ balance' = Transfer(balance, caller, THIS, amount)
    /\ tasks' = [tasks EXCEPT ![t] =
                    [state |-> "Funded", funder |-> caller, worker |-> NoOne,
                     amount |-> amount, fundedAt |-> now, split |-> split]]
    /\ UNCHANGED <<payout, config, now, adminCalls>>

FundTask(caller, t, amount) ==
    /\ amount > 0
    /\ tasks[t].state = "Empty"
    /\ balance[caller] >= amount
    /\ balance' = Transfer(balance, caller, THIS, amount)
    /\ tasks' = [tasks EXCEPT ![t] =
                    [state |-> "Funded", funder |-> caller, worker |-> NoOne,
                     amount |-> amount, fundedAt |-> now, split |-> split]]
    /\ UNCHANGED <<payout, config, now, adminCalls>>

SetWorker(caller, t, worker) ==
    /\ IsOperator(caller)
    /\ Funded(t)
    /\ tasks[t].worker = NoOne
    /\ tasks' = [tasks EXCEPT ![t].worker = worker]
    /\ UNCHANGED <<payout, balance, config, now, adminCalls>>

ClearWorker(caller, t) ==
    /\ IsOperator(caller)
    /\ Funded(t)
    /\ tasks' = [tasks EXCEPT ![t].worker = NoOne]
    /\ UNCHANGED <<payout, balance, config, now, adminCalls>>

-----------------------------------------------------------------------------
(* The two ways out *)

ReleaseTask(t, worker, deposited) ==
    LET s == Shares(tasks[t], deposited) IN
    /\ Shares(tasks[t], TRUE).treasury >= 0  \* checked subtraction, before depositYield
    /\ balance[THIS] >= s.worker + s.staker + s.treasury
    /\ balance' = Transfer(Transfer(Transfer(balance,
                      THIS, worker, s.worker),
                      THIS, STAKING, s.staker),
                      THIS, treasury, s.treasury)
    /\ payout' = [payout EXCEPT ![t] = s]
    /\ tasks' = [tasks EXCEPT ![t].state = "Released"]
    /\ UNCHANGED <<config, now, adminCalls>>

Release(caller, t, worker, deposited) ==
    /\ IsOperator(caller)
    /\ Funded(t)
    /\ tasks[t].worker \in {NoOne, worker}
    /\ ReleaseTask(t, worker, deposited)

\* A slip the checks must notice: a task that has left is released again.
AutoReleaseAgain(t, worker, deposited) ==
    /\ tasks[t].worker # NoOne
    /\ now >= tasks[t].fundedAt + autoReleaseWindow
    /\ ReleaseTask(t, worker, deposited)

AutoRelease(t, worker, deposited) ==
    /\ Funded(t)
    /\ tasks[t].worker # NoOne
    /\ now >= tasks[t].fundedAt + autoReleaseWindow
    /\ ReleaseTask(t, worker, deposited)

\* A slip the checks must notice: the refund sends the whole balance.
RefundEverything(caller, t) ==
    /\ Funded(t)
    /\ \/ caller = owner
       \/ now >= tasks[t].fundedAt + refundWindow
    /\ balance' = Transfer(balance, THIS, tasks[t].funder, balance[THIS])
    /\ payout' = [payout EXCEPT ![t].funder = tasks[t].amount]
    /\ tasks' = [tasks EXCEPT ![t].state = "Refunded"]
    /\ UNCHANGED <<config, now, adminCalls>>

Refund(caller, t) ==
    /\ Funded(t)
    /\ \/ caller = owner
       \/ now >= tasks[t].fundedAt + refundWindow
    /\ balance[THIS] >= tasks[t].amount
    /\ balance' = Transfer(balance, THIS, tasks[t].funder, tasks[t].amount)
    /\ payout' = [payout EXCEPT ![t].funder = tasks[t].amount]
    /\ tasks' = [tasks EXCEPT ![t].state = "Refunded"]
    /\ UNCHANGED <<config, now, adminCalls>>

-----------------------------------------------------------------------------
(* Configuration, by the owner; two-step ownership *)

OwnerCall(caller) ==
    /\ caller = owner
    /\ adminCalls < MaxAdminCalls
    /\ adminCalls' = adminCalls + 1
    /\ UNCHANGED <<tasks, payout, balance, now>>

\* A slip the checks must notice: the parts need not make the whole.
SetAnySplit(caller, s) ==
    /\ OwnerCall(caller)
    /\ split' = s
    /\ UNCHANGED <<treasury, operators, owner, pendingOwner, refundWindow, autoReleaseWindow>>

SetSplitBps(caller, s) ==
    /\ OwnerCall(caller)
    /\ s.worker + s.staker + s.treasury = BPS
    /\ split' = s
    /\ UNCHANGED <<treasury, operators, owner, pendingOwner, refundWindow, autoReleaseWindow>>

SetTreasury(caller, a) ==
    /\ OwnerCall(caller)
    /\ treasury' = a
    /\ UNCHANGED <<split, operators, owner, pendingOwner, refundWindow, autoReleaseWindow>>

SetOperator(caller, op, approved) ==
    /\ OwnerCall(caller)
    /\ operators' = IF approved THEN operators \cup {op} ELSE operators \ {op}
    /\ UNCHANGED <<split, treasury, owner, pendingOwner, refundWindow, autoReleaseWindow>>

SetRefundWindow(caller, w) ==
    /\ OwnerCall(caller)
    /\ refundWindow' = w
    /\ UNCHANGED <<split, treasury, operators, owner, pendingOwner, autoReleaseWindow>>

SetTaskAutoReleaseWindow(caller, w) ==
    /\ OwnerCall(caller)
    /\ w >= MinAutoWindow
    /\ autoReleaseWindow' = w
    /\ UNCHANGED <<split, treasury, operators, owner, pendingOwner, refundWindow>>

TransferOwnership(caller, newOwner) ==
    /\ OwnerCall(caller)
    /\ pendingOwner' = newOwner
    /\ UNCHANGED <<split, treasury, operators, owner, refundWindow, autoReleaseWindow>>

AcceptOwnership(caller) ==
    /\ caller = pendingOwner
    /\ owner' = caller
    /\ pendingOwner' = NoOne
    /\ UNCHANGED <<tasks, payout, balance, now, adminCalls,
                   split, treasury, operators, refundWindow, autoReleaseWindow>>

Configure ==
    \E caller \in Wallets :
        \/ \E s \in Splits : SetSplitBps(caller, s)
        \/ \E a \in Wallets : SetTreasury(caller, a)
        \/ \E op \in Wallets, approved \in BOOLEAN : SetOperator(caller, op, approved)
        \/ \E w \in Windows : SetRefundWindow(caller, w)
        \/ \E w \in Windows : SetTaskAutoReleaseWindow(caller, w)
        \/ \E newOwner \in Wallets : TransferOwnership(caller, newOwner)
        \/ AcceptOwnership(caller)

Tick ==
    /\ now < MaxTime
    /\ now' = now + 1
    /\ UNCHANGED <<tasks, payout, balance, config, adminCalls>>

EscrowNext ==
    \/ \E t \in Tasks, caller \in Wallets :
          \/ \E amount \in Amounts : FundTask(caller, t, amount)
          \/ \E worker \in Wallets : SetWorker(caller, t, worker)
          \/ ClearWorker(caller, t)
          \/ \E worker \in Wallets, deposited \in BOOLEAN :
                Release(caller, t, worker, deposited)
          \/ Refund(caller, t)
    \/ \E t \in Tasks, worker \in Wallets, deposited \in BOOLEAN :
          AutoRelease(t, worker, deposited)
    \/ Configure
    \/ Tick

EscrowSpec == EscrowInit /\ [][EscrowNext]_escrowVars

-----------------------------------------------------------------------------
(* Properties *)

TaskType ==
    [state : {"Empty", "Funded", "Released", "Refunded"},
     funder : Wallets \cup {NoOne}, worker : Wallets \cup {NoOne},
     amount : Nat, fundedAt : Nat, split : SplitType]

\* Every storage slot holds a value of its Solidity type; in particular the
\* escrow's unsigned balance is never asked to go below zero.
EscrowTypeOK ==
    /\ tasks \in [Tasks -> TaskType]
    /\ payout \in [Tasks -> [worker : Nat, staker : Nat, treasury : Nat, funder : Nat]]
    /\ balance \in [Accounts -> Nat]
    /\ split \in SplitType
    /\ treasury \in Wallets
    /\ operators \subseteq Wallets
    /\ owner \in Wallets
    /\ pendingOwner \in Wallets \cup {NoOne}
    /\ refundWindow \in Nat /\ autoReleaseWindow \in Nat
    /\ now \in Nat /\ adminCalls \in Nat

Held(t) == IF Funded(t) THEN tasks[t].amount ELSE 0

\* The escrow's INTEL is exactly what its funded tasks are owed: no release,
\* refund, rounding or failed yield deposit leaves a surplus behind or spends
\* the escrow of another task (fundTask, _releaseTask, refund).
Solvency == balance[THIS] = SumFunctionOnSet([t \in Tasks |-> Held(t)], Tasks)

\* The step form of Solvency: no step touches the money of two tasks, and the escrow's INTEL moves by what the one task's does.
OneTaskPaysOrReceives ==
    [][\E t \in Tasks :
          /\ balance'[THIS] - balance[THIS] = Held(t)' - Held(t)
          /\ \A u \in Tasks \ {t} : Held(u)' = Held(u)]_escrowVars

PaidOut(t) == payout[t].worker + payout[t].staker + payout[t].treasury + payout[t].funder

\* A task pays out its whole amount, once: nothing while it is empty or
\* funded, all of it after the release or the refund, whatever the rounding of
\* the shares and the outcome of depositYield (_releaseTask, refund).
PaidInFull ==
    \A t \in Tasks :
        PaidOut(t) = IF tasks[t].state \in {"Released", "Refunded"}
                     THEN tasks[t].amount ELSE 0

\* A worker is paid the share that was in force when the task was funded, and
\* the stakers never more than theirs, although the owner may have changed the
\* split in between (the snapshot of fundTask, "H1 fix").
SplitFixedAtFunding ==
    \A t \in Tasks :
        tasks[t].state = "Released" =>
            /\ payout[t].worker = Share(tasks[t].amount, tasks[t].split.worker)
            /\ payout[t].staker \in {0, Share(tasks[t].amount, tasks[t].split.staker)}

\* A funded task can always be released to some worker by the owner, as long as
\* INTEL itself is not paused, even while every depositYield reverts (the
\* try/catch of _releaseTask, "C1 fix").
NeverLocked ==
    \A t \in Tasks :
        Funded(t) => ENABLED (\E worker \in Wallets : Release(owner, t, worker, FALSE))

\* What ties a task to its payout in each state of its life; with EscrowTypeOK the
\* inductive invariant of the proofs.
AddsUp(s) == s.worker + s.staker + s.treasury = BPS

LifeOfTask(t) ==
    /\ tasks[t].state = "Empty" => tasks[t].amount = 0
    /\ tasks[t].state # "Empty" =>
          tasks[t].funder \in Wallets /\ AddsUp(tasks[t].split)
    /\ tasks[t].state \in {"Empty", "Funded"} => payout[t] = NoPayout
    /\ tasks[t].state = "Released" =>
          \E deposited \in BOOLEAN : payout[t] = Shares(tasks[t], deposited)
    /\ tasks[t].state = "Refunded" =>
          payout[t] = [NoPayout EXCEPT !.funder = tasks[t].amount]

LifeInv ==
    /\ EscrowTypeOK
    /\ AddsUp(split)
    /\ \A t \in Tasks : LifeOfTask(t)

-----------------------------------------------------------------------------
(* TaskEscrow implements OneShotEscrow *)

FateOf == [Empty |-> "none", Funded |-> "held", Released |-> "paid", Refunded |-> "returned"]

Fate == [t \in Tasks |-> FateOf[tasks[t].state]]

Promise == INSTANCE OneShotEscrow
              WITH Deposits <- Tasks,
                   Values   <- Amounts,
                   fate     <- Fate,
                   worth    <- [t \in Tasks |-> tasks[t].amount],
                   out      <- [t \in Tasks |-> PaidOut(t)]

\* Every deposit is taken once and leaves once, in full.
KeepsPromise == Promise!Spec
=============================================================================
