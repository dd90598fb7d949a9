------------------------ MODULE JobPayment_proofs -------------------------
(***************************************************************************)
(* Theorems about the life of a job and about the escrow contract that     *)
(* pays for one, for all values of their constants.                        *)
(*                                                                         *)
(* TaskEscrow.  LifeInv is inductive (InitLife, StepShape); it implies     *)
(* EscrowTypeOK, PaidInFull and SplitFixedAtFunding.  StepShape also says  *)
(* what a step may do to the escrow's money, from which solvency and the   *)
(* implementation of OneShotEscrow follow.                                 *)
(*                                                                         *)
(* JobLifecycle, for any number of requests that may overlap or be lost in *)
(* a crash.  Inv is inductive (InitInv, StepInv).  It says what each       *)
(* process has in its hands: the row it read may be stale, but a claim     *)
(* keeps its job and its worker, submissions are only added, and a claim   *)
(* that a process has yet to write into its job is known to nobody else    *)
(* (OnlyTaker).  A process that a throw or a restart stops leaves what it  *)
(* has written, and its claim in cut if that is only half of it.           *)
(***************************************************************************)
EXTENDS TaskEscrow, JobLifecycle, SumTheorems

-----------------------------------------------------------------------------
(* Arithmetic of the shares *)

\* A share rounded down, times BPS, is no more than what was divided.
LEMMA FloorBound ==
    ASSUME NEW n \in Nat
    PROVE  /\ n \div 10000 \in Nat
           /\ 10000 * (n \div 10000) <= n
  OBVIOUS

\* Two shares of an amount whose basis points fit in BPS fit in the amount.
LEMMA SharesFit ==
    ASSUME NEW amount \in Nat, NEW a \in Nat, NEW b \in Nat, a + b <= BPS
    PROVE  /\ Share(amount, a) \in Nat
           /\ Share(amount, b) \in Nat
           /\ Share(amount, a) + Share(amount, b) <= amount
<1>1. amount * a \in Nat /\ amount * b \in Nat
  OBVIOUS
<1>2. /\ Share(amount, a) \in Nat
      /\ 10000 * Share(amount, a) <= amount * a
      /\ Share(amount, b) \in Nat
      /\ 10000 * Share(amount, b) <= amount * b
  BY <1>1, FloorBound DEF Share, BPS
<1>3. amount * a + amount * b <= amount * 10000
  <2>1. amount * a + amount * b = amount * (a + b)
    OBVIOUS
  <2>2. amount * (a + b) <= amount * 10000
    BY DEF BPS
  <2> QED BY <2>1, <2>2
<1> QED
  BY <1>1, <1>2, <1>3

\* The three shares of a released task are its amount, whether or not the
\* stakers' share could be deposited.
LEMMA SharesMakeTheAmount ==
    ASSUME NEW task \in TaskType, AddsUp(task.split), NEW d \in BOOLEAN
    PROVE  LET s == Shares(task, d) IN
           /\ s \in [worker : Nat, staker : Nat, treasury : Nat, funder : Nat]
           /\ s.worker + s.staker + s.treasury = task.amount
           /\ s.funder = 0
           /\ s.worker = Share(task.amount, task.split.worker)
           /\ s.staker \in {0, Share(task.amount, task.split.staker)}
<1> DEFINE w == Share(task.amount, task.split.worker)
           k == Share(task.amount, task.split.staker)
<1>1. /\ task.amount \in Nat
      /\ task.split.worker \in Nat
      /\ task.split.staker \in Nat
      /\ task.split.worker + task.split.staker <= BPS
  BY DEF TaskType, SplitType, AddsUp, BPS
<1>2. w \in Nat /\ k \in Nat /\ w + k <= task.amount
  BY <1>1, SharesFit
<1> HIDE DEF w, k
<1>3. Shares(task, d) = [worker |-> w, staker |-> IF d THEN k ELSE 0,
                         treasury |-> IF d THEN task.amount - w - k
                                           ELSE task.amount - w,
                         funder |-> 0]
  BY DEF Shares, w, k
<1>4. CASE d
  BY <1>1, <1>2, <1>3, <1>4 DEF w, k
<1>5. CASE ~d
  BY <1>1, <1>2, <1>3, <1>5 DEF w, k
<1> QED
  BY <1>4, <1>5

\* A transfer the sender can afford leaves natural balances, and lowers the
\* sender's by the amount.
LEMMA TransferMoves ==
    ASSUME NEW b \in [Accounts -> Nat], NEW from \in Accounts,
           NEW to \in Accounts, NEW amount \in Nat, b[from] >= amount
    PROVE  /\ Transfer(b, from, to, amount) \in [Accounts -> Nat]
           /\ from # to =>
                /\ Transfer(b, from, to, amount)[from] = b[from] - amount
                /\ Transfer(b, from, to, amount)[to] = b[to] + amount
  BY DEF Transfer

\* The accounts of the two contracts are no wallets, and are not each other's.
LEMMA AccountsDiffer ==
    /\ THIS \in Accounts /\ STAKING \in Accounts /\ Wallets \subseteq Accounts
    /\ THIS # STAKING
    /\ \A a \in Wallets : a # THIS /\ a # NoOne
  BY AccountsAssumption DEF Accounts

-----------------------------------------------------------------------------
(* The inductive invariant *)

\* The constructor establishes the invariant.
LEMMA InitLife == EscrowInit => LifeInv
<1> SUFFICES ASSUME EscrowInit PROVE LifeInv
  OBVIOUS
<1>1. EscrowTypeOK
  BY AccountsAssumption, NumbersAssumption
  DEF EscrowInit, EscrowTypeOK, TaskType, SplitType, EmptyTask, NoPayout, DefaultSplit, Accounts
<1>2. AddsUp(split)
  BY DEF EscrowInit, DefaultSplit, AddsUp, BPS
<1>3. \A t \in Tasks : LifeOfTask(t)
  BY DEF EscrowInit, LifeOfTask, EmptyTask, NoPayout
<1> QED
  BY <1>1, <1>2, <1>3 DEF LifeInv

\* A release spends exactly the task's amount, out of the escrow's account.
LEMMA ReleaseSpends ==
    ASSUME EscrowTypeOK, NEW t \in Tasks, NEW worker \in Wallets, NEW d \in BOOLEAN,
           AddsUp(tasks[t].split), ReleaseTask(t, worker, d)
    PROVE  /\ balance' \in [Accounts -> Nat]
           /\ balance'[THIS] = balance[THIS] - tasks[t].amount
           /\ payout'[t] \in [worker : Nat, staker : Nat, treasury : Nat, funder : Nat]
<1> DEFINE s == Shares(tasks[t], d)
           b1 == Transfer(balance, THIS, worker, s.worker)
           b2 == Transfer(b1, THIS, STAKING, s.staker)
           b3 == Transfer(b2, THIS, treasury, s.treasury)
<1>1. /\ s \in [worker : Nat, staker : Nat, treasury : Nat, funder : Nat]
      /\ s.worker + s.staker + s.treasury = tasks[t].amount
      /\ tasks[t].amount \in Nat
  BY SharesMakeTheAmount DEF EscrowTypeOK, TaskType
<1>2. /\ balance[THIS] >= s.worker + s.staker + s.treasury
      /\ balance' = b3
      /\ payout' = [payout EXCEPT ![t] = s]
  BY DEF ReleaseTask
<1>3. balance \in [Accounts -> Nat] /\ treasury \in Wallets /\ DOMAIN payout = Tasks
  BY DEF EscrowTypeOK
<1> HIDE DEF s
<1>4. s.worker \in Nat /\ s.staker \in Nat /\ s.treasury \in Nat
  BY <1>1
<1>5. b1 \in [Accounts -> Nat] /\ b1[THIS] = balance[THIS] - s.worker
  BY <1>2, <1>3, <1>4, AccountsDiffer, TransferMoves
<1> HIDE DEF b1
<1>6. b2 \in [Accounts -> Nat] /\ b2[THIS] = b1[THIS] - s.staker
  <2>1. b1[THIS] >= s.staker
    BY <1>2, <1>3, <1>4, <1>5, AccountsDiffer
  <2> QED BY <1>3, <1>4, <1>5, <2>1, AccountsDiffer, TransferMoves
<1> HIDE DEF b2
<1>7. b3 \in [Accounts -> Nat] /\ b3[THIS] = b2[THIS] - s.treasury
  <2>1. b2[THIS] >= s.treasury
    BY <1>2, <1>3, <1>4, <1>5, <1>6, AccountsDiffer
  <2> QED BY <1>3, <1>4, <1>6, <2>1, AccountsDiffer, TransferMoves
<1>8. balance'[THIS] = balance[THIS] - tasks[t].amount
  BY <1>1, <1>2, <1>3, <1>4, <1>5, <1>6, <1>7, AccountsDiffer
<1> QED
  BY <1>1, <1>2, <1>3, <1>7, <1>8

\* What a step that changes one task leaves of the others' lives.
LEMMA LifeOfOthers ==
    ASSUME NEW t \in Tasks, NEW u \in Tasks, LifeOfTask(u),
           tasks'[u] = tasks[u], payout'[u] = payout[u]
    PROVE  LifeOfTask(u)'
  BY DEF LifeOfTask, AddsUp

\* release and autoRelease keep the invariant.
LEMMA ReleaseKeepsLife ==
    ASSUME LifeInv, NEW t \in Tasks, NEW worker \in Wallets, NEW d \in BOOLEAN,
           Funded(t), ReleaseTask(t, worker, d)
    PROVE  LifeInv'
<1>1. AddsUp(tasks[t].split)
  BY DEF LifeInv, LifeOfTask, Funded
<1>2. /\ balance' \in [Accounts -> Nat]
      /\ payout'[t] \in [worker : Nat, staker : Nat, treasury : Nat, funder : Nat]
  BY <1>1, ReleaseSpends DEF LifeInv
<1>3. /\ payout' = [payout EXCEPT ![t] = Shares(tasks[t], d)]
      /\ tasks' = [tasks EXCEPT ![t].state = "Released"]
      /\ UNCHANGED <<config, now, adminCalls>>
  BY DEF ReleaseTask
<1>4. /\ tasks'[t] \in TaskType /\ tasks'[t].state = "Released"
      /\ tasks'[t].amount = tasks[t].amount /\ tasks'[t].split = tasks[t].split
      /\ tasks'[t].funder = tasks[t].funder /\ tasks[t].funder \in Wallets
  BY <1>3 DEF LifeInv, EscrowTypeOK, TaskType, LifeOfTask, Funded
<1>5. EscrowTypeOK'
  BY <1>2, <1>3, <1>4 DEF LifeInv, EscrowTypeOK, config
<1>6. LifeOfTask(t)'
  BY <1>1, <1>3, <1>4 DEF LifeInv, EscrowTypeOK, LifeOfTask, Shares, AddsUp
<1>7. \A u \in Tasks \ {t} : LifeOfTask(u)'
  BY <1>3, LifeOfOthers DEF LifeInv, EscrowTypeOK
<1> QED
  BY <1>3, <1>5, <1>6, <1>7 DEF LifeInv, AddsUp, config

\* refund keeps the invariant and spends exactly the task's amount.
LEMMA RefundKeepsLife ==
    ASSUME LifeInv, NEW t \in Tasks, NEW caller \in Wallets, Refund(caller, t)
    PROVE  /\ LifeInv'
           /\ balance'[THIS] = balance[THIS] - tasks[t].amount
<1>1. /\ tasks[t] \in TaskType /\ balance \in [Accounts -> Nat]
      /\ payout[t] = NoPayout /\ AddsUp(tasks[t].split)
  BY DEF LifeInv, EscrowTypeOK, LifeOfTask, Refund, Funded
<1>2. /\ balance' = Transfer(balance, THIS, tasks[t].funder, tasks[t].amount)
      /\ balance[THIS] >= tasks[t].amount
      /\ payout' = [payout EXCEPT ![t].funder = tasks[t].amount]
      /\ tasks' = [tasks EXCEPT ![t].state = "Refunded"]
      /\ UNCHANGED <<config, now, adminCalls>>
  BY DEF Refund
<1>3. tasks[t].funder \in Wallets
  BY DEF LifeInv, LifeOfTask, Refund, Funded
<1>4. /\ balance' \in [Accounts -> Nat]
      /\ balance'[THIS] = balance[THIS] - tasks[t].amount
  BY <1>1, <1>2, <1>3, AccountsDiffer, TransferMoves DEF TaskType
<1>5. /\ tasks'[t] \in TaskType /\ tasks'[t].state = "Refunded"
      /\ tasks'[t].amount = tasks[t].amount /\ tasks'[t].split = tasks[t].split
      /\ payout'[t] = [NoPayout EXCEPT !.funder = tasks[t].amount]
      /\ payout'[t] \in [worker : Nat, staker : Nat, treasury : Nat, funder : Nat]
  BY <1>1, <1>2 DEF LifeInv, EscrowTypeOK, TaskType, NoPayout
<1>6. EscrowTypeOK'
  BY <1>2, <1>4, <1>5 DEF LifeInv, EscrowTypeOK, config
<1>7. LifeOfTask(t)'
  BY <1>1, <1>2, <1>3, <1>5 DEF LifeInv, EscrowTypeOK, LifeOfTask, AddsUp
<1>8. \A u \in Tasks \ {t} : LifeOfTask(u)'
  BY <1>2, LifeOfOthers DEF LifeInv, EscrowTypeOK
<1> QED
  BY <1>2, <1>4, <1>6, <1>7, <1>8 DEF LifeInv, AddsUp, config

\* fundTask keeps the invariant and takes in exactly the amount.
LEMMA FundTaskKeepsLife ==
    ASSUME LifeInv, NEW t \in Tasks, NEW caller \in Wallets, NEW amount \in Amounts,
           FundTask(caller, t, amount)
    PROVE  /\ LifeInv'
           /\ balance'[THIS] = balance[THIS] + amount
           /\ amount \in Nat
<1>1. amount \in Nat /\ balance \in [Accounts -> Nat] /\ caller \in Accounts
  BY NumbersAssumption, AccountsDiffer DEF LifeInv, EscrowTypeOK
<1>2. /\ balance[caller] >= amount
      /\ balance' = Transfer(balance, caller, THIS, amount)
      /\ tasks' = [tasks EXCEPT ![t] =
                    [state |-> "Funded", funder |-> caller, worker |-> NoOne,
                     amount |-> amount, fundedAt |-> now, split |-> split]]
      /\ UNCHANGED <<payout, config, now, adminCalls>>
      /\ tasks[t].state = "Empty"
  BY DEF FundTask
<1>3. /\ balance' \in [Accounts -> Nat]
      /\ balance'[THIS] = balance[THIS] + amount
  BY <1>1, <1>2, AccountsDiffer, TransferMoves
<1>4. /\ tasks'[t] \in TaskType /\ tasks'[t].state = "Funded"
      /\ tasks'[t].funder = caller /\ tasks'[t].split = split
  BY <1>1, <1>2 DEF LifeInv, EscrowTypeOK, TaskType
<1>5. EscrowTypeOK'
  BY <1>2, <1>3, <1>4 DEF LifeInv, EscrowTypeOK, config
<1>6. LifeOfTask(t)'
  BY <1>2, <1>4 DEF LifeInv, LifeOfTask, AddsUp
<1>7. \A u \in Tasks \ {t} : LifeOfTask(u)'
  BY <1>2, LifeOfOthers DEF LifeInv, EscrowTypeOK
<1> QED
  BY <1>1, <1>2, <1>3, <1>5, <1>6, <1>7 DEF LifeInv, AddsUp, config

\* setWorker and clearWorker touch only the worker of a funded task.
LEMMA AssignmentKeepsLife ==
    ASSUME LifeInv, NEW t \in Tasks, NEW w \in Wallets \cup {NoOne}, Funded(t),
           tasks' = [tasks EXCEPT ![t].worker = w],
           UNCHANGED <<payout, balance, config, now, adminCalls>>
    PROVE  LifeInv'
<1>1. /\ tasks'[t] \in TaskType /\ tasks'[t].state = "Funded"
      /\ tasks'[t].funder = tasks[t].funder /\ tasks'[t].split = tasks[t].split
  BY DEF LifeInv, EscrowTypeOK, TaskType, Funded
<1>2. EscrowTypeOK'
  BY <1>1 DEF LifeInv, EscrowTypeOK, config
<1>3. LifeOfTask(t)'
  BY <1>1 DEF LifeInv, LifeOfTask, AddsUp, Funded
<1>4. \A u \in Tasks \ {t} : LifeOfTask(u)'
  BY LifeOfOthers DEF LifeInv, EscrowTypeOK
<1> QED
  BY <1>2, <1>3, <1>4 DEF LifeInv, AddsUp, config

\* A step that leaves tasks and payouts alone has only types and split to keep.
LEMMA UntouchedTasksKeepLife ==
    ASSUME LifeInv, UNCHANGED <<tasks, payout>>, EscrowTypeOK', AddsUp(split)'
    PROVE  LifeInv'
  BY LifeOfOthers DEF LifeInv

\* The owner's calls keep the invariant and move no money.
LEMMA ConfigureKeepsLife ==
    ASSUME LifeInv, Configure
    PROVE  LifeInv' /\ UNCHANGED <<tasks, payout, balance>>
<1> PICK caller \in Wallets :
        \/ \E s \in Splits : SetSplitBps(caller, s)
        \/ \E a \in Wallets : SetTreasury(caller, a)
        \/ \E op \in Wallets, approved \in BOOLEAN : SetOperator(caller, op, approved)
        \/ \E w \in Windows : SetRefundWindow(caller, w)
        \/ \E w \in Windows : SetTaskAutoReleaseWindow(caller, w)
        \/ \E newOwner \in Wallets : TransferOwnership(caller, newOwner)
        \/ AcceptOwnership(caller)
  BY DEF Configure
<1> USE UntouchedTasksKeepLife, NumbersAssumption DEF LifeInv, EscrowTypeOK, OwnerCall
<1>1. CASE \E s \in Splits : SetSplitBps(caller, s)
  BY <1>1 DEF SetSplitBps, AddsUp
<1>2. CASE \E a \in Wallets : SetTreasury(caller, a)
  BY <1>2 DEF SetTreasury, AddsUp
<1>3. CASE \E op \in Wallets, approved \in BOOLEAN : SetOperator(caller, op, approved)
  BY <1>3 DEF SetOperator, AddsUp
<1>4. CASE \E w \in Windows : SetRefundWindow(caller, w)
  BY <1>4 DEF SetRefundWindow, AddsUp
<1>5. CASE \E w \in Windows : SetTaskAutoReleaseWindow(caller, w)
  BY <1>5 DEF SetTaskAutoReleaseWindow, AddsUp
<1>6. CASE \E newOwner \in Wallets : TransferOwnership(caller, newOwner)
  BY <1>6 DEF TransferOwnership, AddsUp
<1>7. CASE AcceptOwnership(caller)
  BY <1>7 DEF AcceptOwnership, AddsUp
<1> QED
  BY <1>1, <1>2, <1>3, <1>4, <1>5, <1>6, <1>7

-----------------------------------------------------------------------------
(* The shape of a step *)

Kept(t) ==
    /\ tasks'[t].state = tasks[t].state
    /\ tasks'[t].amount = tasks[t].amount
    /\ payout'[t] = payout[t]

Taken(t) ==
    /\ tasks[t].state = "Empty" /\ tasks'[t].state = "Funded"
    /\ tasks'[t].amount \in Amounts /\ tasks'[t].amount > 0
    /\ payout'[t] = payout[t]
    /\ balance'[THIS] = balance[THIS] + tasks'[t].amount

Left(t) ==
    /\ tasks[t].state = "Funded" /\ tasks'[t].state \in {"Released", "Refunded"}
    /\ tasks'[t].amount = tasks[t].amount
    /\ balance'[THIS] = balance[THIS] - tasks[t].amount

TasksStay == (\A t \in Tasks : Kept(t)) /\ balance'[THIS] = balance[THIS]

Moves(t) == (Taken(t) \/ Left(t)) /\ \A u \in Tasks \ {t} : Kept(u)

\* Every step keeps the invariant, and either moves no money of the escrow,
\* or takes or lets go the money of one task.
LEMMA StepShape ==
    ASSUME LifeInv, [EscrowNext]_escrowVars
    PROVE  LifeInv' /\ (TasksStay \/ \E t \in Tasks : Moves(t))
<1>1. CASE \E t \in Tasks, caller \in Wallets, amount \in Amounts :
              FundTask(caller, t, amount)
  <2> PICK t \in Tasks, caller \in Wallets, amount \in Amounts :
        FundTask(caller, t, amount)
    BY <1>1
  <2>1. LifeInv' /\ balance'[THIS] = balance[THIS] + amount /\ amount \in Nat
    BY FundTaskKeepsLife
  <2>2. Moves(t)
    BY <2>1 DEF FundTask, Moves, Taken, Kept, LifeInv, EscrowTypeOK
  <2> QED BY <2>1, <2>2
<1>2. CASE \E t \in Tasks, caller \in Wallets :
              ClearWorker(caller, t) \/ \E worker \in Wallets : SetWorker(caller, t, worker)
  <2> PICK t \in Tasks, w \in Wallets \cup {NoOne} :
        /\ Funded(t)
        /\ tasks' = [tasks EXCEPT ![t].worker = w]
        /\ UNCHANGED <<payout, balance, config, now, adminCalls>>
    BY <1>2 DEF SetWorker, ClearWorker
  <2>1. LifeInv'
    BY AssignmentKeepsLife
  <2>2. TasksStay
    BY DEF TasksStay, Kept, LifeInv, EscrowTypeOK, TaskType
  <2> QED BY <2>1, <2>2
<1>3. CASE \E t \in Tasks, worker \in Wallets, d \in BOOLEAN :
              Funded(t) /\ ReleaseTask(t, worker, d)
  <2> PICK t \in Tasks, worker \in Wallets, d \in BOOLEAN :
        Funded(t) /\ ReleaseTask(t, worker, d)
    BY <1>3
  <2>1. LifeInv'
    BY ReleaseKeepsLife
  <2>2. balance'[THIS] = balance[THIS] - tasks[t].amount
    BY ReleaseSpends DEF LifeInv, LifeOfTask, Funded
  <2>3. Moves(t)
    BY <2>2 DEF ReleaseTask, Funded, Moves, Left, Kept, LifeInv, EscrowTypeOK, TaskType
  <2> QED BY <2>1, <2>3
<1>4. CASE \E t \in Tasks, caller \in Wallets : Refund(caller, t)
  <2> PICK t \in Tasks, caller \in Wallets : Refund(caller, t)
    BY <1>4
  <2>1. LifeInv' /\ balance'[THIS] = balance[THIS] - tasks[t].amount
    BY RefundKeepsLife
  <2>2. Moves(t)
    BY <2>1 DEF Refund, Funded, Moves, Left, Kept, LifeInv, EscrowTypeOK, TaskType
  <2> QED BY <2>1, <2>2
<1>5. CASE Configure
  BY <1>5, ConfigureKeepsLife DEF TasksStay, Kept
<1>6. CASE Tick
  <2>1. UNCHANGED <<tasks, payout>> /\ EscrowTypeOK' /\ AddsUp(split)'
    BY <1>6 DEF Tick, LifeInv, EscrowTypeOK, config, AddsUp
  <2> QED BY <1>6, <2>1, UntouchedTasksKeepLife DEF TasksStay, Kept, Tick
<1>7. CASE UNCHANGED escrowVars
  <2>1. UNCHANGED <<tasks, payout, balance>> /\ EscrowTypeOK' /\ AddsUp(split)'
    BY <1>7 DEF escrowVars, LifeInv, EscrowTypeOK, config, AddsUp
  <2> QED BY <2>1, UntouchedTasksKeepLife DEF TasksStay, Kept
<1> QED
  BY <1>1, <1>2, <1>3, <1>4, <1>5, <1>6, <1>7 DEF EscrowNext, Release, AutoRelease

-----------------------------------------------------------------------------
(* The theorems *)

\* Along every behaviour each task's payout is the one its state calls for:
\* none before it is settled, the snapshot's shares once released, the whole
\* amount once refunded (fundTask, _releaseTask, refund).
THEOREM LifeInvariant == EscrowSpec => []LifeInv
<1>1. EscrowInit => LifeInv
  BY InitLife
<1>2. LifeInv /\ [EscrowNext]_escrowVars => LifeInv'
  BY StepShape
<1> QED
  BY <1>1, <1>2, PTL DEF EscrowSpec

\* Every storage slot keeps its type; no balance goes below zero.
THEOREM TypeCorrect == EscrowSpec => []EscrowTypeOK
<1>1. LifeInv => EscrowTypeOK
  BY DEF LifeInv
<1> QED
  BY <1>1, LifeInvariant, PTL

\* The invariant fixes what a task has paid out in each state of its life.
LEMMA LifePaysInFull == LifeInv => PaidInFull
<1> SUFFICES ASSUME LifeInv, NEW t \in Tasks
             PROVE  PaidOut(t) = IF tasks[t].state \in {"Released", "Refunded"}
                                 THEN tasks[t].amount ELSE 0
  BY DEF PaidInFull
<1>1. tasks[t] \in TaskType /\ LifeOfTask(t)
  BY DEF LifeInv, EscrowTypeOK
<1>2. CASE tasks[t].state \in {"Empty", "Funded"}
  BY <1>1, <1>2 DEF LifeOfTask, PaidOut, NoPayout
<1>3. CASE tasks[t].state = "Released"
  <2> PICK d \in BOOLEAN : payout[t] = Shares(tasks[t], d)
    BY <1>1, <1>3 DEF LifeOfTask
  <2>1. AddsUp(tasks[t].split)
    BY <1>1, <1>3 DEF LifeOfTask
  <2> DEFINE s == Shares(tasks[t], d)
  <2>2. /\ s \in [worker : Nat, staker : Nat, treasury : Nat, funder : Nat]
        /\ s.worker + s.staker + s.treasury = tasks[t].amount
        /\ s.funder = 0
    BY <1>1, <2>1, SharesMakeTheAmount
  <2> HIDE DEF s
  <2>3. s.worker + s.staker + s.treasury + s.funder = tasks[t].amount
    BY <1>1, <2>2 DEF TaskType
  <2> QED BY <1>3, <2>3 DEF PaidOut, s
<1>4. CASE tasks[t].state = "Refunded"
  BY <1>1, <1>4 DEF LifeOfTask, PaidOut, NoPayout, TaskType
<1> QED
  BY <1>1, <1>2, <1>3, <1>4 DEF TaskType

\* No wei of a task is lost or paid twice, whatever the amount, the split and
\* the outcome of depositYield (_releaseTask, refund).
THEOREM PaysInFull == EscrowSpec => []PaidInFull
  BY LifeInvariant, LifePaysInFull, PTL

\* The invariant ties the worker's pay to the split of the funding.
LEMMA LifeFixesSplit == LifeInv => SplitFixedAtFunding
<1> SUFFICES ASSUME LifeInv, NEW t \in Tasks, tasks[t].state = "Released"
             PROVE  /\ payout[t].worker = Share(tasks[t].amount, tasks[t].split.worker)
                    /\ payout[t].staker \in {0, Share(tasks[t].amount, tasks[t].split.staker)}
  BY DEF SplitFixedAtFunding
<1>1. tasks[t] \in TaskType /\ LifeOfTask(t)
  BY DEF LifeInv, EscrowTypeOK
<1> QED
  BY <1>1, SharesMakeTheAmount DEF LifeOfTask

\* A later setSplitBps does not change what a funded task pays its worker or,
\* at most, its stakers (the snapshot of fundTask).
THEOREM SplitIsFixed == EscrowSpec => []SplitFixedAtFunding
  BY LifeInvariant, LifeFixesSplit, PTL

\* A step moves the escrow's own balance by what one task gains or loses.
LEMMA StepMovesOneTask ==
    ASSUME LifeInv, [EscrowNext]_escrowVars
    PROVE  \E t \in Tasks :
             /\ balance'[THIS] - balance[THIS] = Held(t)' - Held(t)
             /\ \A u \in Tasks \ {t} : Held(u)' = Held(u)
<1>1. /\ THIS \in Accounts /\ balance[THIS] \in Nat
      /\ \A t \in Tasks : tasks[t] \in TaskType /\ tasks'[t] \in TaskType
  BY StepShape, AccountsDiffer DEF LifeInv, EscrowTypeOK
<1>2. \A u \in Tasks : Kept(u) => Held(u)' = Held(u)
  BY DEF Kept, Held, Funded
<1>3. CASE TasksStay
  <2> PICK t \in Tasks : TRUE
    BY AccountsAssumption
  <2>1. Held(t)' = Held(t) /\ Held(t) \in Nat
    BY <1>1, <1>2, <1>3 DEF TasksStay, Held, TaskType
  <2> QED BY <1>1, <1>2, <1>3, <2>1 DEF TasksStay
<1>4. CASE \E t \in Tasks : Moves(t)
  <2> PICK t \in Tasks : Moves(t)
    BY <1>4
  <2>1. balance'[THIS] - balance[THIS] = Held(t)' - Held(t)
    BY <1>1 DEF Moves, Taken, Left, Held, Funded, TaskType
  <2> QED BY <1>2, <2>1 DEF Moves
<1> QED
  BY <1>3, <1>4, StepShape

\* Every step moves the escrow's own balance by what one task gains or loses,
\* and touches the money of no other (fundTask, _releaseTask, refund).
THEOREM BalanceFollowsTasks == EscrowSpec => OneTaskPaysOrReceives
<1>1. LifeInv /\ [EscrowNext]_escrowVars =>
        [\E t \in Tasks :
          /\ balance'[THIS] - balance[THIS] = Held(t)' - Held(t)
          /\ \A u \in Tasks \ {t} : Held(u)' = Held(u)]_escrowVars
  BY StepMovesOneTask
<1> QED
  BY <1>1, LifeInvariant, PTL DEF EscrowSpec, OneTaskPaysOrReceives

\* What a task holds is a natural number.
LEMMA HeldType == LifeInv => \A t \in Tasks : Held(t) \in Nat
  BY DEF LifeInv, EscrowTypeOK, TaskType, Held

\* The escrow holds exactly the sum of what its funded tasks are owed, however
\* many tasks there are (fundTask, _releaseTask, refund).
THEOREM EscrowIsSolvent == EscrowSpec => []Solvency
<1> DEFINE held == [t \in Tasks |-> Held(t)]
           later == [t \in Tasks |-> Held(t)']
<1>1. EscrowInit => Solvency
  <2> SUFFICES ASSUME EscrowInit PROVE Solvency
    OBVIOUS
  <2>1. \A t \in Tasks : held[t] = 0
    BY DEF EscrowInit, EmptyTask, Held, Funded
  <2>2. SumFunctionOnSet(held, Tasks) = 0
    <3> HIDE DEF held
    <3> QED BY <2>1, AccountsAssumption, SumOfZeros
  <2>3. balance[THIS] = 0
    BY AccountsDiffer, AccountsAssumption DEF EscrowInit
  <2> QED BY <2>2, <2>3 DEF Solvency
<1>2. LifeInv /\ Solvency /\ [EscrowNext]_escrowVars => Solvency'
  <2> SUFFICES ASSUME LifeInv, Solvency, [EscrowNext]_escrowVars PROVE Solvency'
    OBVIOUS
  <2>1. PICK t \in Tasks :
          /\ balance'[THIS] - balance[THIS] = Held(t)' - Held(t)
          /\ \A u \in Tasks \ {t} : Held(u)' = Held(u)
    BY StepMovesOneTask
  <2>2. LifeInv'
    BY StepShape
  <2>3. \A u \in Tasks : held[u] \in Int /\ later[u] \in Int
    <3>1. \A u \in Tasks : Held(u) \in Nat /\ Held(u)' \in Nat
      <4>1. \A u \in Tasks : Held(u)' \in Nat
        BY <2>2 DEF LifeInv, EscrowTypeOK, TaskType, Held, Funded
      <4> QED BY <4>1, HeldType
    <3> QED BY <3>1
  <2>4. held[t] = Held(t) /\ later[t] = Held(t)' /\ \A u \in Tasks \ {t} : later[u] = held[u]
    BY <2>1
  <2>5. SumFunctionOnSet(later, Tasks) = SumFunctionOnSet(held, Tasks) - held[t] + later[t]
    <3> HIDE DEF held, later
    <3> QED BY <2>3, <2>4, AccountsAssumption, SumOfOneChange
  <2>6. balance[THIS] \in Int /\ balance'[THIS] \in Int
    BY <2>2, AccountsDiffer DEF LifeInv, EscrowTypeOK
  <2>7. balance[THIS] = SumFunctionOnSet(held, Tasks)
    BY DEF Solvency
  <2> HIDE DEF held, later
  <2>8. balance'[THIS] - balance[THIS] = later[t] - held[t]
    BY <2>1, <2>4
  <2>9. held[t] \in Int /\ later[t] \in Int
    BY <2>3
  <2>10. balance'[THIS] = SumFunctionOnSet(later, Tasks)
    BY <2>5, <2>6, <2>7, <2>8, <2>9
  <2> QED BY <2>10 DEF Solvency, later
<1> QED
  BY <1>1, <1>2, LifeInvariant, PTL DEF EscrowSpec

\* Whatever else is going on, the escrow can pay each funded task in full, so
\* no release or refund ever fails for want of INTEL.
THEOREM EveryTaskIsCovered ==
    EscrowSpec => [](\A t \in Tasks : Funded(t) => balance[THIS] >= tasks[t].amount)
<1>1. LifeInv /\ Solvency => \A t \in Tasks : Funded(t) => balance[THIS] >= tasks[t].amount
  <2> SUFFICES ASSUME LifeInv, Solvency, NEW t \in Tasks, Funded(t)
               PROVE  balance[THIS] >= tasks[t].amount
    OBVIOUS
  <2> DEFINE held == [u \in Tasks |-> Held(u)]
  <2>1. (\A u \in Tasks : held[u] \in Nat) /\ held[t] = tasks[t].amount
    BY HeldType DEF Held
  <2>2. SumFunctionOnSet(held, Tasks) >= held[t]
    <3> HIDE DEF held
    <3> QED BY <2>1, AccountsAssumption, SumOfNaturals
  <2> QED BY <2>1, <2>2 DEF Solvency
<1> QED
  BY <1>1, LifeInvariant, EscrowIsSolvent, PTL

\* Two functions on Tasks that agree outside t differ by one update.
LEMMA OneUpdate ==
    ASSUME NEW f, NEW g, NEW t \in Tasks,
           f = [u \in Tasks |-> f[u]], g = [u \in Tasks |-> g[u]],
           \A u \in Tasks \ {t} : g[u] = f[u]
    PROVE  g = [f EXCEPT ![t] = g[t]]
  OBVIOUS

\* The whole contract keeps the promise of OneShotEscrow for every task: the
\* deposit is taken once, held in full and let go once, in full.
THEOREM ImplementsOneShotEscrow == EscrowSpec => KeepsPromise
<1> DEFINE worth == [t \in Tasks |-> tasks[t].amount]
           out   == [t \in Tasks |-> PaidOut(t)]
<1>1. EscrowInit => Promise!Init
  <2> SUFFICES ASSUME EscrowInit PROVE Promise!Init
    OBVIOUS
  <2>1. \A t \in Tasks : Fate[t] = "none" /\ tasks[t].amount = 0 /\ PaidOut(t) = 0
    BY DEF EscrowInit, Fate, FateOf, EmptyTask, PaidOut, NoPayout
  <2> QED BY <2>1 DEF Promise!Init, Fate
<1>2. LifeInv' => PaidInFull'
  BY LifePaysInFull, PTL
<1>3. LifeInv /\ [EscrowNext]_escrowVars => [Promise!Next]_(Promise!vars)
  <2> SUFFICES ASSUME LifeInv, [EscrowNext]_escrowVars
               PROVE  Promise!Next \/ UNCHANGED Promise!vars
    OBVIOUS
  <2>1. PaidInFull'
    BY <1>2, StepShape
  <2>2. \A u \in Tasks : Kept(u) => /\ Fate'[u] = Fate[u]
                                    /\ worth'[u] = worth[u]
                                    /\ out'[u] = out[u]
    BY DEF Kept, Fate, PaidOut
  <2>3. /\ Fate = [u \in Tasks |-> Fate[u]] /\ Fate' = [u \in Tasks |-> Fate'[u]]
        /\ worth = [u \in Tasks |-> worth[u]] /\ worth' = [u \in Tasks |-> worth'[u]]
        /\ out = [u \in Tasks |-> out[u]] /\ out' = [u \in Tasks |-> out'[u]]
    BY DEF Fate
  <2>4. CASE TasksStay
    <3>1. Fate' = Fate /\ worth' = worth /\ out' = out
      BY <2>2, <2>4 DEF TasksStay, Fate
    <3> QED BY <3>1 DEF Promise!vars
  <2>5. CASE \E t \in Tasks : Moves(t)
    <3> PICK t \in Tasks : Moves(t)
      BY <2>5
    <3> HIDE DEF worth, out
    <3>1. /\ Fate' = [Fate EXCEPT ![t] = Fate'[t]]
          /\ worth' = [worth EXCEPT ![t] = worth'[t]]
          /\ out' = [out EXCEPT ![t] = out'[t]]
      <4>1. \A u \in Tasks \ {t} :
              Fate'[u] = Fate[u] /\ worth'[u] = worth[u] /\ out'[u] = out[u]
        BY <2>2 DEF Moves
      <4>2. Fate' = [Fate EXCEPT ![t] = Fate'[t]]
        BY <2>3, <4>1, OneUpdate
      <4>3. worth' = [worth EXCEPT ![t] = worth'[t]]
        BY <2>3, <4>1, OneUpdate
      <4>4. out' = [out EXCEPT ![t] = out'[t]]
        BY <2>3, <4>1, OneUpdate
      <4> QED BY <4>2, <4>3, <4>4
    <3>2. CASE Taken(t)
      <4>1. /\ Fate[t] = "none" /\ Fate'[t] = "held"
            /\ worth'[t] \in Amounts /\ worth'[t] > 0
            /\ out'[t] = out[t]
        BY <3>2 DEF Taken, Fate, FateOf, PaidOut, worth, out
      <4>2. out' = out
        BY <2>3, <3>1, <4>1
      <4> PICK amount \in Amounts : amount = worth'[t]
        BY <4>1
      <4>3. Promise!Take(t, amount)
        BY <3>1, <4>1, <4>2 DEF Promise!Take, worth, out
      <4> QED BY <4>3 DEF Promise!Next
    <3>3. CASE Left(t)
      <4>1. /\ Fate[t] = "held" /\ Fate'[t] \in {"paid", "returned"}
            /\ worth'[t] = worth[t]
            /\ out'[t] = worth[t]
        BY <2>1, <3>3 DEF Left, Fate, FateOf, PaidInFull, worth, out
      <4>2. worth' = worth
        BY <2>3, <3>1, <4>1
      <4>3. Promise!Leave(t, Fate'[t])
        BY <3>1, <4>1, <4>2 DEF Promise!Leave, worth, out
      <4> QED BY <4>1, <4>3 DEF Promise!Next
    <3> QED BY <3>2, <3>3 DEF Moves
  <2> QED BY <2>4, <2>5, StepShape
<1> QED
  BY <1>1, <1>3, LifeInvariant, PTL DEF EscrowSpec, KeepsPromise, Promise!Spec

-----------------------------------------------------------------------------
(* The inductive invariant *)

ClaimType == [job : Jobs, worker : Workers, lapsed : BOOLEAN,
              status : {"active", "submitted", "cancelled", "expired"}]

JobType == [status : {"created", "queued", "claimed", "submitted", "accepted", "rework"},
            claim : Nat]

ProcType ==
    [op : {"idle", "claim", "unclaim", "submit", "accept", "reject", "sweep"},
     step : {"-", "insert", "take", "job", "claim", "pick", "credit", "enqueue"},
     job : Jobs \cup {"-"}, who : Workers \cup Reviewers \cup {"-"},
     claim : Nat, passed : BOOLEAN, batch : SUBSET Nat]

Typed ==
    /\ job \in [Jobs -> JobType]
    /\ claims \in Seq(ClaimType)
    /\ submissions \subseteq [job : Jobs, worker : Workers, passed : BOOLEAN]
    /\ credited \subseteq [job : Jobs, worker : Workers, reviewer : Reviewers, passed : BOOLEAN]
    /\ proc \in [Procs -> ProcType]
    /\ crashes \in Nat /\ faults \in Nat
    /\ calm \in BOOLEAN
    /\ cut \subseteq ClaimIds

Passed(j, c) == [job |-> j, worker |-> claims[c].worker, passed |-> TRUE] \in submissions

\* c is a claim on j.
ClaimOn(c, j) == c \in ClaimIds /\ claims[c].job = j

\* The row of a job.
JobOK(j) ==
    /\ job[j].claim # NoClaim => ClaimOn(job[j].claim, j)
    /\ job[j].status = "claimed" => job[j].claim # NoClaim
    /\ job[j].status = "submitted" => job[j].claim # NoClaim /\ Passed(j, job[j].claim)

\* What a process has in its hands.
Claiming(r) ==
    /\ r.job \in Jobs /\ r.who \in Workers
    /\ \/ r.step = "insert" /\ r.claim = NoClaim
       \/ /\ r.step = "take" /\ ClaimOn(r.claim, r.job)
          /\ claims[r.claim].status = "active" /\ ~claims[r.claim].lapsed

Unclaiming(r) == r.step \in {"job", "claim"} /\ r.job \in Jobs /\ ClaimOn(r.claim, r.job)

Submitting(r) ==
    /\ r.step \in {"insert", "job", "claim"} /\ r.job \in Jobs /\ r.who \in Workers
    /\ ClaimOn(r.claim, r.job) /\ claims[r.claim].worker = r.who
    /\ r.step # "insert" =>
          [job |-> r.job, worker |-> r.who, passed |-> r.passed] \in submissions

Accepting(r) ==
    /\ r.step \in {"pick", "job", "claim", "credit"} /\ r.job \in Jobs /\ r.who \in Reviewers
    /\ ClaimOn(r.claim, r.job) /\ Passed(r.job, r.claim)
    /\ r.who \notin {claims[r.claim].worker, Poster}

Rejecting(r) ==
    /\ r.step \in {"job", "claim"} /\ r.job \in Jobs
    /\ r.claim # NoClaim => ClaimOn(r.claim, r.job)

Sweeping(r) ==
    /\ r.step \in {"claim", "job", "enqueue"}
    /\ r.batch \subseteq ClaimIds /\ \A c \in r.batch : claims[c].lapsed
    /\ r.claim # NoClaim => r.claim \in ClaimIds /\ claims[r.claim].lapsed
    /\ r.step # "claim" => r.claim # NoClaim

ProcOK(p) ==
    \/ proc[p] = Idle
    \/ proc[p].op = "claim" /\ Claiming(proc[p]) /\ p \in Requests
    \/ proc[p].op = "unclaim" /\ Unclaiming(proc[p])
    \/ proc[p].op = "submit" /\ Submitting(proc[p])
    \/ proc[p].op = "accept" /\ Accepting(proc[p])
    \/ proc[p].op = "reject" /\ Rejecting(proc[p])
    \/ proc[p].op = "sweep" /\ Sweeping(proc[p]) /\ p \in Timers

\* Between its INSERT and its UPDATE of the job, claimJob alone knows its claim.
OnlyTaker(p) ==
    At(p, "claim", "take") =>
        /\ \A q \in Procs \ {p} : proc[q].claim # proc[p].claim
        /\ \A j \in Jobs : job[j].claim # proc[p].claim

\* A process that is about to end a claim has seen, or made, its job leave it.
Past(r) ==
    \/ r.op \in {"unclaim", "submit"} /\ r.step = "claim"
    \/ r.op \in {"accept", "reject"}

JobHasLeft(p) ==
    Past(proc[p]) => \A j \in Jobs : job[j].status = "claimed" => job[j].claim # proc[p].claim

Backed(j) ==
    job[j].status = "claimed" =>
        \/ claims[job[j].claim].status = "active"
        \/ \E p \in Timers : At(p, "sweep", "job") /\ proc[p].claim = job[j].claim
        \/ job[j].claim \in cut

Inv ==
    /\ Typed
    /\ \A j \in Jobs : JobOK(j) /\ Backed(j)
    /\ \A p \in Procs : ProcOK(p) /\ OnlyTaker(p) /\ JobHasLeft(p)
    /\ CreditIsEarned

-----------------------------------------------------------------------------
(* What every step leaves alone *)

\* Claims are never taken away, nor given to another job or worker; a lapsed one
\* stays lapsed; submissions are only added.
Grows ==
    /\ ClaimIds \subseteq ClaimIds'
    /\ \A c \in ClaimIds : /\ claims'[c].job = claims[c].job
                           /\ claims'[c].worker = claims[c].worker
                           /\ claims[c].lapsed => claims'[c].lapsed
    /\ submissions \subseteq submissions'

\* What a process that does not move has in its hands stays good.
LEMMA HandsKept ==
    ASSUME Typed, Grows, NEW q \in Procs, ProcOK(q), proc'[q] = proc[q],
           At(q, "claim", "take") =>
               claims'[proc[q].claim].status = "active" /\ ~claims'[proc[q].claim].lapsed
    PROVE  ProcOK(q)'
<1> USE DEF ProcOK, Grows
<1>1. CASE proc[q] = Idle
  BY <1>1 DEF Idle
<1>2. CASE proc[q].op = "claim" /\ Claiming(proc[q]) /\ q \in Requests
  BY <1>2 DEF Claiming, ClaimOn, At
<1>3. CASE proc[q].op = "unclaim" /\ Unclaiming(proc[q])
  BY <1>3 DEF Unclaiming, ClaimOn
<1>4. CASE proc[q].op = "submit" /\ Submitting(proc[q])
  BY <1>4 DEF Submitting, ClaimOn
<1>5. CASE proc[q].op = "accept" /\ Accepting(proc[q])
  BY <1>5 DEF Accepting, ClaimOn, Passed
<1>6. CASE proc[q].op = "reject" /\ Rejecting(proc[q])
  BY <1>6 DEF Rejecting, ClaimOn
<1>7. CASE proc[q].op = "sweep" /\ Sweeping(proc[q]) /\ q \in Timers
  BY <1>7 DEF Sweeping
<1> QED
  BY <1>1, <1>2, <1>3, <1>4, <1>5, <1>6, <1>7

\* Ending or lapsing one claim of another process than its taker.
LEMMA OneClaimChanges ==
    ASSUME Typed, NEW c \in ClaimIds, NEW k \in ClaimType,
           k.job = claims[c].job, k.worker = claims[c].worker,
           claims[c].lapsed => k.lapsed,
           claims' = [claims EXCEPT ![c] = k], submissions \subseteq submissions'
    PROVE  /\ claims' \in Seq(ClaimType) /\ ClaimIds' = ClaimIds
           /\ Grows
           /\ claims'[c] = k /\ \A d \in ClaimIds \ {c} : claims'[d] = claims[d]
<1>1. claims' \in Seq(ClaimType) /\ Len(claims') = Len(claims)
  BY DEF Typed, ClaimIds
<1>2. claims'[c] = k /\ \A d \in ClaimIds \ {c} : claims'[d] = claims[d]
  BY DEF Typed, ClaimIds
<1> QED
  BY <1>1, <1>2 DEF Grows, ClaimIds

\* A new row of claims.
LEMMA OneClaimAdded ==
    ASSUME Typed, NEW k \in ClaimType, claims' = Append(claims, k), UNCHANGED submissions
    PROVE  /\ claims' \in Seq(ClaimType) /\ ClaimIds' = ClaimIds \cup {Len(claims) + 1}
           /\ Grows
           /\ Len(claims) + 1 \notin ClaimIds /\ claims'[Len(claims) + 1] = k
           /\ \A d \in ClaimIds : claims'[d] = claims[d]
<1>1. /\ claims' \in Seq(ClaimType) /\ Len(claims') = Len(claims) + 1
      /\ claims'[Len(claims) + 1] = k
      /\ \A d \in 1..Len(claims) : claims'[d] = claims[d]
  BY DEF Typed
<1>2. Len(claims) \in Nat
  BY DEF Typed
<1> QED
  BY <1>1, <1>2 DEF Grows, ClaimIds

\* Ids of claims are positive.
LEMMA ClaimIdsNat == Typed => ClaimIds \subseteq Nat \ {0}
  BY DEF Typed, ClaimIds

\* Every claim is on a job.
LEMMA ClaimRows == Typed => \A c \in ClaimIds : claims[c] \in ClaimType /\ claims[c].job \in Jobs
<1> SUFFICES ASSUME Typed, NEW c \in ClaimIds
             PROVE  claims[c] \in ClaimType /\ claims[c].job \in Jobs
  OBVIOUS
<1>1. claims[c] \in ClaimType
  BY DEF Typed, ClaimIds
<1> QED
  BY <1>1 DEF ClaimType

-----------------------------------------------------------------------------
(* Kinds of steps *)

\* A step of p alone keeps the part of the invariant about processes, if what p
\* then holds is good and it takes nothing that another process relies on.
LEMMA ProcessesKept ==
    ASSUME Inv, Typed', Grows, NEW p \in Procs,
           \A q \in Procs \ {p} : proc'[q] = proc[q],
           \A q \in Procs \ {p} : At(q, "claim", "take") =>
               /\ claims'[proc[q].claim].status = "active" /\ ~claims'[proc[q].claim].lapsed
               /\ proc'[p].claim # proc[q].claim
               /\ \A j \in Jobs : job'[j].claim # proc[q].claim,
           \A q \in Procs \ {p} : Past(proc[q]) =>
               \A j \in Jobs : job'[j].status = "claimed" => job'[j].claim # proc[q].claim,
           ProcOK(p)', OnlyTaker(p)', JobHasLeft(p)'
    PROVE  \A q \in Procs : ProcOK(q)' /\ OnlyTaker(q)' /\ JobHasLeft(q)'
<1> SUFFICES ASSUME NEW q \in Procs \ {p}
             PROVE  ProcOK(q)' /\ OnlyTaker(q)' /\ JobHasLeft(q)'
  OBVIOUS
<1>1. Typed /\ ProcOK(q) /\ OnlyTaker(q)
  BY DEF Inv
<1>2. ProcOK(q)'
  BY <1>1, HandsKept
<1>3. OnlyTaker(q)'
  BY <1>1 DEF OnlyTaker, At
<1>4. JobHasLeft(q)'
  BY DEF JobHasLeft
<1> QED
  BY <1>2, <1>3, <1>4

\* A row of jobs that is not written stays good.
LEMMA JobKept ==
    ASSUME Inv, Grows, NEW j \in Jobs, job'[j] = job[j]
    PROVE  JobOK(j)'
<1>1. JobOK(j) /\ job[j].claim \in Nat
  BY DEF Inv, Typed, JobType
<1> QED
  BY <1>1 DEF JobOK, ClaimOn, Passed, Grows

\* Nobody is credited anew.
LEMMA CreditsKept ==
    ASSUME Inv, Grows, UNCHANGED credited
    PROVE  CreditIsEarned'
<1>1. CreditIsEarned
  BY DEF Inv
<1> QED
  BY <1>1 DEF CreditIsEarned, Grows

\* The SELECT with which a request or a sweep begins.
LEMMA ReadKeepsInv ==
    ASSUME Inv, NEW p \in Procs, NEW r \in ProcType, Start(p, r),
           UNCHANGED <<job, claims, submissions, credited, stops>>,
           ProcOK(p)', r.step # "take",
           r.claim # NoClaim => \E j \in Jobs : job[j].claim = r.claim,
           Past(r) => \A j \in Jobs : job[j].status = "claimed" => job[j].claim # r.claim
    PROVE  Inv'
<1>1. Typed /\ proc[p] = Idle /\ proc' = [proc EXCEPT ![p] = r] /\ calm' \in BOOLEAN
  BY DEF Inv, Start, Typed
<1>2. proc'[p] = r /\ \A q \in Procs \ {p} : proc'[q] = proc[q]
  BY <1>1 DEF Typed
<1>3. Typed' /\ Grows
  BY <1>1 DEF Typed, Grows, ClaimIds, stops
<1>4. \A q \in Procs \ {p} : At(q, "claim", "take") =>
        /\ claims'[proc[q].claim].status = "active" /\ ~claims'[proc[q].claim].lapsed
        /\ proc'[p].claim # proc[q].claim
        /\ \A j \in Jobs : job'[j].claim # proc[q].claim
  <2> SUFFICES ASSUME NEW q \in Procs \ {p}, At(q, "claim", "take")
               PROVE  /\ claims'[proc[q].claim].status = "active"
                      /\ ~claims'[proc[q].claim].lapsed
                      /\ proc'[p].claim # proc[q].claim
                      /\ \A j \in Jobs : job'[j].claim # proc[q].claim
    OBVIOUS
  <2>1. Claiming(proc[q]) /\ OnlyTaker(q) /\ proc[q].step = "take"
    BY DEF Inv, ProcOK, At, Idle
  <2>2. proc[q].claim # NoClaim
    BY <1>1, <2>1, ClaimIdsNat DEF Claiming, ClaimOn, NoClaim
  <2> QED BY <1>2, <2>1, <2>2 DEF Claiming, OnlyTaker, At
<1>5. \A q \in Procs : ProcOK(q)' /\ OnlyTaker(q)' /\ JobHasLeft(q)'
  <2>1. OnlyTaker(p)' /\ JobHasLeft(p)'
    BY <1>2 DEF OnlyTaker, At, JobHasLeft
  <2>2. \A q \in Procs \ {p} : Past(proc[q]) =>
          \A j \in Jobs : job'[j].status = "claimed" => job'[j].claim # proc[q].claim
    BY DEF Inv, JobHasLeft
  <2> QED BY <1>2, <1>3, <1>4, <2>1, <2>2, ProcessesKept
<1>6. \A j \in Jobs : JobOK(j)' /\ Backed(j)'
  <2> TAKE j \in Jobs
  <2>1. JobOK(j)'
    BY <1>3, JobKept
  <2>2. Backed(j)'
    BY <1>1, <1>2 DEF Inv, Backed, At, Idle, stops
  <2> QED BY <2>1, <2>2
<1> QED
  BY <1>3, <1>5, <1>6, CreditsKept DEF Inv

\* An UPDATE of the job, by which no job becomes claimed.
LEMMA WriteJobKeepsInv ==
    ASSUME Inv, NEW p \in Procs, NEW j \in Jobs, NEW v \in JobType,
           NEW s \in {"claim", "enqueue"},
           proc[p].step = "job", proc[p].op # "claim", proc[p].op # "idle",
           proc[p].claim # NoClaim => ClaimOn(proc[p].claim, j),
           job' = [job EXCEPT ![j] = v], v.status # "claimed",
           v.claim \in {NoClaim, proc[p].claim, job[j].claim},
           proc' = [proc EXCEPT ![p].step = s],
           UNCHANGED <<claims, submissions, credited, stops, calm>>,
           ProcOK(p)', JobOK(j)'
    PROVE  Inv'
<1>1. Typed /\ proc[p] \in ProcType
  BY DEF Inv, Typed
<1>2. /\ proc'[p] = [proc[p] EXCEPT !.step = s] /\ proc'[p] \in ProcType
      /\ \A q \in Procs \ {p} : proc'[q] = proc[q]
  BY <1>1 DEF Typed, ProcType
<1>3. job'[j] = v /\ \A k \in Jobs \ {j} : job'[k] = job[k]
  BY <1>1 DEF Typed
<1>4. Typed' /\ Grows
  <2>1. job' \in [Jobs -> JobType] /\ proc' \in [Procs -> ProcType]
    BY <1>1, <1>2, <1>3 DEF Typed
  <2> QED BY <1>1, <2>1 DEF Typed, Grows, ClaimIds, stops
<1>5. ASSUME NEW q \in Procs \ {p}, At(q, "claim", "take")
      PROVE  /\ claims'[proc[q].claim].status = "active"
             /\ ~claims'[proc[q].claim].lapsed
             /\ proc'[p].claim # proc[q].claim
             /\ \A k \in Jobs : job'[k].claim # proc[q].claim
  <2>1. Claiming(proc[q]) /\ OnlyTaker(q) /\ proc[q].step = "take"
    BY <1>5 DEF Inv, ProcOK, At, Idle
  <2>2. proc[q].claim # NoClaim
    BY <1>1, <2>1, ClaimIdsNat DEF Claiming, ClaimOn, NoClaim
  <2>3. proc'[p].claim = proc[p].claim /\ proc[p].claim # proc[q].claim
    BY <1>1, <1>2, <1>5, <2>1 DEF OnlyTaker, ProcType
  <2>4. \A k \in Jobs : job'[k].claim # proc[q].claim
    BY <1>3, <1>5, <2>1, <2>2, <2>3 DEF OnlyTaker
  <2> QED BY <2>1, <2>3, <2>4 DEF Claiming
<1>6. ASSUME NEW k \in Jobs, job'[k].status = "claimed"
      PROVE  k # j /\ job'[k] = job[k] /\ job[k].claim # proc[p].claim
  <2>1. k # j /\ job'[k] = job[k]
    BY <1>3, <1>6
  <2>2. job[k].claim # NoClaim /\ ClaimOn(job[k].claim, k)
    BY <1>6, <2>1 DEF Inv, JobOK
  <2> QED BY <2>1, <2>2 DEF ClaimOn
<1>7. \A q \in Procs : ProcOK(q)' /\ OnlyTaker(q)' /\ JobHasLeft(q)'
  <2>1. OnlyTaker(p)'
    BY <1>1, <1>2 DEF OnlyTaker, At, ProcType
  <2>2. JobHasLeft(p)'
    BY <1>1, <1>2, <1>6 DEF JobHasLeft, ProcType
  <2>3. \A q \in Procs \ {p} : Past(proc[q]) =>
          \A k \in Jobs : job'[k].status = "claimed" => job'[k].claim # proc[q].claim
    BY <1>6 DEF Inv, JobHasLeft
  <2> QED BY <1>2, <1>4, <1>5, <2>1, <2>2, <2>3, ProcessesKept
<1>8. \A k \in Jobs : JobOK(k)' /\ Backed(k)'
  <2> TAKE k \in Jobs
  <2>1. JobOK(k)'
    BY <1>3, <1>4, JobKept
  <2>2. Backed(k)'
    <3> SUFFICES ASSUME job'[k].status = "claimed"
                 PROVE  \/ claims[job'[k].claim].status = "active"
                        \/ \E q \in Timers : At(q, "sweep", "job")' /\ proc'[q].claim = job'[k].claim
                        \/ job'[k].claim \in cut
      BY DEF Backed, stops
    <3>1. job'[k] = job[k] /\ job[k].claim # proc[p].claim /\ Backed(k)
      BY <1>6 DEF Inv
    <3> QED BY <1>2, <3>1 DEF Backed, At, Procs
  <2> QED BY <2>1, <2>2
<1> QED
  BY <1>4, <1>7, <1>8, CreditsKept DEF Inv

\* Whatever names a claim names a row of claims.
LEMMA ClaimsKnown ==
    ASSUME Inv
    PROVE  /\ \A q \in Procs : proc[q].claim \in {NoClaim} \cup ClaimIds
           /\ \A j \in Jobs : job[j].claim \in {NoClaim} \cup ClaimIds
<1>1. ASSUME NEW q \in Procs PROVE proc[q].claim \in {NoClaim} \cup ClaimIds
  <2>1. ProcOK(q)
    BY DEF Inv
  <2> QED BY <2>1 DEF ProcOK, Claiming, Unclaiming, Submitting, Accepting, Rejecting,
                      Sweeping, ClaimOn, Idle
<1>2. ASSUME NEW j \in Jobs PROVE job[j].claim \in {NoClaim} \cup ClaimIds
  BY DEF Inv, JobOK, ClaimOn
<1> QED
  BY <1>1, <1>2

\* What is known of a process about to write its claim into a job.
LEMMA TakerKnown ==
    ASSUME Inv, NEW q \in Procs, At(q, "claim", "take")
    PROVE  /\ proc[q].job \in Jobs /\ proc[q].claim \in ClaimIds
           /\ proc[q].claim # NoClaim
           /\ claims[proc[q].claim].job = proc[q].job
           /\ claims[proc[q].claim].status = "active" /\ ~claims[proc[q].claim].lapsed
           /\ \A p \in Procs \ {q} : proc[p].claim # proc[q].claim
           /\ \A j \in Jobs : job[j].claim # proc[q].claim
<1>1. Typed /\ ProcOK(q) /\ OnlyTaker(q) /\ proc[q].op = "claim" /\ proc[q].step = "take"
  BY DEF Inv, At
<1>2. Claiming(proc[q])
  BY <1>1 DEF ProcOK, Idle
<1> QED
  BY <1>1, <1>2, ClaimIdsNat DEF Claiming, ClaimOn, OnlyTaker, At, NoClaim

\* A step of a handler that leaves the job alone.
LEMMA HandlerKeepsInv ==
    ASSUME Inv, Typed', Grows, NEW p \in Procs, NEW r \in ProcType,
           proc' = [proc EXCEPT ![p] = r], UNCHANGED <<job, stops>>,
           ~At(p, "claim", "take"),
           \/ r.claim \in {NoClaim, proc[p].claim} \/ r.claim \notin ClaimIds
           \/ claims[r.claim].lapsed,
           Past(r) => Past(proc[p]) /\ r.claim = proc[p].claim,
           \A q \in Procs \ {p} : At(q, "claim", "take") =>
               /\ claims'[proc[q].claim].status = "active"
               /\ ~claims'[proc[q].claim].lapsed,
           ProcOK(p)', OnlyTaker(p)', \A j \in Jobs : Backed(j)', CreditIsEarned'
    PROVE  Inv'
<1>1. proc'[p] = r /\ \A q \in Procs \ {p} : proc'[q] = proc[q]
  BY DEF Inv, Typed
<1>2. ASSUME NEW q \in Procs \ {p}, At(q, "claim", "take")
      PROVE  /\ claims'[proc[q].claim].status = "active"
             /\ ~claims'[proc[q].claim].lapsed
             /\ proc'[p].claim # proc[q].claim
             /\ \A k \in Jobs : job'[k].claim # proc[q].claim
  BY <1>1, <1>2, TakerKnown
<1>3. JobHasLeft(p)'
  BY <1>1 DEF Inv, JobHasLeft
<1>4. \A q \in Procs : ProcOK(q)' /\ OnlyTaker(q)' /\ JobHasLeft(q)'
  <2>1. \A q \in Procs \ {p} : Past(proc[q]) =>
          \A k \in Jobs : job'[k].status = "claimed" => job'[k].claim # proc[q].claim
    BY DEF Inv, JobHasLeft
  <2> QED BY <1>1, <1>2, <1>3, <2>1, ProcessesKept
<1>5. \A k \in Jobs : JobOK(k)'
  BY JobKept
<1> QED
  BY <1>4, <1>5 DEF Inv

\* Claimed jobs stay backed when their claims keep their status and no sweep
\* moves.
LEMMA BackedKept ==
    ASSUME Inv, NEW p \in Procs, \A q \in Procs \ {p} : proc'[q] = proc[q],
           ~At(p, "sweep", "job"), UNCHANGED <<job, stops>>,
           \A j \in Jobs : job[j].status = "claimed" =>
               claims'[job[j].claim].status = claims[job[j].claim].status
    PROVE  \A j \in Jobs : Backed(j)'
<1> SUFFICES ASSUME NEW j \in Jobs, job[j].status = "claimed"
             PROVE  \/ claims'[job[j].claim].status = "active"
                    \/ \E q \in Timers : At(q, "sweep", "job")' /\ proc'[q].claim = job[j].claim
                    \/ job[j].claim \in cut
  BY DEF Backed, stops
<1>1. Backed(j)
  BY DEF Inv
<1> QED
  BY <1>1 DEF Backed, At, Procs

\* A step that only moves p on or ends its run.
LEMMA MoveOnKeepsInv ==
    ASSUME Inv, NEW p \in Procs, NEW r \in ProcType,
           proc' = [proc EXCEPT ![p] = r], UNCHANGED <<job, claims, stops, calm>>,
           submissions' \subseteq [job : Jobs, worker : Workers, passed : BOOLEAN],
           submissions \subseteq submissions',
           credited' \subseteq [job : Jobs, worker : Workers, reviewer : Reviewers,
                                passed : BOOLEAN],
           ~At(p, "claim", "take"), ~At(p, "sweep", "job"),
           r.claim \in {NoClaim, proc[p].claim}, r.step # "take",
           Past(r) => Past(proc[p]) /\ r.claim = proc[p].claim,
           ProcOK(p)', CreditIsEarned'
    PROVE  Inv'
<1>1. Typed' /\ Grows
  <2>1. proc' \in [Procs -> ProcType]
    BY DEF Inv, Typed
  <2> QED BY <2>1 DEF Inv, Typed, Grows, ClaimIds, stops
<1>2. proc'[p] = r /\ \A q \in Procs \ {p} : proc'[q] = proc[q]
  BY DEF Inv, Typed
<1>3. OnlyTaker(p)'
  BY <1>2 DEF OnlyTaker, At
<1>4. \A j \in Jobs : Backed(j)'
  BY <1>2, BackedKept
<1>5. \A q \in Procs \ {p} : At(q, "claim", "take") =>
               /\ claims'[proc[q].claim].status = "active"
               /\ ~claims'[proc[q].claim].lapsed
  BY TakerKnown
<1> QED
  BY <1>1, <1>3, <1>4, <1>5, HandlerKeepsInv

\* The UPDATE of the claim with which a decision or a submission ends.
LEMMA EndClaimKeepsInv ==
    ASSUME Inv, NEW p \in Procs, NEW r \in ProcType, NEW s \in {"submitted", "cancelled"},
           Past(proc[p]), proc[p].claim # NoClaim => proc[p].claim \in ClaimIds,
           claims' = SetClaim(proc[p].claim, s),
           proc' = [proc EXCEPT ![p] = r],
           UNCHANGED <<job, submissions, credited, stops, calm>>,
           r.claim \in {NoClaim, proc[p].claim}, r.step # "take",
           Past(r) => r.claim = proc[p].claim,
           ProcOK(p)'
    PROVE  Inv'
<1> DEFINE c == proc[p].claim
<1>1. Typed /\ ~At(p, "claim", "take") /\ ~At(p, "sweep", "job")
  BY DEF Inv, Past, At
<1>2. proc'[p] = r /\ \A q \in Procs \ {p} : proc'[q] = proc[q]
  BY <1>1 DEF Typed
<1>3. /\ claims' \in Seq(ClaimType) /\ ClaimIds' = ClaimIds /\ Grows
      /\ \A d \in ClaimIds \ {c} : claims'[d] = claims[d]
  <2>1. CASE c = NoClaim
    BY <1>1, <2>1 DEF SetClaim, Typed, Grows, ClaimIds
  <2>2. CASE c # NoClaim
    <3>1. c \in ClaimIds /\ claims[c] \in ClaimType
      BY <1>1, <2>2 DEF Typed, ClaimIds
    <3> DEFINE k == [claims[c] EXCEPT !.status = s]
    <3>2. k \in ClaimType /\ k.job = claims[c].job /\ k.worker = claims[c].worker
          /\ (claims[c].lapsed => k.lapsed) /\ submissions \subseteq submissions'
      BY <3>1 DEF ClaimType
    <3>3. claims' = [claims EXCEPT ![c] = k]
      BY <1>1, <2>2, <3>1 DEF SetClaim, Typed, ClaimIds
    <3> HIDE DEF k, c
    <3> QED BY <1>1, <3>1, <3>2, <3>3, OneClaimChanges
  <2> QED BY <2>1, <2>2
<1>4. Typed'
  <2>1. proc' \in [Procs -> ProcType]
    BY <1>1 DEF Typed
  <2> QED BY <1>1, <1>3, <2>1 DEF Typed, stops
<1>5. OnlyTaker(p)'
  BY <1>2 DEF OnlyTaker, At
<1>6. \A j \in Jobs : Backed(j)'
  <2>1. \A j \in Jobs : job[j].status = "claimed" =>
          job[j].claim \in ClaimIds /\ job[j].claim # c
    BY DEF Inv, JobOK, ClaimOn, JobHasLeft
  <2>2. \A j \in Jobs : job[j].status = "claimed" =>
          claims'[job[j].claim].status = claims[job[j].claim].status
    BY <1>3, <2>1
  <2> QED BY <1>1, <1>2, <2>2, BackedKept
<1>7. \A q \in Procs \ {p} : At(q, "claim", "take") =>
               /\ claims'[proc[q].claim].status = "active"
               /\ ~claims'[proc[q].claim].lapsed
  BY <1>3, TakerKnown
<1>8. CreditIsEarned'
  BY <1>3, CreditsKept
<1> QED
  BY <1>1, <1>3, <1>4, <1>5, <1>6, <1>7, <1>8, HandlerKeepsInv

-----------------------------------------------------------------------------
(* The actions keep the invariant *)

\* In Idle nothing is in hand.
LEMMA IdleType == Idle \in ProcType /\ Idle.claim = NoClaim /\ Idle.step # "take" /\ ~Past(Idle)
  BY DEF Idle, ProcType, NoClaim, Past

\* A process whose run is over.
LEMMA FinishKeepsInv ==
    ASSUME Inv, NEW p \in Procs, Finish(p), UNCHANGED <<job, claims, submissions, stops, calm>>,
           ~At(p, "claim", "take"), ~At(p, "sweep", "job"),
           credited' \subseteq [job : Jobs, worker : Workers, reviewer : Reviewers,
                                passed : BOOLEAN],
           CreditIsEarned'
    PROVE  Inv'
<1>1. proc' = [proc EXCEPT ![p] = Idle] /\ proc'[p] = Idle
  BY DEF Finish, Inv, Typed
<1>2. ProcOK(p)'
  BY <1>1 DEF ProcOK, Idle
<1>3. Typed
  BY DEF Inv
<1> QED
  BY <1>1, <1>2, <1>3, IdleType, MoveOnKeepsInv DEF Typed

\* claimJob reads a free job.
LEMMA ClaimReadKeepsInv ==
    ASSUME Inv, NEW p \in Requests, NEW j \in Jobs, NEW w \in Workers, ClaimRead(p, j, w)
    PROVE  Inv'
<1> p \in Procs
  BY DEF Procs
<1> DEFINE r == [Idle EXCEPT !.op = "claim", !.step = "insert", !.job = j, !.who = w]
<1>1. /\ r \in ProcType /\ r.op = "claim" /\ r.step = "insert" /\ r.job = j /\ r.who = w
      /\ r.claim = NoClaim
  BY DEF Idle, ProcType, NoClaim
<1>2. Start(p, r) /\ UNCHANGED <<job, claims, submissions, credited, stops>>
  BY DEF ClaimRead
<1> HIDE DEF r
<1>3. proc'[p] = r
  BY <1>2 DEF Start, Inv, Typed
<1>4. ProcOK(p)'
  BY <1>1, <1>3 DEF ProcOK, Claiming
<1> QED
  BY <1>1, <1>2, <1>4, ReadKeepsInv DEF Past

\* unclaimJob reads a job its caller holds.
LEMMA UnclaimReadKeepsInv ==
    ASSUME Inv, NEW p \in Procs, NEW j \in Jobs, NEW w \in Workers, UnclaimRead(p, j, w)
    PROVE  Inv'
<1> DEFINE r == [Idle EXCEPT !.op = "unclaim", !.step = "job", !.job = j, !.claim = job[j].claim]
<1>1. job[j] \in JobType /\ job[j].claim # NoClaim /\ ClaimOn(job[j].claim, j)
  BY DEF UnclaimRead, Inv, Typed, JobOK
<1>2. /\ r \in ProcType /\ r.op = "unclaim" /\ r.step = "job" /\ r.job = j
      /\ r.claim = job[j].claim
  BY <1>1 DEF Idle, ProcType, NoClaim, JobType
<1>3. Start(p, r) /\ UNCHANGED <<job, claims, submissions, credited, stops>>
  BY DEF UnclaimRead
<1> HIDE DEF r
<1>4. proc'[p] = r
  BY <1>3 DEF Start, Inv, Typed
<1>5. ProcOK(p)'
  BY <1>1, <1>2, <1>3, <1>4 DEF ProcOK, Unclaiming, ClaimOn, ClaimIds
<1> QED
  BY <1>2, <1>3, <1>5, ReadKeepsInv DEF Past

\* submitJob reads a job its caller holds.
LEMMA SubmitReadKeepsInv ==
    ASSUME Inv, NEW p \in Procs, NEW j \in Jobs, NEW w \in Workers, NEW passed \in BOOLEAN,
           SubmitRead(p, j, w, passed)
    PROVE  Inv'
<1> DEFINE r == [Idle EXCEPT !.op = "submit", !.step = "insert", !.job = j, !.who = w,
                             !.claim = job[j].claim, !.passed = passed]
<1>1. job[j] \in JobType /\ job[j].claim # NoClaim /\ ClaimOn(job[j].claim, j)
  BY DEF SubmitRead, Inv, Typed, JobOK, JobType
<1>2. claims[job[j].claim].worker = w
  BY <1>1 DEF SubmitRead, Holder
<1>3. /\ r \in ProcType /\ r.op = "submit" /\ r.step = "insert" /\ r.job = j
      /\ r.who = w /\ r.claim = job[j].claim
  BY <1>1 DEF Idle, ProcType, NoClaim, JobType
<1>4. Start(p, r) /\ UNCHANGED <<job, claims, submissions, credited, stops>>
  BY DEF SubmitRead
<1> HIDE DEF r
<1>5. proc'[p] = r
  BY <1>4 DEF Start, Inv, Typed
<1>6. ProcOK(p)'
  BY <1>1, <1>2, <1>3, <1>4, <1>5 DEF ProcOK, Submitting, ClaimOn, ClaimIds
<1> QED
  BY <1>3, <1>4, <1>6, ReadKeepsInv DEF Past

\* acceptJob reads a submitted job, whose worker has passed the gate.
LEMMA AcceptReadKeepsInv ==
    ASSUME Inv, NEW p \in Procs, NEW j \in Jobs, NEW a \in Reviewers, AcceptRead(p, j, a)
    PROVE  Inv'
<1> DEFINE r == [Idle EXCEPT !.op = "accept", !.step = "pick", !.job = j, !.who = a,
                             !.claim = job[j].claim]
<1>1. /\ job[j] \in JobType /\ job[j].claim # NoClaim /\ ClaimOn(job[j].claim, j)
      /\ Passed(j, job[j].claim)
  BY DEF AcceptRead, Inv, Typed, JobOK
<1>2. a # claims[job[j].claim].worker /\ a # Poster
  BY <1>1 DEF AcceptRead, Holder
<1>3. /\ r \in ProcType /\ r.op = "accept" /\ r.step = "pick" /\ r.job = j
      /\ r.who = a /\ r.claim = job[j].claim
  BY <1>1 DEF Idle, ProcType, NoClaim, JobType
<1>4. Start(p, r) /\ UNCHANGED <<job, claims, submissions, credited, stops>>
  BY DEF AcceptRead
<1> HIDE DEF r
<1>5. proc'[p] = r
  BY <1>4 DEF Start, Inv, Typed
<1>6. ProcOK(p)'
  BY <1>1, <1>2, <1>3, <1>4, <1>5 DEF ProcOK, Accepting, ClaimOn, ClaimIds, Passed
<1>7. ASSUME NEW k \in Jobs, job[k].status = "claimed", job[k].claim = job[j].claim
      PROVE  FALSE
  <2>1. ClaimOn(job[k].claim, k)
    BY <1>7 DEF Inv, JobOK
  <2> QED BY <1>1, <1>7, <2>1 DEF ClaimOn, AcceptRead
<1> QED
  BY <1>3, <1>4, <1>6, <1>7, ReadKeepsInv

\* rejectJob reads a submitted or accepted job.
LEMMA RejectReadKeepsInv ==
    ASSUME Inv, NEW p \in Procs, NEW j \in Jobs, RejectRead(p, j)
    PROVE  Inv'
<1> DEFINE r == [Idle EXCEPT !.op = "reject", !.step = "job", !.job = j, !.claim = job[j].claim]
<1>1. job[j] \in JobType /\ (job[j].claim # NoClaim => ClaimOn(job[j].claim, j))
  BY DEF Inv, Typed, JobOK
<1>2. /\ r \in ProcType /\ r.op = "reject" /\ r.step = "job" /\ r.job = j
      /\ r.claim = job[j].claim
  BY <1>1 DEF Idle, ProcType, NoClaim, JobType
<1>3. Start(p, r) /\ UNCHANGED <<job, claims, submissions, credited, stops>>
  BY DEF RejectRead
<1> HIDE DEF r
<1>4. proc'[p] = r
  BY <1>3 DEF Start, Inv, Typed
<1>5. ProcOK(p)'
  BY <1>1, <1>2, <1>3, <1>4 DEF ProcOK, Rejecting, ClaimOn, ClaimIds
<1>6. ASSUME NEW k \in Jobs, job[k].status = "claimed", job[k].claim = job[j].claim
      PROVE  FALSE
  <2>1. ClaimOn(job[k].claim, k) /\ job[k].claim # NoClaim
    BY <1>6 DEF Inv, JobOK
  <2> QED BY <1>1, <1>6, <2>1 DEF ClaimOn, RejectRead
<1> QED
  BY <1>2, <1>3, <1>5, <1>6, ReadKeepsInv

\* The sweep reads the overdue claims.
LEMMA SweepSelectKeepsInv ==
    ASSUME Inv, NEW p \in Timers, SweepSelect(p)
    PROVE  Inv'
<1> DEFINE r == [Idle EXCEPT !.op = "sweep", !.step = "claim", !.batch = Overdue]
<1>1. p \in Procs /\ Overdue \subseteq ClaimIds /\ \A c \in Overdue : claims[c].lapsed
  BY DEF Procs, Overdue, ClaimIds
<1>2. Overdue \in SUBSET Nat
  BY <1>1, ClaimIdsNat DEF Inv
<1>3. /\ r \in ProcType /\ r.op = "sweep" /\ r.step = "claim" /\ r.batch = Overdue
      /\ r.claim = NoClaim
  BY <1>2 DEF Idle, ProcType, NoClaim
<1>4. Start(p, r) /\ UNCHANGED <<job, claims, submissions, credited, stops>>
  BY DEF SweepSelect
<1> HIDE DEF r
<1>5. proc'[p] = r
  BY <1>1, <1>4 DEF Start, Inv, Typed
<1>6. ProcOK(p)'
  BY <1>1, <1>3, <1>4, <1>5 DEF ProcOK, Sweeping, ClaimIds
<1> QED
  BY <1>1, <1>3, <1>4, <1>6, ReadKeepsInv DEF Past

\* claimJob inserts its claim, which nobody else knows yet.
LEMMA ClaimInsertKeepsInv ==
    ASSUME Inv, NEW p \in Procs, ClaimInsert(p)
    PROVE  Inv'
<1> DEFINE n == Len(claims) + 1
           k == [job |-> proc[p].job, worker |-> proc[p].who,
                 status |-> "active", lapsed |-> FALSE]
           r == [proc[p] EXCEPT !.step = "take", !.claim = n]
<1>1. Typed /\ proc[p] \in ProcType /\ Claiming(proc[p]) /\ n \in Nat \ {0} /\ p \in Requests
  BY DEF Inv, Typed, ProcOK, ClaimInsert, At, Idle
<1>2. /\ claims' = Append(claims, k) /\ proc' = [proc EXCEPT ![p] = r]
      /\ UNCHANGED <<job, submissions, credited, stops, calm>>
      /\ At(p, "claim", "insert")
  BY <1>1 DEF ClaimInsert, Typed, ProcType
<1>3. k \in ClaimType /\ k.job = proc[p].job /\ k.status = "active" /\ ~k.lapsed
  BY <1>1 DEF ClaimType, Claiming
<1>4. /\ r \in ProcType /\ r.op = "claim" /\ r.step = "take" /\ r.claim = n
      /\ r.job = proc[p].job /\ r.who = proc[p].who
  BY <1>1, <1>2 DEF ProcType, At
<1> HIDE DEF k, r
<1>5. /\ claims' \in Seq(ClaimType) /\ ClaimIds' = ClaimIds \cup {n}
      /\ Grows /\ n \notin ClaimIds /\ claims'[n] = k
      /\ \A d \in ClaimIds : claims'[d] = claims[d]
  BY <1>1, <1>2, <1>3, OneClaimAdded
<1>6. proc'[p] = r /\ \A q \in Procs \ {p} : proc'[q] = proc[q]
  BY <1>1, <1>2 DEF Typed
<1>7. Typed'
  <2>1. proc' \in [Procs -> ProcType]
    BY <1>1, <1>2, <1>4 DEF Typed
  <2> QED BY <1>1, <1>2, <1>5, <2>1 DEF Typed, stops
<1>8. ProcOK(p)'
  BY <1>1, <1>3, <1>4, <1>5, <1>6 DEF ProcOK, Claiming, ClaimOn
<1>9. OnlyTaker(p)'
  <2>1. n # NoClaim
    BY <1>1 DEF NoClaim
  <2> QED BY <1>2, <1>4, <1>5, <1>6, <2>1, ClaimsKnown DEF OnlyTaker
<1>10. \A j \in Jobs : Backed(j)'
  <2>1. \A j \in Jobs : job[j].status = "claimed" => job[j].claim \in ClaimIds
    BY DEF Inv, JobOK, ClaimOn
  <2>2. ~At(p, "sweep", "job")
    BY <1>2 DEF At
  <2> QED BY <1>2, <1>5, <1>6, <2>1, <2>2, BackedKept
<1>11. \A q \in Procs \ {p} : At(q, "claim", "take") =>
               /\ claims'[proc[q].claim].status = "active"
               /\ ~claims'[proc[q].claim].lapsed
  BY <1>5, TakerKnown
<1>12. CreditIsEarned'
  BY <1>2, <1>5, CreditsKept
<1>13. ~At(p, "claim", "take") /\ ~Past(r)
  BY <1>2, <1>4 DEF At, Past
<1> QED
  BY <1>2, <1>4, <1>5, <1>7, <1>8, <1>9, <1>10, <1>11, <1>12, <1>13, HandlerKeepsInv

\* claimJob writes its claim, still active, into the job.
LEMMA ClaimTakeKeepsInv ==
    ASSUME Inv, NEW p \in Procs, ClaimTake(p)
    PROVE  Inv'
<1> DEFINE j == proc[p].job
           c == proc[p].claim
           v == [status |-> "claimed", claim |-> c]
<1>1. At(p, "claim", "take") /\ Typed
  BY DEF ClaimTake, Inv
<1>2. /\ j \in Jobs /\ c \in ClaimIds /\ c # NoClaim /\ claims[c].job = j
      /\ claims[c].status = "active"
      /\ \A q \in Procs \ {p} : proc[q].claim # c
  BY <1>1, TakerKnown
<1>3. c \in Nat
  BY <1>1, <1>2, ClaimIdsNat
<1>4. /\ job' = [job EXCEPT ![j] = v] /\ proc' = [proc EXCEPT ![p] = Idle]
      /\ UNCHANGED <<claims, submissions, credited, stops, calm>>
  BY DEF ClaimTake, SetJob, Finish
<1>5. v \in JobType /\ v.status = "claimed" /\ v.claim = c
  BY <1>3 DEF JobType
<1> HIDE DEF v, j, c
<1>6. /\ job'[j] = v /\ \A k \in Jobs \ {j} : job'[k] = job[k]
      /\ proc'[p] = Idle /\ \A q \in Procs \ {p} : proc'[q] = proc[q]
  BY <1>1, <1>2, <1>4 DEF Typed
<1>7. Typed' /\ Grows
  <2>1. job' \in [Jobs -> JobType] /\ proc' \in [Procs -> ProcType]
    BY <1>1, <1>4, <1>5, IdleType DEF Typed
  <2> QED BY <1>1, <1>4, <2>1 DEF Typed, Grows, ClaimIds, stops
<1>8. \A q \in Procs : ProcOK(q)' /\ OnlyTaker(q)' /\ JobHasLeft(q)'
  <2>1. ProcOK(p)' /\ OnlyTaker(p)' /\ JobHasLeft(p)'
    BY <1>6, IdleType DEF ProcOK, OnlyTaker, JobHasLeft, At, Idle
  <2>2. ASSUME NEW q \in Procs \ {p}, At(q, "claim", "take")
        PROVE  /\ claims'[proc[q].claim].status = "active"
               /\ ~claims'[proc[q].claim].lapsed
               /\ proc'[p].claim # proc[q].claim
               /\ \A k \in Jobs : job'[k].claim # proc[q].claim
    <3>1. \A k \in Jobs : job'[k].claim # proc[q].claim
      BY <1>2, <1>5, <1>6, <2>2, TakerKnown
    <3> QED BY <1>4, <1>6, <2>2, <3>1, IdleType, TakerKnown
  <2>3. \A q \in Procs \ {p} : Past(proc[q]) =>
          \A k \in Jobs : job'[k].status = "claimed" => job'[k].claim # proc[q].claim
    BY <1>2, <1>5, <1>6 DEF Inv, JobHasLeft
  <2> QED BY <1>6, <1>7, <2>1, <2>2, <2>3, ProcessesKept
<1>9. ASSUME NEW k \in Jobs PROVE JobOK(k)' /\ Backed(k)'
  <2>1. CASE k = j
    BY <1>2, <1>4, <1>5, <1>6, <2>1 DEF JobOK, Backed, ClaimOn, ClaimIds
  <2>2. CASE k # j
    <3>1. JobOK(k)'
      BY <1>6, <1>7, <2>2, JobKept
    <3>2. Backed(k)'
      BY <1>1, <1>4, <1>6, <2>2 DEF Inv, Backed, At, Procs, stops
    <3> QED BY <3>1, <3>2
  <2> QED BY <2>1, <2>2
<1> QED
  BY <1>4, <1>7, <1>8, <1>9, CreditsKept DEF Inv

\* unclaimJob frees the job.
LEMMA UnclaimJobKeepsInv ==
    ASSUME Inv, NEW p \in Procs, UnclaimJob(p)
    PROVE  Inv'
<1> DEFINE v == [status |-> "queued", claim |-> NoClaim]
<1>1. Typed /\ At(p, "unclaim", "job") /\ Unclaiming(proc[p]) /\ proc[p] \in ProcType
  BY DEF UnclaimJob, Inv, Typed, ProcOK, At, Idle
<1>2. PICK j \in Jobs : j = proc[p].job /\ ClaimOn(proc[p].claim, j)
  BY <1>1 DEF Unclaiming
<1>3. /\ job' = [job EXCEPT ![j] = v]
      /\ proc' = [proc EXCEPT ![p].step = "claim"]
      /\ UNCHANGED <<claims, submissions, credited, stops, calm>>
  BY <1>2 DEF UnclaimJob, SetJob, Goto
<1>4. ProcOK(p)' /\ JobOK(j)'
  BY <1>1, <1>2, <1>3 DEF ProcOK, Unclaiming, ClaimOn, ClaimIds, At, Typed, ProcType,
                          JobOK, NoClaim
<1>5. /\ proc[p].step = "job" /\ proc[p].op # "claim" /\ proc[p].op # "idle"
      /\ v \in JobType /\ v.status # "claimed"
      /\ v.claim \in {NoClaim, proc[p].claim, job[j].claim}
  BY <1>1 DEF At, JobType, NoClaim
<1> HIDE DEF v
<1> QED
  BY <1>2, <1>3, <1>4, <1>5, WriteJobKeepsInv

\* unclaimJob and rejectJob cancel the claim; submitJob closes it.
LEMMA LastClaimWriteKeepsInv ==
    ASSUME Inv, NEW p \in Procs, UnclaimClaim(p) \/ SubmitClaim(p) \/ RejectClaim(p)
    PROVE  Inv'
<1>1. Past(proc[p]) /\ Typed
  BY DEF UnclaimClaim, SubmitClaim, RejectClaim, At, Past, Inv
<1>2. proc[p].claim # NoClaim => proc[p].claim \in ClaimIds
  BY ClaimsKnown
<1>3. PICK s \in {"submitted", "cancelled"} : claims' = SetClaim(proc[p].claim, s)
  BY DEF UnclaimClaim, SubmitClaim, RejectClaim
<1>4. /\ proc' = [proc EXCEPT ![p] = Idle] /\ proc'[p] = Idle
      /\ UNCHANGED <<job, submissions, credited, stops, calm>>
  BY <1>1 DEF UnclaimClaim, SubmitClaim, RejectClaim, Finish, Typed
<1>5. ProcOK(p)'
  BY <1>4 DEF ProcOK, Idle
<1> QED
  BY <1>1, <1>2, <1>3, <1>4, <1>5, IdleType, EndClaimKeepsInv

\* submitJob inserts the submission.
LEMMA SubmitInsertKeepsInv ==
    ASSUME Inv, NEW p \in Procs, SubmitInsert(p)
    PROVE  Inv'
<1> DEFINE r == [proc[p] EXCEPT !.step = "job"]
           k == [job |-> proc[p].job, worker |-> proc[p].who, passed |-> proc[p].passed]
<1>1. Typed /\ At(p, "submit", "insert") /\ Submitting(proc[p]) /\ proc[p] \in ProcType
  BY DEF SubmitInsert, Inv, Typed, ProcOK, At, Idle
<1>2. /\ r \in ProcType /\ r.op = "submit" /\ r.step = "job" /\ r.job = proc[p].job
      /\ r.who = proc[p].who /\ r.claim = proc[p].claim /\ r.passed = proc[p].passed
  BY <1>1 DEF ProcType, At
<1>3. k \in [job : Jobs, worker : Workers, passed : BOOLEAN]
  BY <1>1 DEF ProcType, Submitting
<1>4. /\ proc' = [proc EXCEPT ![p] = r] /\ submissions' = submissions \cup {k}
      /\ UNCHANGED <<job, claims, credited, stops, calm>>
  BY <1>1 DEF SubmitInsert, Goto, Typed, ProcType
<1> HIDE DEF r
<1>5. proc'[p] = r
  BY <1>1, <1>4 DEF Typed
<1>6. ProcOK(p)'
  BY <1>1, <1>2, <1>4, <1>5 DEF ProcOK, Submitting, ClaimOn, ClaimIds
<1>7. CreditIsEarned'
  <2>1. CreditIsEarned
    BY DEF Inv
  <2> QED BY <1>4, <2>1 DEF CreditIsEarned
<1>8. /\ submissions' \subseteq [job : Jobs, worker : Workers, passed : BOOLEAN]
      /\ submissions \subseteq submissions'
  BY <1>1, <1>3, <1>4 DEF Typed
<1>9. ~At(p, "claim", "take") /\ ~At(p, "sweep", "job") /\ ~Past(r)
  BY <1>1, <1>2 DEF At, Past
<1> QED
  BY <1>1, <1>2, <1>4, <1>6, <1>7, <1>8, <1>9, MoveOnKeepsInv DEF Typed

\* submitJob moves the job to review, or to rework if the score gate failed.
LEMMA SubmitJobKeepsInv ==
    ASSUME Inv, NEW p \in Procs, SubmitJob(p)
    PROVE  Inv'
<1>1. Typed /\ At(p, "submit", "job") /\ Submitting(proc[p]) /\ proc[p] \in ProcType
  BY DEF SubmitJob, Inv, Typed, ProcOK, At, Idle
<1>2. PICK j \in Jobs : j = proc[p].job /\ ClaimOn(proc[p].claim, j)
  BY <1>1 DEF Submitting
<1>3. PICK c \in ClaimIds : c = proc[p].claim
  BY <1>2 DEF ClaimOn
<1>4. /\ claims[c].worker = proc[p].who /\ c \in Nat /\ c # NoClaim
      /\ [job |-> j, worker |-> proc[p].who, passed |-> proc[p].passed] \in submissions
  BY <1>1, <1>2, <1>3, ClaimIdsNat DEF Submitting, At, NoClaim
<1> DEFINE v == IF proc[p].passed THEN [status |-> "submitted", claim |-> c]
                ELSE [status |-> "rework", claim |-> NoClaim]
<1>5. /\ job' = [job EXCEPT ![j] = v]
      /\ proc' = [proc EXCEPT ![p].step = "claim"]
      /\ UNCHANGED <<claims, submissions, credited, stops, calm>>
  BY <1>2, <1>3 DEF SubmitJob, SetJob, Goto
<1>6. /\ v \in JobType /\ v.status \in {"submitted", "rework"}
      /\ v.status = "submitted" => v.claim = c /\ proc[p].passed
      /\ v.claim \in {NoClaim, c}
  BY <1>4 DEF JobType, NoClaim
<1> HIDE DEF v
<1>7. ProcOK(p)'
  BY <1>1, <1>5 DEF ProcOK, Submitting, ClaimOn, ClaimIds, At, Typed, ProcType
<1>8. JobOK(j)'
  <2>1. job'[j] = v /\ ClaimIds' = ClaimIds
    BY <1>1, <1>5 DEF Typed, ClaimIds
  <2>2. v.status = "submitted" => Passed(j, c)
    <3>1. proc[p].passed = TRUE \/ proc[p].passed = FALSE
      BY <1>1 DEF ProcType
    <3> QED BY <1>4, <1>6, <3>1 DEF Passed
  <2>3. v.claim # NoClaim => v.claim = c /\ ClaimOn(c, j)
    BY <1>2, <1>3, <1>6
  <2>4. v.status # "claimed" /\ (v.status = "submitted" => v.claim = c)
    BY <1>6
  <2>5. Passed(j, c)' = Passed(j, c) /\ ClaimOn(c, j)' = ClaimOn(c, j)
    BY <1>5, <2>1 DEF Passed, ClaimOn
  <2> QED BY <1>4, <2>1, <2>2, <2>3, <2>4, <2>5 DEF JobOK
<1>9. /\ proc[p].step = "job" /\ proc[p].op # "claim" /\ proc[p].op # "idle"
      /\ v.status # "claimed" /\ v.claim \in {NoClaim, proc[p].claim, job[j].claim}
  BY <1>1, <1>3, <1>6 DEF At
<1> QED
  BY <1>2, <1>5, <1>6, <1>7, <1>8, <1>9, WriteJobKeepsInv

\* acceptJob picks a submission, or finds none and ends.
LEMMA AcceptPickKeepsInv ==
    ASSUME Inv, NEW p \in Procs, AcceptPick(p)
    PROVE  Inv'
<1>1. Typed /\ At(p, "accept", "pick") /\ Accepting(proc[p]) /\ proc[p] \in ProcType
  BY DEF AcceptPick, Inv, Typed, ProcOK, At, Idle
<1>2. ~At(p, "claim", "take") /\ ~At(p, "sweep", "job")
  BY <1>1 DEF At
<1>3. UNCHANGED <<job, claims, submissions, credited, stops, calm>>
  BY DEF AcceptPick
<1>4. Grows /\ CreditIsEarned'
  BY <1>3, CreditsKept DEF Grows, ClaimIds
<1>5. CASE Finish(p)
  BY <1>1, <1>2, <1>3, <1>4, <1>5, FinishKeepsInv DEF Typed
<1>6. CASE \E s \in MatchingSubmissions(p) :
             proc' = [proc EXCEPT ![p].step = "job", ![p].passed = s.passed]
  <2> PICK s \in MatchingSubmissions(p) :
             proc' = [proc EXCEPT ![p].step = "job", ![p].passed = s.passed]
    BY <1>6
  <2> DEFINE r == [proc[p] EXCEPT !.step = "job", !.passed = s.passed]
  <2>1. s.passed \in BOOLEAN
    BY <1>1 DEF MatchingSubmissions, Typed
  <2>2. /\ r \in ProcType /\ r.op = "accept" /\ r.step = "job" /\ r.job = proc[p].job
        /\ r.who = proc[p].who /\ r.claim = proc[p].claim
    BY <1>1, <2>1 DEF ProcType, At
  <2>3. proc' = [proc EXCEPT ![p] = r]
    BY <1>1 DEF Typed, ProcType
  <2> HIDE DEF r
  <2>4. ProcOK(p)'
    BY <1>1, <1>3, <2>2, <2>3 DEF ProcOK, Accepting, ClaimOn, ClaimIds, Passed, Typed
  <2>5. Past(proc[p])
    BY <1>1 DEF Past, At
  <2> QED BY <1>1, <1>2, <1>3, <1>4, <2>2, <2>3, <2>4, <2>5, MoveOnKeepsInv DEF Typed
<1> QED
  BY <1>5, <1>6 DEF AcceptPick

\* acceptJob marks the job accepted, whatever has become of it.
LEMMA AcceptJobKeepsInv ==
    ASSUME Inv, NEW p \in Procs, AcceptJob(p)
    PROVE  Inv'
<1>1. Typed /\ At(p, "accept", "job") /\ Accepting(proc[p]) /\ proc[p] \in ProcType
  BY DEF AcceptJob, Inv, Typed, ProcOK, At, Idle
<1>2. PICK j \in Jobs : j = proc[p].job /\ ClaimOn(proc[p].claim, j)
  BY <1>1 DEF Accepting
<1> DEFINE v == [job[j] EXCEPT !.status = "accepted"]
<1>3. /\ JobOK(j) /\ job[j] \in JobType
      /\ v \in JobType /\ v.status = "accepted" /\ v.claim = job[j].claim
  BY <1>1 DEF Inv, Typed, JobType
<1>4. /\ job' = [job EXCEPT ![j] = v]
      /\ proc' = [proc EXCEPT ![p].step = "claim"]
      /\ UNCHANGED <<claims, submissions, credited, stops, calm>>
  BY <1>1, <1>2 DEF AcceptJob, Goto, Typed, JobType
<1> HIDE DEF v
<1>5. ProcOK(p)' /\ JobOK(j)'
  <2>1. ProcOK(p)'
    BY <1>1, <1>4 DEF ProcOK, Accepting, ClaimOn, ClaimIds, Passed, At, Typed, ProcType
  <2>2. job'[j] = v
    BY <1>1, <1>4 DEF Typed
  <2> QED BY <1>3, <1>4, <2>1, <2>2 DEF JobOK, ClaimOn, ClaimIds
<1>6. /\ proc[p].step = "job" /\ proc[p].op # "claim" /\ proc[p].op # "idle"
      /\ v.status # "claimed" /\ v.claim \in {NoClaim, proc[p].claim, job[j].claim}
  BY <1>1, <1>3 DEF At
<1> QED
  BY <1>2, <1>3, <1>4, <1>5, <1>6, WriteJobKeepsInv

\* acceptJob closes the claim.
LEMMA AcceptClaimKeepsInv ==
    ASSUME Inv, NEW p \in Procs, AcceptClaim(p)
    PROVE  Inv'
<1> DEFINE r == [proc[p] EXCEPT !.step = "credit"]
<1>1. Typed /\ At(p, "accept", "claim") /\ Accepting(proc[p]) /\ proc[p] \in ProcType
  BY DEF AcceptClaim, Inv, Typed, ProcOK, At, Idle
<1>2. /\ r \in ProcType /\ r.op = "accept" /\ r.step = "credit" /\ r.job = proc[p].job
      /\ r.who = proc[p].who /\ r.claim = proc[p].claim
  BY <1>1 DEF ProcType, At
<1>3. /\ proc' = [proc EXCEPT ![p] = r] /\ claims' = SetClaim(proc[p].claim, "submitted")
      /\ UNCHANGED <<job, submissions, credited, stops, calm>>
  BY <1>1 DEF AcceptClaim, Goto, Typed, ProcType
<1> HIDE DEF r
<1>4. Past(proc[p]) /\ (proc[p].claim # NoClaim => proc[p].claim \in ClaimIds)
  BY <1>1, ClaimsKnown DEF Past, At
<1>5. ProcOK(p)'
  <2>1. proc'[p] = r
    BY <1>1, <1>3 DEF Typed
  <2>2. proc[p].claim \in ClaimIds /\ proc[p].claim # NoClaim
    BY <1>1, ClaimIdsNat DEF Accepting, ClaimOn, NoClaim
  <2>3. /\ ClaimIds' = ClaimIds
        /\ claims'[proc[p].claim].job = claims[proc[p].claim].job
        /\ claims'[proc[p].claim].worker = claims[proc[p].claim].worker
    BY <1>1, <1>3, <2>2 DEF SetClaim, Typed, ClaimIds, ClaimType
  <2>4. /\ Accepting(proc[p]) /\ submissions' = submissions
        /\ proc'[p].step = "credit" /\ proc'[p].job = proc[p].job
        /\ proc'[p].who = proc[p].who /\ proc'[p].claim = proc[p].claim
    BY <1>1, <1>2, <1>3, <2>1
  <2>5. Accepting(proc[p])'
    BY <2>3, <2>4 DEF Accepting, ClaimOn, Passed
  <2> QED BY <1>2, <2>1, <2>5 DEF ProcOK
<1> QED
  BY <1>2, <1>3, <1>4, <1>5, EndClaimKeepsInv

\* acceptJob credits the worker it read, who passed the gate, or fails to.
LEMMA AcceptEndsKeepsInv ==
    ASSUME Inv, NEW p \in Procs, AcceptCredit(p) \/ AcceptSettleFails(p)
    PROVE  Inv'
<1>1. Typed /\ At(p, "accept", "credit") /\ Accepting(proc[p]) /\ proc[p] \in ProcType
  BY DEF AcceptCredit, AcceptSettleFails, Inv, Typed, ProcOK, At, Idle
<1>2. Finish(p) /\ UNCHANGED <<job, claims, submissions, stops, calm>>
  BY DEF AcceptCredit, AcceptSettleFails
<1> DEFINE k == [job |-> proc[p].job, worker |-> Holder(proc[p].claim),
                 reviewer |-> proc[p].who, passed |-> proc[p].passed]
<1>3. Holder(proc[p].claim) = claims[proc[p].claim].worker
      /\ claims[proc[p].claim].worker \in Workers
  <2>1. proc[p].claim \in ClaimIds /\ proc[p].claim # NoClaim
    BY <1>1, ClaimIdsNat DEF Accepting, ClaimOn, NoClaim
  <2>2. claims[proc[p].claim] \in ClaimType
    BY <1>1, <2>1 DEF Typed, ClaimIds
  <2> QED BY <2>1, <2>2 DEF Holder, ClaimType
<1>4. /\ k \in [job : Jobs, worker : Workers, reviewer : Reviewers, passed : BOOLEAN]
      /\ [job |-> k.job, worker |-> k.worker, passed |-> TRUE] \in submissions
      /\ k.reviewer \notin {k.worker, Poster}
  BY <1>1, <1>3 DEF Accepting, Passed, ProcType
<1>5. credited' \subseteq credited \cup {k}
  BY DEF AcceptCredit, AcceptSettleFails
<1> HIDE DEF k
<1>6. CreditIsEarned'
  <2>1. CreditIsEarned
    BY DEF Inv
  <2> QED BY <1>2, <1>4, <1>5, <2>1 DEF CreditIsEarned
<1>7. ~At(p, "claim", "take") /\ ~At(p, "sweep", "job")
  BY <1>1 DEF At
<1>8. credited' \subseteq [job : Jobs, worker : Workers, reviewer : Reviewers, passed : BOOLEAN]
  BY <1>1, <1>4, <1>5 DEF Typed
<1> QED
  BY <1>2, <1>6, <1>7, <1>8, FinishKeepsInv

\* rejectJob sends the job back to rework.
LEMMA RejectJobKeepsInv ==
    ASSUME Inv, NEW p \in Procs, RejectJob(p)
    PROVE  Inv'
<1> DEFINE v == [status |-> "rework", claim |-> NoClaim]
<1>1. Typed /\ At(p, "reject", "job") /\ Rejecting(proc[p]) /\ proc[p] \in ProcType
  BY DEF RejectJob, Inv, Typed, ProcOK, At, Idle
<1>2. PICK j \in Jobs : j = proc[p].job /\ (proc[p].claim # NoClaim => ClaimOn(proc[p].claim, j))
  BY <1>1 DEF Rejecting
<1>3. /\ job' = [job EXCEPT ![j] = v]
      /\ proc' = [proc EXCEPT ![p].step = "claim"]
      /\ UNCHANGED <<claims, submissions, credited, stops, calm>>
  BY <1>2 DEF RejectJob, SetJob, Goto
<1>4. ProcOK(p)' /\ JobOK(j)'
  BY <1>1, <1>2, <1>3 DEF ProcOK, Rejecting, ClaimOn, ClaimIds, At, Typed, ProcType,
                          JobOK, NoClaim
<1>5. /\ proc[p].step = "job" /\ proc[p].op # "claim" /\ proc[p].op # "idle"
      /\ v \in JobType /\ v.status # "claimed"
      /\ v.claim \in {NoClaim, proc[p].claim, job[j].claim}
  BY <1>1 DEF At, JobType, NoClaim
<1> HIDE DEF v
<1> QED
  BY <1>2, <1>3, <1>4, <1>5, WriteJobKeepsInv

\* The sweep expires an overdue claim.
LEMMA SweepClaimKeepsInv ==
    ASSUME Inv, NEW p \in Timers, SweepClaim(p)
    PROVE  Inv'
<1>1. p \in Procs /\ Typed /\ At(p, "sweep", "claim") /\ Sweeping(proc[p]) /\ proc[p] \in ProcType
  BY DEF SweepClaim, Inv, Typed, ProcOK, At, Idle, Procs
<1>2. PICK c \in proc[p].batch : TakeFromBatch(p, c) /\ claims' = SetClaim(c, "expired")
  BY DEF SweepClaim
<1>3. UNCHANGED <<job, submissions, credited, stops, calm>>
  BY DEF SweepClaim
<1>4. c \in ClaimIds /\ c \in Nat \ {0} /\ claims[c].lapsed /\ claims[c] \in ClaimType
  BY <1>1, ClaimIdsNat DEF Sweeping, Typed, ClaimIds
<1> DEFINE k == [claims[c] EXCEPT !.status = "expired"]
           r == [proc[p] EXCEPT !.step = "job", !.claim = c, !.batch = @ \ {c}]
<1>5. /\ k \in ClaimType /\ k.job = claims[c].job /\ k.worker = claims[c].worker
      /\ (claims[c].lapsed => k.lapsed) /\ submissions \subseteq submissions'
      /\ claims' = [claims EXCEPT ![c] = k]
  BY <1>1, <1>2, <1>3, <1>4 DEF ClaimType, SetClaim, NoClaim, Typed, ClaimIds
<1>6. /\ proc' = [proc EXCEPT ![p] = r] /\ r \in ProcType /\ r.op = "sweep"
      /\ r.step = "job" /\ r.claim = c /\ r.batch \subseteq proc[p].batch
  BY <1>1, <1>2, <1>4 DEF TakeFromBatch, Typed, ProcType, At
<1> HIDE DEF k, r
<1>7. /\ claims' \in Seq(ClaimType) /\ ClaimIds' = ClaimIds /\ Grows
      /\ claims'[c] = k /\ \A d \in ClaimIds \ {c} : claims'[d] = claims[d]
  BY <1>1, <1>4, <1>5, OneClaimChanges
<1>8. proc'[p] = r /\ \A q \in Procs \ {p} : proc'[q] = proc[q]
  BY <1>1, <1>6 DEF Typed
<1>9. Typed'
  <2>1. proc' \in [Procs -> ProcType]
    BY <1>1, <1>6 DEF Typed
  <2> QED BY <1>1, <1>3, <1>7, <2>1 DEF Typed, stops
<1>10. ProcOK(p)'
  BY <1>1, <1>4, <1>6, <1>7, <1>8 DEF ProcOK, Sweeping, NoClaim, Grows
<1>11. OnlyTaker(p)' /\ ~At(p, "claim", "take") /\ ~Past(r)
  BY <1>1, <1>6, <1>8 DEF OnlyTaker, At, Past
<1>12. \A j \in Jobs : Backed(j)'
  <2> SUFFICES ASSUME NEW j \in Jobs, job[j].status = "claimed"
               PROVE  \/ claims'[job[j].claim].status = "active"
                      \/ \E q \in Timers : At(q, "sweep", "job")' /\ proc'[q].claim = job[j].claim
                      \/ job[j].claim \in cut
    BY <1>3 DEF Backed, stops
  <2>1. Backed(j) /\ job[j].claim \in ClaimIds
    BY DEF Inv, JobOK, ClaimOn
  <2>2. CASE job[j].claim = c
    BY <1>6, <1>8, <2>2 DEF At
  <2>3. CASE job[j].claim # c
    BY <1>1, <1>7, <1>8, <2>1, <2>3 DEF Backed, At, Procs
  <2> QED BY <2>2, <2>3
<1>13. \A q \in Procs \ {p} : At(q, "claim", "take") =>
               /\ claims'[proc[q].claim].status = "active"
               /\ ~claims'[proc[q].claim].lapsed
  BY <1>4, <1>7, TakerKnown
<1>14. CreditIsEarned'
  BY <1>3, <1>7, CreditsKept
<1> QED
  BY <1>1, <1>3, <1>4, <1>6, <1>7, <1>9, <1>10, <1>11, <1>12, <1>13, <1>14, HandlerKeepsInv

\* The sweep requeues the job of the claim it has expired.
LEMMA SweepJobKeepsInv ==
    ASSUME Inv, NEW p \in Timers, SweepJob(p)
    PROVE  Inv'
<1> DEFINE v == [status |-> "queued", claim |-> NoClaim]
<1>1. p \in Procs /\ Typed /\ At(p, "sweep", "job") /\ Sweeping(proc[p]) /\ proc[p] \in ProcType
  BY DEF SweepJob, Inv, Typed, ProcOK, At, Idle, Procs
<1>2. proc[p].claim \in ClaimIds /\ claims[proc[p].claim] \in ClaimType
  BY <1>1 DEF Sweeping, At, Typed, ClaimIds
<1>3. PICK j \in Jobs : j = claims[proc[p].claim].job /\ ClaimOn(proc[p].claim, j)
  BY <1>2 DEF ClaimOn, ClaimType
<1>4. /\ job' = [job EXCEPT ![j] = v]
      /\ proc' = [proc EXCEPT ![p].step = "enqueue"]
      /\ UNCHANGED <<claims, submissions, credited, stops, calm>>
  BY <1>3 DEF SweepJob, SetJob, Goto
<1>5. ProcOK(p)' /\ JobOK(j)'
  BY <1>1, <1>3, <1>4 DEF ProcOK, Sweeping, ClaimIds, At, Typed, ProcType, JobOK, NoClaim
<1>6. /\ proc[p].step = "job" /\ proc[p].op # "claim" /\ proc[p].op # "idle"
      /\ v \in JobType /\ v.status # "claimed"
      /\ v.claim \in {NoClaim, proc[p].claim, job[j].claim}
  BY <1>1 DEF At, JobType, NoClaim
<1> HIDE DEF v
<1> QED
  BY <1>1, <1>3, <1>4, <1>5, <1>6, WriteJobKeepsInv

\* The sweep goes on to its next claim, or ends.
LEMMA SweepGoesOnKeepsInv ==
    ASSUME Inv, NEW p \in Timers, SweepEnqueue(p) \/ SweepAborts(p)
    PROVE  Inv'
<1>1. p \in Procs /\ Typed /\ At(p, "sweep", "enqueue") /\ Sweeping(proc[p]) /\ proc[p] \in ProcType
  BY DEF SweepEnqueue, SweepAborts, Inv, Typed, ProcOK, At, Idle, Procs
<1>2. UNCHANGED <<job, claims, submissions, credited, stops, calm>>
  BY DEF SweepEnqueue, SweepAborts
<1>3. ~At(p, "claim", "take") /\ ~At(p, "sweep", "job")
  BY <1>1 DEF At
<1>4. Grows /\ CreditIsEarned'
  BY <1>2, CreditsKept DEF Grows, ClaimIds
<1>5. CASE Finish(p)
  BY <1>1, <1>2, <1>3, <1>4, <1>5, FinishKeepsInv DEF Typed
<1>6. CASE Goto(p, "claim")
  <2> DEFINE r == [proc[p] EXCEPT !.step = "claim"]
  <2>1. /\ r \in ProcType /\ r.op = "sweep" /\ r.step = "claim" /\ r.batch = proc[p].batch
        /\ r.claim = proc[p].claim
    BY <1>1 DEF ProcType, At
  <2>2. proc' = [proc EXCEPT ![p] = r]
    BY <1>1, <1>6 DEF Goto, Typed, ProcType
  <2> HIDE DEF r
  <2>3. ProcOK(p)'
    BY <1>1, <1>2, <2>1, <2>2 DEF ProcOK, Sweeping, ClaimIds, Typed
  <2>4. ~Past(r)
    BY <2>1 DEF Past
  <2> QED BY <1>1, <1>2, <1>3, <1>4, <2>1, <2>2, <2>3, <2>4, MoveOnKeepsInv DEF Typed
<1> QED
  BY <1>5, <1>6 DEF SweepEnqueue, SweepAborts

\* A new job is published.
LEMMA PublishKeepsInv ==
    ASSUME Inv, NEW j \in Jobs, Publish(j)
    PROVE  Inv'
<1>1. Typed /\ UNCHANGED <<claims, submissions, credited, proc, stops, calm>>
  BY DEF Publish, Inv
<1>2. /\ job' \in [Jobs -> JobType]
      /\ job'[j].status = "queued" /\ job'[j].claim = NoClaim
      /\ \A k \in Jobs \ {j} : job'[k] = job[k]
  BY <1>1 DEF Publish, SetJob, Typed, JobType, NoClaim
<1>3. Typed' /\ Grows
  BY <1>1, <1>2 DEF Typed, Grows, ClaimIds, stops
<1>4. ASSUME NEW k \in Jobs PROVE JobOK(k)' /\ Backed(k)'
  <2>1. CASE k = j
    BY <1>2, <2>1 DEF JobOK, Backed
  <2>2. CASE k # j
    BY <1>1, <1>2, <1>3, <2>2, JobKept DEF Inv, Backed, At, stops
  <2> QED BY <2>1, <2>2
<1>5. ASSUME NEW q \in Procs PROVE ProcOK(q)' /\ OnlyTaker(q)' /\ JobHasLeft(q)'
  <2>1. ProcOK(q) /\ OnlyTaker(q) /\ JobHasLeft(q)
    BY DEF Inv
  <2>2. ProcOK(q)'
    BY <1>1, <1>3, <2>1, TakerKnown, HandsKept
  <2>3. OnlyTaker(q)'
    <3>1. At(q, "claim", "take") => proc[q].claim # NoClaim
      BY TakerKnown
    <3> QED BY <1>1, <1>2, <2>1, <3>1 DEF OnlyTaker, At
  <2>4. JobHasLeft(q)'
    BY <1>1, <1>2, <2>1 DEF JobHasLeft
  <2> QED BY <2>2, <2>3, <2>4
<1> QED
  BY <1>1, <1>3, <1>4, <1>5, CreditsKept DEF Inv

\* A lease lapses, not within the call that grants it.
LEMMA LapseKeepsInv ==
    ASSUME Inv, NEW c \in 1..MaxClaims, Lapse(c)
    PROVE  Inv'
<1>1. /\ Typed /\ UNCHANGED <<job, submissions, credited, proc, stops, calm>>
      /\ c \in ClaimIds /\ claims[c] \in ClaimType
  BY DEF Lapse, Inv, Typed, ClaimIds
<1> DEFINE k == [claims[c] EXCEPT !.lapsed = TRUE]
<1>2. /\ k \in ClaimType /\ k.job = claims[c].job /\ k.worker = claims[c].worker
      /\ k.status = claims[c].status
      /\ (claims[c].lapsed => k.lapsed) /\ submissions \subseteq submissions'
      /\ claims' = [claims EXCEPT ![c] = k]
  BY <1>1 DEF Lapse, ClaimType, Typed, ClaimIds
<1> HIDE DEF k
<1>3. /\ claims' \in Seq(ClaimType) /\ ClaimIds' = ClaimIds /\ Grows
      /\ claims'[c] = k /\ \A d \in ClaimIds \ {c} : claims'[d] = claims[d]
  BY <1>1, <1>2, OneClaimChanges
<1>4. Typed'
  BY <1>1, <1>3 DEF Typed, stops
<1>5. ASSUME NEW j \in Jobs PROVE JobOK(j)' /\ Backed(j)'
  <2>1. JobOK(j)'
    BY <1>1, <1>3, JobKept
  <2>2. job[j].status = "claimed" => job[j].claim \in ClaimIds
    BY DEF Inv, JobOK, ClaimOn
  <2>3. Backed(j)'
    BY <1>1, <1>2, <1>3, <2>2 DEF Inv, Backed, At, stops
  <2> QED BY <2>1, <2>3
<1>6. ASSUME NEW q \in Procs PROVE ProcOK(q)' /\ OnlyTaker(q)' /\ JobHasLeft(q)'
  <2>1. ProcOK(q) /\ OnlyTaker(q) /\ JobHasLeft(q)
    BY DEF Inv
  <2>2. At(q, "claim", "take") => q \in Requests
    BY <2>1 DEF ProcOK, At, Idle, Procs
  <2>3. At(q, "claim", "take") =>
               claims'[proc[q].claim].status = "active" /\ ~claims'[proc[q].claim].lapsed
    BY <1>3, <2>2, TakerKnown DEF Lapse
  <2>4. ProcOK(q)'
    BY <1>1, <1>3, <2>1, <2>3, HandsKept
  <2> QED BY <1>1, <2>1, <2>4 DEF OnlyTaker, At, JobHasLeft
<1> QED
  BY <1>1, <1>3, <1>4, <1>5, <1>6, CreditsKept DEF Inv

\* A process that stops halfway leaves a claim that is in the table.
LEMMA CutClaims == Inv => \A P \in SUBSET Procs : CutBy(P) \subseteq ClaimIds
<1> SUFFICES ASSUME Inv, NEW q \in Procs, Halfway(q) PROVE proc[q].claim \in ClaimIds
  BY DEF CutBy
<1>1. ProcOK(q)
  BY DEF Inv
<1> QED
  BY <1>1 DEF ProcOK, Halfway, At, Claiming, Unclaiming, Submitting, Sweeping, ClaimOn, Idle

\* A statement throws: its process is over, and the sweep's claim is known to be cut.
LEMMA FailKeepsInv ==
    ASSUME Inv, NEW p \in Procs, Fail(p)
    PROVE  Inv'
<1>1. /\ Typed /\ UNCHANGED <<job, claims, submissions, credited>>
      /\ proc'[p] = Idle /\ \A q \in Procs \ {p} : proc'[q] = proc[q]
      /\ cut \subseteq cut'
  BY DEF Fail, Finish, Inv, Typed
<1>2. Typed' /\ Grows
  <2>1. proc' \in [Procs -> ProcType]
    BY <1>1, IdleType DEF Fail, Finish, Typed
  <2>2. cut' \subseteq ClaimIds
    BY <1>1, CutClaims DEF Fail, Typed
  <2>3. crashes' \in Nat /\ faults' \in Nat /\ calm' \in BOOLEAN
    BY <1>1 DEF Fail, Typed
  <2> QED BY <1>1, <2>1, <2>2, <2>3 DEF Typed, Grows, ClaimIds
<1>3. ASSUME NEW j \in Jobs PROVE JobOK(j)' /\ Backed(j)'
  <2>1. JobOK(j)'
    BY <1>1, <1>2, JobKept
  <2>2. Backed(j)'
    <3>1. At(p, "sweep", "job") => proc[p].claim \in cut'
      BY DEF Fail, CutBy, Halfway
    <3>2. Backed(j)
      BY DEF Inv
    <3> QED BY <1>1, <3>1, <3>2 DEF Backed, At, Procs
  <2> QED BY <2>1, <2>2
<1>4. \A q \in Procs : ProcOK(q)' /\ OnlyTaker(q)' /\ JobHasLeft(q)'
  <2>1. ProcOK(p)' /\ OnlyTaker(p)' /\ JobHasLeft(p)'
    BY <1>1, IdleType DEF ProcOK, OnlyTaker, At, JobHasLeft
  <2>2. ASSUME NEW q \in Procs \ {p}, At(q, "claim", "take")
        PROVE  /\ claims'[proc[q].claim].status = "active" /\ ~claims'[proc[q].claim].lapsed
               /\ proc'[p].claim # proc[q].claim
               /\ \A j \in Jobs : job'[j].claim # proc[q].claim
    BY <1>1, <2>2, IdleType, TakerKnown
  <2>3. \A q \in Procs \ {p} : Past(proc[q]) =>
          \A j \in Jobs : job'[j].status = "claimed" => job'[j].claim # proc[q].claim
    BY <1>1 DEF Inv, JobHasLeft
  <2> QED BY <1>1, <1>2, <2>1, <2>2, <2>3, ProcessesKept
<1> QED
  BY <1>1, <1>2, <1>3, <1>4, CreditsKept DEF Inv

\* A crash loses what was in flight.
LEMMA CrashKeepsInv ==
    ASSUME Inv, Crash
    PROVE  Inv'
<1>1. /\ Typed /\ UNCHANGED <<job, claims, submissions, credited>>
      /\ \A q \in Procs : proc'[q] = Idle
      /\ cut \subseteq cut'
  BY DEF Crash, Inv
<1>2. Typed' /\ Grows
  <2>1. proc' \in [Procs -> ProcType]
    BY IdleType DEF Crash
  <2>2. cut' \subseteq ClaimIds
    BY <1>1, CutClaims DEF Crash, Typed
  <2>3. crashes' \in Nat /\ faults' \in Nat /\ calm' \in BOOLEAN
    BY <1>1 DEF Crash, Typed
  <2> QED BY <1>1, <2>1, <2>2, <2>3 DEF Typed, Grows, ClaimIds
<1>3. ASSUME NEW j \in Jobs PROVE JobOK(j)' /\ Backed(j)'
  <2>1. JobOK(j)'
    BY <1>1, <1>2, JobKept
  <2>2. \A q \in Timers : At(q, "sweep", "job") => proc[q].claim \in cut'
    BY DEF Crash, CutBy, Halfway, Procs
  <2>3. Backed(j)'
    BY <1>1, <2>2 DEF Inv, Backed
  <2> QED BY <2>1, <2>3
<1>4. ASSUME NEW q \in Procs PROVE ProcOK(q)' /\ OnlyTaker(q)' /\ JobHasLeft(q)'
  BY <1>1, IdleType DEF ProcOK, OnlyTaker, At, JobHasLeft
<1> QED
  BY <1>1, <1>2, <1>3, <1>4, CreditsKept DEF Inv

\* At the start nothing is claimed and nothing is in flight.
LEMMA InitInv == Init => Inv
<1> SUFFICES ASSUME Init PROVE Inv
  OBVIOUS
<1>1. Typed
  BY IdleType DEF Init, Typed, JobType, NoClaim
<1>2. ASSUME NEW j \in Jobs PROVE JobOK(j) /\ Backed(j)
  BY DEF Init, JobOK, Backed
<1>3. ASSUME NEW p \in Procs PROVE ProcOK(p) /\ OnlyTaker(p) /\ JobHasLeft(p)
  BY IdleType DEF Init, ProcOK, OnlyTaker, At, JobHasLeft
<1> QED
  BY <1>1, <1>2, <1>3 DEF Inv, Init, CreditIsEarned

\* Every step keeps the invariant.
LEMMA StepInv == Inv /\ [Next]_vars => Inv'
<1> SUFFICES ASSUME Inv, [Next]_vars PROVE Inv'
  OBVIOUS
<1>1. ASSUME NEW p \in Requests, Call(p) PROVE Inv'
  <2>1. p \in Procs
    BY DEF Procs
  <2> QED BY <1>1, <2>1, ClaimReadKeepsInv, UnclaimReadKeepsInv, SubmitReadKeepsInv,
             AcceptReadKeepsInv, RejectReadKeepsInv DEF Call
<1>2. ASSUME NEW p \in Requests, Continue(p) PROVE Inv'
  <2>1. p \in Procs
    BY DEF Procs
  <2> QED BY <1>2, <2>1, ClaimInsertKeepsInv, ClaimTakeKeepsInv, UnclaimJobKeepsInv,
             LastClaimWriteKeepsInv, SubmitInsertKeepsInv, SubmitJobKeepsInv,
             AcceptPickKeepsInv, AcceptJobKeepsInv, AcceptClaimKeepsInv,
             AcceptEndsKeepsInv, RejectJobKeepsInv DEF Continue
<1>3. ASSUME NEW p \in Timers, SweepSelect(p) \/ ContinueSweep(p) PROVE Inv'
  BY <1>3, SweepSelectKeepsInv, SweepClaimKeepsInv, SweepJobKeepsInv,
     SweepGoesOnKeepsInv DEF ContinueSweep
<1>4. CASE UNCHANGED vars
  BY <1>4 DEF vars, Inv, Typed, JobOK, Backed, ProcOK, OnlyTaker, JobHasLeft,
     CreditIsEarned, ClaimOn, Passed, ClaimIds, At, Claiming, Unclaiming, Submitting,
     Accepting, Rejecting, Sweeping
<1> QED
  BY <1>1, <1>2, <1>3, <1>4, PublishKeepsInv, LapseKeepsInv, FailKeepsInv, CrashKeepsInv DEF Next

-----------------------------------------------------------------------------
(* What follows from it *)

\* In every reachable state the invariant holds.
THEOREM InvHolds == Spec => []Inv
<1> QED
  BY InitInv, StepInv, PTL DEF Spec

\* The tables have their types: an active claim id names a row of claims, and no
\* handler writes a status outside those of the schema.
THEOREM JobsTyped == Spec => []TypeOK
<1>1. Inv => TypeOK
  <2> SUFFICES ASSUME Inv PROVE TypeOK
    OBVIOUS
  <2>1. Typed
    BY DEF Inv
  <2>2. \A c \in ClaimIds : claims[c] \in ClaimType
    BY <2>1 DEF Typed, ClaimIds
  <2>3. \A j \in Jobs : job[j] \in JobType
    BY <2>1 DEF Typed
  <2> QED BY <2>1, <2>2, <2>3, ClaimsKnown DEF TypeOK, Typed, ClaimType, JobType
<1> QED
  BY <1>1, InvHolds, PTL

\* Whatever overlaps, throws or is lost in a restart, a claimed job is backed by its
\* own active claim, or by one that a sweep is about to requeue, or was stopped at: the
\* sweep, which reads claims only, misses no other claimed job.
THEOREM SweepFindsClaimedJobs == Spec => []SweepCanFindClaimedJobs
<1>1. Inv => SweepCanFindClaimedJobs
  BY DEF Inv, JobOK, Backed, ClaimOn, SweepCanFindClaimedJobs
<1> QED
  BY <1>1, InvHolds, PTL

\* However stale the row that submitJob writes back, a submitted job names a worker
\* whose submission for it passed the score gate.
THEOREM SubmittedJobsPassed == Spec => []SubmittedWorkPassed
<1>1. Inv => SubmittedWorkPassed
  BY DEF Inv, JobOK, Passed, SubmittedWorkPassed, Holder
<1> QED
  BY <1>1, InvHolds, PTL

\* Whoever is credited for a job passed its gate and was judged by somebody else
\* than himself or the poster, whatever became of the job since acceptJob read it.
THEOREM CreditsAreEarned == Spec => []CreditIsEarned
<1>1. Inv => CreditIsEarned
  BY DEF Inv
<1> QED
  BY <1>1, InvHolds, PTL

-----------------------------------------------------------------------------
(* As long as nothing overlaps *)

\* Claim c is active exactly when its job is claimed with it, unless something was
\* stopped halfway on that job.
Agrees(c) ==
    Whole(claims[c].job) =>
        (claims[c].status = "active" <=>
             job[claims[c].job].status = "claimed" /\ job[claims[c].job].claim = c)

\* Claim c is between the two UPDATEs of process p.
Apart(p, c) ==
    /\ proc[p].claim = c
    /\ \/ At(p, "claim", "take") \/ At(p, "sweep", "job")
       \/ At(p, "unclaim", "claim") \/ At(p, "submit", "claim")

\* What p has read and not yet written is still so.
StillClaimed(p) ==
    job[proc[p].job].status = "claimed" /\ job[proc[p].job].claim = proc[p].claim

StillSo(p) ==
    /\ proc[p].op = "claim" => job[proc[p].job].status \in {"queued", "rework"}
    /\ At(p, "unclaim", "job") => StillClaimed(p)
    /\ At(p, "submit", "insert") \/ At(p, "submit", "job") => StillClaimed(p)
    /\ At(p, "accept", "pick") \/ At(p, "accept", "job") => job[proc[p].job].status = "submitted"
    /\ At(p, "reject", "job") => job[proc[p].job].status \in {"submitted", "accepted"}
    /\ proc[p].op = "sweep" => \A c \in proc[p].batch : claims[c].status = "active"
    /\ At(p, "sweep", "job") =>
          LET c == proc[p].claim IN
          /\ c \notin proc[p].batch /\ claims[c].status # "active"
          /\ Whole(claims[c].job) =>
                job[claims[c].job].status = "claimed" /\ job[claims[c].job].claim = c

CalmInv ==
    calm =>
        /\ \A p, q \in Procs : proc[p] # Idle /\ proc[q] # Idle => p = q
        /\ \A p \in Procs : StillSo(p)
        /\ \A c \in ClaimIds : Agrees(c) \/ \E p \in Procs : Apart(p, c)

\* A step makes no job whole again.
LEMMA WholeKept ==
    ASSUME Typed, cut \subseteq cut', \A c \in ClaimIds : claims'[c].job = claims[c].job
    PROVE  \A c \in ClaimIds : Whole(claims[c].job)' => Whole(claims[c].job)
  BY DEF Whole, Typed

\* A process in flight is alone, and only its claim can be apart from its job.
LEMMA CalmAlone ==
    ASSUME CalmInv, calm, NEW p \in Procs, proc[p] # Idle
    PROVE  /\ \A q \in Procs \ {p} : proc[q] = Idle
           /\ StillSo(p)
           /\ \A c \in ClaimIds : Agrees(c) \/ Apart(p, c)
<1>1. \A q \in Procs \ {p} : proc[q] = Idle
  BY DEF CalmInv
<1>2. ASSUME NEW q \in Procs \ {p}, NEW c \in ClaimIds PROVE ~Apart(q, c)
  BY <1>1 DEF Apart, At, Idle
<1> QED
  BY <1>1, <1>2 DEF CalmInv

\* A process that is alone moves.
LEMMA CalmMoves ==
    ASSUME CalmInv, calm, NEW p \in Procs, proc[p] # Idle,
           \A q \in Procs \ {p} : proc'[q] = proc[q],
           StillSo(p)', \A c \in ClaimIds' : Agrees(c)' \/ Apart(p, c)'
    PROVE  CalmInv'
<1>1. \A q \in Procs \ {p} : proc'[q] = Idle
  BY CalmAlone
<1>2. \A q \in Procs : StillSo(q)'
  BY <1>1 DEF StillSo, At, Idle
<1> QED
  BY <1>1, <1>2 DEF CalmInv

\* A process that is alone ends.
LEMMA CalmEnds ==
    ASSUME Typed, CalmInv, calm, NEW p \in Procs, proc[p] # Idle, Finish(p),
           \A c \in ClaimIds' : Agrees(c)'
    PROVE  CalmInv'
<1>1. proc'[p] = Idle /\ \A q \in Procs \ {p} : proc'[q] = proc[q]
  BY DEF Finish, Typed
<1>2. StillSo(p)'
  BY <1>1 DEF StillSo, At, Idle
<1> QED
  BY <1>1, <1>2, CalmMoves

\* Where nothing is in flight, a process starts with what it has just read.
LEMMA CalmStarts ==
    ASSUME Typed, CalmInv, calm', NEW p \in Procs, NEW r, Start(p, r),
           UNCHANGED <<job, claims, cut>>, StillSo(p)'
    PROVE  CalmInv'
<1>1. /\ calm /\ \A q \in Procs : proc[q] = Idle
      /\ \A q \in Procs \ {p} : proc'[q] = proc[q]
  BY DEF Start, Typed
<1>2. \A c \in ClaimIds : Agrees(c)
  BY <1>1 DEF CalmInv, Apart, At, Idle
<1>3. \A c \in ClaimIds' : Agrees(c)'
  BY <1>2 DEF ClaimIds, Agrees, Whole
<1>4. \A q \in Procs : StillSo(q)'
  BY <1>1 DEF StillSo, At, Idle
<1> QED
  BY <1>1, <1>3, <1>4 DEF CalmInv

\* The reads of the requests.
LEMMA CalmCalls ==
    ASSUME Inv, CalmInv, calm', NEW p \in Procs, Call(p)
    PROVE  CalmInv'
<1>1. Typed
  BY DEF Inv
<1>2. ASSUME NEW j \in Jobs, NEW w \in Workers, ClaimRead(p, j, w) PROVE CalmInv'
  <2> DEFINE r == [Idle EXCEPT !.op = "claim", !.step = "insert", !.job = j, !.who = w]
  <2>1. Start(p, r) /\ UNCHANGED <<job, claims, cut>> /\ proc'[p] = r
    BY <1>1, <1>2 DEF ClaimRead, Start, Typed, stops
  <2>2. StillSo(p)'
    BY <1>2, <2>1 DEF ClaimRead, StillSo, At, Idle
  <2> HIDE DEF r
  <2> QED BY <1>1, <2>1, <2>2, CalmStarts
<1>3. ASSUME NEW j \in Jobs, NEW w \in Workers, UnclaimRead(p, j, w) PROVE CalmInv'
  <2> DEFINE r == [Idle EXCEPT !.op = "unclaim", !.step = "job", !.job = j, !.claim = job[j].claim]
  <2>1. Start(p, r) /\ UNCHANGED <<job, claims, cut>> /\ proc'[p] = r
    BY <1>1, <1>3 DEF UnclaimRead, Start, Typed, stops
  <2>2. StillSo(p)'
    BY <1>3, <2>1 DEF UnclaimRead, StillSo, StillClaimed, At, Idle
  <2> HIDE DEF r
  <2> QED BY <1>1, <2>1, <2>2, CalmStarts
<1>4. ASSUME NEW j \in Jobs, NEW w \in Workers, NEW passed \in BOOLEAN, SubmitRead(p, j, w, passed)
      PROVE  CalmInv'
  <2> DEFINE r == [Idle EXCEPT !.op = "submit", !.step = "insert", !.job = j, !.who = w,
                               !.claim = job[j].claim, !.passed = passed]
  <2>1. Start(p, r) /\ UNCHANGED <<job, claims, cut>> /\ proc'[p] = r
    BY <1>1, <1>4 DEF SubmitRead, Start, Typed, stops
  <2>2. job[j].status = "claimed"
    BY <1>1, <1>4 DEF SubmitRead, Typed, JobType
  <2>3. StillSo(p)'
    BY <2>1, <2>2 DEF StillSo, StillClaimed, At, Idle
  <2> HIDE DEF r
  <2> QED BY <1>1, <2>1, <2>3, CalmStarts
<1>5. ASSUME NEW j \in Jobs, NEW a \in Reviewers, AcceptRead(p, j, a) PROVE CalmInv'
  <2> DEFINE r == [Idle EXCEPT !.op = "accept", !.step = "pick", !.job = j, !.who = a,
                               !.claim = job[j].claim]
  <2>1. Start(p, r) /\ UNCHANGED <<job, claims, cut>> /\ proc'[p] = r
    BY <1>1, <1>5 DEF AcceptRead, Start, Typed, stops
  <2>2. StillSo(p)'
    BY <1>5, <2>1 DEF AcceptRead, StillSo, At, Idle
  <2> HIDE DEF r
  <2> QED BY <1>1, <2>1, <2>2, CalmStarts
<1>6. ASSUME NEW j \in Jobs, RejectRead(p, j) PROVE CalmInv'
  <2> DEFINE r == [Idle EXCEPT !.op = "reject", !.step = "job", !.job = j, !.claim = job[j].claim]
  <2>1. Start(p, r) /\ UNCHANGED <<job, claims, cut>> /\ proc'[p] = r
    BY <1>1, <1>6 DEF RejectRead, Start, Typed, stops
  <2>2. StillSo(p)'
    BY <1>6, <2>1 DEF RejectRead, StillSo, At, Idle
  <2> HIDE DEF r
  <2> QED BY <1>1, <2>1, <2>2, CalmStarts
<1> QED
  BY <1>2, <1>3, <1>4, <1>5, <1>6 DEF Call

\* The read of the sweep.
LEMMA CalmSelects ==
    ASSUME Inv, CalmInv, calm', NEW p \in Procs, SweepSelect(p)
    PROVE  CalmInv'
<1> DEFINE r == [Idle EXCEPT !.op = "sweep", !.step = "claim", !.batch = Overdue]
<1>1. Typed /\ Start(p, r) /\ UNCHANGED <<job, claims, cut>> /\ proc'[p] = r
  BY DEF Inv, SweepSelect, Start, Typed, stops
<1>2. StillSo(p)'
  BY <1>1 DEF StillSo, At, Idle, Overdue
<1> HIDE DEF r
<1> QED
  BY <1>1, <1>2, CalmStarts

\* claimJob inserts its claim, which no job names yet.
LEMMA CalmClaimInsert ==
    ASSUME Inv, CalmInv, calm, NEW p \in Procs, ClaimInsert(p)
    PROVE  CalmInv'
<1>1. Typed /\ At(p, "claim", "insert") /\ proc[p] # Idle /\ proc[p] \in ProcType
  BY DEF Inv, ClaimInsert, Typed, At, Idle
<1>2. StillSo(p) /\ \A c \in ClaimIds : Agrees(c)
  BY <1>1, CalmAlone DEF Apart, At
<1>3. /\ Len(claims') = Len(claims) + 1
      /\ \A c \in ClaimIds : claims'[c] = claims[c]
      /\ UNCHANGED <<job, cut>>
  BY <1>1 DEF ClaimInsert, Typed, ClaimIds, stops
<1>4. /\ proc'[p].op = "claim" /\ proc'[p].step = "take" /\ proc'[p].claim = Len(claims) + 1
      /\ proc'[p].job = proc[p].job
      /\ \A q \in Procs \ {p} : proc'[q] = proc[q]
  BY <1>1 DEF ClaimInsert, Typed, ProcType, At
<1>5. StillSo(p)'
  BY <1>1, <1>2, <1>3, <1>4 DEF StillSo, At
<1>6. ASSUME NEW c \in ClaimIds' PROVE Agrees(c)' \/ Apart(p, c)'
  <2>1. CASE c \in ClaimIds
    BY <1>1, <1>2, <1>3, <2>1, WholeKept DEF Agrees
  <2>2. CASE c \notin ClaimIds
    <3>1. c = Len(claims) + 1
      BY <1>1, <1>3, <2>2 DEF ClaimIds, Typed
    <3> QED BY <1>4, <3>1 DEF Apart, At
  <2> QED BY <2>1, <2>2
<1> QED
  BY <1>1, <1>4, <1>5, <1>6, CalmMoves

\* claimJob writes its claim into a job that nobody holds.
LEMMA CalmClaimTake ==
    ASSUME Inv, CalmInv, calm, NEW p \in Procs, ClaimTake(p)
    PROVE  CalmInv'
<1>1. Typed /\ At(p, "claim", "take") /\ proc[p] # Idle
  BY DEF Inv, ClaimTake, Typed, At, Idle
<1>2. PICK c \in ClaimIds, j \in Jobs : c = proc[p].claim /\ j = proc[p].job
  BY <1>1, TakerKnown
<1>3. claims[c].job = j /\ claims[c].status = "active"
  BY <1>1, <1>2, TakerKnown
<1>4. /\ job[j].status \in {"queued", "rework"}
      /\ \A d \in ClaimIds \ {c} : Agrees(d)
  BY <1>1, <1>2, CalmAlone DEF StillSo, At, Apart
<1>5. /\ job'[j].status = "claimed" /\ job'[j].claim = c
      /\ \A k \in Jobs \ {j} : job'[k] = job[k]
      /\ UNCHANGED <<claims, cut>> /\ ClaimIds' = ClaimIds
  BY <1>1, <1>2 DEF ClaimTake, SetJob, Typed, ClaimIds, stops
<1>6. ASSUME NEW d \in ClaimIds PROVE Agrees(d)'
  <2>1. CASE d = c
    BY <1>3, <1>5, <2>1 DEF Agrees
  <2>2. CASE d # c
    <3>1. claims[d].job \in Jobs /\ Agrees(d)
      BY <1>1, <1>4, <2>2, ClaimRows
    <3> QED BY <1>1, <1>4, <1>5, <2>2, <3>1, WholeKept DEF Agrees
  <2> QED BY <2>1, <2>2
<1> QED
  BY <1>1, <1>5, <1>6, CalmEnds DEF ClaimTake

\* A job that is not claimed is written by p: the claim it had is apart from it.
LEMMA CalmWritesJob ==
    ASSUME Inv, CalmInv, calm, NEW p \in Procs, NEW j \in Jobs, NEW v \in JobType, NEW s,
           proc[p].step = "job", proc[p].op # "idle",
           job' = [job EXCEPT ![j] = v], v.status # "claimed",
           proc' = [proc EXCEPT ![p].step = s], UNCHANGED <<claims, cut>>,
           \A c \in ClaimIds :
               Apart(p, c) \/ (job[j].status = "claimed" /\ job[j].claim = c) =>
                   \/ Apart(p, c)' \/ ~Whole(claims[c].job)
                   \/ claims[c].job = j /\ claims[c].status # "active",
           StillSo(p)'
    PROVE  CalmInv'
<1>1. Typed /\ proc[p] # Idle
  BY DEF Inv, Idle
<1>2. \A c \in ClaimIds : Agrees(c) \/ Apart(p, c)
  BY <1>1, CalmAlone
<1>3. /\ job'[j] = v /\ \A k \in Jobs \ {j} : job'[k] = job[k]
      /\ ClaimIds' = ClaimIds
      /\ \A q \in Procs \ {p} : proc'[q] = proc[q]
  BY <1>1 DEF Typed, ClaimIds
<1>4. ASSUME NEW c \in ClaimIds PROVE Agrees(c)' \/ Apart(p, c)'
  <2>1. claims[c].job \in Jobs
    BY <1>1, ClaimRows
  <2>2. Whole(claims[c].job)' => Whole(claims[c].job)
    BY <1>1, WholeKept
  <2> QED BY <1>2, <1>3, <2>1, <2>2 DEF Agrees
<1> QED
  BY <1>1, <1>3, <1>4, CalmMoves

\* unclaimJob and submitJob take the job from the claim it is claimed with.
LEMMA CalmLeavesClaim ==
    ASSUME Inv, CalmInv, calm, NEW p \in Procs, UnclaimJob(p) \/ SubmitJob(p)
    PROVE  CalmInv'
<1>1. /\ Typed /\ proc[p] \in ProcType /\ ProcOK(p)
      /\ At(p, "unclaim", "job") \/ At(p, "submit", "job")
  BY DEF Inv, Typed, UnclaimJob, SubmitJob
<1>2. proc[p].step = "job" /\ proc[p].op # "idle" /\ proc[p] # Idle
  BY <1>1 DEF At, Idle
<1>3. PICK j \in Jobs : j = proc[p].job
  BY <1>1 DEF ProcOK, At, Unclaiming, Submitting, Idle
<1>4. job[j].status = "claimed" /\ job[j].claim = proc[p].claim
  BY <1>1, <1>2, <1>3, CalmAlone DEF StillSo, StillClaimed
<1>5. PICK v \in JobType : v.status # "claimed" /\ job' = [job EXCEPT ![j] = v]
  <2>1. proc[p].claim \in Nat
    BY <1>1 DEF ProcType
  <2>2. /\ [status |-> "queued", claim |-> NoClaim] \in JobType
        /\ [status |-> "rework", claim |-> NoClaim] \in JobType
        /\ [status |-> "submitted", claim |-> proc[p].claim] \in JobType
    BY <2>1 DEF JobType, NoClaim
  <2> QED BY <1>3, <2>2 DEF UnclaimJob, SubmitJob, SetJob
<1>6. proc' = [proc EXCEPT ![p].step = "claim"] /\ UNCHANGED <<claims, cut>>
  BY DEF UnclaimJob, SubmitJob, Goto, stops
<1>7. /\ proc'[p].op = proc[p].op /\ proc'[p].step = "claim" /\ proc'[p].claim = proc[p].claim
  BY <1>1, <1>6 DEF Typed, ProcType
<1>8. StillSo(p)'
  BY <1>1, <1>7 DEF StillSo, At
<1>9. \A c \in ClaimIds :
        Apart(p, c) \/ (job[j].status = "claimed" /\ job[j].claim = c) =>
            \/ Apart(p, c)' \/ ~Whole(claims[c].job)
            \/ claims[c].job = j /\ claims[c].status # "active"
  BY <1>1, <1>4, <1>7 DEF Apart, At
<1> QED
  BY <1>2, <1>5, <1>6, <1>8, <1>9, CalmWritesJob

\* acceptJob and rejectJob decide on a job that is not claimed.
LEMMA CalmDecides ==
    ASSUME Inv, CalmInv, calm, NEW p \in Procs, AcceptJob(p) \/ RejectJob(p)
    PROVE  CalmInv'
<1>1. /\ Typed /\ proc[p] \in ProcType /\ ProcOK(p)
      /\ At(p, "accept", "job") \/ At(p, "reject", "job")
  BY DEF Inv, Typed, AcceptJob, RejectJob
<1>2. proc[p].step = "job" /\ proc[p].op # "idle" /\ proc[p] # Idle
  BY <1>1 DEF At, Idle
<1>3. PICK j \in Jobs : j = proc[p].job
  BY <1>1 DEF ProcOK, At, Accepting, Rejecting, Idle
<1>4. job[j].status # "claimed" /\ job[j] \in JobType
  BY <1>1, <1>2, <1>3, CalmAlone DEF StillSo, Typed
<1>5. PICK v \in JobType : v.status # "claimed" /\ job' = [job EXCEPT ![j] = v]
  <2>1. /\ [status |-> "rework", claim |-> NoClaim] \in JobType
        /\ [job[j] EXCEPT !.status = "accepted"] \in JobType
        /\ [job[j] EXCEPT !.status = "accepted"].status # "claimed"
    BY <1>4 DEF JobType, NoClaim
  <2>2. CASE AcceptJob(p)
    <3>1. job' = [job EXCEPT ![j] = [job[j] EXCEPT !.status = "accepted"]]
      BY <1>1, <1>3, <1>4, <2>2 DEF AcceptJob, Typed, JobType
    <3> QED BY <2>1, <3>1
  <2>3. CASE RejectJob(p)
    BY <1>3, <2>1, <2>3 DEF RejectJob, SetJob
  <2> QED BY <2>2, <2>3
<1>6. proc' = [proc EXCEPT ![p].step = "claim"] /\ UNCHANGED <<claims, cut>>
  BY DEF AcceptJob, RejectJob, Goto, stops
<1>7. /\ proc'[p].op = proc[p].op /\ proc'[p].step = "claim" /\ proc'[p].claim = proc[p].claim
  BY <1>1, <1>6 DEF Typed, ProcType
<1>8. StillSo(p)'
  BY <1>1, <1>7 DEF StillSo, At
<1>9. \A c \in ClaimIds :
        Apart(p, c) \/ (job[j].status = "claimed" /\ job[j].claim = c) =>
            \/ Apart(p, c)' \/ ~Whole(claims[c].job)
            \/ claims[c].job = j /\ claims[c].status # "active"
  BY <1>1, <1>4 DEF Apart, At
<1> QED
  BY <1>2, <1>5, <1>6, <1>8, <1>9, CalmWritesJob

\* The sweep requeues the job of the claim it has expired.
LEMMA CalmSweepJob ==
    ASSUME Inv, CalmInv, calm, NEW p \in Procs, SweepJob(p)
    PROVE  CalmInv'
<1>1. /\ Typed /\ proc[p] \in ProcType /\ At(p, "sweep", "job")
      /\ proc[p].claim \in {NoClaim} \cup ClaimIds
  BY ClaimsKnown DEF Inv, Typed, SweepJob
<1>2. /\ proc[p].step = "job" /\ proc[p].op # "idle" /\ proc[p] # Idle
      /\ proc[p].claim \in ClaimIds
  <2>1. Sweeping(proc[p])
    BY <1>1 DEF Inv, ProcOK, At, Idle
  <2> QED BY <1>1, <2>1 DEF At, Idle, Sweeping
<1>3. PICK d \in ClaimIds, j \in Jobs : d = proc[p].claim /\ j = claims[d].job
  BY <1>1, <1>2, ClaimRows
<1>4. /\ StillSo(p) /\ claims[d].status # "active"
      /\ Whole(j) => job[j].status = "claimed" /\ job[j].claim = d
  BY <1>1, <1>2, <1>3, CalmAlone DEF StillSo
<1>5. PICK v \in JobType : v.status # "claimed" /\ job' = [job EXCEPT ![j] = v]
  <2>1. [status |-> "queued", claim |-> NoClaim] \in JobType
    BY DEF JobType, NoClaim
  <2> QED BY <1>3, <2>1 DEF SweepJob, SetJob
<1>6. proc' = [proc EXCEPT ![p].step = "enqueue"] /\ UNCHANGED <<claims, cut>>
  BY DEF SweepJob, Goto, stops
<1>7. /\ proc'[p].op = "sweep" /\ proc'[p].step = "enqueue" /\ proc'[p].batch = proc[p].batch
  BY <1>1, <1>6 DEF Typed, ProcType, At
<1>8. StillSo(p)'
  BY <1>1, <1>4, <1>6, <1>7 DEF StillSo, At
<1>9. \A c \in ClaimIds :
        Apart(p, c) \/ (job[j].status = "claimed" /\ job[j].claim = c) =>
            \/ Apart(p, c)' \/ ~Whole(claims[c].job)
            \/ claims[c].job = j /\ claims[c].status # "active"
  <2>1. \A c \in ClaimIds : job[j].status = "claimed" /\ job[j].claim = c => claims[c].job = j
    BY DEF Inv, JobOK, ClaimOn
  <2> QED BY <1>3, <1>4, <2>1 DEF Apart
<1> QED
  BY <1>2, <1>5, <1>6, <1>8, <1>9, CalmWritesJob

\* A claim that is apart from its job is ended with the run.
LEMMA CalmEndsClaim ==
    ASSUME Inv, CalmInv, calm, NEW p \in Procs, UnclaimClaim(p) \/ SubmitClaim(p) \/ RejectClaim(p)
    PROVE  CalmInv'
<1>1. /\ Typed /\ Past(proc[p]) /\ proc[p].step = "claim" /\ proc[p] # Idle
      /\ UNCHANGED <<job, cut>> /\ Finish(p)
  <2>1. At(p, "unclaim", "claim") \/ At(p, "submit", "claim") \/ At(p, "reject", "claim")
    BY DEF UnclaimClaim, SubmitClaim, RejectClaim
  <2>2. Past(proc[p]) /\ proc[p].step = "claim" /\ proc[p] # Idle
    BY <2>1 DEF At, Past, Idle
  <2>3. UNCHANGED <<job, cut>> /\ Finish(p)
    BY DEF UnclaimClaim, SubmitClaim, RejectClaim, stops
  <2> QED BY <2>2, <2>3 DEF Inv
<1>2. PICK s \in {"submitted", "cancelled"} : claims' = SetClaim(proc[p].claim, s)
  BY DEF UnclaimClaim, SubmitClaim, RejectClaim
<1>3. /\ ClaimIds' = ClaimIds
      /\ \A c \in ClaimIds : /\ claims'[c].job = claims[c].job
                             /\ c # proc[p].claim => claims'[c] = claims[c]
                             /\ c = proc[p].claim => claims'[c].status = s
  <2>1. \A c \in ClaimIds : claims[c] \in ClaimType /\ c # NoClaim
    BY <1>1, ClaimRows, ClaimIdsNat DEF NoClaim
  <2>2. Len(claims') = Len(claims)
    BY <1>1, <1>2 DEF SetClaim, Typed
  <2> QED BY <1>1, <1>2, <2>1, <2>2 DEF SetClaim, Typed, ClaimIds, ClaimType
<1>4. ASSUME NEW c \in ClaimIds PROVE Agrees(c)'
  <2>1. claims[c].job \in Jobs
    BY <1>1, ClaimRows
  <2>2. CASE c = proc[p].claim
    BY <1>1, <1>3, <2>1, <2>2 DEF Inv, JobHasLeft, Agrees
  <2>3. CASE c # proc[p].claim
    <3>1. Agrees(c)
      BY <1>1, <2>3, CalmAlone DEF Apart
    <3> QED BY <1>1, <1>3, <2>3, <3>1, WholeKept DEF Agrees
  <2> QED BY <2>2, <2>3
<1> QED
  BY <1>1, <1>3, <1>4, CalmEnds

\* acceptJob closes a claim that is no longer its job's.
LEMMA CalmAcceptClaim ==
    ASSUME Inv, CalmInv, calm, NEW p \in Procs, AcceptClaim(p)
    PROVE  CalmInv'
<1>1. /\ Typed /\ Past(proc[p]) /\ At(p, "accept", "claim") /\ proc[p] # Idle
      /\ UNCHANGED <<job, cut>> /\ claims' = SetClaim(proc[p].claim, "submitted")
      /\ proc[p] \in ProcType
  BY DEF Inv, Typed, AcceptClaim, At, Past, Idle, stops
<1>2. /\ proc'[p].op = "accept" /\ proc'[p].step = "credit"
      /\ \A q \in Procs \ {p} : proc'[q] = proc[q]
  BY <1>1 DEF AcceptClaim, Goto, Typed, ProcType, At
<1>3. /\ ClaimIds' = ClaimIds
      /\ \A c \in ClaimIds : /\ claims'[c].job = claims[c].job
                             /\ c # proc[p].claim => claims'[c] = claims[c]
                             /\ c = proc[p].claim => claims'[c].status = "submitted"
  <2>1. \A c \in ClaimIds : claims[c] \in ClaimType /\ c # NoClaim
    BY <1>1, ClaimRows, ClaimIdsNat DEF NoClaim
  <2>2. Len(claims') = Len(claims)
    BY <1>1 DEF SetClaim, Typed
  <2> QED BY <1>1, <2>1, <2>2 DEF SetClaim, Typed, ClaimIds, ClaimType
<1>4. ASSUME NEW c \in ClaimIds PROVE Agrees(c)'
  <2>1. claims[c].job \in Jobs
    BY <1>1, ClaimRows
  <2>2. CASE c = proc[p].claim
    BY <1>1, <1>3, <2>1, <2>2 DEF Inv, JobHasLeft, Agrees
  <2>3. CASE c # proc[p].claim
    <3>1. Agrees(c)
      BY <1>1, <2>3, CalmAlone DEF Apart
    <3> QED BY <1>1, <1>3, <2>3, <3>1, WholeKept DEF Agrees
  <2> QED BY <2>2, <2>3
<1>5. StillSo(p)'
  BY <1>2 DEF StillSo, At
<1> QED
  BY <1>1, <1>2, <1>3, <1>4, <1>5, CalmMoves

\* The sweep expires an active claim, which its job still names.
LEMMA CalmSweepClaim ==
    ASSUME Inv, CalmInv, calm, NEW p \in Procs, SweepClaim(p)
    PROVE  CalmInv'
<1>1. /\ Typed /\ At(p, "sweep", "claim") /\ proc[p] # Idle /\ UNCHANGED <<job, cut>>
      /\ proc[p] \in ProcType /\ proc[p].batch \subseteq ClaimIds
  <2>1. At(p, "sweep", "claim") /\ Sweeping(proc[p])
    BY DEF SweepClaim, Inv, ProcOK, At, Idle
  <2> QED BY <2>1 DEF Inv, Typed, SweepClaim, At, Idle, Sweeping, stops
<1>2. PICK d \in proc[p].batch : TakeFromBatch(p, d) /\ claims' = SetClaim(d, "expired")
  BY DEF SweepClaim
<1>3. /\ StillSo(p) /\ claims[d].status = "active" /\ d \in ClaimIds
      /\ \A c \in ClaimIds : Agrees(c)
  BY <1>1, CalmAlone DEF StillSo, At, Apart
<1>4. /\ proc'[p].op = "sweep" /\ proc'[p].step = "job" /\ proc'[p].claim = d
      /\ proc'[p].batch = proc[p].batch \ {d}
      /\ \A q \in Procs \ {p} : proc'[q] = proc[q]
  BY <1>1, <1>2 DEF TakeFromBatch, Typed, ProcType, At
<1>5. /\ ClaimIds' = ClaimIds
      /\ \A c \in ClaimIds : /\ claims'[c].job = claims[c].job
                             /\ c # d => claims'[c] = claims[c]
                             /\ c = d => claims'[c].status = "expired"
  <2>1. \A c \in ClaimIds : claims[c] \in ClaimType /\ c # NoClaim
    BY <1>1, ClaimRows, ClaimIdsNat DEF NoClaim
  <2>2. Len(claims') = Len(claims)
    BY <1>1, <1>2 DEF SetClaim, Typed
  <2> QED BY <1>1, <1>2, <1>3, <2>1, <2>2 DEF SetClaim, Typed, ClaimIds, ClaimType
<1>6. \A c \in ClaimIds : Whole(claims[c].job)' => Whole(claims[c].job)
  BY <1>1, <1>5, WholeKept
<1>7. StillSo(p)'
  BY <1>1, <1>3, <1>4, <1>5, <1>6 DEF StillSo, At, Agrees
<1>8. \A c \in ClaimIds : Agrees(c)' \/ Apart(p, c)'
  BY <1>1, <1>3, <1>4, <1>5, <1>6 DEF Agrees, Apart, At
<1> QED
  BY <1>1, <1>4, <1>5, <1>7, <1>8, CalmMoves

\* Steps that write neither jobs nor claims, and leave nothing apart.
LEMMA CalmGoesOn ==
    ASSUME Inv, CalmInv, calm, NEW p \in Procs,
           \/ SubmitInsert(p) \/ AcceptPick(p) \/ AcceptCredit(p) \/ AcceptSettleFails(p)
           \/ SweepEnqueue(p) \/ SweepAborts(p)
    PROVE  CalmInv'
<1>1. /\ Typed /\ proc[p] \in ProcType /\ UNCHANGED <<job, claims, cut>>
      /\ \/ At(p, "submit", "insert") \/ At(p, "accept", "pick") \/ At(p, "accept", "credit")
         \/ At(p, "sweep", "enqueue")
  BY DEF Inv, Typed, SubmitInsert, AcceptPick, AcceptCredit, AcceptSettleFails,
         SweepEnqueue, SweepAborts, stops
<1>2. proc[p] # Idle /\ \A c \in ClaimIds : ~Apart(p, c)
  BY <1>1 DEF At, Idle, Apart
<1>3. StillSo(p) /\ \A c \in ClaimIds : Agrees(c)
  BY <1>2, CalmAlone
<1>4. \A c \in ClaimIds' : Agrees(c)'
  BY <1>1, <1>3 DEF Agrees, ClaimIds, Whole
<1>5. CASE Finish(p)
  BY <1>1, <1>2, <1>4, <1>5, CalmEnds
<1>6. CASE SubmitInsert(p)
  <2>1. /\ proc'[p].op = "submit" /\ proc'[p].step = "job" /\ proc'[p].claim = proc[p].claim
        /\ proc'[p].job = proc[p].job /\ \A q \in Procs \ {p} : proc'[q] = proc[q]
        /\ At(p, "submit", "insert")
    BY <1>1, <1>6 DEF SubmitInsert, Goto, Typed, ProcType, At
  <2>2. StillSo(p)'
    BY <1>1, <1>3, <2>1 DEF StillSo, StillClaimed, At
  <2> QED BY <1>2, <1>4, <2>1, <2>2, CalmMoves
<1>7. CASE AcceptPick(p) /\ ~Finish(p)
  <2>1. /\ proc'[p].op = "accept" /\ proc'[p].step = "job"
        /\ proc'[p].job = proc[p].job /\ \A q \in Procs \ {p} : proc'[q] = proc[q]
        /\ At(p, "accept", "pick")
    BY <1>1, <1>7 DEF AcceptPick, Typed, ProcType, At
  <2>2. StillSo(p)'
    BY <1>1, <1>3, <2>1 DEF StillSo, At
  <2> QED BY <1>2, <1>4, <2>1, <2>2, CalmMoves
<1>8. CASE SweepEnqueue(p) /\ ~Finish(p)
  <2>1. /\ proc'[p].op = "sweep" /\ proc'[p].step = "claim" /\ proc'[p].batch = proc[p].batch
        /\ \A q \in Procs \ {p} : proc'[q] = proc[q]
        /\ At(p, "sweep", "enqueue")
    BY <1>1, <1>8 DEF SweepEnqueue, Goto, Typed, ProcType, At
  <2>2. StillSo(p)'
    BY <1>1, <1>3, <2>1 DEF StillSo, At
  <2> QED BY <1>2, <1>4, <2>1, <2>2, CalmMoves
<1> QED
  BY <1>5, <1>6, <1>7, <1>8 DEF AcceptCredit, AcceptSettleFails, SweepAborts

\* A new job is published, or a lease lapses.
LEMMA CalmEnvironment ==
    ASSUME Inv, CalmInv, calm,
           (\E j \in Jobs : Publish(j)) \/ (\E c \in 1..MaxClaims : Lapse(c))
    PROVE  CalmInv'
<1>1. Typed /\ UNCHANGED <<proc, cut>>
  BY DEF Inv, Publish, Lapse, stops
<1>2. \A p, q \in Procs : proc'[p] # Idle /\ proc'[q] # Idle => p = q
  BY <1>1 DEF CalmInv
<1>3. ASSUME NEW j \in Jobs, Publish(j) PROVE CalmInv'
  <2>1. /\ job[j].status = "created" /\ job'[j].status = "queued"
        /\ \A k \in Jobs \ {j} : job'[k] = job[k]
        /\ UNCHANGED claims
    BY <1>1, <1>3 DEF Publish, SetJob, Typed
  <2>2. ASSUME NEW c \in ClaimIds PROVE Agrees(c)' <=> Agrees(c)
    BY <1>1, <2>1, ClaimRows DEF Agrees, Whole
  <2>3. ASSUME NEW p \in Procs PROVE StillSo(p)'
    <3>1. StillSo(p) /\ ProcOK(p)
      BY DEF CalmInv, Inv
    <3>2. At(p, "sweep", "job") => claims[proc[p].claim].job \in Jobs
      <4> SUFFICES ASSUME At(p, "sweep", "job") PROVE claims[proc[p].claim].job \in Jobs
        OBVIOUS
      <4>1. proc[p].claim \in ClaimIds
        BY <3>1 DEF ProcOK, At, Idle, Sweeping
      <4> QED BY <1>1, <4>1, ClaimRows
    <3>3. At(p, "sweep", "job") \/ proc[p].op = "sweep" \/ proc[p] = Idle \/ proc[p].job \in Jobs
      BY <3>1 DEF ProcOK, Claiming, Unclaiming, Submitting, Accepting, Rejecting
    <3>4. CASE proc[p].op = "sweep" \/ proc[p] = Idle
      BY <1>1, <2>1, <3>1, <3>2, <3>4 DEF StillSo, At, Idle, Whole
    <3>5. CASE proc[p].job \in Jobs /\ proc[p].op # "sweep"
      BY <1>1, <2>1, <3>1, <3>5 DEF StillSo, StillClaimed, At
    <3> QED BY <3>3, <3>4, <3>5 DEF At
  <2> QED BY <1>1, <1>2, <2>1, <2>2, <2>3 DEF CalmInv, ClaimIds, Apart, At
<1>4. ASSUME NEW d \in 1..MaxClaims, Lapse(d) PROVE CalmInv'
  <2>1. d \in ClaimIds /\ claims[d] \in ClaimType
    BY <1>1, <1>4, ClaimRows DEF Lapse, ClaimIds
  <2>2. /\ UNCHANGED job /\ ClaimIds' = ClaimIds
        /\ \A c \in ClaimIds : /\ claims'[c].status = claims[c].status
                               /\ claims'[c].job = claims[c].job
    BY <1>1, <1>4, <2>1 DEF Lapse, Typed, ClaimIds, ClaimType
  <2>3. ASSUME NEW p \in Procs PROVE StillSo(p)'
    <3>1. StillSo(p) /\ ProcOK(p)
      BY DEF CalmInv, Inv
    <3>2. proc[p].op = "sweep" => proc[p].batch \subseteq ClaimIds
      BY <3>1 DEF ProcOK, Idle, Sweeping
    <3>3. At(p, "sweep", "job") => proc[p].claim \in ClaimIds
      BY <3>1 DEF ProcOK, At, Idle, Sweeping
    <3>4. \A c \in ClaimIds : Whole(claims[c].job)' => Whole(claims[c].job)
      BY <1>1, <2>2, WholeKept
    <3> QED BY <1>1, <2>2, <3>1, <3>2, <3>3, <3>4 DEF StillSo, StillClaimed, At
  <2>4. \A c \in ClaimIds : Agrees(c) => Agrees(c)'
    BY <1>1, <2>2, WholeKept DEF Agrees
  <2> QED BY <1>1, <1>2, <2>2, <2>3, <2>4 DEF CalmInv, Apart, At
<1> QED
  BY <1>3, <1>4

\* Whoever a throw or a restart stops, alone as it is, was in the middle of one claim
\* at most, which is known to be cut.
LEMMA CalmStops ==
    ASSUME Inv, CalmInv, calm, (\E p \in Procs : Fail(p)) \/ Crash
    PROVE  CalmInv'
<1>1. Typed /\ UNCHANGED <<job, claims>> /\ cut \subseteq cut'
  BY DEF Inv, Fail, Crash
<1>2. PICK p \in Procs : /\ proc[p] # Idle /\ proc'[p] = Idle /\ cut' = cut \cup CutBy({p})
                         /\ \A q \in Procs \ {p} : proc[q] = Idle /\ proc'[q] = Idle
  <2>1. ASSUME NEW p \in Procs, Fail(p)
        PROVE  /\ proc[p] # Idle /\ proc'[p] = Idle /\ cut' = cut \cup CutBy({p})
               /\ \A q \in Procs \ {p} : proc[q] = Idle /\ proc'[q] = Idle
    BY <1>1, <2>1, CalmAlone DEF Fail, Finish, Typed
  <2>2. ASSUME Crash
        PROVE  \E p \in Procs : /\ proc[p] # Idle /\ proc'[p] = Idle /\ cut' = cut \cup CutBy({p})
                                /\ \A q \in Procs \ {p} : proc[q] = Idle /\ proc'[q] = Idle
    <3>1. PICK p \in Procs : proc[p] # Idle
      BY <2>2 DEF Crash
    <3>2. \A q \in Procs \ {p} : proc[q] = Idle
      BY <3>1, CalmAlone
    <3>3. \A q \in Procs \ {p} : ~Halfway(q)
      BY <3>2 DEF Halfway, At, Idle
    <3>4. CutBy(Procs) = CutBy({p})
      BY <3>3 DEF CutBy
    <3> QED BY <2>2, <3>1, <3>2, <3>4 DEF Crash
  <2> QED BY <2>1, <2>2
<1>3. ASSUME NEW c \in ClaimIds PROVE Agrees(c)'
  <2>1. Agrees(c) \/ Apart(p, c)
    BY <1>2, CalmAlone
  <2>2. CASE Agrees(c)
    BY <1>1, <2>2, WholeKept DEF Agrees
  <2>3. CASE Apart(p, c)
    <3>1. c \in cut'
      BY <1>2, <2>3 DEF Apart, CutBy, Halfway
    <3> QED BY <3>1 DEF Agrees, Whole
  <2> QED BY <2>1, <2>2, <2>3
<1>4. \A q \in Procs : proc'[q] = Idle
  BY <1>2
<1>5. \A q \in Procs : StillSo(q)'
  BY <1>4 DEF StillSo, At, Idle
<1> QED
  BY <1>1, <1>3, <1>4, <1>5 DEF CalmInv, ClaimIds

\* Every step keeps the tables in agreement while nothing overlaps.
LEMMA StepCalm == Inv /\ CalmInv /\ [Next]_vars => CalmInv'
<1> SUFFICES ASSUME Inv, CalmInv, [Next]_vars, calm' PROVE CalmInv'
  BY DEF CalmInv
<1>1. ASSUME NEW p \in Requests, Call(p) PROVE CalmInv'
  BY <1>1, CalmCalls DEF Procs
<1>2. ASSUME NEW p \in Requests, Continue(p) PROVE CalmInv'
  <2>1. calm /\ p \in Procs
    BY <1>2 DEF Procs, Continue, ClaimInsert, ClaimTake, UnclaimJob, UnclaimClaim,
       SubmitInsert, SubmitJob, SubmitClaim, AcceptPick, AcceptJob, AcceptClaim,
       AcceptCredit, AcceptSettleFails, RejectJob, RejectClaim
  <2> QED BY <1>2, <2>1, CalmClaimInsert, CalmClaimTake, CalmLeavesClaim, CalmEndsClaim,
             CalmDecides, CalmAcceptClaim, CalmGoesOn DEF Continue
<1>3. ASSUME NEW p \in Timers, SweepSelect(p) PROVE CalmInv'
  BY <1>3, CalmSelects DEF Procs
<1>4. ASSUME NEW p \in Timers, ContinueSweep(p) PROVE CalmInv'
  <2>1. calm /\ p \in Procs
    BY <1>4 DEF Procs, ContinueSweep, SweepClaim, SweepJob, SweepEnqueue, SweepAborts
  <2> QED BY <1>4, <2>1, CalmSweepClaim, CalmSweepJob, CalmGoesOn DEF ContinueSweep
<1>5. CASE (\E j \in Jobs : Publish(j)) \/ (\E c \in 1..MaxClaims : Lapse(c))
  <2>1. calm
    BY <1>5 DEF Publish, Lapse
  <2> QED BY <1>5, <2>1, CalmEnvironment
<1>6. CASE (\E p \in Procs : Fail(p)) \/ Crash
  <2>1. calm
    BY <1>6 DEF Fail, Crash
  <2> QED BY <1>6, <2>1, CalmStops
<1>7. CASE UNCHANGED vars
  BY <1>7 DEF vars, CalmInv, StillSo, StillClaimed, Agrees, Apart, ClaimIds, At, Whole
<1> QED
  BY <1>1, <1>2, <1>3, <1>4, <1>5, <1>6, <1>7 DEF Next

\* What is known of the job that a process is about to write.
LEMMA CalmStatus ==
    ASSUME Inv, CalmInv, [Next]_vars, calm', NEW j \in Jobs, Whole(j),
           job'[j].status # job[j].status
    PROVE  job'[j].status \in StatusGraph[job[j].status]
<1>1. Typed
  BY DEF Inv
<1> USE DEF StatusGraph
<1>2. ASSUME NEW p \in Procs, proc[p] # Idle, calm
      PROVE  StillSo(p) /\ ProcOK(p) /\ proc[p] \in ProcType
  BY <1>1, <1>2, CalmAlone DEF Inv, Typed
<1>3. ASSUME NEW p \in Procs, ClaimTake(p) PROVE job'[j].status \in StatusGraph[job[j].status]
  <2>1. At(p, "claim", "take") /\ proc[p] # Idle /\ calm /\ proc[p].job \in Jobs
    BY <1>3, TakerKnown DEF ClaimTake, At, Idle
  <2>2. j = proc[p].job /\ job'[j].status = "claimed"
    BY <1>1, <1>3, <2>1 DEF ClaimTake, SetJob, Typed
  <2> QED BY <1>2, <2>1, <2>2 DEF StillSo, At
<1>4. ASSUME NEW p \in Procs, UnclaimJob(p) \/ SubmitJob(p)
      PROVE  job'[j].status \in StatusGraph[job[j].status]
  <2>1. /\ At(p, "unclaim", "job") \/ At(p, "submit", "job")
        /\ calm
    BY <1>4 DEF UnclaimJob, SubmitJob
  <2> proc[p] # Idle
    BY <2>1 DEF At, Idle
  <2>2. proc[p].job \in Jobs
    BY <1>2, <2>1 DEF ProcOK, At, Unclaiming, Submitting, Idle
  <2>3. j = proc[p].job /\ job'[j].status \in {"queued", "submitted", "rework"}
    <3>1. job' = [job EXCEPT ![proc[p].job] = job'[proc[p].job]]
          /\ job'[proc[p].job].status \in {"queued", "submitted", "rework"}
      <4>1. CASE UnclaimJob(p)
        BY <1>1, <2>2, <4>1 DEF UnclaimJob, SetJob, Typed
      <4>2. CASE SubmitJob(p)
        BY <1>1, <2>2, <4>2 DEF SubmitJob, SetJob, Typed
      <4> QED BY <1>4, <4>1, <4>2
    <3> QED BY <1>1, <2>2, <3>1 DEF Typed
  <2> QED BY <1>2, <2>1, <2>3 DEF StillSo, StillClaimed, At
<1>5. ASSUME NEW p \in Procs, AcceptJob(p) PROVE job'[j].status \in StatusGraph[job[j].status]
  <2>1. At(p, "accept", "job") /\ proc[p] # Idle /\ calm
    BY <1>5 DEF AcceptJob, At, Idle
  <2>2. j = proc[p].job
    BY <1>1, <1>5 DEF AcceptJob, Typed
  <2>3. job'[j].status = "accepted"
    BY <1>1, <1>5, <2>2 DEF AcceptJob, Typed, JobType
  <2> QED BY <1>2, <2>1, <2>2, <2>3 DEF StillSo, At
<1>6. ASSUME NEW p \in Procs, RejectJob(p) PROVE job'[j].status \in StatusGraph[job[j].status]
  <2>1. At(p, "reject", "job") /\ proc[p] # Idle /\ calm
    BY <1>6 DEF RejectJob, At, Idle
  <2>2. j = proc[p].job /\ job'[j].status = "rework"
    BY <1>1, <1>6 DEF RejectJob, SetJob, Typed
  <2> QED BY <1>2, <2>1, <2>2 DEF StillSo, At
<1>7. ASSUME NEW p \in Procs, SweepJob(p) PROVE job'[j].status \in StatusGraph[job[j].status]
  <2>1. At(p, "sweep", "job") /\ proc[p] # Idle /\ calm
    BY <1>7 DEF SweepJob, At, Idle
  <2>2. j = claims[proc[p].claim].job /\ job'[j].status = "queued"
    BY <1>1, <1>7 DEF SweepJob, SetJob, Typed
  <2> QED BY <1>2, <2>1, <2>2 DEF StillSo
<1>8. ASSUME NEW k \in Jobs, Publish(k) PROVE job'[j].status \in StatusGraph[job[j].status]
  BY <1>1, <1>8 DEF Publish, SetJob, Typed
<1>9. UNCHANGED job \/ (\E k \in Jobs : Publish(k)) \/ \E p \in Procs :
          ClaimTake(p) \/ UnclaimJob(p) \/ SubmitJob(p) \/ AcceptJob(p) \/ RejectJob(p) \/ SweepJob(p)
  <2>1. ASSUME NEW p \in Requests, Call(p) PROVE UNCHANGED job
    BY <2>1 DEF Call, ClaimRead, UnclaimRead, SubmitRead, AcceptRead, RejectRead
  <2>2. ASSUME NEW p \in Requests, Continue(p)
        PROVE  \/ UNCHANGED job
               \/ ClaimTake(p) \/ UnclaimJob(p) \/ SubmitJob(p) \/ AcceptJob(p) \/ RejectJob(p)
    BY <2>2 DEF Continue, ClaimInsert, UnclaimClaim, SubmitInsert, SubmitClaim, AcceptPick,
       AcceptClaim, AcceptCredit, AcceptSettleFails, RejectClaim
  <2>3. ASSUME NEW p \in Timers, SweepSelect(p) \/ ContinueSweep(p)
        PROVE  UNCHANGED job \/ SweepJob(p)
    BY <2>3 DEF SweepSelect, ContinueSweep, SweepClaim, SweepEnqueue, SweepAborts
  <2>4. ASSUME NEW c \in 1..MaxClaims, Lapse(c) PROVE UNCHANGED job
    BY <2>4 DEF Lapse
  <2>5. CASE UNCHANGED vars \/ Crash \/ \E p \in Procs : Fail(p)
    BY <2>5 DEF vars, Crash, Fail
  <2> QED BY <2>1, <2>2, <2>3, <2>4, <2>5 DEF Next, Procs
<1> QED
  BY <1>3, <1>4, <1>5, <1>6, <1>7, <1>8, <1>9

\* At the start the tables agree.
LEMMA InitCalm == Init => CalmInv
  BY DEF Init, CalmInv, ClaimIds, StillSo, At, Idle

\* While every call and every sweep runs on its own, the tables agree on jobs that
\* nothing was stopped on halfway.
THEOREM CalmInvHolds == Spec => []CalmInv
<1>1. Inv /\ CalmInv /\ [Next]_vars => CalmInv'
  BY StepCalm
<1> QED
  BY InitCalm, <1>1, InvHolds, PTL DEF Spec

\* Between two calls that ran on their own, also if others failed, a job that none was
\* stopped on halfway is claimed exactly when the claim it names is active, and it is
\* the only one.
THEOREM CalmTablesAgree == Spec => []TablesAgreeWhenCalm
<1>1. Inv /\ CalmInv => TablesAgreeWhenCalm
  <2> SUFFICES ASSUME Inv, CalmInv, calm, \A p \in Procs : proc[p] = Idle, NEW j \in Jobs, Whole(j)
               PROVE  ActiveClaims(j) = IF job[j].status = "claimed" THEN {job[j].claim} ELSE {}
    BY DEF TablesAgreeWhenCalm
  <2>1. \A c \in ClaimIds : Agrees(c)
    BY DEF CalmInv, Apart, At, Idle
  <2>2. job[j].status = "claimed" => ClaimOn(job[j].claim, j)
    BY DEF Inv, JobOK
  <2> QED BY <2>1, <2>2 DEF ActiveClaims, IsActive, Agrees, ClaimOn
<1> QED
  BY <1>1, InvHolds, CalmInvHolds, PTL

\* While nothing overlaps, every write of the status of a job that nothing was stopped
\* on halfway is along the graph.
THEOREM CalmStatusGraph == Spec => StatusGraphWhenCalm
<1>1. /\ Inv /\ CalmInv /\ [Next]_vars
      => [\A j \in Jobs : calm' /\ Whole(j) /\ job'[j].status # job[j].status =>
              job'[j].status \in StatusGraph[job[j].status]]_vars
  BY CalmStatus
<1> QED
  BY <1>1, InvHolds, CalmInvHolds, PTL DEF Spec, StatusGraphWhenCalm
=============================================================================
