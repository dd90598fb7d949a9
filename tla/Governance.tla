---------------------------- MODULE Governance -----------------------------
(***************************************************************************)
(* IntelTimelockController.sol: proposers queue operations, anybody        *)
(* executes them once their delay is over and until their grace is.  An    *)
(* operation is its hash.  Those that call the timelock itself name the    *)
(* new delay, proposer or admin; for the others only success matters.      *)
(*                                                                         *)
(* CategoryRegistry.sol and WorkReceipt1155.sol: what an agent has earned  *)
(* by category, the weights of the categories, and one receipt per task.   *)
(***************************************************************************)
EXTENDS Roles, Integers, FiniteSetsExt

-----------------------------------------------------------------------------
(* IntelTimelockController.sol *)

CONSTANTS
    Operations,         \* hashes of the operations, with what they call
    NoCall,             \* what an operation calls that is not on the timelock
    MinimumDelay, Grace \* MINIMUM_DELAY, GRACE_PERIOD

ASSUME TimelockAssumption ==
    /\ MinimumDelay \in Nat \ {0} /\ Grace \in Nat \ {0}
    /\ \A op \in Operations : op.call \in {NoCall, "delay", "proposer", "admin"}

VARIABLES
    tl,                 \* admin, delay, proposers; readyAt, by operation
    executions,         \* history: how often each operation was executed
    queuedAt            \* history: since when each operation has been queued

timelockVars == <<tl, executions, queuedAt>>

\* operationTimestamp is 0 for what is not queued and 1 for what was executed;
\* the clock starts later.
Unknown == 0
Executed == 1
NotQueued == -1

TimelockInit(admin, delay, proposers) ==
    /\ tl = [admin |-> admin, delay |-> delay, proposers |-> proposers,
             readyAt |-> [op \in Operations |-> Unknown]]
    /\ executions = [op \in Operations |-> 0]
    /\ queuedAt = [op \in Operations |-> NotQueued]

MayPropose(caller) == caller \in tl.proposers \cup {tl.admin}

IsQueued(op) == tl.readyAt[op] > Executed

Queue(caller, op) ==
    /\ MayPropose(caller)
    /\ tl.readyAt[op] = Unknown
    /\ tl' = [tl EXCEPT !.readyAt[op] = now + tl.delay]
    /\ queuedAt' = [queuedAt EXCEPT ![op] = now]
    /\ UNCHANGED executions

\* cancel; adminCancel is its special case
Cancel(caller, op) ==
    /\ MayPropose(caller)
    /\ IsQueued(op)
    /\ tl' = [tl EXCEPT !.readyAt[op] = Unknown]
    /\ queuedAt' = [queuedAt EXCEPT ![op] = NotQueued]
    /\ UNCHANGED executions

\* setDelay, setProposer, setAdmin: what the calls on the timelock do to it, or
\* nothing for the calls that revert; other calls leave it alone and may succeed.
Effects(op) ==
    LET done == [tl EXCEPT !.readyAt[op] = Executed] IN
    CASE op.call = "delay" ->
            IF op.delay < MinimumDelay THEN {} ELSE {[done EXCEPT !.delay = op.delay]}
      [] op.call = "proposer" ->
            {[done EXCEPT !.proposers = IF op.approved THEN @ \cup {op.who} ELSE @ \ {op.who}]}
      [] op.call = "admin" -> {[done EXCEPT !.admin = op.who]}
      [] OTHER -> {done}

\* by anyone; an operation whose call reverts stays queued
Execute(op) ==
    /\ IsQueued(op)
    /\ now >= tl.readyAt[op]
    /\ now < tl.readyAt[op] + Grace
    /\ tl' \in Effects(op)
    /\ executions' = [executions EXCEPT ![op] = @ + 1]
    /\ queuedAt' = [queuedAt EXCEPT ![op] = NotQueued]

-----------------------------------------------------------------------------
(* CategoryRegistry.sol, WorkReceipt1155.sol *)

CONSTANTS
    Agents, Tasks,
    Categories,        \* 0..5
    BPSTotal           \* BPS_TOTAL, in tens of basis points: weights are multiples

VARIABLES
    cats,              \* by category: weight, AIU of all time, settled volume, active
    profile,           \* by agent: AIU and jobs by category, primary category
    receipts           \* the receipts minted, in order

registryVars == <<cats, profile, receipts>>

CategoryInit(weights) ==
    /\ cats = [c \in Categories |->
                  [weight |-> weights[c], aiu |-> 0, volume |-> 0, active |-> TRUE]]
    /\ profile = [a \in Agents |-> [aiu |-> [c \in Categories |-> 0],
                                    jobs |-> [c \in Categories |-> 0], primary |-> 0]]
    /\ receipts = <<>>

\* A slip the checks must notice: the primary category is that of the best single
\* result.
PrimaryByScore(p, c, score) == IF score > p.aiu[p.primary] THEN c ELSE p.primary

\* p is the profile before, c the category just credited with score
PrimaryAfter(p, c, score) == IF p.aiu[c] + score > p.aiu[p.primary] THEN c ELSE p.primary

RecordCategoryCompletion(caller, a, c, score) ==
    LET p == profile[a] IN
    /\ IsOperator("categories", caller)
    /\ score > 0
    /\ cats[c].active
    /\ profile' = [profile EXCEPT ![a] = [aiu |-> [p.aiu EXCEPT ![c] = @ + score],
                                          jobs |-> [p.jobs EXCEPT ![c] = @ + 1],
                                          primary |-> PrimaryAfter(p, c, score)]]
    /\ cats' = [cats EXCEPT ![c].aiu = @ + score]
    /\ UNCHANGED receipts

UpdateEpochVolume(caller, c, volume) ==
    /\ IsOperator("categories", caller)
    /\ cats' = [cats EXCEPT ![c].volume = volume]
    /\ UNCHANGED <<profile, receipts>>

\* The others share what the new weight leaves, in proportion or, when they had
\* nothing, evenly; the rounding goes to the first of them.  A weight beyond the
\* total underflows.
Rebalanced(c, new) ==
    LET others == Categories \ {c}
        left == BPSTotal - new
        oldLeft == BPSTotal - cats[c].weight
        Part(d) == IF oldLeft > 0 THEN (cats[d].weight * left) \div oldLeft
                   ELSE left \div Cardinality(others)
        rounding == left - SumFunctionOnSet([d \in others |-> Part(d)], others)
    IN  [d \in Categories |-> IF d = c THEN new
                              ELSE Part(d) + (IF d = Min(others) THEN rounding ELSE 0)]

SetCategoryWeight(caller, c, new) ==
    /\ IsOwner("categories", caller)
    /\ new > 0 /\ new <= BPSTotal
    /\ SumFunctionOnSet(Rebalanced(c, new), Categories) = BPSTotal
    /\ cats' = [d \in Categories |-> [cats[d] EXCEPT !.weight = Rebalanced(c, new)[d]]]
    /\ UNCHANGED <<profile, receipts>>

SetCategoryActive(caller, c, active) ==
    /\ IsOwner("categories", caller)
    /\ cats' = [cats EXCEPT ![c].active = active]
    /\ UNCHANGED <<profile, receipts>>

\* WorkReceipt1155.mint: one receipt per task, that nobody can transfer; its token
\* is its place in the order
MintReceipt(caller, worker, t, score) ==
    /\ IsOperator("receipts", caller)
    /\ score <= 100
    /\ \A n \in DOMAIN receipts : receipts[n].task # t
    /\ receipts' = [n \in 1..Cardinality(DOMAIN receipts) + 1 |->
                       IF n \in DOMAIN receipts THEN receipts[n]
                       ELSE [task |-> t, owner |-> worker, score |-> score]]
    /\ UNCHANGED <<cats, profile>>

CategoriesSetOperator(caller) == SetOperator("categories", caller)
CategoriesTransferOwnership(caller) == TransferOwnership("categories", caller)
CategoriesAcceptOwnership(caller) == AcceptOwnership("categories", caller)
ReceiptsSetOperator(caller) == SetOperator("receipts", caller)
ReceiptsTransferOwnership(caller) == TransferOwnership("receipts", caller)
ReceiptsAcceptOwnership(caller) == AcceptOwnership("receipts", caller)

-----------------------------------------------------------------------------
(* Properties *)

TimelockTypeOK ==
    /\ tl.admin \in Officers /\ tl.proposers \subseteq Officers
    /\ tl.delay \in Nat /\ tl.delay >= MinimumDelay
    /\ tl.readyAt \in [Operations -> Nat]
    /\ executions \in [Operations -> Nat]
    /\ queuedAt \in [Operations -> Nat \cup {NotQueued}]

\* An operation is executed at most once, and what is queued has been so, without
\* a cancellation, for the minimum delay before it may run, also when operations
\* that ran in between changed the delay, the admin or the proposers.
OperationsKept ==
    \A op \in Operations :
       /\ executions[op] = IF tl.readyAt[op] = Executed THEN 1 ELSE 0
       /\ (queuedAt[op] # NotQueued) = IsQueued(op)
       /\ IsQueued(op) => tl.readyAt[op] >= queuedAt[op] + MinimumDelay

RegistryTypeOK ==
    /\ cats \in [Categories -> [weight : 0..BPSTotal, aiu : Nat, volume : Nat, active : BOOLEAN]]
    /\ profile \in [Agents -> [aiu : [Categories -> Nat], jobs : [Categories -> Nat],
                               primary : Categories]]

\* The registry's totals are what the agents earned, an agent's primary category is
\* one it earned most in, and the weights always add up, so that the owner can never
\* reach weights from which the next change is refused.
ProfilesAgree ==
    /\ SumFunctionOnSet([c \in Categories |-> cats[c].weight], Categories) = BPSTotal
    /\ \A c \in Categories :
          cats[c].aiu = SumFunctionOnSet([a \in Agents |-> profile[a].aiu[c]], Agents)
    /\ \A a \in Agents, c \in Categories :
          profile[a].aiu[c] <= profile[a].aiu[profile[a].primary]
=============================================================================
