--------------------------- MODULE CreditLedger ---------------------------
(***************************************************************************)
(* The off-chain INTEL of one idea: services/tokenomicsService.ts and the  *)
(* handlers that call it.  Funding the idea mints credits that the poster  *)
(* holds in reserve, accepting a job pays them out, rejecting one gives    *)
(* them back.  The same credits are kept three times: in token_accounts,   *)
(* changed by increments; in the idea's row of idea_token_reserves, which  *)
(* settlement writes back from an earlier read; and in the entries of      *)
(* token_ledger_entries.                                                   *)
(*                                                                         *)
(* Each database transaction is one step: its first statement locks the    *)
(* poster's account until it commits, except in a refund, whose statements *)
(* are increments.  Amounts are integers of the last decimal kept.         *)
(***************************************************************************)
EXTENDS BrokerRequests

CONSTANTS
    Budget,           \* Budget[j]: budgetUsd of job j
    Amounts,          \* amounts a poster may fund
    ProtocolFeeBps, StakerYieldBps,
    Tolerance         \* what a reserve may lack for a settlement (0.000001)

\* splitSettlementIntel refuses shares of more than the whole.  The protocol's is at
\* least the rebate of 200 that may be taken out of it: it is 1000 unless configured
\* otherwise, and below 200 the worker would be paid what nobody is debited.
ASSUME CreditAssumption ==
    /\ Budget \in [Jobs -> Nat \ {0}] /\ Amounts \subseteq Nat \ {0} /\ Tolerance \in Nat
    /\ {ProtocolFeeBps, StakerYieldBps} \subseteq Nat
    /\ ProtocolFeeBps + StakerYieldBps <= 10000 /\ ProtocolFeeBps >= 200

NoReserve == {}       \* the idea has no row in idea_token_reserves

VARIABLES
    account,      \* token_accounts: the poster's reserve, the payees' balances
    reserve,      \* the idea's row of idea_token_reserves, as a set
    ledger,       \* token_ledger_entries, added up by entryType
    funding,      \* ideas.fundingStatus
    posterColumn, \* is there the column jobs.poster_id that settlement reads?
                  \* FALSE for the schema of db/migrate.ts, TRUE for the one
                  \* the statement is written for
    escrowPaid,   \* jobs whose TaskEscrow task has been released (TaskEscrow)
    onChainSettled, \* jobs.onChainSettled
    submits,      \* history: times each job was submitted
    settles,      \* history: settlements of each job
    lapsed        \* history: INTEL of referral bonuses, paid to nobody

moneyVars == <<account, reserve, ledger>>
fundVars == <<funding, posterColumn>>
escrowVars == <<escrowPaid, onChainSettled>>
settleVars == <<submits, settles, lapsed>>
creditVars == <<moneyVars, fundVars, escrowVars, settleVars>>

Payees == {"worker", "treasury", "staker_yield_pool"}
EntryTypes == {"mint", "reserve", "settlement_debit", "worker_payout", "protocol_fee",
               "staker_yield_pool", "rejection_refund"}

CreditInit ==
    /\ account = [a \in Payees \cup {"poster"} |-> 0]
    /\ reserve = NoReserve
    /\ ledger = [t \in EntryTypes |-> 0]
    /\ funding = "unfunded"
    /\ posterColumn \in BOOLEAN
    /\ escrowPaid = {} /\ onChainSettled = {}
    /\ submits = [j \in Jobs |-> 0] /\ settles = [j \in Jobs |-> 0]
    /\ lapsed = 0

-----------------------------------------------------------------------------
(* Arithmetic *)

Round(x, y) == (2 * x + y) \div (2 * y)         \* x / y, half up
AtLeast0(x) == IF x < 0 THEN 0 ELSE x

Supply == account["poster"] + account["worker"] + account["treasury"]
          + account["staker_yield_pool"]

\* A curve that rises with the supply; 100 is a price of one dollar.
CurvePrice(supply) == 100 + AtLeast0(supply) \div 10
QuoteMint(usd, supply) == Round(100 * usd, CurvePrice(supply))

\* What a budget costs at the average price the idea paid.
Gross(row, usd) == Round(usd * row.minted, row.stable)

\* A slip: the rebate is given to the worker and not taken from the fee.
SplitRebateTwice(gross, rebate, referred) ==
    LET stakers == Round(gross * StakerYieldBps, 10000)
        fee == Round(gross * ProtocolFeeBps, 10000)
    IN  [worker |-> gross - fee - stakers + IF rebate THEN Round(gross, 50) ELSE 0,
         treasury |-> fee, staker_yield_pool |-> stakers, lapsed |-> 0]

\* splitSettlementIntel, each part rounded by itself; a poster with a good record
\* gives the worker 2 % of the protocol's fee, a referral takes 1 % of the
\* worker's payout out of the fee and pays it to nobody.
Split(gross, rebate, referred) ==
    LET stakers == Round(gross * StakerYieldBps, 10000)
        worker == Round(gross * (10000 - ProtocolFeeBps - StakerYieldBps), 10000)
                  + IF rebate THEN Round(gross, 50) ELSE 0
        fee == AtLeast0(Round(gross * ProtocolFeeBps, 10000) - IF rebate THEN Round(gross, 50) ELSE 0)
        bonus == IF referred THEN Round(worker, 100) ELSE 0
    IN  [worker |-> worker, treasury |-> AtLeast0(fee - bonus), staker_yield_pool |-> stakers,
         lapsed |-> fee - AtLeast0(fee - bonus)]

-----------------------------------------------------------------------------
(* POST /:ideaId/fund: record the transaction, mark the idea, mint.  A       *)
(* transaction that is already recorded is answered without minting.         *)

FundRead(p, x, usd) ==
    /\ [tx |-> x, event |-> "idea_funded"] \notin syncs
    /\ Begin(p, [Idle EXCEPT !.op = "fund", !.step = "record", !.tx = x,
                             !.event = "idea_funded", !.amount = usd])
    /\ UNCHANGED creditVars

\* syncIdeaFunding, also when it is the sync route that records the funding.
MarkFunded(p) ==
    /\ proc[p].event = "idea_funded" /\ proc[p].step = "apply"
    /\ funding' = "funded"
    /\ IF proc[p].op = "fund" THEN Goto(p, "quote") /\ Quiet ELSE Finish(p) /\ Apply(p)
    /\ UNCHANGED <<job, syncs, moneyVars, posterColumn, escrowVars, settleVars>>

FundQuote(p) ==
    /\ At(p, "fund", "quote")
    /\ LET minted == QuoteMint(proc[p].amount, Supply)
       IN  IF minted = 0 THEN Finish(p)                     \* MINT_QUOTE_ZERO
           ELSE proc' = [proc EXCEPT ![p].step = "mint", ![p].seen = minted]
    /\ UNCHANGED <<job, syncs, creditVars>> /\ Quiet

NewRow(usd, minted) == [stable |-> usd, minted |-> minted, reserved |-> minted, spent |-> 0,
                        fee |-> 0, status |-> "active"]

FundMint(p) ==
    LET usd == proc[p].amount
        minted == proc[p].seen
    IN  /\ At(p, "fund", "mint")
        /\ account' = [account EXCEPT !["poster"] = @ + minted]
        /\ ledger' = [ledger EXCEPT !["mint"] = @ + minted, !["reserve"] = @ - minted]
        /\ reserve' = IF reserve = NoReserve THEN {NewRow(usd, minted)}
                      ELSE {[r EXCEPT !.stable = @ + usd, !.minted = @ + minted,
                                      !.reserved = @ + minted, !.status = "active"] : r \in reserve}
        /\ Apply(p) /\ Finish(p)
        /\ UNCHANGED <<job, syncs, fundVars, escrowVars, settleVars>>

\* Cancelling reads the idea in one statement and writes it in another.
CancelRead(p) ==
    /\ funding = "unfunded"
    /\ Begin(p, [Idle EXCEPT !.op = "cancel", !.step = "write"])
    /\ UNCHANGED creditVars

CancelWrite(p) ==
    /\ At(p, "cancel", "write")
    /\ funding' = "cancelled"
    /\ Finish(p)
    /\ UNCHANGED <<job, syncs, moneyVars, posterColumn, escrowVars, settleVars>>
    /\ Quiet

-----------------------------------------------------------------------------
(* acceptJob: the job is accepted before its settlement is tried *)

SubmitJob(j) ==
    /\ Submit(j)
    /\ submits' = [submits EXCEPT ![j] = @ + 1]
    /\ UNCHANGED <<moneyVars, fundVars, escrowVars, settles, lapsed>>

AcceptRead(p, j) ==
    /\ job[j] = "submitted"
    /\ Begin(p, [Idle EXCEPT !.op = "accept", !.step = "accept", !.job = j])
    /\ UNCHANGED creditVars

AcceptJob(p) ==
    /\ At(p, "accept", "accept")
    /\ job' = [job EXCEPT ![proc[p].job] = "accepted"]
    /\ Goto(p, "guard")
    /\ UNCHANGED <<syncs, creditVars>> /\ Quiet

\* The guard meant to make settlement idempotent looks for marks that only the
\* chain gives.
SettleGuard(p) ==
    /\ At(p, "accept", "guard")
    /\ Goto(p, IF job[proc[p].job] = "settled" \/ proc[p].job \in onChainSettled
               THEN "attest" ELSE "reserve")
    /\ UNCHANGED <<job, syncs, creditVars>> /\ Quiet

\* Settlement reads the reserve, refuses one that is empty or too small, and asks
\* for the poster's record: without the column the request ends with an error.
SettleRead(p) ==
    /\ At(p, "accept", "reserve")
    /\ \/ reserve = NoReserve /\ Goto(p, "attest")
       \/ \E row \in reserve :
             IF posterColumn /\ row.reserved > 0
                /\ row.reserved + Tolerance >= Gross(row, Budget[proc[p].job])
             THEN proc' = [proc EXCEPT ![p].step = "settle", ![p].row = {row}]
             ELSE Finish(p)
    /\ UNCHANGED <<job, syncs, creditVars>> /\ Quiet

\* A slip: what the tolerance let through is not cut off at zero.
SettledUncut(row, gross, split) ==
    [stable |-> row.stable, minted |-> row.minted, reserved |-> row.reserved - gross,
     spent |-> row.spent + split.worker, fee |-> row.fee + split.treasury, status |-> "active"]

Settled(row, gross, split) ==
    LET left == AtLeast0(row.reserved - gross)
    IN  [stable |-> row.stable, minted |-> row.minted, reserved |-> left,
         spent |-> row.spent + split.worker, fee |-> row.fee + split.treasury,
         status |-> IF left = 0 THEN "settled" ELSE "active"]

\* The accounts move by increments; reserved, spent and fee of the row are written
\* as computed from what SettleRead saw, stable and minted stay as they now are.
SettleWrite(p, rebate, referred) ==
    /\ At(p, "accept", "settle")
    /\ \E row \in proc[p].row, now \in reserve :
          LET gross == Gross(row, Budget[proc[p].job])
              split == Split(gross, rebate, referred)
          IN  /\ account' = [a \in DOMAIN account |->
                               account[a] + IF a = "poster" THEN -gross ELSE split[a]]
              /\ reserve' = {[Settled(row, gross, split) EXCEPT !.stable = now.stable,
                                                               !.minted = now.minted]}
              /\ ledger' = [ledger EXCEPT !["settlement_debit"] = @ - gross,
                                !["worker_payout"] = @ + split.worker,
                                !["protocol_fee"] = @ + split.treasury,
                                !["staker_yield_pool"] = @ + split.staker_yield_pool]
              /\ lapsed' = lapsed + split.lapsed
    /\ settles' = [settles EXCEPT ![proc[p].job] = @ + 1]
    /\ Goto(p, "release")
    /\ UNCHANGED <<job, syncs, fundVars, escrowVars, submits>> /\ Quiet

\* releaseTaskEscrow: a task is released once (TaskEscrow); a call that is not
\* configured, is refused or keeps failing is logged and forgotten.
EscrowRelease(p) ==
    /\ At(p, "accept", "release")
    /\ \/ proc[p].job \notin escrowPaid
          /\ escrowPaid' = escrowPaid \cup {proc[p].job} /\ Goto(p, "mark")
       \/ UNCHANGED escrowPaid /\ Goto(p, "attest")
    /\ UNCHANGED <<job, syncs, moneyVars, fundVars, onChainSettled, settleVars>> /\ Quiet

EscrowMark(p) ==
    /\ At(p, "accept", "mark")
    /\ onChainSettled' = onChainSettled \cup {proc[p].job}
    /\ Goto(p, "attest")
    /\ UNCHANGED <<job, syncs, moneyVars, fundVars, escrowPaid, settleVars>> /\ Quiet

-----------------------------------------------------------------------------
(* rejectJob: a job that was submitted or accepted goes back to the workers, *)
(* and its budget to the reserve, whether or not it had been debited.        *)

RejectRead(p, j) ==
    /\ job[j] \in {"submitted", "accepted"}
    /\ Begin(p, [Idle EXCEPT !.op = "reject", !.step = "rework", !.job = j])
    /\ UNCHANGED creditVars

RejectJob(p) ==
    /\ At(p, "reject", "rework")
    /\ job' = [job EXCEPT ![proc[p].job] = "rework"]
    /\ Goto(p, "reserve")
    /\ UNCHANGED <<syncs, creditVars>> /\ Quiet

RefundRead(p) ==
    /\ At(p, "reject", "reserve")
    /\ \/ reserve = NoReserve /\ Finish(p)
       \/ \E row \in reserve :
             proc' = [proc EXCEPT ![p].step = "refund",
                                  ![p].seen = Gross(row, Budget[proc[p].job])]
    /\ UNCHANGED <<job, syncs, creditVars>> /\ Quiet

RefundWrite(p) ==
    /\ At(p, "reject", "refund")
    /\ reserve' = {[r EXCEPT !.reserved = @ + proc[p].seen, !.status = "active"] : r \in reserve}
    /\ account' = [account EXCEPT !["poster"] = @ + proc[p].seen]
    /\ ledger' = [ledger EXCEPT !["rejection_refund"] = @ + proc[p].seen]
    /\ Finish(p)
    /\ UNCHANGED <<job, syncs, fundVars, escrowVars, settleVars>> /\ Quiet

CreditStep(p) ==
    \/ MarkFunded(p) \/ FundQuote(p) \/ FundMint(p) \/ CancelWrite(p)
    \/ AcceptJob(p) \/ SettleGuard(p) \/ SettleRead(p)
    \/ \E rebate, referred \in BOOLEAN : SettleWrite(p, rebate, referred)
    \/ EscrowRelease(p) \/ EscrowMark(p)
    \/ RejectJob(p) \/ RefundRead(p) \/ RefundWrite(p)

CreditCall(p) ==
    \/ Serves("fund") /\ \E x \in Txs, usd \in Amounts : FundRead(p, x, usd)
    \/ Serves("cancel") /\ CancelRead(p)
    \/ Serves("accept") /\ \E j \in Jobs : AcceptRead(p, j)
    \/ Serves("reject") /\ \E j \in Jobs : RejectRead(p, j)

-----------------------------------------------------------------------------
(* Properties *)

\* Every account holds exactly what its ledger entries say, however the requests
\* interleave and wherever they fail (tokenomicsService.ts 267-377, 485-517).
AccountsMatchLedger ==
    /\ account["poster"] = ledger["mint"] + ledger["settlement_debit"]
                           + ledger["rejection_refund"]
    /\ ledger["reserve"] = -ledger["mint"]
    /\ account["worker"] = ledger["worker_payout"]
    /\ account["treasury"] = ledger["protocol_fee"]
    /\ account["staker_yield_pool"] = ledger["staker_yield_pool"]

SettledTimes == Total(settles)

\* A settlement pays out what it debits, up to the bonus nobody receives and one
\* unit of rounding (splitSettlementIntel rounds each part by itself).
SplitsAddUp ==
    LET paid == ledger["worker_payout"] + ledger["protocol_fee"] + ledger["staker_yield_pool"]
        difference == paid + lapsed + ledger["settlement_debit"]
    IN  difference <= SettledTimes /\ difference >= -SettledTimes

\* While requests are served one at a time the idea's row and the poster's account
\* agree on the reserve, up to the tolerance, also after refunds and failures; the
\* row's totals are the ledger's; and no job is settled more often than submitted.
RowAgreesWhenAlone ==
    alone => /\ \A row \in reserve :
                   /\ row.reserved - account["poster"] \in 0..(Tolerance * SettledTimes)
                   /\ row.minted = ledger["mint"]
                   /\ row.spent = ledger["worker_payout"] /\ row.fee = ledger["protocol_fee"]
             /\ \A j \in Jobs : settles[j] <= submits[j]

\* A job marked as settled on chain was paid there and settled here: the mark, which
\* stops later settlements, never stands for a payment that was not made.
MarkedWasPaid == \A j \in onChainSettled : j \in escrowPaid /\ settles[j] > 0

\* Credits are minted for a recorded transaction that takes effect, never else
\* (AppliedOnce: at most once).
MintedForFunding ==
    reserve # NoReserve => \E r \in applied : r.event = "idea_funded"

CreditTypeOK ==
    /\ account \in [Payees \cup {"poster"} -> Int]
    /\ ledger \in [EntryTypes -> Int]
    /\ \A row \in reserve : row.status \in {"active", "settled"} /\ row.reserved >= 0
                            /\ row.stable > 0 /\ row.minted > 0
    /\ Cardinality(reserve) <= 1
    /\ funding \in {"unfunded", "funded", "cancelled"}
    /\ posterColumn \in BOOLEAN
    /\ \A a \in Payees : account[a] >= 0
=============================================================================
