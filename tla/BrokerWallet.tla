---------------------------- MODULE BrokerWallet ----------------------------
(***************************************************************************)
(* The transactions that the broker sends with its one key: the worker of  *)
(* a task in TaskEscrow, its release, deposits of yield and of reviewers'  *)
(* fees (services/chainService.ts), and the operator's calls that          *)
(* administrators ask for (routes/admin.ts).                               *)
(*                                                                         *)
(* A call to a contract is two steps: the gas is estimated on the latest   *)
(* block and the next nonce read, which fails if the contract would revert *)
(* there; then the transaction is sent, which fails if the nonce has been  *)
(* used since.  Nobody waits for a receipt: what is sent is mined later,   *)
(* in the order of the nonces, and one that reverts then counts as done.   *)
(* Calls that a handler makes one after the other are a script.  The       *)
(* contracts are external here: TaskEscrow and IntelPayouts model them.    *)
(***************************************************************************)
EXTENDS Access

CONSTANTS
    Epochs, MaxScripts    \* bound on scripts at once

VARIABLES
    escrow,       \* external: state and worker of the task in TaskEscrow, by job
    allowance,    \* external: what the broker's key lets each depositor take
    deposits,     \* external: what each contract has been given
    epochs,       \* external: epochs with scores, and distributed ones
    sent, mined,  \* external: the transactions of the broker's key, in the order of
                  \* their nonces, and how many of them are mined
    scripts,      \* calls being made for handlers that answered already, or wait
    settled,      \* jobs.onChainSettled
    accepts,      \* history: settlements begun
    missed,       \* history: deposits whose estimate reverted
    orderly       \* history: no two scripts at once, none of their calls failed,
                  \* and no task of the escrow has changed without the broker

contractVars == <<escrow, allowance, deposits, epochs, sent, mined>>
walletVars == <<contractVars, scripts, settled, accepts, missed, orderly>>

Depositories == {"staking", "fees"}

\* What a settlement deposits in each
Share == [staking |-> 9, fees |-> 1]

WalletInit ==
    /\ escrow = [j \in Jobs |-> [state |-> "unfunded", worker |-> None]]
    /\ allowance = [d \in Depositories |-> 0]
    /\ deposits = [d \in Depositories |-> 0]
    /\ epochs = [scored |-> {}, distributed |-> {}]
    /\ sent = <<>> /\ mined = 0
    /\ scripts = {} /\ settled = {} /\ orderly = TRUE
    /\ accepts = 0 /\ missed = [d \in Depositories |-> 0]

-----------------------------------------------------------------------------
(* What the contracts do *)

Call(name, j, who) == [name |-> name, job |-> j, who |-> who, amount |-> 0]
Approve(d) == [name |-> "approve", job |-> None, who |-> d, amount |-> Share[d]]
Deposit(d) == [name |-> "deposit", job |-> None, who |-> d, amount |-> Share[d]]

Reverts(c) ==
    \/ c.name \in {"setWorker", "clearWorker", "release"} /\ escrow[c.job].state # "funded"
    \/ c.name = "setWorker" /\ escrow[c.job].worker # None
    \/ c.name = "release" /\ escrow[c.job].worker \notin {None, c.who}
    \/ c.name = "deposit" /\ allowance[c.who] < c.amount
    \/ c.name = "distribute" /\ c.who \notin epochs.scored \ epochs.distributed

Worker(c) == CASE c.name = "setWorker" -> c.who
               [] c.name = "clearWorker" -> None
               [] c.name = "release" -> c.who

Executed(c) ==
    /\ escrow' = IF Reverts(c) \/ c.name \notin {"setWorker", "clearWorker", "release"} THEN escrow
                 ELSE [escrow EXCEPT ![c.job] =
                         [state |-> IF c.name = "release" THEN "released" ELSE "funded",
                          worker |-> Worker(c)]]
    /\ allowance' = CASE c.name = "approve" -> [allowance EXCEPT ![c.who] = c.amount]
                      [] c.name = "deposit" /\ ~Reverts(c) -> [allowance EXCEPT ![c.who] = @ - c.amount]
                      [] OTHER -> allowance
    /\ deposits' = IF c.name = "deposit" /\ ~Reverts(c)
                   THEN [deposits EXCEPT ![c.who] = @ + c.amount] ELSE deposits
    /\ epochs' = CASE c.name = "scores" -> [epochs EXCEPT !.scored = @ \cup {c.who}]
                   [] c.name = "distribute" /\ ~Reverts(c) ->
                         [epochs EXCEPT !.distributed = @ \cup {c.who}]
                   [] OTHER -> epochs

Send(c) ==
    /\ sent' = Append(sent, c)
    /\ UNCHANGED <<escrow, allowance, deposits, epochs, mined>>

Mine ==
    /\ mined < Len(sent) /\ mined' = mined + 1
    /\ Executed(sent[mined + 1])
    /\ UNCHANGED <<requestVars, accessVars, sent, scripts, settled, accepts, missed, orderly>>

\* The buyer funds the task, and it may leave without the broker: after its review
\* window anyone releases it to its worker, after its refund window it is refunded.
FundTask(j) ==
    /\ escrow[j].state = "unfunded"
    /\ escrow' = [escrow EXCEPT ![j].state = "funded"]
    /\ UNCHANGED <<requestVars, accessVars, allowance, deposits, epochs, sent, mined, scripts, settled,
                   accepts, missed, orderly>>

LeaveEscrow(j) ==
    /\ escrow[j].state = "funded"
    /\ \E s \in {"refunded"} \cup IF escrow[j].worker = None THEN {} ELSE {"released"} :
          escrow' = [escrow EXCEPT ![j].state = s]
    /\ orderly' = FALSE
    /\ UNCHANGED <<requestVars, accessVars, allowance, deposits, epochs, sent, mined, scripts, settled,
                   accepts, missed>>

-----------------------------------------------------------------------------
(* Scripts *)

Script(calls, j, who) == [calls |-> calls, job |-> j, who |-> who, step |-> "prepare", nonce |-> 0]

\* Without addresses of the contracts (Setting.chain) the broker skips every call.
Launch(s) ==
    IF ~Setting.chain THEN UNCHANGED <<scripts, orderly>> ELSE
    /\ scripts' = scripts \cup {s}
    /\ orderly' = (orderly /\ scripts = {})

SetWorkerOnEscrow(j, w) == Launch(Script(<<Call("setWorker", j, w)>>, j, w))
ClearWorkerOnEscrow(j) == Launch(Script(<<Call("clearWorker", j, None)>>, j, None))

DepositStakerYield == <<Approve("staking"), Deposit("staking")>>
ReleaseTaskEscrow(j, w) == <<Call("release", j, w)>>
DepositReviewerFees == <<Approve("fees"), Deposit("fees")>>

\* The end of settleAcceptedJobCredits: each of the three ends at its first failure.
Settle(j, w) ==
    /\ accepts' = IF Setting.chain THEN accepts + 1 ELSE accepts
    /\ Launch(Script(DepositStakerYield \o ReleaseTaskEscrow(j, w) \o DepositReviewerFees, j, w))

Becomes(s, t) == scripts' = (scripts \ {s}) \cup (IF t.calls = <<>> THEN {} ELSE {t})

\* The calls after the failure of the first one: the deposit of an approval that
\* failed is not made either.
Rest(s) ==
    LET c == Head(s.calls) IN
    [s EXCEPT !.calls = IF c.name = "approve" THEN Tail(Tail(s.calls)) ELSE Tail(s.calls),
              !.step = "prepare"]

PrepareCall(s) ==
    LET c == Head(s.calls) IN
    /\ s \in scripts /\ s.step = "prepare"
    /\ IF Reverts(c)
       THEN Becomes(s, Rest(s)) ELSE Becomes(s, [s EXCEPT !.step = "send", !.nonce = Len(sent)])
    /\ missed' = IF c.name = "deposit" /\ Reverts(c) THEN [missed EXCEPT ![c.who] = @ + 1] ELSE missed
    /\ UNCHANGED <<requestVars, accessVars, contractVars, settled, accepts, orderly>>

\* Once the release is sent its hash marks the job as settled.
SendCall(s) ==
    LET c == Head(s.calls) IN
    /\ s \in scripts /\ s.step = "send" /\ s.nonce = Len(sent)
    /\ Send(c)
    /\ Becomes(s, IF c.name = "release" THEN [s EXCEPT !.step = "mark"]
                  ELSE [s EXCEPT !.calls = Tail(s.calls), !.step = "prepare"])
    /\ UNCHANGED <<requestVars, accessVars, settled, accepts, missed, orderly>>

MarkSettledOnChain(s) ==
    /\ s \in scripts /\ s.step = "mark"
    /\ settled' = settled \cup {s.job}
    /\ Becomes(s, [s EXCEPT !.calls = Tail(s.calls), !.step = "prepare"])
    /\ UNCHANGED <<requestVars, accessVars, contractVars, accepts, missed, orderly>>

\* A stale nonce or a lost answer; a release is tried again (withRetry), and when its
\* answer was lost the transaction may have been sent.
CallFails(s) ==
    LET c == Head(s.calls) IN
    /\ s \in scripts /\ s.step = "send"
    /\ \/ /\ s.nonce # Len(sent)
          /\ \/ Becomes(s, Rest(s))
             \/ c.name = "release" /\ Becomes(s, [s EXCEPT !.step = "prepare"])
          /\ UNCHANGED <<contractVars, faults>>
       \/ /\ s.nonce = Len(sent)
          /\ faults < Scenes[scene].faults /\ faults' = faults + 1
          /\ \/ Send(c)
             \/ UNCHANGED contractVars
          /\ IF c.name = "release" THEN Becomes(s, [s EXCEPT !.step = "prepare"])
             ELSE Becomes(s, Rest(s))
    /\ orderly' = FALSE
    /\ UNCHANGED <<scene, job, syncs, proc, starts, applied, again, alone, accessVars, settled, accepts, missed>>

LoseScripts ==
    /\ scripts' = {} /\ orderly' = (orderly /\ scripts = {})
    /\ UNCHANGED <<contractVars, settled, accepts, missed>>

-----------------------------------------------------------------------------
(* routes/admin.ts: each route makes one call, and answers with its hash     *)

AdminRoute(p, name, e) ==
    /\ Cardinality(scripts) < MaxScripts
    /\ Start(p, [op |-> "idle"])
    /\ Launch(Script(<<Call(name, None, e)>>, None, e))
    /\ UNCHANGED <<accessVars, contractVars, settled, accepts, missed>>

SubmitScores(p, e) == AdminRoute(p, "scores", e)
DistributeEpoch(p, e) == AdminRoute(p, "distribute", e)
ExecuteBuyback(p) == AdminRoute(p, "buyback", None)
UpdateMintCap(p) == AdminRoute(p, "cap", None)
EvaluateTier(p) == AdminRoute(p, "evaluate", None)
MintCredential(p) == AdminRoute(p, "credential", None)

WalletCall(p) ==
    /\ Serves("admin")
    /\ \/ \E e \in Epochs : SubmitScores(p, e) \/ DistributeEpoch(p, e)
       \/ ExecuteBuyback(p) \/ UpdateMintCap(p) \/ EvaluateTier(p) \/ MintCredential(p)

WalletStep ==
    \/ Setting.chain /\ \E j \in Jobs : FundTask(j) \/ LeaveEscrow(j)
    \/ Mine
    \/ \E s \in scripts : PrepareCall(s) \/ SendCall(s) \/ MarkSettledOnChain(s) \/ CallFails(s)

-----------------------------------------------------------------------------
(* Properties *)

WalletTypeOK ==
    /\ \A j \in Jobs : /\ escrow[j].state \in {"unfunded", "funded", "released", "refunded"}
                       /\ escrow[j].worker \in Accounts \cup {None}
    /\ \A d \in Depositories : allowance[d] \in Nat /\ deposits[d] \in Nat /\ missed[d] \in Nat
    /\ mined \in 0..Len(sent) /\ settled \subseteq Jobs
    /\ \A s \in scripts : s.calls # <<>> /\ s.step \in {"prepare", "send", "mark"}

\* An epoch is distributed after its scores.  The contracts have and may take no more
\* than the settlements gave, though approvals overwrite each other; and until two
\* scripts overlap or one fails, all of it but the deposits whose estimate came before
\* their approval was mined (chainService.ts 507-803).
DepositsMatchSettlements ==
    /\ epochs.distributed \subseteq epochs.scored
    /\ \A d \in Depositories :
          /\ deposits[d] + allowance[d] <= Share[d] * accepts
          /\ orderly /\ scripts = {} /\ mined = Len(sent) => deposits[d] = Share[d] * (accepts - missed[d])

IsRelease(k, j) == sent[k].name = "release" /\ sent[k].job = j

\* Another worker than the one that k releases to was set before it.
Overtaken(k) ==
    \E i \in 1..(k - 1) : /\ sent[i].name = "setWorker" /\ sent[i].job = sent[k].job
                          /\ sent[i].who # sent[k].who

\* The mark that stops a second settlement stands for a task that has left the escrow,
\* or leaves it once its release is mined, even when an answer was lost or the release
\* reverts; but for a release to another worker than the one that was set meanwhile.  In
\* order, a task that the broker released has the mark (chainService.ts 979-1003).
MarkedHasLeft ==
    /\ \A j \in settled :
          \/ escrow[j].state \in {"released", "refunded"}
          \/ \E k \in DOMAIN sent : IsRelease(k, j) /\ (k > mined \/ Overtaken(k))
    /\ orderly /\ scripts = {} => \A j \in Jobs : escrow[j].state = "released" => j \in settled
=============================================================================
