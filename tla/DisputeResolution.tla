------------------------- MODULE DisputeResolution -------------------------
(***************************************************************************)
(* DisputeResolution.sol: whoever posts a bond disputes a task; a jury the *)
(* operator names votes; the verdict returns or keeps the bond and slashes *)
(* worker and reviewer at their stake managers, which may refuse.          *)
(*                                                                         *)
(* Jurors are wallets with a stake in IntelStaking when the jury is named. *)
(* disputeWindow is set and never read: it is left out, as is who the      *)
(* treasury is.                                                            *)
(***************************************************************************)
EXTENDS StakeManagers

CONSTANTS
    Jurors,
    ExpiryGrace      \* 24 hours

VARIABLES
    disputes,        \* the sequence of disputes; ids start at 1
    taskDisputeId,   \* by task, 0 if none
    dr,              \* the parameters, and whether the stake managers are set
    drBalance,       \* INTEL the contract holds
    rewarded         \* history: paid to jurors on top of the bonds slashed

Bps == 0..10000  \* basis points

disputeVars == <<disputes, taskDisputeId, dr, drBalance, rewarded>>

DRInit(params, wired, funds) ==
    /\ disputes = <<>>
    /\ taskDisputeId = [t \in Tasks |-> 0]
    /\ dr = [jurors |-> params.jurors, quorumBps |-> params.quorumBps, window |-> params.window,
              bond |-> params.bond, slashBps |-> params.slashBps, rsm |-> wired, wsm |-> wired]
    /\ drBalance = funds
    /\ rewarded = -funds

OpenDispute(t, worker, reviewer) ==
    /\ taskDisputeId[t] = 0
    /\ disputes' = Append(disputes,
          [task |-> t, worker |-> worker, reviewer |-> reviewer, bond |-> dr.bond,
           deadline |-> 0, state |-> "pending", jury |-> <<>>,
           uphold |-> {}, reject |-> {}])
    /\ taskDisputeId' = [taskDisputeId EXCEPT ![t] = Len(disputes) + 1]
    /\ drBalance' = drBalance + dr.bond
    /\ UNCHANGED <<dr, rewarded>>

Pending(d) == disputes[d].state = "pending"

\* may be called again, with votes already cast; the same juror may sit twice
SelectJury(caller, d, jury) ==
    /\ IsOperator("disputes", caller)
    /\ Pending(d)
    /\ Len(jury) = dr.jurors
    /\ disputes' = [disputes EXCEPT ![d].jury = jury, ![d].deadline = now + dr.window]
    /\ UNCHANGED <<taskDisputeId, dr, drBalance, rewarded>>

Voted(d) == disputes[d].uphold \cup disputes[d].reject

CastVote(juror, d, uphold) ==
    /\ Pending(d)
    /\ now <= disputes[d].deadline
    /\ juror \in ToSet(disputes[d].jury) \ Voted(d)
    /\ disputes' = IF uphold THEN [disputes EXCEPT ![d].uphold = @ \cup {juror}]
                             ELSE [disputes EXCEPT ![d].reject = @ \cup {juror}]
    /\ UNCHANGED <<taskDisputeId, dr, drBalance, rewarded>>

-----------------------------------------------------------------------------
(* The verdict *)

\* by the jurors asked for today, rounded down
Quorum == (dr.jurors * dr.quorumBps) \div 10000

Verdict(d, reviewerAtFault) ==
    IF Voted(d) = {} THEN "expired"
    ELSE IF Cardinality(disputes[d].uphold) < Quorum THEN "rejected"
    ELSE IF reviewerAtFault THEN "reviewer fault"
    ELSE "worker fault"

\* _rewardJurors: each seat whose juror voted to reject is paid, and the last one
\* the dust; the votes that count may be those of an earlier jury.
Rewards(d) ==
    LET jury == disputes[d].jury
        seats == Cardinality({i \in DOMAIN jury : jury[i] \in disputes[d].reject})
        perJuror == disputes[d].bond \div Cardinality(disputes[d].reject)
    IN  IF seats = 0 THEN 0
        ELSE IF seats * perJuror > disputes[d].bond THEN seats * perJuror
        ELSE disputes[d].bond

\* The whole bond goes to the disputer or, by _slashBond, to the treasury; a
\* rejection then pays the jurors as well.
Payout(d, verdict) ==
    disputes[d].bond + IF verdict = "rejected" /\ disputes[d].reject # {} THEN Rewards(d) ELSE 0

SlashedAmount(d, verdict) ==
    IF verdict = "reviewer fault"
    THEN (reviewers[disputes[d].reviewer].bond * dr.slashBps) \div 10000
    ELSE disputes[d].bond

\* each slash is tried, and a refusal only logged
Slashes(d, verdict) ==
    LET r == disputes[d].reviewer
        w == disputes[d].worker
        amount == SlashedAmount(d, verdict)
    IN
    /\ IF /\ verdict \in {"reviewer fault", "worker fault"}
          /\ dr.rsm /\ CanSlashReviewer("disputes", r, amount)
       THEN SlashReviewer(r, amount)
       ELSE UNCHANGED <<queueVars, rsmVars>>
    /\ IF /\ verdict = "worker fault"
          /\ dr.wsm /\ CanSlashWorker("disputes", w, amount)
       THEN SlashWorker(w, amount)
       ELSE UNCHANGED wsmVars

\* A slip the checks must notice: the task stays locked, or is unlocked, whatever
\* the verdict.
CloseUnlocked(d, verdict) ==
    /\ disputes' = [disputes EXCEPT ![d].state = verdict]
    /\ taskDisputeId' = [taskDisputeId EXCEPT ![disputes[d].task] = 0]
    /\ drBalance >= Payout(d, verdict)
    /\ drBalance' = drBalance - Payout(d, verdict)
    /\ rewarded' = rewarded + Payout(d, verdict) - disputes[d].bond
    /\ UNCHANGED dr

Close(d, verdict) ==
    /\ disputes' = [disputes EXCEPT ![d].state = verdict]
    /\ taskDisputeId' = IF verdict \in {"rejected", "expired"}
                        THEN [taskDisputeId EXCEPT ![disputes[d].task] = 0]
                        ELSE taskDisputeId
    /\ drBalance >= Payout(d, verdict)
    /\ drBalance' = drBalance - Payout(d, verdict)
    /\ rewarded' = rewarded + Payout(d, verdict) - disputes[d].bond
    /\ UNCHANGED dr

\* a dispute without a jury has deadline 0 and can be resolved, or expired, at once
ResolveDispute(caller, d, reviewerAtFault) ==
    LET verdict == Verdict(d, reviewerAtFault) IN
    /\ IsOperator("disputes", caller)
    /\ Pending(d)
    /\ now > disputes[d].deadline
    /\ Close(d, verdict)
    /\ Slashes(d, verdict)

ExpireDispute(d) ==
    /\ Pending(d)
    /\ now > disputes[d].deadline + ExpiryGrace
    /\ Close(d, "expired")
    /\ Slashes(d, "expired")

-----------------------------------------------------------------------------
(* Configuration *)

\* setJurorCount, setQuorumBps, setVotingWindow, setDisputeBond, setReviewerSlashBps
SetDisputeParams(caller, params) ==
    /\ IsOwner("disputes", caller)
    /\ {params.quorumBps, params.slashBps} \subseteq Bps
    /\ \E field \in DOMAIN params : dr' = [dr EXCEPT ![field] = params[field]]
    /\ UNCHANGED <<disputes, taskDisputeId, drBalance, rewarded>>

\* setReviewerStakeManager, setWorkerStakeManager
SetStakeManagers(caller, set) ==
    /\ IsOwner("disputes", caller)
    /\ dr' \in {[dr EXCEPT !.rsm = set], [dr EXCEPT !.wsm = set]}
    /\ UNCHANGED <<disputes, taskDisputeId, drBalance, rewarded>>

DisputesSetOperator(caller) == SetOperator("disputes", caller)
DisputesTransferOwnership(caller) == TransferOwnership("disputes", caller)
DisputesAcceptOwnership(caller) == AcceptOwnership("disputes", caller)

-----------------------------------------------------------------------------
(* Properties *)

Verdicts == {"expired", "rejected", "reviewer fault", "worker fault"}

DisputeTypeOK ==
    /\ disputes \in Seq([task : Tasks, worker : Workers, reviewer : Reviewers, bond : Nat,
                         deadline : Nat, state : Verdicts \cup {"pending"}, jury : Seq(Jurors),
                         uphold : SUBSET Jurors, reject : SUBSET Jurors])
    /\ taskDisputeId \in [Tasks -> 0..Len(disputes)]
    /\ drBalance \in Nat

\* A task has at most one dispute that is pending or upheld, and its lock names
\* it: a task can be disputed again exactly after a rejection or an expiry, by
\* whichever of the two calls and however juries and votes were changed.
OneOpenDispute ==
    \A t \in Tasks :
        {d \in 1..Len(disputes) :
            disputes[d].task = t /\ disputes[d].state \notin {"rejected", "expired"}}
          = {taskDisputeId[t]} \ {0}

\* The bonds of the pending disputes can be paid, except for what rejections
\* have paid to jurors beyond the funds the contract was given: the bond of a
\* rejected dispute goes to the treasury in full, and the jurors are paid out of
\* the bonds of the others.
DisputeBondsCovered ==
    drBalance + (IF rewarded > 0 THEN rewarded ELSE 0) >=
        SumFunction([d \in 1..Len(disputes) |-> IF Pending(d) THEN disputes[d].bond ELSE 0])
=============================================================================
