---------------------------- MODULE BrokerMoney ----------------------------
(***************************************************************************)
(* The broker's credits and its view of the chain together: the same       *)
(* requests write the status of a job, settlement obeys the mark that a    *)
(* chain event sets, and the sync route can record a funding before the    *)
(* request that would have minted for it.                                  *)
(*                                                                         *)
(* A scene serves the requests about credits, those about the chain, or    *)
(* acceptances with both.                                                  *)
(***************************************************************************)
EXTENDS CreditLedger, ChainSync

vars == <<requestVars, creditVars, syncVars>>

Init == RequestsInit /\ CreditInit /\ SyncInit

Arrive(p) ==
    \/ CreditCall(p) /\ UNCHANGED syncVars
    \/ SyncCall(p) /\ UNCHANGED creditVars

Serve(p) ==
    \/ CreditStep(p) /\ UNCHANGED syncVars
    \/ SyncStep(p) /\ UNCHANGED creditVars
    \/ RecordInsert(p) /\ UNCHANGED <<creditVars, syncVars>>
    \/ Fail(p) /\ UNCHANGED <<creditVars, syncVars>>

Next ==
    \/ \E p \in Requests : Arrive(p) \/ Serve(p)
    \/ Serves("accept") /\ \E j \in Jobs : SubmitJob(j) /\ UNCHANGED syncVars
    \/ Background /\ UNCHANGED creditVars
    \/ Restart /\ LoseTasks /\ UNCHANGED creditVars

Spec == Init /\ [][Next]_vars

-----------------------------------------------------------------------------
(* Properties *)

\* Credits and reports have the types of their tables (db/migrate.ts), and no
\* payee's balance is negative.
BrokerTypeOK == CreditTypeOK /\ SyncTypeOK

\* The three records of the same credits agree: accounts with ledger always, splits
\* up to rounding, the idea's row while requests do not overlap; a mark that stops
\* settlement stands for a payment; credits are minted for recorded fundings only
\* (tokenomicsService.ts, routes/ideas.ts 143-180).
CreditsAddUp ==
    /\ AccountsMatchLedger /\ SplitsAddUp /\ RowAgreesWhenAlone /\ MarkedWasPaid
    /\ MintedForFunding

\* What the broker holds of the chain is explained by the chain: reports apply once,
\* reputation is earned, registry and nonces agree, settled jobs were released
\* (chainService.ts, routes/arc.ts 593-697, AgentIdentityRegistry.sol).
ChainCountsOnce ==
    /\ AppliedOnce /\ ReputationEarned /\ RegistryAgrees /\ SettledWasReleased
=============================================================================
