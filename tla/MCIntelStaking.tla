-------------------------- MODULE MCIntelStaking --------------------------
(***************************************************************************)
(* IntelStaking on two wallets.  PRECISION 2 and totals up to 3 make the   *)
(* accumulators and the debts round; AccCap is reached by two deposits.    *)
(***************************************************************************)
EXTENDS IntelStaking, TLC

MCParams ==
    [epochLength |-> 1, cooldown |-> 1, k |-> 10, walletCap |-> 11, epochCap |-> 15]

MCParamSets ==
    {[MCParams EXCEPT !.epochCap = 20, !.walletCap = 0, !.cooldown = 0]}

Symmetry == Permutations(Wallets)
=============================================================================
