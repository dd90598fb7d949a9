--------------------------- MODULE MCTaskEscrow ---------------------------
(***************************************************************************)
(* TaskEscrow on two tasks and two wallets.  The amounts 1 and 15 make     *)
(* every share round; the first split changes all three shares, the second *)
(* promises 120% and is rejected.                                          *)
(***************************************************************************)
EXTENDS TaskEscrow, TLC

MCSplits ==
    {[worker |-> 5000, staker |-> 3333, treasury |-> 1667],
     [worker |-> 8100, staker |-> 2900, treasury |-> 1000]}

Symmetry == Permutations(Tasks)
=============================================================================
