------------------------ MODULE MCAdvancedArcEscrow ------------------------
(***************************************************************************)
(* AdvancedArcEscrow on two ideas and two milestones.  A funding is worth  *)
(* two milestones, and 15 makes both fees round.  A milestone is paid at   *)
(* once, on a line or in steps; the poster is a verified reviewer too.     *)
(***************************************************************************)
EXTENDS AdvancedArcEscrow, TLC

MCSchedules ==
    {Unvested, [duration |-> 2, cliff |-> 1, linear |-> TRUE],
               [duration |-> 2, cliff |-> 1, linear |-> FALSE]}

Symmetry == Permutations(Milestones) \cup Permutations(Ideas)
=============================================================================
