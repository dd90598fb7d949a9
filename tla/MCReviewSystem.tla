--------------------------- MODULE MCReviewSystem ---------------------------
(***************************************************************************)
(* ReviewSystem on two reviewers, two tasks, two jurors and a worker.      *)
(* Tiers need 1, 2 and 2 reviews.  The dispute bond leaves dust over two   *)
(* jurors; fees are a tenth of the values.                                 *)
(***************************************************************************)
EXTENDS ReviewSystem, TLC

MCMinReviews == <<1, 2, 2>>
MCMaxSlashBps == <<9000, 5000, 3000>>
MCParams == [jurors |-> 2, quorumBps |-> 6000, window |-> 1, bond |-> 11, slashBps |-> 5000]
MCNewParams == [jurors |-> 1, quorumBps |-> 0, window |-> 0, bond |-> 5, slashBps |-> 10000]
MCValues == [bonds |-> {10, 20}, queue |-> {10, 20}, credentials |-> {20}, disputes |-> {10, 20}]
MCMaxCalls == [bonds |-> 5, queue |-> 4, credentials |-> 8, disputes |-> 5]

Symmetry == Permutations(Reviewers) \cup Permutations(Tasks) \cup Permutations(Jurors)
=============================================================================
