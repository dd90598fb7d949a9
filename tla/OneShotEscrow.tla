--------------------------- MODULE OneShotEscrow ---------------------------
(***************************************************************************)
(* What an escrow of the protocol promises for each deposit, whatever its  *)
(* roles, windows and splits: a deposit is taken once, is held in full,    *)
(* and leaves in full, once, either to the parties of the work or back to  *)
(* its funder.  TaskEscrow and AdvancedArcEscrow implement it.             *)
(***************************************************************************)
EXTENDS Naturals

CONSTANTS
    Deposits,                \* the deposits the escrow may hold
    Values                   \* what a deposit may be worth

VARIABLES
    fate,                    \* "none", "held", "paid" or "returned"
    worth,                   \* what was deposited
    out                      \* what has left the escrow for this deposit

vars == <<fate, worth, out>>

Init ==
    /\ fate = [d \in Deposits |-> "none"]
    /\ worth = [d \in Deposits |-> 0]
    /\ out = [d \in Deposits |-> 0]

Take(d, amount) ==
    /\ fate[d] = "none"
    /\ amount > 0
    /\ fate' = [fate EXCEPT ![d] = "held"]
    /\ worth' = [worth EXCEPT ![d] = amount]
    /\ UNCHANGED out

\* deposits of one amount each, taken in one call
TakeBatch(batch, amount) ==
    /\ \A d \in batch : fate[d] = "none"
    /\ amount > 0
    /\ fate' = [d \in Deposits |-> IF d \in batch THEN "held" ELSE fate[d]]
    /\ worth' = [d \in Deposits |-> IF d \in batch THEN amount ELSE worth[d]]
    /\ UNCHANGED out

Leave(d, how) ==
    /\ fate[d] = "held"
    /\ fate' = [fate EXCEPT ![d] = how]
    /\ out' = [out EXCEPT ![d] = worth[d]]
    /\ UNCHANGED worth

Next ==
    \/ \E d \in Deposits :
          \/ \E amount \in Values : Take(d, amount)
          \/ \E how \in {"paid", "returned"} : Leave(d, how)
    \/ \E batch \in SUBSET Deposits, amount \in Values : TakeBatch(batch, amount)

Spec == Init /\ [][Next]_vars
=============================================================================
