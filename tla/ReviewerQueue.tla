--------------------------- MODULE ReviewerQueue ---------------------------
(***************************************************************************)
(* ReviewerQueue.sol: an operator has a task reviewed; one of the          *)
(* reviewers he lists is drawn, by stake, if he has capacity left; a       *)
(* review that takes too long is drawn again.  Each reviewer's tasks are   *)
(* an array with an index into it, shortened by swap-and-pop, and a count. *)
(*                                                                         *)
(* The draw is a hash of the task and the time: any reviewer with a bond   *)
(* may be drawn.  Lists shorter than maxReviewerScanCount (10 at least)    *)
(* are scanned in full.  IdentityGate.sol is the set verified.             *)
(***************************************************************************)
EXTENDS Roles, Integers, SequencesExt

CONSTANTS Reviewers, Tasks

VARIABLES
    assignments,   \* by task: reviewer (NoOne before the first), at, completed, timedOut
    queues,        \* by reviewer: tasks, index (1-based, 0 if absent), active, and
                   \* slips, history: how often active fell without a task leaving
    rq,            \* reviewTimeout, maxActiveReviewsPerReviewer, is a gate set?
    verified       \* IdentityGate: accounts verified as reviewers

queueVars == <<assignments, queues, rq, verified>>

NoReview == [reviewer |-> NoOne, at |-> 0, completed |-> FALSE, timedOut |-> FALSE]
EmptyQueue == [tasks |-> <<>>, index |-> [t \in Tasks |-> 0], active |-> 0, slips |-> 0]

QueueInit(timeout, maxActive) ==
    /\ assignments = [t \in Tasks |-> NoReview]
    /\ queues = [r \in Reviewers |-> EmptyQueue]
    /\ rq = [timeout |-> timeout, maxActive |-> maxActive, gated |-> FALSE]
    /\ verified = {}

Pushed(q, t) ==
    [q EXCEPT !.tasks = Append(@, t), !.index[t] = Len(q.tasks) + 1, !.active = @ + 1]

\* A slip the checks must notice: the task that fills the gap keeps its index.
RemovedKeepingIndex(q, t) ==
    LET i == q.index[t] IN
    IF i = 0 THEN [q EXCEPT !.active = @ - 1, !.slips = @ + 1]
    ELSE [q EXCEPT !.tasks = Front([@ EXCEPT ![i] = Last(q.tasks)]),
                   !.index[t] = 0, !.active = @ - 1]

\* reviewerActiveCount-- and _removeFromQueue
Removed(q, t) ==
    LET i == q.index[t]
        last == Last(q.tasks)
    IN
    IF i = 0 THEN [q EXCEPT !.active = @ - 1, !.slips = @ + 1]
    ELSE [q EXCEPT !.tasks = Front([@ EXCEPT ![i] = last]),
                   !.index = [[@ EXCEPT ![last] = i] EXCEPT ![t] = 0],
                   !.active = @ - 1]

\* Who may be drawn from a list: those with a bond, if any of the free have one.
Drawable(qs, list, worker, bond) ==
    LET free == {r \in list \ {worker} : /\ qs[r].active < rq.maxActive
                                         /\ rq.gated => r \in verified}
        bonded == {r \in free : bond[r] > 0}
    IN  IF bonded # {} THEN bonded ELSE free

\* _assignReview does not ask whether the task is being reviewed already
AssignReview(caller, t, list, worker, bond) ==
    /\ IsOperator("queue", caller)
    /\ \E r \in Drawable(queues, list, worker, bond) :
          /\ assignments' = [assignments EXCEPT ![t] = [NoReview EXCEPT !.reviewer = r, !.at = now]]
          /\ queues' = [queues EXCEPT ![r] = Pushed(@, t)]
    /\ UNCHANGED <<rq, verified>>

Unfinished(t) == assignments[t].reviewer # NoOne /\ ~assignments[t].completed

\* the reviewer who completes is whom the operator names
CompleteReview(caller, t, r) ==
    /\ IsOperator("queue", caller)
    /\ Unfinished(t)
    /\ queues[r].active > 0
    /\ assignments' = [assignments EXCEPT ![t].completed = TRUE]
    /\ queues' = [queues EXCEPT ![r] = Removed(@, t)]
    /\ UNCHANGED <<rq, verified>>

ReassignTimedOut(caller, t, list, bond) ==
    LET old == assignments[t].reviewer
        qs == [queues EXCEPT ![old] = Removed(@, t)]
    IN
    /\ IsOperator("queue", caller)
    /\ Unfinished(t)
    /\ now >= assignments[t].at + rq.timeout
    /\ queues[old].active > 0
    /\ \E r \in Drawable(qs, list, NoOne, bond) :
          /\ assignments' = [assignments EXCEPT ![t] = [NoReview EXCEPT !.reviewer = r, !.at = now]]
          /\ queues' = [qs EXCEPT ![r] = Pushed(@, t)]
    /\ UNCHANGED <<rq, verified>>

\* the body of removeEligibleReviewer, which ReviewerStakeManager calls too
QueueWithout(r) ==
    LET listed == ToSet(queues[r].tasks) IN
    /\ assignments' = [t \in Tasks |->
          IF t \in listed /\ Unfinished(t) /\ assignments[t].reviewer = r
          THEN [assignments[t] EXCEPT !.timedOut = TRUE] ELSE assignments[t]]
    /\ queues' = [queues EXCEPT ![r] =
          [EmptyQueue EXCEPT !.index = [t \in Tasks |-> IF t \in listed THEN 0 ELSE queues[r].index[t]]]]

RemoveEligibleReviewer(caller, r) ==
    /\ IsOperator("queue", caller)
    /\ QueueWithout(r)
    /\ UNCHANGED <<rq, verified>>

SetReviewTimeout(caller, newTimeout) ==
    /\ IsOwner("queue", caller)
    /\ rq' = [rq EXCEPT !.timeout = newTimeout]
    /\ UNCHANGED <<assignments, queues, verified>>

SetMaxActiveReviews(caller, newMax) ==
    /\ IsOwner("queue", caller)
    /\ rq' = [rq EXCEPT !.maxActive = newMax]
    /\ UNCHANGED <<assignments, queues, verified>>

SetIdentityGate(caller, gated) ==
    /\ IsOwner("queue", caller)
    /\ rq' = [rq EXCEPT !.gated = gated]
    /\ UNCHANGED <<assignments, queues, verified>>

QueueSetOperator(caller) == SetOperator("queue", caller)
QueueTransferOwnership(caller) == TransferOwnership("queue", caller)
QueueAcceptOwnership(caller) == AcceptOwnership("queue", caller)

\* IdentityGate: setVerified and revokeRole, by its attestor
SetVerified(r) ==
    /\ verified' \in {verified \cup {r}, verified \ {r}}
    /\ UNCHANGED <<assignments, queues, rq>>

-----------------------------------------------------------------------------
(* Properties *)

QueueTypeOK ==
    /\ assignments \in [Tasks -> [reviewer : Reviewers \cup {NoOne}, at : Nat,
                                  completed : BOOLEAN, timedOut : BOOLEAN]]
    /\ queues \in [Reviewers -> [tasks : Seq(Tasks), index : [Tasks -> Nat],
                                 active : Nat, slips : Nat]]
    /\ rq \in [timeout : Nat, maxActive : Nat, gated : BOOLEAN]
    /\ verified \subseteq Reviewers

\* The reviews of a reviewer that run (not completed, not timed out by his
\* removal) are in his queue under their index, so that they can be completed or
\* drawn again, and his capacity is what his queue holds, whatever the order in
\* which tasks are assigned (twice, even), completed in another's name, drawn
\* again and swapped.  Only a completion in his name of a task he does not have
\* takes a place from the count alone: slips.
ReviewsCounted ==
    \A r \in Reviewers :
        LET q == queues[r] IN
        /\ q.active + q.slips = Len(q.tasks)
        /\ \A t \in Tasks :
              /\ q.index[t] # 0 => q.index[t] <= Len(q.tasks) /\ q.tasks[q.index[t]] = t
              /\ Unfinished(t) /\ assignments[t].reviewer = r /\ ~assignments[t].timedOut
                    => q.index[t] # 0
=============================================================================
