--------------------------- MODULE MCBrokerMoney ---------------------------
EXTENDS BrokerMoney

CONSTANTS j1, j2, x1, x2, p1, p2

MCBudget == (j1 :> 150) @@ (j2 :> 150)

MCCalls == {"fund", "cancel", "accept", "reject", "sync", "hook"}

Scene(kinds, most, atOnce, failures) ==
    [calls |-> kinds, starts |-> most, slots |-> atOnce, faults |-> failures]

MCScenes == [credits |-> Scene({"fund", "accept", "reject"}, 5, 2, 0),
             rework |-> Scene({"fund", "accept", "reject"}, 6, 1, 0),
             hooks |-> Scene({"hook"}, 4, 2, 0),
             chain |-> Scene({"sync", "hook"}, 2, 2, 0),
             idea |-> Scene({"sync", "cancel"}, 3, 2, 0),
             failing |-> Scene({"fund", "accept", "sync"}, 3, 2, 1),
             both |-> Scene({"accept", "sync"}, 3, 2, 0)]

Same == Permutations(Requests) \cup Permutations(Txs) \cup Permutations(Jobs)
=============================================================================
