--------------------------- MODULE MCTokenEconomy ---------------------------
(***************************************************************************)
(* TokenEconomy on two users and two officers, with small amounts.         *)
(***************************************************************************)
EXTENDS TokenEconomy, TLC

CONSTANTS ann, bob, gov, dan, NoTimelockCall

MCShares ==
    [s \in {"token", "mint"} |-> ann :> 34 @@ bob :> 2] @@
    [mining |-> ann :> 4 @@ bob :> 4 @@ gov :> 6,
     buyback |-> gov :> 0 @@ "market" :> 20 @@ "pol" :> 3,
     rewards |-> gov :> 11 @@ ann :> 1,
     vesting |-> ann :> 10 @@ bob :> 3,
     ideas |-> ann :> 25 @@ bob :> 7,
     timelock |-> ann :> 1, registry |-> ann :> 1]
MCValues ==
    [token |-> {1, 3}, mint |-> {1, 3}, mining |-> {1, 3}, buyback |-> {2, 10}, rewards |-> {1},
     vesting |-> {3, 7}, ideas |-> {7, 11}, timelock |-> {1}, registry |-> {2}]
MCMaxCalls ==
    [token |-> 4, mint |-> 4, mining |-> 5, buyback |-> 4, rewards |-> 5, vesting |-> 5, ideas |-> 5,
     timelock |-> 6, registry |-> 4]
MCMaxAdminCalls ==
    [token |-> 2, mint |-> 3, mining |-> 3, buyback |-> 2, rewards |-> 1, vesting |-> 0, ideas |-> 0,
     timelock |-> 0, registry |-> 2]
MCMaxTime ==
    [token |-> 0, mint |-> 1, mining |-> 2, buyback |-> 1, rewards |-> 0, vesting |-> 6, ideas |-> 0,
     timelock |-> 7, registry |-> 0]
MCScores ==
    {<<[worker |-> ann, aiu |-> 2]>>,
     <<[worker |-> ann, aiu |-> 1], [worker |-> bob, aiu |-> 2], [worker |-> ann, aiu |-> 2]>>,
     <<[worker |-> bob, aiu |-> 3], [worker |-> ann, aiu |-> 1]>>}
MCWeights == 0 :> 35 @@ 1 :> 15 @@ 2 :> 50
MCOperations ==
    {[call |-> "delay", delay |-> 3], [call |-> "delay", delay |-> 0],
     [call |-> "proposer", who |-> dan, approved |-> TRUE], [call |-> "admin", who |-> dan],
     [call |-> NoTimelockCall]}
=============================================================================
