------------------------ MODULE TokenEconomy_proofs ------------------------
(***************************************************************************)
(* Theorems about TokenEconomy, for all users, officers, amounts, prices   *)
(* and parameters, and any order of calls.                                 *)
(*                                                                         *)
(* Each contract has an invariant of its own, on its storage and its one   *)
(* entry in the token's balances.  A call of one contract keeps it; a call *)
(* of another leaves the storage and that entry alone.                     *)
(***************************************************************************)
EXTENDS TokenEconomy, SumTheorems, SequenceTheorems

-----------------------------------------------------------------------------
(* The invariants *)

RolesInv ==
    /\ roles \in [Contracts -> RoleType]
    /\ scene \in DOMAIN MaxCalls
    /\ now \in Nat
    /\ scene = "timelock" => now > Executed

TokenInv == TokenTypeOK /\ SupplyBacked

\* What the cap counts is what was minted in the epoch it counts, and the pair that
\* is pending has been since it was announced.
McType ==
    [twap : Nat, twapAt : Nat, floor : Nat, premium : Nat, multiplier : Nat, paused : BOOLEAN,
     cap : Nat, minted : Nat, capEpoch : Nat, target : Nat \ {0}, floorBps : Nat,
     ceilingBps : Nat, activity : BOOLEAN, maxDeviation : Nat, deviationCheck : BOOLEAN,
     route : Route, pending : Route \cup {NoOne}, readyAt : Nat]

MintInv ==
    /\ mc \in McType /\ MintTypeOK
    /\ staking \in [epoch : Nat \ {0}, left : [Users -> Nat]]
    /\ mintedIn \in [1..staking.epoch -> Nat]
    /\ mintedIn[staking.epoch] = IF mc.capEpoch = staking.epoch THEN mc.minted ELSE 0
    /\ announcedAt \in [Route -> Nat \cup {NotYet}]
    /\ mc.pending # NoOne =>
          /\ announcedAt[mc.pending] # NotYet
          /\ mc.readyAt = announcedAt[mc.pending] + RoutingTimelock

MiningInv ==
    /\ MiningTypeOK /\ StakesApart
    /\ rateQueuedAt \in Nat
    /\ mining.lastUpdate <= now
    /\ mining.pendingRate # 0 => mining.rateAt = rateQueuedAt + RateDelay

BuybackInv == BuybackTypeOK /\ BurnFloor /\ bought \in [all : Nat, burned : Nat]

RewardType ==
    [ranked : Seq(Users), top : Nat, distributed : BOOLEAN, aiu : [Users -> Nat],
     earned : [Users -> Nat], claimed : SUBSET Users]

\* Nothing is earned before the distribution.
RewardInv ==
    /\ rewards \in [Epochs -> RewardType] /\ RewardTypeOK
    /\ rewardConf \in [pool : Nat, topBps : Nat, minAiu : Nat, maxJobs : Nat, epoch : Nat,
                       jobs : [Epochs -> [Users -> Nat]]]
    /\ \A e \in Epochs : ~rewards[e].distributed => \A w \in Users : rewards[e].earned[w] = 0
    /\ RewardsCovered

VestingInv == VestingTypeOK /\ vesting.released <= VestedAmount(now)

\* An idea that was never funded holds nothing.
IdeaInv ==
    /\ IdeaTypeOK /\ IdeasApart /\ dust \in Nat
    /\ \A i \in Ideas : ~ideas[i].exists => ideas[i].total = 0

TimelockInv ==
    /\ tl \in [admin : Officers, delay : Nat, proposers : SUBSET Officers,
               readyAt : [Operations -> Nat]]
    /\ TimelockTypeOK /\ OperationsKept

RegistryInv == RegistryTypeOK /\ ProfilesAgree

EconomyInv ==
    /\ RolesInv /\ TokenInv /\ MintInv /\ MiningInv /\ BuybackInv
    /\ RewardInv /\ VestingInv /\ IdeaInv /\ TimelockInv /\ RegistryInv

-----------------------------------------------------------------------------
(* Accounts and roles *)

\* Users, officers and contracts are accounts, and no wallet is a contract.
LEMMA AccountFacts ==
    /\ Users \subseteq Accounts /\ Officers \subseteq Accounts /\ Contracts \subseteq Accounts
    /\ IsFiniteSet(Accounts) /\ IsFiniteSet(Users)
    /\ \A a \in Users \cup Officers : a \notin Contracts
    /\ {"intel", "mint", "mining", "buyback", "pol", "market", "rewards", "vesting", "ideas",
        "categories", "receipts"} \subseteq Contracts
    /\ {Treasury, RewardTreasury, Beneficiary, VestingTreasury, Stakers, TreasuryReceiver}
          \subseteq Users \cup Officers
<1>1. Users \subseteq Accounts /\ Officers \subseteq Accounts /\ Contracts \subseteq Accounts
  BY DEF Accounts
<1>2. IsFiniteSet(Accounts)
  BY EconomyAssumption
<1>3. IsFiniteSet(Users)
  BY <1>1, <1>2, FS_Subset
<1> QED
  BY <1>1, <1>2, <1>3, EconomyAssumption

\* The calls on roles keep their type, whoever makes them.
LEMMA RolesStep ==
    ASSUME RolesInv, NEW c \in Contracts, NEW caller \in Officers,
           \/ SetOperator(c, caller) \/ TransferOwnership(c, caller) \/ AcceptOwnership(c, caller)
    PROVE  roles' \in [Contracts -> RoleType]
<1>1. CASE SetOperator(c, caller)
  <2>1. PICK op \in Officers \cup Contracts :
            \/ roles' = [roles EXCEPT ![c].operators = @ \cup {op}]
            \/ roles' = [roles EXCEPT ![c].operators = @ \ {op}]
    BY <1>1 DEF SetOperator
  <2> QED BY <2>1 DEF RolesInv, RoleType
<1>2. CASE TransferOwnership(c, caller)
  BY <1>2 DEF TransferOwnership, RolesInv, RoleType
<1>3. CASE AcceptOwnership(c, caller)
  <2> DEFINE old == roles[c]
             b == [old EXCEPT !.owner = caller, !.pendingOwner = NoOne]
  <2>1. roles \in [Contracts -> RoleType] /\ old \in RoleType
    BY DEF RolesInv
  <2>2. b \in RoleType
    <3> HIDE DEF old
    <3> QED BY <2>1 DEF RoleType
  <2>3. roles' = [roles EXCEPT ![c] = b]
    BY <1>3, <2>1 DEF AcceptOwnership
  <2> QED BY <2>1, <2>2, <2>3
<1> QED
  BY <1>1, <1>2, <1>3

-----------------------------------------------------------------------------
(* The token *)

\* b when x has been added to what a holds.
Credited(b, a, x) == [b EXCEPT ![a] = @ + x]

Total(b) == SumFunctionOnSet(b, Accounts)

\* Adding to one account adds as much to the total.
LEMMA CreditedFits ==
    ASSUME NEW b \in [Accounts -> Nat], NEW a \in Accounts, NEW x \in Int, b[a] + x >= 0
    PROVE  /\ Credited(b, a, x) \in [Accounts -> Nat]
           /\ \A c \in Accounts : Credited(b, a, x)[c] = IF c = a THEN b[c] + x ELSE b[c]
           /\ Total(b) \in Nat /\ Total(Credited(b, a, x)) = Total(b) + x
<1> DEFINE d == Credited(b, a, x)
<1>1. d \in [Accounts -> Nat] /\ \A c \in Accounts : d[c] = IF c = a THEN b[c] + x ELSE b[c]
  BY DEF Credited
<1> HIDE DEF d
<1>2. /\ \A c \in Accounts : b[c] \in Int /\ d[c] \in Int /\ b[c] \in Nat
      /\ \A c \in Accounts \ {a} : d[c] = b[c]
      /\ IsFiniteSet(Accounts)
  BY <1>1, AccountFacts
<1>3. SumFunctionOnSet(d, Accounts) = SumFunctionOnSet(b, Accounts) - b[a] + d[a]
  BY <1>2, SumOfOneChange
<1>4. SumFunctionOnSet(b, Accounts) \in Nat
  BY <1>2, SumOfNaturals
<1>5. Total(b) \in Nat /\ Total(d) = Total(b) + x
  BY <1>1, <1>2, <1>3, <1>4 DEF Total
<1> QED
  BY <1>1, <1>5 DEF d

\* Nobody holds more than the supply.
LEMMA HeldOfSupply ==
    ASSUME TokenInv
    PROVE  /\ balance \in [Accounts -> Nat] /\ token.supply \in Nat
           /\ token.supply = Total(balance)
           /\ \A a \in Accounts : balance[a] <= token.supply
<1>1. /\ balance \in [Accounts -> Nat] /\ token.supply \in Nat /\ token.supply = Total(balance)
  BY DEF TokenInv, TokenTypeOK, SupplyBacked, Total
<1>2. \A a \in Accounts : balance[a] \in Nat
  BY <1>1
<1>3. \A a \in Accounts : SumFunctionOnSet(balance, Accounts) >= balance[a]
  BY <1>2, AccountFacts, SumOfNaturals
<1> QED
  BY <1>1, <1>2, <1>3 DEF Total

\* What makes the token's invariant hold after a step that may change the balances
\* and the supply.
LEMMA TokenFits ==
    ASSUME TokenInv, balance' \in [Accounts -> Nat], allowance' \in [Users -> [Users -> Nat]],
           NEW s \in Nat, token' = [token EXCEPT !.supply = s], s = Total(balance'),
           s <= token.supply \/ (MaxSupply > 0 => s <= MaxSupply)
    PROVE  TokenInv'
<1>1. /\ token \in [supply : Nat, minter : Accounts \cup {NoOne}, paused : BOOLEAN]
      /\ MaxSupply > 0 => token.supply <= MaxSupply
  BY DEF TokenInv, TokenTypeOK, SupplyBacked
<1>2. /\ token' \in [supply : Nat, minter : Accounts \cup {NoOne}, paused : BOOLEAN]
      /\ token'.supply = s
  BY <1>1
<1>3. MaxSupply \in Nat
  BY EconomyAssumption
<1>4. MaxSupply > 0 => s <= MaxSupply
  BY <1>1, <1>3
<1> QED
  BY <1>2, <1>4 DEF TokenInv, TokenTypeOK, SupplyBacked, Total

\* A move takes from one account and gives to another.
LEMMA MoveFits ==
    ASSUME TokenInv, NEW from \in Accounts, NEW to \in Accounts, NEW x \in Nat, Move(from, to, x)
    PROVE  /\ TokenInv'
           /\ balance \in [Accounts -> Nat] /\ balance' \in [Accounts -> Nat]
           /\ x <= balance[from]
           /\ \A c \in Accounts \ {from, to} : balance'[c] = balance[c]
           /\ from # to => balance'[from] = balance[from] - x /\ balance'[to] = balance[to] + x
<1> DEFINE b1 == Credited(balance, from, -x)
           b2 == Credited(b1, to, x)
<1>1. /\ balance \in [Accounts -> Nat] /\ token.supply = Total(balance) /\ token.supply \in Nat
      /\ x <= balance[from] /\ -x \in Int /\ balance[from] + (-x) >= 0
  BY HeldOfSupply DEF Move
<1>2. /\ b1 \in [Accounts -> Nat] /\ Total(b1) = Total(balance) + (-x)
      /\ \A c \in Accounts : b1[c] = IF c = from THEN balance[c] + (-x) ELSE balance[c]
  BY <1>1, CreditedFits
<1> HIDE DEF b1
<1>3. /\ b2 \in [Accounts -> Nat] /\ Total(b2) = Total(b1) + x
      /\ \A c \in Accounts : b2[c] = IF c = to THEN b1[c] + x ELSE b1[c]
  BY <1>2, CreditedFits
<1>4. balance' = b2 /\ UNCHANGED <<allowance, token>>
  <2>1. balance' = [[balance EXCEPT ![from] = @ - x] EXCEPT ![to] = @ + x]
    BY DEF Move, Moved
  <2>2. [balance EXCEPT ![from] = @ - x] = b1
    BY <1>1 DEF b1, Credited
  <2> QED BY <2>1, <2>2 DEF Credited, Move
<1> HIDE DEF b2
<1>5. Total(balance') = token.supply
  BY <1>1, <1>2, <1>3, <1>4
<1>6. TokenInv'
  <2>1. balance' \in [Accounts -> Nat]
    BY <1>3, <1>4
  <2>2. SumFunctionOnSet(balance', Accounts) = token.supply
    BY <1>5 DEF Total
  <2> QED BY <1>4, <2>1, <2>2 DEF TokenInv, TokenTypeOK, SupplyBacked
<1> QED
  BY <1>1, <1>2, <1>3, <1>4, <1>6

\* The token's own calls keep its invariant, and the contracts' balances.
TokenKept == TokenInv' /\ \A c \in Contracts : balance'[c] = balance[c]

\* A user's transfer to a user.
LEMMA MoveByUser ==
    ASSUME TokenInv, NEW u \in Users, NEW to \in Users, NEW x \in Nat, Move(u, to, x)
    PROVE  TokenKept
<1>1. \A c \in Contracts : c \in Accounts \ {u, to}
  BY AccountFacts
<1> QED
  BY <1>1, AccountFacts, MoveFits DEF TokenKept

\* The allowance a user has given, less what a spender of it has used.
LEMMA AllowanceSpent ==
    ASSUME TokenInv, NEW from \in Users, NEW spender \in Users, NEW x \in Nat,
           allowance[from][spender] >= x,
           allowance' = [allowance EXCEPT ![from][spender] = @ - x]
    PROVE  allowance' \in [Users -> [Users -> Nat]]
<1>1. allowance \in [Users -> [Users -> Nat]]
  BY DEF TokenInv, TokenTypeOK
<1>2. allowance[from] \in [Users -> Nat] /\ allowance[from][spender] - x \in Nat
  BY <1>1
<1>3. [allowance[from] EXCEPT ![spender] = @ - x] \in [Users -> Nat]
  BY <1>2
<1>4. allowance' = [allowance EXCEPT ![from] = [allowance[from] EXCEPT ![spender] = @ - x]]
  BY <1>1
<1> QED
  BY <1>1, <1>3, <1>4

\* A transfer by a spender moves the owner's balance and lowers the allowance.
LEMMA TransferFromFits ==
    ASSUME TokenInv, NEW spender \in Users, NEW from \in Users, NEW to \in Users, NEW x \in Nat,
           TransferFrom(spender, from, to, x)
    PROVE  TokenKept
<1>1. allowance' \in [Users -> [Users -> Nat]]
  BY AllowanceSpent DEF TransferFrom
<1> DEFINE b1 == Credited(balance, from, -x)
           b2 == Credited(b1, to, x)
<1>2. /\ balance \in [Accounts -> Nat] /\ token.supply = Total(balance) /\ token.supply \in Nat
      /\ from \in Accounts /\ to \in Accounts /\ -x \in Int /\ balance[from] + (-x) >= 0
  BY HeldOfSupply, AccountFacts DEF TransferFrom
<1>3. /\ b1 \in [Accounts -> Nat] /\ Total(b1) = Total(balance) + (-x)
      /\ \A c \in Accounts : b1[c] = IF c = from THEN balance[c] + (-x) ELSE balance[c]
  BY <1>2, CreditedFits
<1>4. balance' = b2
  <2>1. [balance EXCEPT ![from] = @ - x] = b1
    BY <1>2 DEF Credited
  <2> HIDE DEF b1
  <2> QED BY <2>1 DEF TransferFrom, Moved, Credited
<1> HIDE DEF b1
<1>5. /\ b2 \in [Accounts -> Nat] /\ Total(b2) = Total(b1) + x
      /\ \A c \in Accounts : b2[c] = IF c = to THEN b1[c] + x ELSE b1[c]
  BY <1>2, <1>3, CreditedFits
<1> HIDE DEF b2
<1>6. TokenInv'
  <2>1. SumFunctionOnSet(balance', Accounts) = token.supply
    BY <1>2, <1>3, <1>4, <1>5 DEF Total
  <2> QED BY <1>1, <1>4, <1>5, <2>1 DEF TokenInv, TokenTypeOK, SupplyBacked, TransferFrom
<1> QED
  BY <1>3, <1>4, <1>5, <1>6, AccountFacts DEF TokenKept

\* A mint adds to the supply, within its maximum.
LEMMA MintFits ==
    ASSUME TokenInv, NEW caller, NEW to \in Users, NEW x \in Nat, Mint(caller, to, x)
    PROVE  TokenKept
<1> DEFINE b == Credited(balance, to, x)
           s == token.supply + x
<1>1. /\ balance \in [Accounts -> Nat] /\ token.supply = Total(balance) /\ token.supply \in Nat
      /\ to \in Accounts /\ balance[to] + x >= 0
  BY HeldOfSupply, AccountFacts
<1>2. /\ b \in [Accounts -> Nat] /\ Total(b) = s
      /\ \A c \in Accounts : b[c] = IF c = to THEN balance[c] + x ELSE balance[c]
  BY <1>1, CreditedFits
<1>3. /\ balance' = b /\ token' = [token EXCEPT !.supply = s] /\ s \in Nat
      /\ MaxSupply > 0 => s <= MaxSupply
      /\ allowance' \in [Users -> [Users -> Nat]]
  BY <1>1 DEF Mint, CanMint, Credited, TokenInv, TokenTypeOK
<1> HIDE DEF b, s
<1> QED
  BY <1>2, <1>3, TokenFits, AccountFacts DEF TokenKept

\* A burn takes from a user and from the supply.
LEMMA BurnFits ==
    ASSUME TokenInv, NEW from \in Users, NEW x \in Nat, balance[from] >= x,
           balance' = [balance EXCEPT ![from] = @ - x],
           token' = [token EXCEPT !.supply = @ - x],
           allowance' \in [Users -> [Users -> Nat]]
    PROVE  TokenKept
<1> DEFINE b == Credited(balance, from, -x)
           s == token.supply - x
<1>1. /\ balance \in [Accounts -> Nat] /\ token.supply = Total(balance) /\ token.supply \in Nat
      /\ from \in Accounts /\ balance[from] <= token.supply
      /\ -x \in Int /\ balance[from] + (-x) >= 0
  BY HeldOfSupply, AccountFacts
<1>2. /\ b \in [Accounts -> Nat] /\ Total(b) = Total(balance) + (-x)
      /\ \A c \in Accounts : b[c] = IF c = from THEN balance[c] + (-x) ELSE balance[c]
  BY <1>1, CreditedFits
<1>3. balance' = b
  BY <1>1 DEF Credited
<1>4. token' = [token EXCEPT !.supply = s] /\ s \in Nat /\ s <= token.supply
  BY <1>1
<1> HIDE DEF b
<1>5. s = Total(b)
  BY <1>1, <1>2
<1> HIDE DEF s
<1> QED
  BY <1>2, <1>3, <1>4, <1>5, TokenFits, AccountFacts DEF TokenKept

\* The calls of users on the token.
LEMMA TokenCallKeeps ==
    ASSUME TokenInv, scene \in DOMAIN MaxCalls, TokenCall
    PROVE  TokenKept
<1>1. PICK u \in Users, x \in V :
          \/ \E to \in Users : Move(u, to, x) \/ Mint(u, to, x)
          \/ \E s \in Users : Approve(u, s, x) \/ BurnFrom(s, u, x)
          \/ \E s, to \in Users : TransferFrom(s, u, to, x)
          \/ Burn(u, x)
  BY DEF TokenCall
<1>2. x \in Nat
  BY EconomyAssumption DEF V
<1>3. CASE \E to \in Users : Move(u, to, x) \/ Mint(u, to, x)
  BY <1>2, <1>3, MoveByUser, MintFits
<1>4. ASSUME NEW s \in Users, Approve(u, s, x) PROVE TokenKept
  <2>1. allowance \in [Users -> [Users -> Nat]]
    BY DEF TokenInv, TokenTypeOK
  <2>2. allowance' = [allowance EXCEPT ![u] = [allowance[u] EXCEPT ![s] = x]]
    BY <1>4, <2>1 DEF Approve
  <2>3. [allowance[u] EXCEPT ![s] = x] \in [Users -> Nat]
    BY <1>2, <2>1
  <2>4. allowance' \in [Users -> [Users -> Nat]]
    BY <2>1, <2>2, <2>3
  <2> QED BY <1>4, <2>4 DEF Approve, TokenKept, TokenInv, TokenTypeOK, SupplyBacked
<1>5. ASSUME NEW s \in Users, BurnFrom(s, u, x) PROVE TokenKept
  <2>1. allowance' \in [Users -> [Users -> Nat]]
    BY <1>2, <1>5, AllowanceSpent DEF BurnFrom
  <2> QED BY <1>2, <1>5, <2>1, BurnFits DEF BurnFrom
<1>6. CASE \E s, to \in Users : TransferFrom(s, u, to, x)
  BY <1>2, <1>6, TransferFromFits
<1>7. CASE Burn(u, x)
  BY <1>2, <1>7, BurnFits DEF Burn, TokenInv, TokenTypeOK
<1> QED
  BY <1>1, <1>3, <1>4, <1>5, <1>6, <1>7

\* The calls of its owner on the token.
LEMMA TokenAdminKeeps ==
    ASSUME TokenInv, scene \in DOMAIN MaxCalls, TokenAdmin
    PROVE  TokenKept
<1>1. PICK caller \in Officers :
          \/ \E to \in Users, x \in V : Mint(caller, to, x)
          \/ Pause(caller) \/ Unpause(caller)
          \/ \E a \in Users \cup {NoOne} : SetMinter(caller, a)
  BY DEF TokenAdmin
<1>2. \A x \in V : x \in Nat
  BY EconomyAssumption DEF V
<1>3. CASE \E to \in Users, x \in V : Mint(caller, to, x)
  BY <1>2, <1>3, MintFits
<1>4. token \in [supply : Nat, minter : Accounts \cup {NoOne}, paused : BOOLEAN]
  BY DEF TokenInv, TokenTypeOK
<1>5. ASSUME Pause(caller) \/ Unpause(caller) \/ \E a \in Users \cup {NoOne} : SetMinter(caller, a)
      PROVE  TokenKept
  <2>1. /\ token' \in [supply : Nat, minter : Accounts \cup {NoOne}, paused : BOOLEAN]
        /\ token'.supply = token.supply
        /\ UNCHANGED <<balance, allowance>>
    BY <1>4, <1>5, AccountFacts DEF Pause, Unpause, SetMinter
  <2> QED BY <2>1 DEF TokenKept, TokenInv, TokenTypeOK, SupplyBacked
<1> QED
  BY <1>1, <1>3, <1>5

-----------------------------------------------------------------------------
(* IntelMintController *)

MintKept == MintInv' /\ MintCapKept /\ RoutingAnnounced

\* The basis of the shares.
LEMMA BPSIsPositive == BPS \in Nat \ {0}
  BY DEF BPS

PaidType == [routed : Nat, stakers : Nat, kept : Nat]

\* A call that changes neither what is counted nor the addresses.
LEMMA SameBook ==
    ASSUME MintInv, UNCHANGED <<staking, mintedIn, announcedAt>>,
           mc' \in McType, paid' \in PaidType,
           mc'.minted = mc.minted, mc'.capEpoch = mc.capEpoch, mc'.route = mc.route,
           mc'.pending = mc.pending, mc'.readyAt = mc.readyAt,
           mc'.multiplier \in BPS..3 * BPS, mc'.floorBps \in 1..mc'.ceilingBps - 1
    PROVE  MintKept
<1>1. MintTypeOK'
  <2>1. /\ mc'.twap \in Nat /\ mc'.twapAt \in Nat /\ mc'.floor \in Nat /\ mc'.premium \in Nat
        /\ mc'.cap \in Nat /\ mc'.minted \in Nat
        /\ mc'.route \in Route /\ mc'.pending \in Route \cup {NoOne}
    BY DEF McType
  <2>2. /\ mc.capEpoch \in 1..staking.epoch
        /\ (mc.pending = NoOne) = (mc.readyAt = 0)
        /\ staking.left \in [Users -> Nat]
    BY DEF MintInv, MintTypeOK
  <2> QED BY <2>1, <2>2, BPSIsPositive DEF MintTypeOK, PaidType
<1>2. MintInv'
  BY <1>1 DEF MintInv
<1>3. MintCapKept
  <2>1. \A e \in DOMAIN mintedIn : mintedIn'[e] = mintedIn[e] /\ mintedIn[e] \in Nat
    BY DEF MintInv
  <2> QED BY <2>1 DEF MintCapKept
<1> QED
  BY <1>2, <1>3 DEF MintKept, RoutingAnnounced

\* The price is a natural.
LEMMA PriceIsNatural ==
    ASSUME MintInv
    PROVE  MintPrice \in Nat
<1> DEFINE base0 == IF TwapIsStale THEN mc.floor ELSE mc.twap
           premium == BPS + mc.premium
           withPremium == (base0 * premium) \div BPS
           base == IF withPremium > mc.floor THEN withPremium ELSE mc.floor
<1>1. mc.floor \in Nat /\ mc.twap \in Nat /\ mc.premium \in Nat /\ mc.multiplier \in Nat
  BY DEF MintInv, McType
<1>2. base0 \in Nat /\ premium \in Nat
  BY <1>1, BPSIsPositive
<1>3. MintPrice = (base * mc.multiplier) \div BPS
  BY DEF MintPrice
<1> HIDE DEF base0, premium
<1>4. withPremium \in Nat
  BY <1>2, BPSIsPositive, Quotient
<1> HIDE DEF withPremium
<1>5. base \in Nat
  BY <1>1, <1>4
<1> HIDE DEF base
<1>6. base * mc.multiplier \in Nat
  BY <1>1, <1>5
<1> QED
  BY <1>3, <1>6, BPSIsPositive, Quotient

\* A mint is counted in its epoch, within the cap of that moment.
LEMMA MintingFits ==
    ASSUME MintInv, TokenInv, NEW to \in Users, NEW x \in Nat, Minting(to, x), paid' \in PaidType
    PROVE  MintKept /\ TokenKept
<1> DEFINE n == staking.epoch
           before == IF staking.epoch > mc.capEpoch THEN 0 ELSE mc.minted
           after == before + x
           left == [staking.left EXCEPT ![to] = @ - x]
<1>1. /\ mc \in McType /\ staking \in [epoch : Nat \ {0}, left : [Users -> Nat]]
      /\ n \in Nat \ {0} /\ mc.capEpoch \in 1..n /\ mc.minted \in Nat /\ mc.cap \in Nat
      /\ mintedIn \in [1..n -> Nat]
      /\ mintedIn[n] = IF mc.capEpoch = n THEN mc.minted ELSE 0
  BY DEF MintInv, MintTypeOK, McType
<1>2. before \in Nat /\ mintedIn[n] = before
  BY <1>1
<1>3. /\ mc.cap > 0 => after <= mc.cap
      /\ mc' = [mc EXCEPT !.minted = after, !.capEpoch = n]
      /\ staking' = [staking EXCEPT !.left[to] = @ - x]
      /\ x <= staking.left[to]
      /\ mintedIn' = [mintedIn EXCEPT ![n] = @ + x]
      /\ announcedAt' = announcedAt
  BY DEF Minting, CheckAndUpdateEpochMinted
<1> HIDE DEF before
<1>4. after \in Nat
  BY <1>2
<1> HIDE DEF after
<1>5. left \in [Users -> Nat] /\ staking' = [staking EXCEPT !.left = left]
  BY <1>1, <1>3
<1> HIDE DEF left
<1>6. staking' \in [epoch : Nat \ {0}, left : [Users -> Nat]] /\ staking'.epoch = n
  BY <1>1, <1>5
<1>7. /\ mc' \in McType /\ mc'.minted = after /\ mc'.capEpoch = n
      /\ mc'.pending = mc.pending /\ mc'.readyAt = mc.readyAt /\ mc'.route = mc.route
      /\ mc'.multiplier = mc.multiplier /\ mc'.floorBps = mc.floorBps
      /\ mc'.ceilingBps = mc.ceilingBps
  <2> HIDE DEF n
  <2> QED BY <1>1, <1>3, <1>4 DEF McType
<1>8. mintedIn' \in [1..n -> Nat] /\ mintedIn'[n] = after /\ \A e \in 1..n \ {n} : mintedIn'[e] = mintedIn[e]
  <2>1. n \in 1..n /\ mintedIn[n] + x = after /\ mintedIn[n] + x \in Nat
    BY <1>1, <1>2, <1>4 DEF after
  <2> HIDE DEF n
  <2> QED BY <1>1, <1>3, <1>4, <2>1
<1>9. MintTypeOK'
  <2>1. /\ mc'.twap \in Nat /\ mc'.twapAt \in Nat /\ mc'.floor \in Nat /\ mc'.premium \in Nat
        /\ mc'.cap \in Nat /\ mc'.minted \in Nat
        /\ mc'.route \in Route /\ mc'.pending \in Route \cup {NoOne}
    BY <1>7 DEF McType
  <2>2. /\ mc.multiplier \in BPS..3 * BPS
        /\ mc.floorBps \in 1..mc.ceilingBps - 1
        /\ (mc.pending = NoOne) = (mc.readyAt = 0)
    BY DEF MintInv, MintTypeOK
  <2>3. mc'.capEpoch \in 1..staking'.epoch
    BY <1>1, <1>6, <1>7
  <2> QED BY <1>6, <1>7, <2>1, <2>2, <2>3 DEF MintTypeOK, PaidType
<1>10. MintInv'
  <2>1. mintedIn' \in [1..staking'.epoch -> Nat]
    BY <1>6, <1>8
  <2>2. mintedIn'[staking'.epoch] = IF mc'.capEpoch = staking'.epoch THEN mc'.minted ELSE 0
    BY <1>6, <1>7, <1>8
  <2> QED BY <1>3, <1>6, <1>7, <1>9, <2>1, <2>2 DEF MintInv
<1>11. MintCapKept
  BY <1>1, <1>3, <1>8 DEF MintCapKept
<1>12. RoutingAnnounced
  BY <1>7 DEF RoutingAnnounced
<1>13. TokenKept
  BY MintFits DEF Minting
<1> QED
  BY <1>10, <1>11, <1>12, <1>13 DEF MintKept

\* The calls of users and operators.
LEMMA MintCallKeeps ==
    ASSUME MintInv, TokenInv, scene \in DOMAIN MaxCalls, MintCall
    PROVE  MintKept /\ TokenKept
<1>1. paid \in PaidType
  BY DEF MintInv, MintTypeOK, PaidType
<1>2. \A x \in V : x \in Nat
  BY EconomyAssumption DEF V
<1>3. UNCHANGED tokenVars => TokenKept
  BY DEF tokenVars, TokenKept, TokenInv, TokenTypeOK, SupplyBacked
<1>4. ASSUME NEW caller, NEW to \in Users, NEW x \in V, NEW price,
             MintForEther(caller, to, x, price)
      PROVE  MintKept /\ TokenKept
  <2> DEFINE required == MintPrice * x
             stakers == (required * 4500) \div BPS
             routed == paid.routed + required - stakers
             toStakers == paid.stakers + stakers
  <2>1. required \in Nat
    BY <1>2, PriceIsNatural
  <2>2. paid' = [paid EXCEPT !.routed = routed, !.stakers = toStakers] /\ Minting(to, x)
    BY <1>4 DEF MintForEther
  <2> HIDE DEF required
  <2>3. stakers \in Nat /\ stakers <= required
    <3>1. required * 4500 \in Nat
      BY <2>1
    <3>2. (required * 4500) \div BPS \in Nat /\ BPS * ((required * 4500) \div BPS) <= required * 4500
      BY <3>1, BPSIsPositive, Quotient
    <3> QED BY <2>1, <3>2 DEF BPS
  <2> HIDE DEF stakers
  <2>4. routed \in Nat /\ toStakers \in Nat
    BY <1>1, <2>1, <2>3 DEF PaidType
  <2> HIDE DEF routed, toStakers
  <2>5. paid' \in PaidType
    BY <1>1, <2>2, <2>4 DEF PaidType
  <2> QED BY <1>2, <2>2, <2>5, MintingFits
<1>5. ASSUME NEW caller, NEW to \in Users, NEW x \in V, NEW price,
             ExecuteMintERC20(caller, to, x, price)
      PROVE  MintKept /\ TokenKept
  BY <1>1, <1>2, <1>5, MintingFits DEF ExecuteMintERC20
<1>6. CASE UNCHANGED tokenVars /\ NextStakingEpoch
  <2>1. PICK left \in [Users -> Quotas] : staking' = [epoch |-> staking.epoch + 1, left |-> left]
    BY <1>6 DEF NextStakingEpoch
  <2> DEFINE n == staking.epoch
  <2>2. /\ n \in Nat \ {0} /\ mintedIn \in [1..n -> Nat] /\ DOMAIN mintedIn = 1..n
        /\ mc.capEpoch \in 1..n
    BY DEF MintInv, MintTypeOK
  <2>3. /\ mintedIn' = [e \in 1..n + 1 |-> IF e \in DOMAIN mintedIn THEN mintedIn[e] ELSE 0]
        /\ UNCHANGED <<mc, paid, announcedAt>>
        /\ staking'.epoch = n + 1 /\ staking'.left = left
        /\ staking' = [epoch |-> n + 1, left |-> left]
    BY <1>6, <2>1 DEF NextStakingEpoch
  <2> HIDE DEF n
  <2>4. left \in [Users -> Nat]
    BY EconomyAssumption
  <2>5. /\ mintedIn' \in [1..n + 1 -> Nat] /\ mintedIn'[n + 1] = 0
        /\ \A e \in 1..n : mintedIn'[e] = mintedIn[e]
    BY <2>2, <2>3
  <2>6. staking' \in [epoch : Nat \ {0}, left : [Users -> Nat]] /\ mc.capEpoch # n + 1
    BY <2>2, <2>3, <2>4
  <2>7. MintTypeOK'
    <3>1. mc.capEpoch \in 1..n + 1
      BY <2>2
    <3> QED BY <2>3, <2>4, <3>1 DEF MintInv, MintTypeOK
  <2>8. MintInv'
    BY <2>3, <2>5, <2>6, <2>7 DEF MintInv
  <2>9. MintCapKept
    BY <2>2, <2>5 DEF MintCapKept
  <2> QED BY <1>3, <1>6, <2>3, <2>8, <2>9 DEF MintKept, RoutingAnnounced
<1>7. CASE UNCHANGED tokenVars /\ ReceiveEther(1)
  <2>1. paid' \in PaidType /\ UNCHANGED <<mc, staking, mintedIn, announcedAt>>
    BY <1>1, <1>7 DEF ReceiveEther, PaidType
  <2> QED BY <1>3, <1>7, <2>1, SameBook DEF MintInv, MintTypeOK
<1> QED
  BY <1>4, <1>5, <1>6, <1>7 DEF MintCall

\* The addresses paid are those that were announced long enough ago.
LEMMA RoutingKeeps ==
    ASSUME MintInv, now \in Nat, NEW caller,
           \/ \E r \in Route : ProposeRoutingAddresses(caller, r)
           \/ ApplyRoutingAddresses(caller) \/ CancelRoutingAddresses(caller)
    PROVE  MintKept
<1>1. /\ mc \in McType /\ mc.route \in Route /\ mc.pending \in Route \cup {NoOne} /\ mc.readyAt \in Nat
      /\ announcedAt \in [Route -> Nat \cup {NotYet}]
      /\ mc.pending # NoOne =>
            announcedAt[mc.pending] # NotYet /\ mc.readyAt = announcedAt[mc.pending] + RoutingTimelock
      /\ NoOne \notin Route /\ RoutingTimelock \in Nat \ {0}
  BY EconomyAssumption DEF MintInv, McType
<1> DEFINE Fits(pending, readyAt) ==
             pending # NoOne =>
                announcedAt'[pending] # NotYet /\ readyAt = announcedAt'[pending] + RoutingTimelock
\* the storage but for the addresses stays as it was
<1>2. ASSUME NEW route \in Route, NEW pending \in Route \cup {NoOne}, NEW readyAt \in Nat,
             mc' = [mc EXCEPT !.route = route, !.pending = pending, !.readyAt = readyAt],
             UNCHANGED <<paid, staking, mintedIn>>,
             (pending = NoOne) = (readyAt = 0),
             announcedAt' \in [Route -> Nat \cup {NotYet}],
             Fits(pending, readyAt)
      PROVE  MintInv' /\ MintCapKept
  <2>1. /\ mc' \in McType /\ mc'.pending = pending /\ mc'.readyAt = readyAt /\ mc'.route = route
        /\ mc'.minted = mc.minted /\ mc'.capEpoch = mc.capEpoch
        /\ mc'.multiplier = mc.multiplier /\ mc'.floorBps = mc.floorBps
        /\ mc'.ceilingBps = mc.ceilingBps
    BY <1>1, <1>2 DEF McType
  <2>2. MintTypeOK'
    <3>1. /\ mc'.twap \in Nat /\ mc'.twapAt \in Nat /\ mc'.floor \in Nat /\ mc'.premium \in Nat
          /\ mc'.cap \in Nat /\ mc'.minted \in Nat
          /\ mc'.route \in Route /\ mc'.pending \in Route \cup {NoOne}
      BY <2>1 DEF McType
    <3> QED BY <1>2, <2>1, <3>1 DEF MintInv, MintTypeOK
  <2>3. MintInv'
    BY <1>2, <2>1, <2>2 DEF MintInv
  <2>4. MintCapKept
    <3>1. \A e \in DOMAIN mintedIn : mintedIn'[e] = mintedIn[e] /\ mintedIn[e] \in Nat
      BY <1>2 DEF MintInv
    <3> QED BY <3>1 DEF MintCapKept
  <2> QED BY <2>3, <2>4
<1>3. ASSUME NEW r \in Route, ProposeRoutingAddresses(caller, r) PROVE MintKept
  <2> DEFINE ready == now + RoutingTimelock
  <2>1. ready \in Nat /\ ready # 0
    BY <1>1
  <2>2. /\ mc' = [mc EXCEPT !.pending = r, !.readyAt = ready]
        /\ announcedAt' = [x \in Route |-> IF x = r THEN now ELSE NotYet]
        /\ UNCHANGED <<paid, staking, mintedIn>>
    BY <1>3 DEF ProposeRoutingAddresses
  <2>3. Fits(r, ready) /\ announcedAt' \in [Route -> Nat \cup {NotYet}]
    BY <1>1, <2>2 DEF NotYet
  <2> HIDE DEF ready, Fits
  <2>4. mc' = [mc EXCEPT !.route = mc.route, !.pending = r, !.readyAt = ready]
    BY <1>1, <2>2 DEF McType
  <2>5. MintInv' /\ MintCapKept
    BY <1>1, <1>2, <2>1, <2>2, <2>3, <2>4
  <2>6. mc'.route = mc.route
    BY <1>1, <2>2 DEF McType
  <2> QED BY <2>5, <2>6 DEF MintKept, RoutingAnnounced
<1>4. CASE ApplyRoutingAddresses(caller)
  <2>1. /\ mc.pending # NoOne /\ now >= mc.readyAt
        /\ mc' = [mc EXCEPT !.route = mc.pending, !.pending = NoOne, !.readyAt = 0]
        /\ announcedAt' = [x \in Route |-> NotYet]
        /\ UNCHANGED <<paid, staking, mintedIn>>
    BY <1>4 DEF ApplyRoutingAddresses
  <2>2. Fits(NoOne, 0) /\ announcedAt' \in [Route -> Nat \cup {NotYet}] /\ mc.pending \in Route
    BY <1>1, <2>1
  <2> HIDE DEF Fits
  <2>3. MintInv' /\ MintCapKept
    BY <1>1, <1>2, <2>1, <2>2
  <2>4. mc'.route = mc.pending
    BY <1>1, <2>1 DEF McType
  <2>5. RoutingAnnounced
    BY <1>1, <2>1, <2>4 DEF RoutingAnnounced
  <2> QED BY <2>3, <2>5 DEF MintKept
<1>5. CASE CancelRoutingAddresses(caller)
  <2>1. /\ mc' = [mc EXCEPT !.pending = NoOne, !.readyAt = 0]
        /\ announcedAt' = [x \in Route |-> NotYet]
        /\ UNCHANGED <<paid, staking, mintedIn>>
    BY <1>5 DEF CancelRoutingAddresses
  <2>2. Fits(NoOne, 0) /\ announcedAt' \in [Route -> Nat \cup {NotYet}]
    BY <1>1, <2>1
  <2> HIDE DEF Fits
  <2>3. mc' = [mc EXCEPT !.route = mc.route, !.pending = NoOne, !.readyAt = 0]
    BY <1>1, <2>1 DEF McType
  <2>4. MintInv' /\ MintCapKept
    BY <1>1, <1>2, <2>1, <2>2, <2>3
  <2>5. mc'.route = mc.route
    BY <1>1, <2>1 DEF McType
  <2> QED BY <2>4, <2>5 DEF MintKept, RoutingAnnounced
<1> QED
  BY <1>3, <1>4, <1>5

\* The calls of operators and the owner.
LEMMA MintAdminKeeps ==
    ASSUME MintInv, now \in Nat, scene \in DOMAIN MaxCalls, MintAdmin
    PROVE  MintKept /\ UNCHANGED tokenVars
<1>1. PICK caller \in Officers :
          \/ \E twap \in Twaps : UpdateTWAP(caller, twap) \/ PullTWAP(caller, twap)
          \/ \E volume \in V : UpdateUtilization(caller, volume, 2) \/ UpdateEpochCapFromActivity(caller, 100 * volume)
          \/ \E cap \in {0, 2, 6} : SetEpochMintCap(caller, cap)
          \/ \E enabled \in BOOLEAN : PauseMinting(caller, enabled) \/ SetTwapDeviation(caller, 0, enabled)
          \/ SetActivityCap(caller, 50, BPS \div 2, BPS, TRUE)
          \/ \E r \in Route : ProposeRoutingAddresses(caller, r)
          \/ ApplyRoutingAddresses(caller) \/ CancelRoutingAddresses(caller)
          \/ SetPrices(caller, 90, 0)
          \/ SweepETH(caller)
  BY DEF MintAdmin
<1>2. /\ \A x \in V : x \in Nat
      /\ \A t \in Twaps : t \in Nat
  BY EconomyAssumption DEF V
<1>3. /\ mc \in McType /\ paid \in PaidType
      /\ mc.multiplier \in BPS..3 * BPS /\ mc.floorBps \in 1..mc.ceilingBps - 1
      /\ (mc.pending = NoOne) = (mc.readyAt = 0)
      /\ BPS \in Nat \ {0}
  BY BPSIsPositive DEF MintInv, MintTypeOK, PaidType
<1>4. UNCHANGED tokenVars
  <2>1. UNCHANGED <<tokenVars, roles>>
    BY DEF MintAdmin
  <2> QED BY <2>1
\* a change of the parameters that are only numbers
<1> DEFINE Same(m) ==
             /\ m \in McType
             /\ m.minted = mc.minted /\ m.capEpoch = mc.capEpoch /\ m.route = mc.route
             /\ m.pending = mc.pending /\ m.readyAt = mc.readyAt
             /\ m.multiplier \in BPS..3 * BPS /\ m.floorBps \in 1..m.ceilingBps - 1
<1>5. ASSUME Same(mc'), UNCHANGED <<paid, staking, mintedIn, announcedAt>> PROVE MintKept
  BY <1>3, <1>5, SameBook
<1>6. ASSUME NEW t \in Twaps, UpdateTWAP(caller, t) PROVE MintKept
  <2>1. mc' = [mc EXCEPT !.twap = t, !.twapAt = now] /\ t \in Nat
    BY <1>2, <1>6 DEF UpdateTWAP
  <2>2. Same(mc')
    BY <1>3, <2>1 DEF McType
  <2> QED BY <1>5, <1>6, <2>2 DEF UpdateTWAP
<1>7. ASSUME NEW t \in Twaps, PullTWAP(caller, t) PROVE MintKept
  <2> DEFINE new == IF t < mc.floor THEN mc.floor ELSE t
  <2>1. mc' = [mc EXCEPT !.twap = new, !.twapAt = now] /\ new \in Nat
    BY <1>2, <1>3, <1>7 DEF PullTWAP, McType
  <2> HIDE DEF new
  <2>2. Same(mc')
    BY <1>3, <2>1 DEF McType
  <2> QED BY <1>5, <1>7, <2>2 DEF PullTWAP
<1>8. ASSUME NEW v \in V, UpdateUtilization(caller, v, 2) PROVE MintKept
  <2> DEFINE ratio == IF 2 = 0 \/ v = 0 THEN BPS ELSE (v * BPS) \div 2
             new == IF ratio < BPS THEN BPS ELSE IF ratio > 3 * BPS THEN 3 * BPS ELSE ratio
  <2>1. mc' = [mc EXCEPT !.multiplier = new]
    BY <1>8 DEF UpdateUtilization
  <2>2. ratio \in Nat
    <3>1. v * BPS \in Nat
      BY <1>2, <1>3
    <3>2. (v * BPS) \div 2 \in Nat
      BY <3>1
    <3> QED BY <1>3, <3>2
  <2> HIDE DEF ratio
  <2>3. new \in BPS..3 * BPS /\ new \in Nat
    BY <1>3, <2>2
  <2> HIDE DEF new
  <2>4. Same(mc')
    BY <1>3, <2>1, <2>3 DEF McType
  <2> QED BY <1>5, <1>8, <2>4 DEF UpdateUtilization
<1>9. ASSUME NEW v \in V, UpdateEpochCapFromActivity(caller, 100 * v) PROVE MintKept
  <2> DEFINE ratio == ((100 * v) * BPS) \div mc.target
             clamped == IF ratio < mc.floorBps THEN mc.floorBps
                        ELSE IF ratio > mc.ceilingBps THEN mc.ceilingBps ELSE ratio
             cap == (BaseCap * clamped) \div BPS
  <2>1. mc' = [mc EXCEPT !.cap = cap]
    BY <1>9 DEF UpdateEpochCapFromActivity
  <2>2. mc.target \in Nat \ {0} /\ mc.floorBps \in Nat /\ mc.ceilingBps \in Nat
    BY <1>3 DEF McType
  <2>3. ratio \in Nat
    <3>1. (100 * v) * BPS \in Nat
      BY <1>2, <1>3
    <3> QED BY <2>2, <3>1, Quotient
  <2> HIDE DEF ratio
  <2>4. clamped \in Nat
    BY <2>2, <2>3
  <2> HIDE DEF clamped
  <2>5. cap \in Nat
    <3>1. BaseCap * clamped \in Nat
      BY <2>4, EconomyAssumption
    <3> QED BY <1>3, <3>1, Quotient
  <2> HIDE DEF cap
  <2>6. Same(mc')
    BY <1>3, <2>1, <2>5 DEF McType
  <2> QED BY <1>5, <1>9, <2>6 DEF UpdateEpochCapFromActivity
<1>10. ASSUME NEW cap \in {0, 2, 6}, SetEpochMintCap(caller, cap) PROVE MintKept
  <2>1. Same(mc')
    BY <1>3, <1>10 DEF SetEpochMintCap, McType
  <2> QED BY <1>5, <1>10, <2>1 DEF SetEpochMintCap
<1>11. ASSUME NEW enabled \in BOOLEAN, PauseMinting(caller, enabled) \/ SetTwapDeviation(caller, 0, enabled)
       PROVE  MintKept
  <2>1. Same(mc')
    BY <1>3, <1>11 DEF PauseMinting, SetTwapDeviation, McType
  <2> QED BY <1>5, <1>11, <2>1 DEF PauseMinting, SetTwapDeviation
<1>12. ASSUME SetActivityCap(caller, 50, BPS \div 2, BPS, TRUE) PROVE MintKept
  <2> DEFINE half == BPS \div 2
  <2>1. half \in Nat /\ (half > 0 /\ half < BPS => half \in 1..BPS - 1)
    BY <1>3
  <2>2. \/ mc' = [mc EXCEPT !.activity = TRUE]
        \/ mc' = [mc EXCEPT !.target = 50]
        \/ mc' = [mc EXCEPT !.floorBps = half, !.ceilingBps = BPS] /\ half > 0 /\ half < BPS
    BY <1>12 DEF SetActivityCap
  <2> HIDE DEF half
  <2>3. Same(mc')
    <3>1. CASE mc' = [mc EXCEPT !.activity = TRUE]
      BY <1>3, <3>1 DEF McType
    <3>2. CASE mc' = [mc EXCEPT !.target = 50]
      BY <1>3, <3>2 DEF McType
    <3>3. CASE mc' = [mc EXCEPT !.floorBps = half, !.ceilingBps = BPS] /\ half > 0 /\ half < BPS
      <4>1. half \in 1..BPS - 1 /\ BPS \in Nat
        BY <1>3, <2>1, <3>3
      <4>2. mc'.floorBps = half /\ mc'.ceilingBps = BPS /\ mc' \in McType
        BY <1>3, <2>1, <3>3 DEF McType
      <4>3. /\ mc'.minted = mc.minted /\ mc'.capEpoch = mc.capEpoch /\ mc'.route = mc.route
            /\ mc'.pending = mc.pending /\ mc'.readyAt = mc.readyAt
            /\ mc'.multiplier = mc.multiplier
        BY <1>3, <3>3 DEF McType
      <4> QED BY <1>3, <4>1, <4>2, <4>3
    <3> QED BY <2>2, <3>1, <3>2, <3>3
  <2> QED BY <1>5, <1>12, <2>3 DEF SetActivityCap
<1>13. ASSUME SetPrices(caller, 90, 0) PROVE MintKept
  <2>1. Same(mc')
    BY <1>3, <1>13 DEF SetPrices, McType
  <2> QED BY <1>5, <1>13, <2>1 DEF SetPrices
<1>14. ASSUME SweepETH(caller) PROVE MintKept
  <2>1. paid' \in PaidType
    BY <1>3, <1>14 DEF SweepETH, PaidType
  <2> QED BY <1>3, <1>14, <2>1, SameBook DEF SweepETH
<1>15. ASSUME \/ \E r \in Route : ProposeRoutingAddresses(caller, r)
              \/ ApplyRoutingAddresses(caller) \/ CancelRoutingAddresses(caller)
       PROVE  MintKept
  BY <1>15, RoutingKeeps
<1> QED
  BY <1>1, <1>4, <1>6, <1>7, <1>8, <1>9, <1>10, <1>11, <1>12, <1>13, <1>14, <1>15

-----------------------------------------------------------------------------
(* LiquidityMining *)

MiningKept == MiningInv' /\ RateAnnounced

\* Nothing but these contracts' balances changes among the contracts'.
Quiet(but) == \A c \in Contracts \ but : balance'[c] = balance[c]

MiningType ==
    [rate : Nat, pendingRate : Nat, rateAt : Nat, endTime : Nat, acc : Nat,
     lastUpdate : Nat, totalStaked : Nat, pool : Nat]

MinerType == [staked : Nat, debt : Nat]

Stakes(all) == [u \in Users |-> all[u].staked]

\* What accrues comes out of the pool.
LEMMA UpdatePoolFits ==
    ASSUME MiningInv, now \in Nat
    PROVE  /\ UpdatePool.m \in MiningType /\ UpdatePool.reward \in Nat
           /\ UpdatePool.m.pool + UpdatePool.reward = mining.pool
           /\ UpdatePool.m.totalStaked = mining.totalStaked
           /\ UpdatePool.m.rate = mining.rate /\ UpdatePool.m.endTime = mining.endTime
           /\ UpdatePool.m.pendingRate = mining.pendingRate
           /\ UpdatePool.m.rateAt = mining.rateAt
           /\ UpdatePool.m.lastUpdate <= now
<1> DEFINE earned == Accruing * mining.rate
           reward == IF earned > mining.pool THEN mining.pool ELSE earned
           acc == mining.acc + (reward * Precision) \div mining.totalStaked
           pool == mining.pool - reward
           last == mining.lastUpdate + Accruing
<1>1. mining \in MiningType /\ mining.lastUpdate <= now
  BY DEF MiningInv, MiningTypeOK, MiningType
<1>2. Accruing \in 0..now - mining.lastUpdate
  BY <1>1 DEF Accruing, MiningType
<1>3. earned \in Nat
  <2>1. mining.rate \in Nat /\ Accruing \in Nat
    BY <1>1, <1>2 DEF MiningType
  <2> QED BY <2>1
<1>4. /\ reward \in 0..mining.pool /\ pool \in Nat /\ last \in Nat /\ last <= now
      /\ pool + reward = mining.pool
  <2> HIDE DEF earned
  <2> QED BY <1>1, <1>2, <1>3 DEF MiningType
<1>5. UpdatePool = IF mining.totalStaked = 0 \/ earned = 0
                   THEN [m |-> [mining EXCEPT !.lastUpdate = now], reward |-> 0]
                   ELSE [m |-> [mining EXCEPT !.acc = acc, !.pool = pool, !.lastUpdate = last],
                         reward |-> reward]
  <2> HIDE DEF earned
  <2> QED BY DEF UpdatePool, earned
<1>6. mining.totalStaked # 0 => acc \in Nat
  <2> HIDE DEF reward
  <2>1. reward * Precision \in Nat
    BY <1>4, EconomyAssumption
  <2>2. ASSUME mining.totalStaked # 0 PROVE acc \in Nat
    <3>1. mining.totalStaked \in Nat \ {0} /\ mining.acc \in Nat
      BY <1>1, <2>2 DEF MiningType
    <3>2. (reward * Precision) \div mining.totalStaked \in Nat
      BY <2>1, <3>1, Quotient
    <3> QED BY <3>1, <3>2
  <2> QED BY <2>2
<1> HIDE DEF earned, reward, acc, pool, last
<1>7. CASE mining.totalStaked = 0 \/ earned = 0
  BY <1>1, <1>5, <1>7 DEF MiningType
<1>8. CASE ~(mining.totalStaked = 0 \/ earned = 0)
  <2>1. UpdatePool = [m |-> [mining EXCEPT !.acc = acc, !.pool = pool, !.lastUpdate = last],
                      reward |-> reward]
    BY <1>5, <1>8
  <2>2. acc \in Nat
    BY <1>6, <1>8
  <2> DEFINE m == [mining EXCEPT !.acc = acc, !.pool = pool, !.lastUpdate = last]
  <2>3. /\ m \in MiningType /\ m.pool = pool /\ m.lastUpdate = last
        /\ m.totalStaked = mining.totalStaked /\ m.rate = mining.rate
        /\ m.endTime = mining.endTime /\ m.pendingRate = mining.pendingRate
        /\ m.rateAt = mining.rateAt
    BY <1>1, <1>4, <2>2 DEF MiningType
  <2>4. UpdatePool.m = m /\ UpdatePool.reward = reward
    BY <2>1
  <2> HIDE DEF m
  <2> QED BY <1>4, <2>3, <2>4
<1> QED
  BY <1>7, <1>8

\* What is settled comes out of what the pool has left.
LEMMA SettleFits ==
    ASSUME MiningInv, NEW m \in MiningType, NEW u \in Users
    PROVE  /\ SettleReward(m, u) \in 0..m.pool
           /\ \A n \in Nat : Accumulated(m, n) \in Nat
<1>1. miners[u].staked \in Nat /\ miners[u].debt \in Nat /\ m.pool \in Nat /\ m.acc \in Nat
  BY DEF MiningInv, MiningTypeOK, MiningType
<1>2. ASSUME NEW n \in Nat PROVE Accumulated(m, n) \in Nat
  <2>1. n * m.acc \in Nat
    BY <1>1
  <2>2. Precision \in Nat \ {0}
    BY EconomyAssumption
  <2> QED BY <2>1, <2>2, Quotient DEF Accumulated
<1>3. Accumulated(m, miners[u].staked) \in Nat
  BY <1>1, <1>2
<1>4. SettleReward(m, u) \in 0..m.pool
  BY <1>1, <1>3 DEF SettleReward
<1> QED
  BY <1>2, <1>4

\* A new stake of one user changes the total by as much.
LEMMA StakeChanges ==
    ASSUME MiningInv, NEW u \in Users, NEW r \in MinerType, miners' = [miners EXCEPT ![u] = r]
    PROVE  /\ miners' \in [Users -> MinerType]
           /\ miners[u] \in MinerType
           /\ mining.totalStaked \in Nat /\ miners[u].staked <= mining.totalStaked
           /\ SumFunctionOnSet([w \in Users |-> miners'[w].staked], Users)
                = mining.totalStaked - miners[u].staked + r.staked
<1> DEFINE f == Stakes(miners)
           g == Stakes(miners')
<1>1. miners \in [Users -> MinerType] /\ miners' \in [Users -> MinerType]
  BY DEF MiningInv, MiningTypeOK, MinerType
<1>2. /\ \A w \in Users : f[w] \in Nat /\ g[w] \in Nat
      /\ \A w \in Users : f[w] \in Int /\ g[w] \in Int
      /\ \A w \in Users \ {u} : g[w] = f[w]
      /\ g[u] = r.staked /\ f[u] = miners[u].staked
  BY <1>1 DEF Stakes, MinerType
<1>3. mining.totalStaked = SumFunctionOnSet(f, Users)
  BY DEF MiningInv, StakesApart, Stakes
<1> HIDE DEF f, g
<1>4. SumFunctionOnSet(g, Users) = SumFunctionOnSet(f, Users) - f[u] + g[u]
  BY <1>2, AccountFacts, SumOfOneChange
<1>5. SumFunctionOnSet(f, Users) \in Nat /\ SumFunctionOnSet(f, Users) >= f[u]
  BY <1>2, AccountFacts, SumOfNaturals
<1>6. SumFunctionOnSet([w \in Users |-> miners'[w].staked], Users) = SumFunctionOnSet(g, Users)
  BY DEF g, Stakes
<1> QED
  BY <1>1, <1>2, <1>3, <1>4, <1>5, <1>6

\* What makes the invariant hold after a step that pays out of the pool, or into it.
LEMMA MiningFits ==
    ASSUME now \in Nat, now' = now, mining' \in MiningType, miners' \in [Users -> MinerType],
           accrued' \in Nat, rateQueuedAt' \in Nat,
           mining'.lastUpdate <= now,
           mining'.pendingRate # 0 => mining'.rateAt = rateQueuedAt' + RateDelay,
           mining'.totalStaked = SumFunctionOnSet([w \in Users |-> miners'[w].staked], Users),
           balance'["mining"] = mining'.totalStaked + mining'.pool + accrued',
           mining'.rate = mining.rate
    PROVE  MiningKept
<1>1. MiningTypeOK'
  BY DEF MiningTypeOK, MiningType, MinerType
<1>2. StakesApart'
  BY DEF StakesApart
<1> QED
  BY <1>1, <1>2 DEF MiningKept, MiningInv, RateAnnounced

\* Two accounts settle: one gets what the other gives.
LEMMA SettledFits ==
    ASSUME TokenInv, NEW u \in Accounts, NEW c \in Accounts, u # c, NEW x \in Int,
           balance[u] + x >= 0, balance[c] - x >= 0,
           balance' = [balance EXCEPT ![u] = @ + x, ![c] = @ - x], UNCHANGED <<allowance, token>>
    PROVE  /\ TokenInv'
           /\ balance' \in [Accounts -> Nat]
           /\ \A a \in Accounts \ {u, c} : balance'[a] = balance[a]
           /\ balance'[c] = balance[c] - x
<1> DEFINE b1 == Credited(balance, u, x)
           b2 == Credited(b1, c, -x)
<1>1. /\ balance \in [Accounts -> Nat] /\ token.supply = Total(balance) /\ token.supply \in Nat
      /\ balance[u] + x >= 0
  BY HeldOfSupply
<1>2. /\ b1 \in [Accounts -> Nat] /\ Total(b1) = Total(balance) + x
      /\ \A a \in Accounts : b1[a] = IF a = u THEN balance[a] + x ELSE balance[a]
  BY <1>1, CreditedFits
<1> HIDE DEF b1
<1>3. -x \in Int /\ b1[c] + (-x) >= 0
  BY <1>1, <1>2
<1>4. /\ b2 \in [Accounts -> Nat] /\ Total(b2) = Total(b1) + (-x)
      /\ \A a \in Accounts : b2[a] = IF a = c THEN b1[a] + (-x) ELSE b1[a]
  BY <1>2, <1>3, CreditedFits
<1> HIDE DEF b2
<1>5. balance' = b2
  <2>1. balance' \in [Accounts -> Int]
    BY <1>1
  <2>2. \A a \in Accounts : balance'[a] = b2[a]
    BY <1>1, <1>2, <1>4
  <2> QED BY <1>4, <2>1, <2>2
<1>6. SumFunctionOnSet(balance', Accounts) = token.supply
  <2>1. Total(b2) = token.supply
    BY <1>1, <1>2, <1>4
  <2> QED BY <1>5, <2>1 DEF Total
<1>7. TokenInv'
  BY <1>4, <1>5, <1>6 DEF TokenInv, TokenTypeOK, SupplyBacked
<1> QED
  BY <1>1, <1>2, <1>4, <1>5, <1>7

\* stake settles what is owed, then takes the stake.
LEMMA MineStakeKeeps ==
    ASSUME MiningInv, TokenInv, now \in Nat, now' = now, NEW u \in Users, NEW x \in Nat, MineStake(u, x)
    PROVE  MiningKept /\ TokenInv' /\ Quiet({"mining"})
<1> DEFINE m == UpdatePool.m
           reward == UpdatePool.reward
           claimed == SettleReward(m, u)
           pool == m.pool - claimed
           total == m.totalStaked + x
           more == miners[u].staked + x
           r == [staked |-> more, debt |-> Accumulated(m, more)]
           net == claimed - x
<1>1. /\ m \in MiningType /\ reward \in Nat /\ m.pool + reward = mining.pool
      /\ m.totalStaked = mining.totalStaked /\ m.rate = mining.rate
      /\ m.pendingRate = mining.pendingRate /\ m.rateAt = mining.rateAt
      /\ m.lastUpdate <= now
  BY UpdatePoolFits
<1>2. claimed \in 0..m.pool /\ \A n \in Nat : Accumulated(m, n) \in Nat
  BY <1>1, SettleFits
<1>3. /\ balance[u] + claimed >= x
      /\ mining' = [m EXCEPT !.pool = @ - claimed, !.totalStaked = @ + x]
      /\ miners' = [miners EXCEPT ![u] = r]
      /\ balance' = [balance EXCEPT ![u] = @ + claimed - x, !["mining"] = @ + x - claimed]
      /\ accrued' = accrued + reward
      /\ UNCHANGED <<allowance, token, rateQueuedAt>>
  BY DEF MineStake
<1> HIDE DEF m, reward
<1>4. /\ miners \in [Users -> MinerType] /\ accrued \in Nat /\ rateQueuedAt \in Nat
      /\ mining.totalStaked \in Nat
      /\ balance["mining"] = mining.totalStaked + mining.pool + accrued
      /\ mining.pendingRate # 0 => mining.rateAt = rateQueuedAt + RateDelay
      /\ mining \in MiningType
  BY DEF MiningInv, MiningTypeOK, StakesApart, MinerType, MiningType
<1>5. more \in Nat /\ r \in MinerType /\ r.staked = miners[u].staked + x
  BY <1>2, <1>4 DEF MinerType
<1> HIDE DEF claimed
<1>6. pool \in Nat /\ total \in Nat /\ mining' = [m EXCEPT !.pool = pool, !.totalStaked = total]
  BY <1>1, <1>2, <1>3, <1>4 DEF MiningType
<1>7. /\ mining' \in MiningType /\ mining'.pool = pool /\ mining'.totalStaked = total
      /\ mining'.rate = m.rate /\ mining'.pendingRate = m.pendingRate
      /\ mining'.rateAt = m.rateAt /\ mining'.lastUpdate = m.lastUpdate
  <2> HIDE DEF pool, total
  <2> QED BY <1>1, <1>6 DEF MiningType
<1> HIDE DEF r
<1>8. /\ miners' \in [Users -> MinerType]
      /\ SumFunctionOnSet([w \in Users |-> miners'[w].staked], Users) = total
  <2>1. /\ miners' \in [Users -> MinerType] /\ miners[u] \in MinerType
        /\ SumFunctionOnSet([w \in Users |-> miners'[w].staked], Users)
             = mining.totalStaked - miners[u].staked + r.staked
    BY <1>3, <1>5, StakeChanges
  <2>2. miners[u].staked \in Nat
    BY <2>1 DEF MinerType
  <2> QED BY <1>1, <1>4, <1>5, <2>1, <2>2
<1>9. /\ balance \in [Accounts -> Nat] /\ u \in Accounts /\ "mining" \in Accounts /\ u # "mining"
  BY HeldOfSupply, AccountFacts
<1>10. /\ net \in Int /\ balance[u] + net >= 0 /\ balance["mining"] - net >= 0
       /\ balance' = [balance EXCEPT ![u] = @ + net, !["mining"] = @ - net]
  <2>1. claimed \in Nat /\ claimed <= balance["mining"] /\ balance[u] \in Nat /\ balance["mining"] \in Nat
    BY <1>1, <1>2, <1>4, <1>9 DEF MiningType
  <2>2. balance[u] + claimed - x = balance[u] + net /\ balance["mining"] + x - claimed = balance["mining"] - net
    BY <2>1
  <2>3. balance' = [balance EXCEPT ![u] = balance[u] + claimed - x,
                                   !["mining"] = balance["mining"] + x - claimed]
    BY <1>3, <1>9
  <2>4. [balance EXCEPT ![u] = @ + net, !["mining"] = @ - net]
          = [balance EXCEPT ![u] = balance[u] + net, !["mining"] = balance["mining"] - net]
    <3> HIDE DEF net
    <3> QED BY <1>9
  <2>5. net \in Int /\ balance[u] + net >= 0 /\ balance["mining"] - net >= 0
    BY <1>3, <2>1, <2>2
  <2> QED BY <2>2, <2>3, <2>4, <2>5
<1> HIDE DEF net
<1>11. /\ TokenInv' /\ \A a \in Accounts \ {u, "mining"} : balance'[a] = balance[a]
       /\ balance'["mining"] = balance["mining"] - net
  BY <1>3, <1>9, <1>10, SettledFits
<1>12. Quiet({"mining"})
  BY <1>11, AccountFacts DEF Quiet
<1>13. balance'["mining"] = mining'.totalStaked + mining'.pool + accrued'
  <2>1. pool + claimed = m.pool /\ total = mining.totalStaked + x
    BY <1>1, <1>2 DEF MiningType
  <2> HIDE DEF pool, total
  <2> QED BY <1>1, <1>2, <1>3, <1>4, <1>6, <1>7, <1>9, <1>11, <2>1 DEF net, MiningType
<1>14. accrued' \in Nat
  BY <1>1, <1>3, <1>4
<1> HIDE DEF pool, total
<1> QED
  BY <1>1, <1>3, <1>4, <1>7, <1>8, <1>11, <1>12, <1>13, <1>14, MiningFits

\* What the storage is made of.
LEMMA MiningFacts ==
    ASSUME MiningInv, TokenInv
    PROVE  /\ mining \in MiningType
           /\ miners \in [Users -> MinerType] /\ accrued \in Nat /\ rateQueuedAt \in Nat
           /\ mining.totalStaked \in Nat /\ mining.pool \in Nat
           /\ mining.totalStaked = SumFunctionOnSet([w \in Users |-> miners[w].staked], Users)
           /\ balance["mining"] = mining.totalStaked + mining.pool + accrued
           /\ mining.pendingRate # 0 => mining.rateAt = rateQueuedAt + RateDelay
           /\ mining.lastUpdate <= now
           /\ balance \in [Accounts -> Nat] /\ "mining" \in Accounts
           /\ \A u \in Users \cup Officers : u \in Accounts /\ u # "mining"
  BY HeldOfSupply, AccountFacts DEF MiningInv, MiningTypeOK, StakesApart, MinerType, MiningType

\* A payment by this contract, or to it.
LEMMA PaidByMining ==
    ASSUME MiningInv, TokenInv, NEW u \in Users \cup Officers, NEW x \in Nat, Move("mining", u, x)
    PROVE  TokenInv' /\ Quiet({"mining"}) /\ balance'["mining"] = balance["mining"] - x
<1>1. u \in Accounts /\ "mining" \in Accounts /\ u # "mining" /\ u \notin Contracts
  BY MiningFacts, AccountFacts
<1>2. /\ TokenInv' /\ balance'["mining"] = balance["mining"] - x
      /\ \A c \in Accounts \ {"mining", u} : balance'[c] = balance[c]
  BY <1>1, MoveFits
<1> QED
  BY <1>1, <1>2, AccountFacts DEF Quiet

\* unstake settles what is owed, then returns the stake.
LEMMA MineUnstakeKeeps ==
    ASSUME MiningInv, TokenInv, now \in Nat, now' = now, NEW u \in Users, NEW x \in Nat, MineUnstake(u, x)
    PROVE  MiningKept /\ TokenInv' /\ Quiet({"mining"})
<1> DEFINE m == UpdatePool.m
           reward == UpdatePool.reward
           claimed == SettleReward(m, u)
           pool == m.pool - claimed
           total == m.totalStaked - x
           less == miners[u].staked - x
           r == [staked |-> less, debt |-> Accumulated(m, less)]
           sent == claimed + x
<1>1. /\ m \in MiningType /\ reward \in Nat /\ m.pool + reward = mining.pool
      /\ m.totalStaked = mining.totalStaked /\ m.rate = mining.rate
      /\ m.pendingRate = mining.pendingRate /\ m.rateAt = mining.rateAt
      /\ m.lastUpdate <= now
  BY UpdatePoolFits
<1>2. claimed \in 0..m.pool /\ \A n \in Nat : Accumulated(m, n) \in Nat
  BY <1>1, SettleFits
<1>3. /\ miners[u].staked >= x
      /\ mining' = [m EXCEPT !.pool = @ - claimed, !.totalStaked = @ - x]
      /\ miners' = [miners EXCEPT ![u] = r]
      /\ Move("mining", u, sent)
      /\ accrued' = accrued + reward
      /\ UNCHANGED rateQueuedAt
  BY DEF MineUnstake, Move
<1> HIDE DEF m, reward
<1>4. miners[u] \in MinerType /\ miners[u].staked \in Nat
  BY MiningFacts DEF MinerType
<1>5. less \in Nat /\ r \in MinerType /\ r.staked = miners[u].staked - x
  BY <1>2, <1>3, <1>4 DEF MinerType
<1> HIDE DEF claimed
<1> HIDE DEF r
<1>6. /\ miners' \in [Users -> MinerType] /\ miners[u].staked <= mining.totalStaked
      /\ SumFunctionOnSet([w \in Users |-> miners'[w].staked], Users) = total
  <2>1. /\ miners' \in [Users -> MinerType] /\ miners[u].staked <= mining.totalStaked
        /\ SumFunctionOnSet([w \in Users |-> miners'[w].staked], Users)
             = mining.totalStaked - miners[u].staked + r.staked
    BY <1>3, <1>5, StakeChanges
  <2> QED BY <1>1, <1>4, <1>5, <2>1, MiningFacts
<1>7. pool \in Nat /\ total \in Nat /\ mining' = [m EXCEPT !.pool = pool, !.totalStaked = total]
  BY <1>1, <1>2, <1>3, <1>4, <1>6, MiningFacts DEF MiningType
<1>8. /\ mining' \in MiningType /\ mining'.pool = pool /\ mining'.totalStaked = total
      /\ mining'.rate = m.rate /\ mining'.pendingRate = m.pendingRate
      /\ mining'.rateAt = m.rateAt /\ mining'.lastUpdate = m.lastUpdate
  <2> HIDE DEF pool, total
  <2> QED BY <1>1, <1>7 DEF MiningType
<1>9. sent \in Nat /\ pool + sent + total = m.pool + mining.totalStaked
  BY <1>1, <1>2, MiningFacts DEF MiningType
<1> HIDE DEF sent
<1>10. TokenInv' /\ Quiet({"mining"}) /\ balance'["mining"] = balance["mining"] - sent
  BY <1>3, <1>9, PaidByMining
<1> HIDE DEF pool, total
<1>11. balance'["mining"] = mining'.totalStaked + mining'.pool + accrued' /\ accrued' \in Nat
  BY <1>1, <1>3, <1>7, <1>8, <1>9, <1>10, MiningFacts DEF MiningType
<1> QED
  BY <1>1, <1>3, <1>6, <1>8, <1>10, <1>11, MiningFacts, MiningFits

\* claimRewards pays what is owed out of the pool.
LEMMA ClaimRewardsKeeps ==
    ASSUME MiningInv, TokenInv, now \in Nat, now' = now, NEW u \in Users, ClaimRewards(u)
    PROVE  MiningKept /\ TokenInv' /\ Quiet({"mining"})
<1> DEFINE m == UpdatePool.m
           reward == UpdatePool.reward
           claimed == SettleReward(m, u)
           pool == m.pool - claimed
           r == [miners[u] EXCEPT !.debt = Accumulated(m, miners[u].staked)]
<1>1. /\ m \in MiningType /\ reward \in Nat /\ m.pool + reward = mining.pool
      /\ m.totalStaked = mining.totalStaked /\ m.rate = mining.rate
      /\ m.pendingRate = mining.pendingRate /\ m.rateAt = mining.rateAt
      /\ m.lastUpdate <= now
  BY UpdatePoolFits
<1>2. claimed \in 0..m.pool /\ \A n \in Nat : Accumulated(m, n) \in Nat
  BY <1>1, SettleFits
<1>3. /\ mining' = [m EXCEPT !.pool = @ - claimed]
      /\ miners' = [miners EXCEPT ![u].debt = Accumulated(m, miners[u].staked)]
      /\ Move("mining", u, claimed)
      /\ accrued' = accrued + reward
      /\ UNCHANGED rateQueuedAt
  BY DEF ClaimRewards, Move
<1> HIDE DEF m, reward
<1>4. miners[u] \in MinerType /\ miners[u].staked \in Nat
  BY MiningFacts DEF MinerType
<1>5. r \in MinerType /\ r.staked = miners[u].staked /\ miners' = [miners EXCEPT ![u] = r]
  BY <1>2, <1>3, <1>4, MiningFacts DEF MinerType
<1> HIDE DEF claimed
<1> HIDE DEF r
<1>6. /\ miners' \in [Users -> MinerType]
      /\ SumFunctionOnSet([w \in Users |-> miners'[w].staked], Users) = mining.totalStaked
  <2>1. /\ miners' \in [Users -> MinerType]
        /\ SumFunctionOnSet([w \in Users |-> miners'[w].staked], Users)
             = mining.totalStaked - miners[u].staked + r.staked
    BY <1>5, StakeChanges
  <2> QED BY <1>4, <1>5, <2>1, MiningFacts
<1>7. pool \in Nat /\ mining' = [m EXCEPT !.pool = pool]
  BY <1>1, <1>2, <1>3 DEF MiningType
<1>8. /\ mining' \in MiningType /\ mining'.pool = pool /\ mining'.totalStaked = m.totalStaked
      /\ mining'.rate = m.rate /\ mining'.pendingRate = m.pendingRate
      /\ mining'.rateAt = m.rateAt /\ mining'.lastUpdate = m.lastUpdate
  <2> HIDE DEF pool
  <2> QED BY <1>1, <1>7 DEF MiningType
<1>9. claimed \in Nat /\ pool + claimed = m.pool
  BY <1>1, <1>2 DEF MiningType
<1>10. TokenInv' /\ Quiet({"mining"}) /\ balance'["mining"] = balance["mining"] - claimed
  BY <1>3, <1>9, PaidByMining
<1> HIDE DEF pool
<1>11. balance'["mining"] = mining'.totalStaked + mining'.pool + accrued' /\ accrued' \in Nat
  BY <1>1, <1>3, <1>7, <1>8, <1>9, <1>10, MiningFacts DEF MiningType
<1> QED
  BY <1>1, <1>3, <1>6, <1>8, <1>10, <1>11, MiningFacts, MiningFits

\* What is deposited goes to the pool, whoever moved it here.
LEMMA DepositedKeeps ==
    ASSUME MiningInv, TokenInv, now \in Nat, now' = now, NEW x \in Nat, Deposited(x),
           balance'["mining"] = balance["mining"] + x
    PROVE  MiningKept
<1> DEFINE m == UpdatePool.m
           reward == UpdatePool.reward
           pool == m.pool + x
           end == IF m.rate = 0 THEN m.endTime
                  ELSE (IF now >= m.endTime THEN now ELSE m.endTime) + (x \div m.rate)
<1>1. /\ m \in MiningType /\ reward \in Nat /\ m.pool + reward = mining.pool
      /\ m.totalStaked = mining.totalStaked /\ m.rate = mining.rate
      /\ m.pendingRate = mining.pendingRate /\ m.rateAt = mining.rateAt
      /\ m.lastUpdate <= now
  BY UpdatePoolFits
<1>2. /\ mining' = [m EXCEPT !.pool = @ + x,
                             !.endTime = IF m.rate = 0 THEN @
                                         ELSE (IF now >= @ THEN now ELSE @) + (x \div m.rate)]
      /\ accrued' = accrued + reward
      /\ UNCHANGED <<miners, rateQueuedAt>>
  BY DEF Deposited
<1> HIDE DEF m, reward
<1>3. mining' = [m EXCEPT !.pool = pool, !.endTime = end]
  BY <1>1, <1>2 DEF MiningType
<1>4. pool \in Nat /\ end \in Nat
  <2>1. m.rate \in Nat /\ m.endTime \in Nat /\ m.pool \in Nat
    BY <1>1 DEF MiningType
  <2>2. m.rate # 0 => x \div m.rate \in Nat
    BY <2>1, Quotient
  <2> QED BY <2>1, <2>2
<1>5. /\ mining' \in MiningType /\ mining'.pool = pool /\ mining'.totalStaked = m.totalStaked
      /\ mining'.rate = m.rate /\ mining'.pendingRate = m.pendingRate
      /\ mining'.rateAt = m.rateAt /\ mining'.lastUpdate = m.lastUpdate
  <2> HIDE DEF pool, end
  <2> QED BY <1>1, <1>3, <1>4 DEF MiningType
<1>6. balance'["mining"] = mining'.totalStaked + mining'.pool + accrued' /\ accrued' \in Nat
  BY <1>1, <1>2, <1>5, MiningFacts DEF MiningType
<1> HIDE DEF pool, end
<1> QED
  BY <1>1, <1>2, <1>5, <1>6, MiningFacts, MiningFits

\* emergencyWithdraw returns the stake and forgets the reward.
LEMMA EmergencyWithdrawKeeps ==
    ASSUME MiningInv, TokenInv, now \in Nat, now' = now, NEW u \in Users, EmergencyWithdraw(u)
    PROVE  MiningKept /\ TokenInv' /\ Quiet({"mining"})
<1> DEFINE x == miners[u].staked
           total == mining.totalStaked - x
           r == [staked |-> 0, debt |-> 0]
<1>1. /\ Move("mining", u, x)
      /\ mining' = [mining EXCEPT !.totalStaked = total]
      /\ miners' = [miners EXCEPT ![u] = r]
      /\ UNCHANGED <<accrued, rateQueuedAt>>
  BY MiningFacts DEF EmergencyWithdraw, MiningType
<1>2. x \in Nat /\ r \in MinerType /\ r.staked = 0
  BY MiningFacts DEF MinerType
<1> HIDE DEF r
<1>3. /\ miners' \in [Users -> MinerType] /\ x <= mining.totalStaked
      /\ SumFunctionOnSet([w \in Users |-> miners'[w].staked], Users) = mining.totalStaked - x + r.staked
  BY <1>1, <1>2, StakeChanges
<1> HIDE DEF x
<1>4. total \in Nat /\ SumFunctionOnSet([w \in Users |-> miners'[w].staked], Users) = total
  BY <1>2, <1>3, MiningFacts
<1>5. /\ mining' \in MiningType /\ mining'.pool = mining.pool /\ mining'.totalStaked = total
      /\ mining'.rate = mining.rate /\ mining'.pendingRate = mining.pendingRate
      /\ mining'.rateAt = mining.rateAt /\ mining'.lastUpdate = mining.lastUpdate
  <2> HIDE DEF total
  <2> QED BY <1>1, <1>4, MiningFacts DEF MiningType
<1>6. TokenInv' /\ Quiet({"mining"}) /\ balance'["mining"] = balance["mining"] - x
  BY <1>1, <1>2, PaidByMining
<1>7. balance'["mining"] = mining'.totalStaked + mining'.pool + accrued'
  BY <1>1, <1>2, <1>5, <1>6, MiningFacts
<1> HIDE DEF total
<1> QED
  BY <1>1, <1>3, <1>4, <1>5, <1>6, <1>7, MiningFacts, MiningFits

\* The calls of miners and of operators with rewards.
LEMMA MiningCallKeeps ==
    ASSUME MiningInv, TokenInv, now \in Nat, now' = now, scene \in DOMAIN MaxCalls, MiningCall
    PROVE  MiningKept /\ TokenInv' /\ Quiet({"mining"})
<1>1. \A x \in V : x \in Nat
  BY EconomyAssumption DEF V
<1>2. ASSUME NEW caller \in Officers, NEW x \in V, DepositRewards(caller, x)
      PROVE  MiningKept /\ TokenInv' /\ Quiet({"mining"})
  <2>1. Move(caller, "mining", x) /\ Deposited(x) /\ x \in Nat
    BY <1>1, <1>2 DEF DepositRewards
  <2>2. caller \in Accounts /\ "mining" \in Accounts /\ caller # "mining" /\ caller \notin Contracts
    BY MiningFacts, AccountFacts
  <2>3. /\ TokenInv' /\ balance'["mining"] = balance["mining"] + x
        /\ \A c \in Accounts \ {caller, "mining"} : balance'[c] = balance[c]
    BY <2>1, <2>2, MoveFits
  <2>4. Quiet({"mining"})
    BY <2>2, <2>3, AccountFacts DEF Quiet
  <2> QED BY <2>1, <2>3, <2>4, DepositedKeeps
<1>3. \/ \E u \in Users, x \in V : MineStake(u, x) \/ MineUnstake(u, x)
      \/ \E u \in Users : ClaimRewards(u) \/ EmergencyWithdraw(u)
      \/ \E caller \in Officers, x \in V : DepositRewards(caller, x)
  BY DEF MiningCall
<1> QED
  BY <1>1, <1>2, <1>3, MineStakeKeeps, MineUnstakeKeeps, ClaimRewardsKeeps, EmergencyWithdrawKeeps

\* The owner's calls: while rewards run, the rate is only queued.
LEMMA MiningAdminKeeps ==
    ASSUME MiningInv, TokenInv, now \in Nat, now' = now, MiningAdmin
    PROVE  MiningKept /\ UNCHANGED tokenVars
<1>1. PICK caller \in Officers :
          CommitRewardRate(caller) \/ \E rate \in {1, 3} : SetRewardRate(caller, rate)
  BY DEF MiningAdmin
<1>2. UNCHANGED <<miners, tokenVars>>
  BY <1>1 DEF CommitRewardRate, SetRewardRate
<1>3. balance' = balance
  BY <1>2 DEF tokenVars
<1>4. CASE CommitRewardRate(caller)
  <2>1. /\ mining.pendingRate # 0 /\ now >= mining.rateAt
        /\ mining' = [mining EXCEPT !.rate = mining.pendingRate, !.pendingRate = 0, !.rateAt = 0]
        /\ UNCHANGED <<accrued, rateQueuedAt>>
    BY <1>4 DEF CommitRewardRate
  <2>2. /\ mining' \in MiningType /\ mining'.pool = mining.pool
        /\ mining'.totalStaked = mining.totalStaked
        /\ mining'.pendingRate = 0 /\ mining'.lastUpdate = mining.lastUpdate
    BY <2>1, MiningFacts DEF MiningType
  <2>3. MiningInv'
    <3>1. MiningTypeOK' /\ StakesApart'
      BY <1>2, <1>3, <2>1, <2>2, MiningFacts DEF MiningTypeOK, StakesApart, MiningType, MinerType
    <3> QED BY <2>1, <2>2, <3>1, MiningFacts DEF MiningInv
  <2>4. RateAnnounced
    BY <2>1, MiningFacts DEF RateAnnounced
  <2> QED BY <1>2, <2>3, <2>4 DEF MiningKept
<1>5. ASSUME NEW rate \in {1, 3}, SetRewardRate(caller, rate) PROVE MiningKept
  <2> DEFINE m == UpdatePool.m
             reward == UpdatePool.reward
             active == m.endTime > 0 /\ now < m.endTime
             at == now + RateDelay
  <2>1. /\ m \in MiningType /\ reward \in Nat /\ m.pool + reward = mining.pool
        /\ m.totalStaked = mining.totalStaked /\ m.rate = mining.rate
        /\ m.pendingRate = mining.pendingRate /\ m.rateAt = mining.rateAt
        /\ m.lastUpdate <= now /\ m.endTime = mining.endTime
    BY UpdatePoolFits
  <2>2. /\ IF active
           THEN /\ mining' = [m EXCEPT !.pendingRate = rate, !.rateAt = at]
                /\ rateQueuedAt' = now
           ELSE /\ mining' = [m EXCEPT !.rate = rate]
                /\ UNCHANGED rateQueuedAt
        /\ accrued' = accrued + reward
    BY <1>5 DEF SetRewardRate
  <2> HIDE DEF m, reward
  <2>3. at \in Nat /\ rate \in Nat /\ at = now + RateDelay
    BY EconomyAssumption
  <2> HIDE DEF at
  <2>4. /\ mining' \in MiningType /\ mining'.pool = m.pool /\ mining'.totalStaked = m.totalStaked
        /\ mining'.lastUpdate = m.lastUpdate
        /\ mining'.pendingRate # 0 => mining'.rateAt = rateQueuedAt' + RateDelay
        /\ rateQueuedAt' \in Nat
        /\ active => mining'.rate = m.rate
    <3>1. CASE active
      BY <2>1, <2>2, <2>3, <3>1 DEF MiningType
    <3>2. CASE ~active
      BY <2>1, <2>2, <2>3, <3>2, MiningFacts DEF MiningType
    <3> QED BY <3>1, <3>2
  <2>5. StakesApart' /\ accrued' \in Nat
    BY <1>2, <1>3, <2>1, <2>2, <2>4, MiningFacts DEF StakesApart, MiningType
  <2>6. MiningInv'
    <3>1. MiningTypeOK'
      BY <1>2, <2>4, <2>5, MiningFacts DEF MiningTypeOK, MiningType, MinerType
    <3> QED BY <2>1, <2>4, <2>5, <3>1 DEF MiningInv
  <2>7. RateAnnounced
    BY <2>1, <2>4, MiningFacts DEF RateAnnounced
  <2> QED BY <2>6, <2>7 DEF MiningKept
<1> QED
  BY <1>1, <1>2, <1>4, <1>5

\* What others do leaves the miners' contract as it was.
LEMMA MiningUntouched ==
    ASSUME MiningInv, now \in Nat, now' \in Nat, now' >= now, UNCHANGED miningVars,
           balance'["mining"] = balance["mining"]
    PROVE  MiningKept
<1>1. UNCHANGED <<mining, miners, accrued, rateQueuedAt>>
  BY DEF miningVars
<1>2. MiningInv'
  BY <1>1 DEF MiningInv, MiningTypeOK, StakesApart
<1> QED
  BY <1>1, <1>2 DEF MiningKept, RateAnnounced

-----------------------------------------------------------------------------
(* BuybackBurn, IntelPOLManager *)

Slippages == 0..10000
MinersShares == 0..3000

BbType ==
    [eth : Nat, slippage : Slippages, minEth : Nat, minTwap : Nat, mining : BOOLEAN,
     share : MinersShares]

PolType == [eth : Nat, weth : Nat, received : Nat, position : BOOLEAN, pool : BOOLEAN]

BoughtType == [all : Nat, burned : Nat]

\* What the invariant says of the storage, and what makes it hold.
LEMMA BuybackFacts ==
    BuybackInv <=>
      /\ bb \in BbType /\ pol \in PolType /\ pol.eth <= pol.received
      /\ bought \in BoughtType
      /\ 10 * bought.burned >= 7 * bought.all
      /\ balance["buyback"] <= bought.all - bought.burned
  BY DEF BuybackInv, BuybackTypeOK, BurnFloor, BbType, PolType, BoughtType, Slippages, MinersShares

\* What makes the invariant hold after a step.
LEMMA BuybackFits ==
    ASSUME bb' \in BbType, pol' \in PolType, pol'.eth <= pol'.received,
           bought' \in BoughtType,
           10 * bought'.burned >= 7 * bought'.all,
           balance'["buyback"] <= bought'.all - bought'.burned
    PROVE  BuybackInv'
  BY DEF BuybackInv, BuybackTypeOK, BurnFloor, BbType, PolType, BoughtType, Slippages, MinersShares

\* A share of the miners' is at most 3000 basis points.
LEMMA MinersShareFacts ==
    ASSUME NEW s \in MinersShares
    PROVE  s \in Nat /\ s <= 3000
  BY DEF MinersShares

\* Three tenths of a purchase at most are the miners', and the rest is burned.
LEMMA ShareOfPurchase ==
    ASSUME BuybackInv, NEW received \in Nat
    PROVE  LET share == IF bb.mining THEN (received * bb.share) \div 10000 ELSE 0
           IN  share \in Nat /\ 10 * share <= 3 * received /\ share <= received
<1> DEFINE part == (received * bb.share) \div 10000
<1>1. bb.share \in Nat /\ bb.share <= 3000
  <2>1. bb \in BbType
    BY BuybackFacts
  <2>2. bb.share \in MinersShares
    BY <2>1 DEF BbType
  <2> QED BY <2>2, MinersShareFacts
<1>2. received * bb.share \in Nat /\ received * bb.share <= received * 3000
  BY <1>1, ProductGrows
<1>3. part \in Nat /\ 10000 * part <= received * bb.share
  BY <1>2, Quotient
<1>4. part \in Nat /\ 10 * part <= 3 * received /\ part <= received
  <2> HIDE DEF part
  <2> QED BY <1>2, <1>3
<1> QED
  BY <1>4

\* executeBuyback burns what it bought, but for the miners' share, if they take it.
LEMMA ExecuteBuybackKeeps ==
    ASSUME BuybackInv, MiningInv, TokenInv, now \in Nat, now' = now, NEW caller, NEW price,
           NEW received \in Nat, ExecuteBuyback(caller, price, received)
    PROVE  /\ BuybackInv' /\ MiningKept /\ TokenInv'
           /\ Quiet({"market", "mining", "buyback"})
<1> DEFINE share == IF bb.mining THEN (received * bb.share) \div 10000 ELSE 0
           taken == IF MiningAccepts THEN share ELSE 0
           burned == received - share
           kept == share - taken
           b1 == Credited(balance, "market", -received)
           b2 == Credited(b1, "mining", taken)
           b3 == Credited(b2, "buyback", kept)
           s == token.supply - burned
           all == bought.all + received
           gone == bought.burned + burned
<1>1. /\ balance["market"] >= received
      /\ bb' = [bb EXCEPT !.eth = 0]
      /\ balance' = [balance EXCEPT !["market"] = @ - received, !["mining"] = @ + taken,
                                    !["buyback"] = @ + received - taken - burned]
      /\ token' = [token EXCEPT !.supply = @ - burned]
      /\ IF taken > 0 THEN Deposited(taken) ELSE UNCHANGED miningVars
      /\ bought' = [all |-> all, burned |-> gone]
      /\ UNCHANGED <<allowance, pol>>
  BY DEF ExecuteBuyback
<1>2. share \in Nat /\ 10 * share <= 3 * received /\ share <= received
  BY ShareOfPurchase
<1> HIDE DEF share
<1>3. /\ taken \in Nat /\ taken <= share /\ burned \in Nat /\ burned <= received
      /\ 10 * burned >= 7 * received /\ kept \in Nat /\ kept <= received - burned
      /\ kept + taken + burned = received
  BY <1>2
<1>4. /\ balance \in [Accounts -> Nat] /\ token.supply = Total(balance) /\ token.supply \in Nat
      /\ balance["market"] <= token.supply
      /\ {"market", "mining", "buyback"} \subseteq Accounts
      /\ -received \in Int /\ balance["market"] + (-received) >= 0
  BY <1>1, HeldOfSupply, AccountFacts
<1>5. /\ b1 \in [Accounts -> Nat] /\ Total(b1) = Total(balance) + (-received)
      /\ \A a \in Accounts : b1[a] = IF a = "market" THEN balance[a] + (-received) ELSE balance[a]
  BY <1>4, CreditedFits
<1> HIDE DEF b1
<1> HIDE DEF taken, burned
<1>6. /\ b2 \in [Accounts -> Nat] /\ Total(b2) = Total(b1) + taken
      /\ \A a \in Accounts : b2[a] = IF a = "mining" THEN b1[a] + taken ELSE b1[a]
  <2>1. taken \in Int /\ b1["mining"] + taken >= 0
    BY <1>3, <1>4, <1>5
  <2> QED BY <1>4, <1>5, <2>1, CreditedFits
<1> HIDE DEF b2
<1>7. /\ b3 \in [Accounts -> Nat] /\ Total(b3) = Total(b2) + kept
      /\ \A a \in Accounts : b3[a] = IF a = "buyback" THEN b2[a] + kept ELSE b2[a]
  <2>1. kept \in Int /\ b2["buyback"] + kept >= 0
    BY <1>3, <1>4, <1>6
  <2> HIDE DEF kept
  <2> QED BY <1>4, <1>6, <2>1, CreditedFits
<1> HIDE DEF b3
<1> HIDE DEF kept
<1>8. balance' = b3
  <2>1. balance' = [balance EXCEPT !["market"] = balance["market"] - received,
                                   !["mining"] = balance["mining"] + taken,
                                   !["buyback"] = balance["buyback"] + received - taken - burned]
    BY <1>1, <1>4
  <2>2. \A a \in Accounts : balance[a] \in Int
    BY <1>4
  <2>3. /\ balance["buyback"] + received - taken - burned = balance["buyback"] + kept
        /\ balance["market"] - received = balance["market"] + (-received)
    BY <1>3, <1>4, <2>2
  <2>4. \A a \in Accounts : balance'[a] = b3[a]
    BY <1>4, <1>5, <1>6, <1>7, <2>1, <2>3
  <2>5. balance' \in [Accounts -> Int]
    BY <1>3, <1>4, <2>1, <2>2
  <2> QED BY <1>7, <2>4, <2>5
<1>9. Quiet({"market", "mining", "buyback"})
  BY <1>5, <1>6, <1>7, <1>8, AccountFacts DEF Quiet
<1>10. TokenInv'
  <2>1. s \in Nat /\ s <= token.supply /\ token' = [token EXCEPT !.supply = s]
    BY <1>1, <1>3, <1>4
  <2>2. s = Total(balance')
    <3>1. s = Total(b3)
      BY <1>3, <1>4, <1>5, <1>6, <1>7
    <3> QED BY <1>8, <3>1
  <2>3. allowance' \in [Users -> [Users -> Nat]]
    BY <1>1 DEF TokenInv, TokenTypeOK
  <2> HIDE DEF s
  <2> QED BY <1>7, <1>8, <2>1, <2>2, <2>3, TokenFits
<1>11. balance'["mining"] = balance["mining"] + taken
  BY <1>4, <1>5, <1>6, <1>7, <1>8
<1>12. MiningKept
  <2>1. CASE taken > 0
    BY <1>1, <1>3, <1>11, <2>1, DepositedKeeps
  <2>2. CASE ~(taken > 0)
    <3>1. balance'["mining"] = balance["mining"]
      BY <1>3, <1>4, <1>11, <2>2
    <3> QED BY <1>1, <2>2, <3>1, MiningUntouched
  <2> QED BY <2>1, <2>2
<1>13. balance'["buyback"] = balance["buyback"] + kept
  BY <1>4, <1>5, <1>6, <1>7, <1>8
<1>14. BuybackInv'
  <2>1. /\ bb \in BbType /\ pol \in PolType /\ pol.eth <= pol.received
        /\ bought \in BoughtType
        /\ 10 * bought.burned >= 7 * bought.all
        /\ balance["buyback"] <= bought.all - bought.burned
    BY BuybackFacts
  <2>2. bb' \in BbType
    BY <1>1, <2>1 DEF BbType
  <2>3. all \in Nat /\ gone \in Nat /\ 10 * gone >= 7 * all /\ balance'["buyback"] <= all - gone
    BY <1>3, <1>4, <1>13, <2>1 DEF BoughtType
  <2> HIDE DEF all, gone
  <2>4. bought' \in BoughtType /\ bought'.all = all /\ bought'.burned = gone
    BY <1>1, <2>3 DEF BoughtType
  <2> QED BY <1>1, <2>1, <2>2, <2>3, <2>4, BuybackFits
<1> QED
  BY <1>9, <1>10, <1>12, <1>14

\* What others do leaves these two as they were.
LEMMA BuybackUntouched ==
    ASSUME BuybackInv, UNCHANGED buybackVars, balance'["buyback"] = balance["buyback"]
    PROVE  BuybackInv'
<1>1. UNCHANGED <<bb, pol, bought>>
  BY DEF buybackVars
<1> QED
  BY <1>1, BuybackFacts, BuybackFits

MarketSide == {"buyback", "mining", "pol", "market"}

\* The calls with ether, and the buybacks.
LEMMA BuybackCallKeeps ==
    ASSUME BuybackInv, MiningInv, TokenInv, now \in Nat, now' = now, scene \in DOMAIN MaxCalls,
           BuybackCall
    PROVE  BuybackInv' /\ MiningKept /\ TokenInv' /\ Quiet(MarketSide)
<1>1. \A x \in V : x \in Nat
  BY EconomyAssumption DEF V
<1>2. /\ bb \in BbType /\ pol \in PolType /\ pol.eth <= pol.received
      /\ bought \in BoughtType
      /\ 10 * bought.burned >= 7 * bought.all
      /\ balance["buyback"] <= bought.all - bought.burned
  BY BuybackFacts
<1>3. ASSUME UNCHANGED tokenVars, UNCHANGED miningVars
      PROVE  MiningKept /\ TokenInv' /\ Quiet(MarketSide) /\ balance' = balance
  <2>1. UNCHANGED <<balance, allowance, token>>
    BY <1>3 DEF tokenVars
  <2>2. TokenInv' /\ Quiet(MarketSide)
    BY <2>1 DEF TokenInv, TokenTypeOK, SupplyBacked, Quiet
  <2>3. MiningKept
    BY <1>3, <2>1, MiningUntouched
  <2> QED BY <2>1, <2>2, <2>3
<1>4. ASSUME NEW x \in V, DepositEth(x)
      PROVE  BuybackInv' /\ MiningKept /\ TokenInv' /\ Quiet(MarketSide)
  <2>1. bb' = [bb EXCEPT !.eth = @ + x] /\ UNCHANGED <<pol, bought, miningVars, tokenVars>>
    BY <1>4 DEF DepositEth
  <2>2. bb' \in BbType
    BY <1>1, <1>2, <2>1 DEF BbType
  <2>3. MiningKept /\ TokenInv' /\ Quiet(MarketSide) /\ balance' = balance
    BY <1>3, <2>1
  <2> QED BY <1>2, <2>1, <2>2, <2>3, BuybackFits
<1>5. ASSUME NEW x \in V, ReceivePol(x)
      PROVE  BuybackInv' /\ MiningKept /\ TokenInv' /\ Quiet(MarketSide)
  <2>1. /\ pol' = [pol EXCEPT !.eth = @ + x, !.received = @ + x]
        /\ UNCHANGED <<bb, bought, miningVars, tokenVars>>
    BY <1>5 DEF ReceivePol
  <2> DEFINE e == pol.eth + x
             r == pol.received + x
  <2>4. pol' = [pol EXCEPT !.eth = e, !.received = r] /\ e \in Nat /\ r \in Nat /\ e <= r
    BY <1>1, <1>2, <2>1 DEF PolType
  <2> HIDE DEF e, r
  <2>2. pol' \in PolType /\ pol'.eth <= pol'.received
    BY <1>2, <2>4 DEF PolType
  <2>3. MiningKept /\ TokenInv' /\ Quiet(MarketSide) /\ balance' = balance
    BY <1>3, <2>1
  <2> QED BY <1>2, <2>1, <2>2, <2>3, BuybackFits
<1>6. ASSUME NEW caller \in Officers, NEW price \in Twaps, NEW received \in V,
             ExecuteBuyback(caller, price, received)
      PROVE  BuybackInv' /\ MiningKept /\ TokenInv' /\ Quiet(MarketSide)
  BY <1>1, <1>6, ExecuteBuybackKeeps DEF Quiet, MarketSide
<1> QED
  BY <1>4, <1>5, <1>6 DEF BuybackCall

\* The owners' calls.
LEMMA BuybackAdminKeeps ==
    ASSUME BuybackInv, MiningInv, TokenInv, now \in Nat, now' = now, scene \in DOMAIN MaxCalls,
           BuybackAdmin
    PROVE  BuybackInv' /\ MiningKept /\ TokenInv' /\ Quiet(MarketSide)
<1> DEFINE Kept == BuybackInv' /\ MiningKept /\ TokenInv' /\ Quiet(MarketSide)
<1>1. PICK caller \in Officers, x \in V :
          \/ WithdrawEth(caller, x) \/ RecoverTrappedMiningRewards(caller)
          \/ \E on \in BOOLEAN, share \in {3000, 5000} : SetLpMining(caller, on, share)
          \/ SetBuybackParams(caller, 0, 2, 1)
          \/ WithdrawPolEth(caller, x) \/ \E u \in Users : WithdrawIntel(caller, u, x)
          \/ \E usedI, usedE \in {1, x} : DeployToUniV3(caller, x, x, usedI, usedE)
          \/ CollectFees(caller, 1, x) \/ SetTwapPool(caller)
  BY DEF BuybackAdmin
<1>2. x \in Nat
  BY EconomyAssumption DEF V
<1>3. /\ bb \in BbType /\ pol \in PolType /\ pol.eth <= pol.received
      /\ bought \in BoughtType
      /\ 10 * bought.burned >= 7 * bought.all
      /\ balance["buyback"] <= bought.all - bought.burned
      /\ balance \in [Accounts -> Nat]
  BY BuybackFacts, HeldOfSupply
<1>4. /\ MarketSide \subseteq Contracts /\ MarketSide \subseteq Accounts /\ Treasury \in Accounts
      /\ Treasury \notin Contracts
      /\ \A u \in Users : u \in Accounts /\ u \notin Contracts
      /\ Contracts \subseteq Accounts
  BY AccountFacts DEF MarketSide
\* calls that leave the token alone
<1>5. ASSUME UNCHANGED tokenVars, UNCHANGED miningVars, UNCHANGED bought,
             bb' \in BbType, pol' \in PolType, pol'.eth <= pol'.received
      PROVE  Kept
  <2>1. UNCHANGED <<balance, allowance, token>>
    BY <1>5 DEF tokenVars
  <2>2. TokenInv' /\ Quiet(MarketSide)
    BY <2>1 DEF TokenInv, TokenTypeOK, SupplyBacked, Quiet
  <2>3. MiningKept
    BY <1>5, <2>1, MiningUntouched
  <2>4. BuybackInv'
    BY <1>3, <1>5, <2>1, BuybackFits
  <2> QED BY <2>2, <2>3, <2>4
\* calls that move INTEL, but none of the miners'
<1>6. ASSUME NEW from \in MarketSide, NEW to \in Accounts \ {from}, NEW amount \in Nat,
             Move(from, to, amount),
             from # "mining", to # "mining", to # "buyback", to \in MarketSide \/ to \notin Contracts,
             UNCHANGED miningVars, UNCHANGED <<bb, bought>>,
             pol' \in PolType, pol'.eth <= pol'.received
      PROVE  Kept
  <2>1. /\ TokenInv' /\ balance' \in [Accounts -> Nat]
        /\ \A c \in Accounts \ {from, to} : balance'[c] = balance[c]
        /\ balance'[from] = balance[from] - amount
    BY <1>4, <1>6, MoveFits
  <2>2. Quiet(MarketSide)
    BY <1>4, <1>6, <2>1 DEF Quiet
  <2>3. balance'["mining"] = balance["mining"] /\ balance'["buyback"] <= balance["buyback"]
    BY <1>3, <1>4, <1>6, <2>1 DEF MarketSide
  <2>4. MiningKept
    BY <1>6, <2>3, MiningUntouched
  <2>5. balance'["buyback"] <= bought.all - bought.burned
    <3>1. balance'["buyback"] \in Nat /\ balance["buyback"] \in Nat
      BY <1>3, <1>4, <2>1 DEF MarketSide
    <3> QED BY <1>3, <2>3, <3>1 DEF BoughtType
  <2>6. BuybackInv'
    BY <1>3, <1>6, <2>5, BuybackFits
  <2> QED BY <2>1, <2>2, <2>4, <2>6
<1>7. ASSUME WithdrawEth(caller, x) PROVE Kept
  <2>1. /\ x <= bb.eth /\ bb' = [bb EXCEPT !.eth = @ - x]
        /\ UNCHANGED <<pol, bought, miningVars, tokenVars>>
    BY <1>7 DEF WithdrawEth
  <2>2. bb' \in BbType
    BY <1>2, <1>3, <2>1 DEF BbType
  <2> QED BY <1>3, <1>5, <2>1, <2>2
<1>8. ASSUME RecoverTrappedMiningRewards(caller) PROVE Kept
  <2> DEFINE trapped == balance["buyback"]
  <2>1. /\ trapped \in Nat
        /\ UNCHANGED <<bb, pol, bought>>
        /\ \/ Move("buyback", "mining", trapped) /\ Deposited(trapped)
           \/ Move("buyback", Treasury, trapped) /\ UNCHANGED miningVars
    BY <1>3, <1>4, <1>8 DEF RecoverTrappedMiningRewards, buybackVars, MarketSide
  <2> HIDE DEF trapped
  <2>2. CASE Move("buyback", Treasury, trapped) /\ UNCHANGED miningVars
    BY <1>3, <1>4, <1>6, <2>1, <2>2 DEF MarketSide
  <2>3. CASE Move("buyback", "mining", trapped) /\ Deposited(trapped)
    <3>1. /\ TokenInv' /\ balance' \in [Accounts -> Nat]
          /\ \A c \in Accounts \ {"buyback", "mining"} : balance'[c] = balance[c]
          /\ balance'["mining"] = balance["mining"] + trapped
          /\ balance'["buyback"] = balance["buyback"] - trapped
      BY <1>4, <2>1, <2>3, MoveFits DEF MarketSide
    <3>2. MiningKept
      BY <2>1, <2>3, <3>1, DepositedKeeps
    <3>3. Quiet(MarketSide)
      BY <1>4, <3>1 DEF Quiet, MarketSide
    <3>4. balance'["buyback"] <= bought.all - bought.burned
      <4>1. balance["buyback"] \in Nat
        BY <1>3, <1>4 DEF MarketSide
      <4> QED BY <1>3, <2>1, <3>1, <4>1 DEF BoughtType
    <3>5. BuybackInv'
      BY <1>3, <2>1, <3>4, BuybackFits
    <3> QED BY <3>1, <3>2, <3>3, <3>5
  <2> QED BY <2>1, <2>2, <2>3
<1>16. ASSUME NEW on \in BOOLEAN, NEW share \in MinersShares,
              bb' = [bb EXCEPT !.mining = on, !.share = share]
       PROVE  bb' \in BbType
  BY <1>3, <1>16 DEF BbType
<1>9. ASSUME NEW on \in BOOLEAN, NEW share \in Nat, SetLpMining(caller, on, share)
      PROVE  Kept
  <2>1. share \in MinersShares
    BY <1>9 DEF SetLpMining, MinersShares
  <2>2. /\ bb' = [bb EXCEPT !.mining = on, !.share = share]
        /\ UNCHANGED <<pol, bought, miningVars, tokenVars>>
    BY <1>9 DEF SetLpMining
  <2>3. bb' \in BbType
    BY <1>16, <2>1, <2>2
  <2> QED BY <1>3, <1>5, <2>2, <2>3
<1>10. ASSUME SetBuybackParams(caller, 0, 2, 1) PROVE Kept
  <2>1. /\ \/ bb' = [bb EXCEPT !.slippage = 0]
           \/ bb' = [bb EXCEPT !.minEth = 2]
           \/ bb' = [bb EXCEPT !.minTwap = 1]
        /\ UNCHANGED <<pol, bought, miningVars, tokenVars>>
    BY <1>10 DEF SetBuybackParams
  <2>2. 0 \in Slippages
    BY DEF Slippages
  <2>3. ASSUME bb' = [bb EXCEPT !.slippage = 0] PROVE bb' \in BbType
    BY <1>3, <2>2, <2>3 DEF BbType
  <2>4. ASSUME \/ bb' = [bb EXCEPT !.minEth = 2] \/ bb' = [bb EXCEPT !.minTwap = 1]
        PROVE  bb' \in BbType
    BY <1>3, <2>4 DEF BbType
  <2> QED BY <1>3, <1>5, <2>1, <2>3, <2>4
<1>11. ASSUME WithdrawPolEth(caller, x) PROVE Kept
  <2>1. /\ x <= pol.eth /\ pol' = [pol EXCEPT !.eth = @ - x]
        /\ UNCHANGED <<bb, bought, miningVars, tokenVars>>
    BY <1>11 DEF WithdrawPolEth
  <2>2. pol' \in PolType /\ pol'.eth <= pol'.received
    BY <1>2, <1>3, <2>1 DEF PolType
  <2> QED BY <1>3, <1>5, <2>1, <2>2
<1>12. ASSUME NEW u \in Users, WithdrawIntel(caller, u, x) PROVE Kept
  <2>1. Move("pol", u, x) /\ UNCHANGED miningVars /\ UNCHANGED <<bb, pol, bought>>
    BY <1>12 DEF WithdrawIntel, buybackVars
  <2>2. /\ "pol" \in MarketSide /\ "pol" # "mining" /\ u \in Accounts /\ u \notin Contracts
        /\ u # "mining" /\ u # "buyback" /\ u # "pol"
    BY <1>4 DEF MarketSide
  <2> QED BY <1>2, <1>3, <1>6, <2>1, <2>2
<1>13. ASSUME NEW usedI \in {1, x}, NEW usedE \in {1, x}, DeployToUniV3(caller, x, x, usedI, usedE)
       PROVE  Kept
  <2>1. /\ x <= pol.eth /\ usedE <= x
        /\ Move("pol", "market", usedI)
        /\ pol' = [pol EXCEPT !.eth = @ - usedE, !.received = @ + x - usedE, !.position = TRUE]
        /\ UNCHANGED <<bb, bought, miningVars>>
    BY <1>13 DEF DeployToUniV3
  <2>2. usedI \in Nat /\ usedE \in Nat
    BY <1>2
  <2> DEFINE e == pol.eth - usedE
             r == pol.received + x - usedE
  <2>5. /\ pol' = [pol EXCEPT !.eth = e, !.received = r, !.position = TRUE]
        /\ e \in Nat /\ r \in Nat /\ e <= r
    BY <1>2, <1>3, <2>1, <2>2 DEF PolType
  <2> HIDE DEF e, r
  <2>3. pol' \in PolType /\ pol'.eth <= pol'.received
    BY <1>3, <2>5 DEF PolType
  <2>4. "pol" \in MarketSide /\ "market" \in MarketSide /\ "market" \in Accounts
    BY <1>4 DEF MarketSide
  <2> QED BY <1>6, <2>1, <2>2, <2>3, <2>4
<1>14. ASSUME CollectFees(caller, 1, x) PROVE Kept
  <2>1. /\ Move("market", "pol", 1)
        /\ pol' = [pol EXCEPT !.weth = @ + x]
        /\ UNCHANGED <<bb, bought, miningVars>>
    BY <1>14 DEF CollectFees
  <2>2. pol' \in PolType /\ pol'.eth <= pol'.received
    BY <1>2, <1>3, <2>1 DEF PolType
  <2>3. "pol" \in MarketSide /\ "market" \in MarketSide /\ "pol" \in Accounts
    BY <1>4 DEF MarketSide
  <2> QED BY <1>6, <2>1, <2>2, <2>3
<1>15. ASSUME SetTwapPool(caller) PROVE Kept
  <2>1. pol' = [pol EXCEPT !.pool = TRUE] /\ UNCHANGED <<bb, bought, miningVars, tokenVars>>
    BY <1>15 DEF SetTwapPool
  <2>2. pol' \in PolType /\ pol'.eth <= pol'.received
    BY <1>3, <2>1 DEF PolType
  <2> QED BY <1>3, <1>5, <2>1, <2>2
<1> HIDE DEF Kept
<1>17. Kept
  BY <1>1, <1>7, <1>8, <1>9, <1>10, <1>11, <1>12, <1>13, <1>14, <1>15
<1> QED
  BY <1>17 DEF Kept

-----------------------------------------------------------------------------
(* What the calls of one contract leave to the others *)

\* The minter's storage and its invariant.
LEMMA MintUntouched ==
    ASSUME MintInv, UNCHANGED mintVars
    PROVE  MintKept
<1>1. UNCHANGED <<mc, paid, staking, mintedIn, announcedAt>>
  BY DEF mintVars
<1>2. MintInv'
  BY <1>1 DEF MintInv, MintTypeOK
<1>3. \A e \in DOMAIN mintedIn : ~(mintedIn'[e] > mintedIn[e])
  <2>1. \A e \in DOMAIN mintedIn : mintedIn'[e] = mintedIn[e] /\ mintedIn[e] \in Nat
    BY <1>1 DEF MintInv
  <2> QED BY <2>1
<1> QED
  BY <1>1, <1>2, <1>3 DEF MintKept, MintCapKept, RoutingAnnounced

\* What has vested grows with time, up to the allocation.
LEMMA VestedGrows ==
    ASSUME VestingInv, NEW t \in Nat, NEW s \in Nat, t <= s
    PROVE  /\ VestedAmount(t) \in 0..Allocation /\ VestedAmount(s) \in 0..Allocation
           /\ VestedAmount(t) <= VestedAmount(s)
<1>1. /\ Allocation \in Nat /\ Cliff \in Nat /\ VestingDuration \in Nat \ {0}
      /\ vesting.released \in 0..Allocation /\ vesting.revoked \in BOOLEAN
  BY EconomyAssumption DEF VestingInv, VestingTypeOK
<1> DEFINE Linear(u) == (Allocation * (u - Cliff)) \div VestingDuration
<1>2. ASSUME NEW u \in Nat, u >= Cliff, u - Cliff < VestingDuration
      PROVE  Linear(u) \in 0..Allocation
  BY <1>1, <1>2, PartOfWhole
<1>3. ASSUME Cliff <= t, s - Cliff < VestingDuration
      PROVE  Linear(t) <= Linear(s)
  <2>1. t - Cliff \in Nat /\ s - Cliff \in Nat /\ t - Cliff <= s - Cliff
    BY <1>1, <1>3
  <2>2. /\ Allocation * (t - Cliff) \in Nat /\ Allocation * (s - Cliff) \in Nat
        /\ Allocation * (t - Cliff) <= Allocation * (s - Cliff)
    BY <1>1, <2>1, ProductGrows
  <2> QED BY <1>1, <2>2, QuotientGrows
<1>4. \A u \in Nat : VestedAmount(u) = IF vesting.revoked THEN vesting.released
                                       ELSE IF u < Cliff THEN 0
                                       ELSE IF u - Cliff >= VestingDuration THEN Allocation
                                       ELSE Linear(u)
  BY DEF VestedAmount
<1> HIDE DEF Linear
<1>5. VestedAmount(t) \in 0..Allocation /\ VestedAmount(s) \in 0..Allocation
  BY <1>1, <1>2, <1>4
<1> QED
  BY <1>1, <1>2, <1>3, <1>4, <1>5

\* The vesting contract's storage, as time passes.
LEMMA VestingUntouched ==
    ASSUME VestingInv, UNCHANGED vesting, now \in Nat, now' \in Nat, now' >= now,
           balance["vesting"] \in Nat, balance'["vesting"] \in Nat,
           balance'["vesting"] >= balance["vesting"]
    PROVE  VestingInv' /\ VestingKept
<1>1. /\ VestedAmount(now) \in 0..Allocation /\ VestedAmount(now) <= VestedAmount(now')
      /\ VestedAmount(now') \in 0..Allocation
      /\ vesting.released \in 0..Allocation /\ vesting.released <= VestedAmount(now)
      /\ Allocation \in Nat
  BY VestedGrows, EconomyAssumption DEF VestingInv, VestingTypeOK
<1>2. VestingTypeOK' /\ VestedAmount(now)' = VestedAmount(now')
  BY DEF VestingInv, VestingTypeOK, VestedAmount
<1> QED
  BY <1>1, <1>2 DEF VestingInv, VestingKept

\* The rewards' storage, when the contract holds no less.
LEMMA RewardUntouched ==
    ASSUME RewardInv, UNCHANGED rewardVars, balance["rewards"] \in Nat, balance'["rewards"] \in Nat,
           balance'["rewards"] >= balance["rewards"]
    PROVE  RewardInv'
<1>1. UNCHANGED <<rewards, rewardConf>>
  BY DEF rewardVars
<1> DEFINE owed == SumFunctionOnSet([e \in Epochs |-> Unclaimed(e)], Epochs)
<1>2. owed' = owed
  BY <1>1 DEF Unclaimed
<1>3. owed \in Int
  <2>1. IsFiniteSet(Epochs) /\ IsFiniteSet(Users)
    BY EconomyAssumption, AccountFacts
  <2>2. \A e \in Epochs : Unclaimed(e) \in Int
    <3> SUFFICES ASSUME NEW e \in Epochs PROVE Unclaimed(e) \in Int
      OBVIOUS
    <3>1. /\ IsFiniteSet(Users \ rewards[e].claimed)
          /\ \A w \in Users \ rewards[e].claimed : rewards[e].earned[w] \in Int
      BY <2>1, FS_Subset DEF RewardInv, RewardTypeOK
    <3> QED BY <3>1, SumType DEF Unclaimed
  <2> QED BY <2>1, <2>2, SumType
<1>4. balance["rewards"] >= owed
  BY DEF RewardInv, RewardsCovered
<1> HIDE DEF owed
<1>5. RewardsCovered'
  <2>1. balance'["rewards"] >= owed'
    BY <1>2, <1>3, <1>4
  <2> QED BY <2>1 DEF RewardsCovered, owed
<1> QED
  BY <1>1, <1>5 DEF RewardInv, RewardTypeOK

\* The ideas' storage.
LEMMA IdeaUntouched ==
    ASSUME IdeaInv, UNCHANGED ideaVars, balance'["ideas"] = balance["ideas"]
    PROVE  IdeaInv'
<1>1. UNCHANGED <<ideas, milestones, dust>>
  BY DEF ideaVars
<1>2. \A i : Reserved(i)' = Reserved(i)
  BY <1>1 DEF Reserved
<1>3. \A i : Held(i)' = Held(i)
  BY <1>1, <1>2 DEF Held
<1>4. SumFunctionOnSet([i \in Ideas |-> Held(i)], Ideas)' = SumFunctionOnSet([i \in Ideas |-> Held(i)], Ideas)
  BY <1>3
<1> QED
  BY <1>1, <1>3, <1>4 DEF IdeaInv, IdeaTypeOK, IdeasApart

\* The timelock's storage.
LEMMA TimelockUntouched ==
    ASSUME TimelockInv, UNCHANGED timelockVars
    PROVE  TimelockInv'
<1>1. UNCHANGED <<tl, executions, queuedAt>>
  BY DEF timelockVars
<1> QED
  BY <1>1 DEF TimelockInv, TimelockTypeOK, OperationsKept, IsQueued

\* The registries' storage.
LEMMA RegistryUntouched ==
    ASSUME RegistryInv, UNCHANGED registryVars
    PROVE  RegistryInv'
<1>1. UNCHANGED <<cats, profile, receipts>>
  BY DEF registryVars
<1> QED
  BY <1>1 DEF RegistryInv, RegistryTypeOK, ProfilesAgree

-----------------------------------------------------------------------------
(* IntelVesting *)

\* A payment in, a release and a revocation.
LEMMA VestingCallKeeps ==
    ASSUME VestingInv, TokenInv, now \in Nat, now' = now, scene \in DOMAIN MaxCalls, VestingCall
    PROVE  VestingInv' /\ VestingKept /\ TokenInv' /\ Quiet({"vesting"})
<1> DEFINE Kept == VestingInv' /\ VestingKept /\ TokenInv' /\ Quiet({"vesting"})
<1>1. /\ vesting \in [released : 0..Allocation, revoked : BOOLEAN]
      /\ vesting.released \in Nat /\ vesting.released <= VestedAmount(now)
      /\ VestedAmount(now) \in 0..Allocation /\ Allocation \in Nat /\ Cliff \in Nat /\ Blackout \in Nat
  BY VestedGrows, EconomyAssumption DEF VestingInv, VestingTypeOK
<1>2. /\ "vesting" \in Contracts /\ Contracts \subseteq Accounts
      /\ Beneficiary \in Accounts \ Contracts /\ VestingTreasury \in Accounts \ Contracts
      /\ Users \subseteq Accounts \ Contracts
      /\ balance \in [Accounts -> Nat]
  BY AccountFacts, HeldOfSupply
<1>3. ASSUME NEW u \in Users, NEW x \in V, Move(u, "vesting", x), UNCHANGED vesting
      PROVE  Kept
  <2>1. x \in Nat
    BY EconomyAssumption DEF V
  <2>2. /\ TokenInv' /\ balance' \in [Accounts -> Nat]
        /\ \A c \in Accounts \ {u, "vesting"} : balance'[c] = balance[c]
        /\ balance'["vesting"] = balance["vesting"] + x
    BY <1>2, <1>3, <2>1, MoveFits
  <2>3. /\ balance["vesting"] \in Nat /\ balance'["vesting"] \in Nat
        /\ balance'["vesting"] >= balance["vesting"] /\ now' \in Nat /\ now' >= now
    BY <1>2, <2>1, <2>2
  <2>4. VestingInv' /\ VestingKept
    BY <1>3, <2>3, VestingUntouched
  <2> QED BY <1>2, <2>2, <2>4 DEF Quiet
<1>4. ASSUME ReleaseVesting PROVE Kept
  <2> DEFINE due == VestedAmount(now) - vesting.released
  <2>1. due \in Nat /\ due > 0 /\ Releasable = due
    BY <1>1, <1>4 DEF ReleaseVesting, Releasable
  <2>2. /\ Move("vesting", Beneficiary, due)
        /\ vesting' = [vesting EXCEPT !.released = VestedAmount(now)]
    BY <1>1, <1>4, <2>1 DEF ReleaseVesting
  <2>3. /\ TokenInv' /\ balance' \in [Accounts -> Nat]
        /\ \A c \in Accounts \ {"vesting", Beneficiary} : balance'[c] = balance[c]
        /\ balance'["vesting"] = balance["vesting"] - due
    BY <1>2, <2>1, <2>2, MoveFits
  <2>4. ~vesting.revoked
    BY <1>1, <2>1 DEF VestedAmount
  <2>5. /\ vesting' \in [released : 0..Allocation, revoked : BOOLEAN]
        /\ vesting'.released = VestedAmount(now) /\ ~vesting'.revoked
    BY <1>1, <2>2, <2>4
  <2>6. VestedAmount(now)' = VestedAmount(now)
    BY <2>4, <2>5 DEF VestedAmount
  <2>7. VestingInv'
    BY <1>1, <2>5, <2>6 DEF VestingInv, VestingTypeOK
  <2>8. VestingKept
    <3>1. vesting'.released - vesting.released = due /\ balance["vesting"] \in Nat
      BY <1>2, <2>5
    <3> QED BY <1>1, <2>1, <2>3, <2>5, <3>1 DEF VestingKept
  <2> QED BY <1>2, <2>3, <2>7, <2>8 DEF Quiet
<1>5. ASSUME RevokeVesting PROVE Kept
  <2>1. /\ ~vesting.revoked /\ now < Cliff - Blackout
        /\ vesting' = [vesting EXCEPT !.revoked = TRUE]
    BY <1>5 DEF RevokeVesting
  <2>2. vesting.released = 0
    <3>1. now < Cliff
      BY <1>1, <2>1
    <3>2. VestedAmount(now) = 0
      BY <2>1, <3>1 DEF VestedAmount
    <3> QED BY <1>1, <3>2
  <2>3. vesting' \in [released : 0..Allocation, revoked : BOOLEAN] /\ vesting'.released = 0
        /\ vesting'.revoked
    BY <1>1, <2>1, <2>2
  <2>4. VestedAmount(now)' = 0
    BY <2>3 DEF VestedAmount
  <2>5. VestingInv'
    BY <2>3, <2>4 DEF VestingInv, VestingTypeOK
  <2>6. VestingKept
    BY <1>1, <2>1 DEF VestingKept
  <2>7. TokenInv' /\ \A c \in Contracts \ {"vesting"} : balance'[c] = balance[c]
    <3>1. CASE Move("vesting", VestingTreasury, balance["vesting"])
      <4>1. balance["vesting"] \in Nat
        BY <1>2
      <4> QED BY <1>2, <3>1, <4>1, MoveFits
    <3>2. CASE UNCHANGED tokenVars
      BY <3>2 DEF tokenVars, TokenInv, TokenTypeOK, SupplyBacked
    <3> QED BY <1>5, <3>1, <3>2 DEF RevokeVesting
  <2> QED BY <2>5, <2>6, <2>7 DEF Quiet
<1> HIDE DEF Kept
<1>6. Kept
  BY <1>3, <1>4, <1>5 DEF VestingCall
<1> QED
  BY <1>6 DEF Kept

-----------------------------------------------------------------------------
(* IntelTimelockController *)

TlType ==
    [admin : Officers, delay : Nat, proposers : SUBSET Officers, readyAt : [Operations -> Nat]]

\* What makes the invariant hold after a step on one operation.
LEMMA TimelockFits ==
    ASSUME TimelockInv, NEW op \in Operations, NEW r \in Nat, NEW q \in Nat \cup {NotQueued},
           NEW n \in Nat,
           tl' \in TlType, tl'.delay >= MinimumDelay,
           tl'.readyAt = [tl.readyAt EXCEPT ![op] = r],
           executions' = [executions EXCEPT ![op] = n], n = IF r = Executed THEN 1 ELSE 0,
           queuedAt' = [queuedAt EXCEPT ![op] = q],
           (q # NotQueued) = (r > Executed), r > Executed => r >= q + MinimumDelay
    PROVE  TimelockInv'
<1>1. /\ tl.readyAt \in [Operations -> Nat] /\ executions \in [Operations -> Nat]
      /\ queuedAt \in [Operations -> Nat \cup {NotQueued}]
      /\ OperationsKept
  BY DEF TimelockInv, TimelockTypeOK
<1>2. TimelockTypeOK'
  BY <1>1 DEF TimelockTypeOK, TlType
<1>3. \A o \in Operations :
         /\ tl'.readyAt[o] = IF o = op THEN r ELSE tl.readyAt[o]
         /\ executions'[o] = IF o = op THEN n ELSE executions[o]
         /\ queuedAt'[o] = IF o = op THEN q ELSE queuedAt[o]
  BY <1>1
<1>4. OperationsKept'
  <2> SUFFICES ASSUME NEW o \in Operations
               PROVE  /\ executions'[o] = IF tl'.readyAt[o] = Executed THEN 1 ELSE 0
                      /\ (queuedAt'[o] # NotQueued) = (tl'.readyAt[o] > Executed)
                      /\ tl'.readyAt[o] > Executed => tl'.readyAt[o] >= queuedAt'[o] + MinimumDelay
    BY DEF OperationsKept, IsQueued
  <2>1. CASE o = op
    BY <1>3, <2>1
  <2>2. CASE o # op
    BY <1>1, <1>3, <2>2 DEF OperationsKept, IsQueued
  <2> QED BY <2>1, <2>2
<1> QED
  BY <1>2, <1>4 DEF TimelockInv, TlType

\* Queueing, cancelling and executing.
LEMMA TimelockCallKeeps ==
    ASSUME TimelockInv, RolesInv, scene = "timelock", TimelockCall
    PROVE  TimelockInv' /\ UNCHANGED tokenVars
<1>1. PICK op \in Operations :
          Execute(op) \/ \E caller \in Officers : Queue(caller, op) \/ Cancel(caller, op)
  BY DEF TimelockCall
<1>2. /\ tl \in TlType /\ tl.delay \in Nat /\ tl.delay >= MinimumDelay
      /\ tl.readyAt \in [Operations -> Nat] /\ executions \in [Operations -> Nat]
      /\ MinimumDelay \in Nat /\ now \in Nat /\ now > Executed
      /\ executions[op] = IF tl.readyAt[op] = Executed THEN 1 ELSE 0
      /\ Unknown \in Nat /\ Unknown # Executed /\ ~(Unknown > Executed)
      /\ Executed \in Nat /\ ~(Executed > Executed)
  BY TimelockAssumption
  DEF TimelockInv, TimelockTypeOK, OperationsKept, RolesInv, TlType, Unknown, Executed
<1>3. ASSUME NEW caller \in Officers, Queue(caller, op) PROVE TimelockInv'
  <2> DEFINE r == now + tl.delay
  <2>1. /\ tl.readyAt[op] = Unknown
        /\ tl' = [tl EXCEPT !.readyAt = [tl.readyAt EXCEPT ![op] = r]]
        /\ queuedAt' = [queuedAt EXCEPT ![op] = now] /\ executions' = executions
    BY <1>2, <1>3 DEF Queue, TlType
  <2>2. r \in Nat /\ r > Executed /\ r >= now + MinimumDelay /\ r # Executed /\ now # NotQueued
    BY <1>2 DEF Executed, NotQueued
  <2> HIDE DEF r
  <2>3. tl' \in TlType /\ tl'.delay = tl.delay
        /\ tl'.readyAt = [tl.readyAt EXCEPT ![op] = r]
    <3> DEFINE at == [tl.readyAt EXCEPT ![op] = r]
    <3>1. at \in [Operations -> Nat]
      BY <1>2, <2>2
    <3> HIDE DEF at
    <3>2. tl' = [tl EXCEPT !.readyAt = at]
      BY <2>1 DEF at
    <3>3. tl' \in TlType /\ tl'.delay = tl.delay /\ tl'.readyAt = at
      BY <1>2, <3>1, <3>2 DEF TlType
    <3> QED BY <3>3 DEF at
  <2>4. executions' = [executions EXCEPT ![op] = 0]
    BY <1>2, <2>1
  <2> QED BY <1>2, <2>1, <2>2, <2>3, <2>4, TimelockFits
<1>4. ASSUME NEW caller \in Officers, Cancel(caller, op) PROVE TimelockInv'
  <2>1. /\ tl.readyAt[op] > Executed
        /\ tl' = [tl EXCEPT !.readyAt = [tl.readyAt EXCEPT ![op] = Unknown]]
        /\ queuedAt' = [queuedAt EXCEPT ![op] = NotQueued] /\ executions' = executions
    BY <1>2, <1>4 DEF Cancel, IsQueued, TlType
  <2>2. tl' \in TlType /\ tl'.delay = tl.delay
        /\ tl'.readyAt = [tl.readyAt EXCEPT ![op] = Unknown]
    <3> DEFINE at == [tl.readyAt EXCEPT ![op] = Unknown]
    <3>1. at \in [Operations -> Nat]
      BY <1>2
    <3> HIDE DEF at
    <3>2. tl' = [tl EXCEPT !.readyAt = at]
      BY <2>1 DEF at
    <3>3. tl' \in TlType /\ tl'.delay = tl.delay /\ tl'.readyAt = at
      BY <1>2, <3>1, <3>2 DEF TlType
    <3> QED BY <3>3 DEF at
  <2>3. executions' = [executions EXCEPT ![op] = 0]
    BY <1>2, <2>1 DEF Executed
  <2>4. /\ (NotQueued # NotQueued) = (Unknown > Executed)
        /\ Unknown > Executed => Unknown >= NotQueued + MinimumDelay
        /\ 0 = (IF Unknown = Executed THEN 1 ELSE 0) /\ 0 \in Nat /\ NotQueued \in Nat \cup {NotQueued}
    BY <1>2
  <2> QED BY <1>2, <2>1, <2>2, <2>3, <2>4, TimelockFits
<1>5. ASSUME Execute(op) PROVE TimelockInv'
  <2> DEFINE at == [tl.readyAt EXCEPT ![op] = Executed]
             done == [tl EXCEPT !.readyAt = at]
  <2>1. /\ tl.readyAt[op] > Executed /\ tl' \in Effects(op)
        /\ queuedAt' = [queuedAt EXCEPT ![op] = NotQueued]
        /\ executions' = [executions EXCEPT ![op] = @ + 1]
    BY <1>5 DEF Execute, IsQueued
  <2>2. [tl EXCEPT !.readyAt[op] = Executed] = done
    BY <1>2 DEF TlType
  <2>3. at \in [Operations -> Nat]
    BY <1>2
  <2> HIDE DEF at
  <2>4. done \in TlType /\ done.delay = tl.delay /\ done.readyAt = at
        /\ done.proposers \subseteq Officers
    BY <1>2, <2>3 DEF TlType
  <2> HIDE DEF done
  <2>5. tl' \in TlType /\ tl'.delay >= MinimumDelay /\ tl'.readyAt = at
    <3>1. CASE op.call = "delay"
      <4>2. ~(op.delay < MinimumDelay) /\ tl' = [done EXCEPT !.delay = op.delay]
        BY <2>1, <2>2, <3>1 DEF Effects
      <4>3. op.delay \in Nat
        BY <3>1, EconomyAssumption
      <4>1. op.delay >= MinimumDelay /\ tl' = [done EXCEPT !.delay = op.delay] /\ op.delay \in Nat
        BY <1>2, <4>2, <4>3
      <4> QED BY <2>4, <4>1 DEF TlType
    <3>2. CASE op.call = "proposer"
      <4> DEFINE ps == IF op.approved THEN done.proposers \cup {op.who} ELSE done.proposers \ {op.who}
      <4>1. tl' = [done EXCEPT !.proposers = ps] /\ op.who \in Officers
        BY <2>1, <2>2, <3>2, EconomyAssumption DEF Effects
      <4>2. ps \subseteq Officers
        BY <2>4, <4>1
      <4> HIDE DEF ps
      <4> QED BY <1>2, <2>4, <4>1, <4>2 DEF TlType
    <3>3. CASE op.call = "admin"
      <4>1. tl' = [done EXCEPT !.admin = op.who] /\ op.who \in Officers
        BY <2>1, <2>2, <3>3, EconomyAssumption DEF Effects
      <4> QED BY <1>2, <2>4, <4>1 DEF TlType
    <3>4. CASE op.call \notin {"delay", "proposer", "admin"}
      <4>1. tl' = done
        BY <2>1, <2>2, <3>4 DEF Effects
      <4> QED BY <1>2, <2>4, <4>1
    <3> QED BY <3>1, <3>2, <3>3, <3>4
  <2>6. executions' = [executions EXCEPT ![op] = 1]
    <3>1. tl.readyAt[op] \in Nat /\ tl.readyAt[op] # Executed
      BY <1>2, <2>1
    <3>2. executions[op] = 0
      BY <1>2, <3>1
    <3>3. executions[op] + 1 = 1
      BY <3>2
    <3> QED BY <2>1, <3>3
  <2>7. tl'.readyAt = [tl.readyAt EXCEPT ![op] = Executed]
    BY <2>5 DEF at
  <2>8. /\ (NotQueued # NotQueued) = (Executed > Executed)
        /\ Executed > Executed => Executed >= NotQueued + MinimumDelay
        /\ 1 = (IF Executed = Executed THEN 1 ELSE 0) /\ 1 \in Nat /\ NotQueued \in Nat \cup {NotQueued}
    BY <1>2
  <2> QED BY <1>2, <2>1, <2>5, <2>6, <2>7, <2>8, TimelockFits
<1> QED
  BY <1>1, <1>3, <1>4, <1>5 DEF TimelockCall

-----------------------------------------------------------------------------
(* CategoryRegistry and WorkReceipt1155 *)

CategoryType == [weight : 0..BPSTotal, aiu : Nat, volume : Nat, active : BOOLEAN]

ProfileType == [aiu : [Categories -> Nat], jobs : [Categories -> Nat], primary : Categories]

\* A call that changes neither the weights nor what was earned.
LEMMA SameStanding ==
    ASSUME RegistryInv, UNCHANGED profile, cats' \in [Categories -> CategoryType],
           \A c \in Categories : cats'[c].weight = cats[c].weight /\ cats'[c].aiu = cats[c].aiu
    PROVE  RegistryInv'
<1>1. SumFunctionOnSet([c \in Categories |-> cats[c].weight], Categories)'
        = SumFunctionOnSet([c \in Categories |-> cats[c].weight], Categories)
  <2>1. [c \in Categories |-> cats'[c].weight] = [c \in Categories |-> cats[c].weight]
    OBVIOUS
  <2> QED BY <2>1
<1> QED
  BY <1>1 DEF RegistryInv, RegistryTypeOK, ProfilesAgree, CategoryType

\* A completion adds to the agent's profile and to the category.
LEMMA CompletionKeeps ==
    ASSUME RegistryInv, NEW caller, NEW a \in Agents, NEW c \in Categories, NEW score \in Nat,
           RecordCategoryCompletion(caller, a, c, score)
    PROVE  RegistryInv'
<1> DEFINE p == profile[a]
           aiu == [p.aiu EXCEPT ![c] = @ + score]
           jobs == [p.jobs EXCEPT ![c] = @ + 1]
           primary == PrimaryAfter(p, c, score)
           earned == cats[c].aiu + score
<1>1. /\ cats \in [Categories -> CategoryType] /\ profile \in [Agents -> ProfileType]
      /\ p \in ProfileType /\ p.aiu \in [Categories -> Nat] /\ p.jobs \in [Categories -> Nat]
      /\ p.primary \in Categories /\ cats[c] \in CategoryType /\ cats[c].aiu \in Nat
      /\ IsFiniteSet(Agents) /\ IsFiniteSet(Categories)
  BY EconomyAssumption DEF RegistryInv, RegistryTypeOK, CategoryType, ProfileType
<1>2. /\ \A d \in Categories :
            cats[d].aiu = SumFunctionOnSet([b \in Agents |-> profile[b].aiu[d]], Agents)
      /\ \A b \in Agents, d \in Categories : profile[b].aiu[d] <= profile[b].aiu[profile[b].primary]
      /\ SumFunctionOnSet([d \in Categories |-> cats[d].weight], Categories) = BPSTotal
  BY DEF RegistryInv, ProfilesAgree
<1>3. /\ aiu \in [Categories -> Nat] /\ jobs \in [Categories -> Nat] /\ primary \in Categories
      /\ aiu[c] = p.aiu[c] + score /\ \A d \in Categories \ {c} : aiu[d] = p.aiu[d]
      /\ earned \in Nat
  BY <1>1 DEF PrimaryAfter
<1>4. \A d \in Categories : aiu[d] <= aiu[primary]
  <2>1. \A d \in Categories : p.aiu[d] <= p.aiu[p.primary] /\ p.aiu[d] \in Nat
    BY <1>1, <1>2
  <2>2. CASE p.aiu[c] + score > p.aiu[p.primary]
    <3>1. primary = c
      BY <2>2 DEF PrimaryAfter
    <3>2. \A d \in Categories : aiu[d] \in Nat
      BY <1>3
    <3> HIDE DEF aiu, primary, p
    <3>3. aiu[c] > p.aiu[p.primary] /\ p.aiu[p.primary] \in Nat
      BY <1>1, <1>3, <2>1, <2>2
    <3> QED BY <1>3, <2>1, <3>1, <3>2, <3>3
  <2>3. CASE ~(p.aiu[c] + score > p.aiu[p.primary])
    <3>1. primary = p.primary
      BY <2>3 DEF PrimaryAfter
    <3> HIDE DEF aiu, primary
    <3>2. aiu[primary] >= p.aiu[p.primary]
      BY <1>1, <1>3, <2>1, <3>1
    <3>3. \A d \in Categories : aiu[d] \in Nat
      BY <1>3
    <3> QED BY <1>1, <1>3, <2>1, <2>3, <3>1, <3>2, <3>3
  <2> QED BY <2>2, <2>3
<1>12. profile' = [profile EXCEPT ![a] = [aiu |-> aiu, jobs |-> jobs, primary |-> primary]]
  BY DEF RecordCategoryCompletion
<1>13. cats' = [cats EXCEPT ![c] = [cats[c] EXCEPT !.aiu = earned]]
  BY <1>1 DEF RecordCategoryCompletion, CategoryType
<1>5. /\ profile' = [profile EXCEPT ![a] = [aiu |-> aiu, jobs |-> jobs, primary |-> primary]]
      /\ cats' = [cats EXCEPT ![c] = [cats[c] EXCEPT !.aiu = earned]]
  BY <1>12, <1>13
<1> HIDE DEF aiu, jobs, primary, earned
<1> DEFINE q == [aiu |-> aiu, jobs |-> jobs, primary |-> primary]
           k == [cats[c] EXCEPT !.aiu = earned]
<1>6. /\ q \in ProfileType /\ q.aiu = aiu /\ q.primary = primary
      /\ k \in CategoryType /\ k.aiu = earned /\ k.weight = cats[c].weight
  BY <1>1, <1>3 DEF ProfileType, CategoryType
<1>7. profile' = [profile EXCEPT ![a] = q] /\ cats' = [cats EXCEPT ![c] = k]
  BY <1>5
<1> HIDE DEF q, k
<1>8. /\ profile' \in [Agents -> ProfileType] /\ cats' \in [Categories -> CategoryType]
      /\ profile'[a] = q /\ \A b \in Agents \ {a} : profile'[b] = profile[b]
      /\ cats'[c] = k /\ \A d \in Categories \ {c} : cats'[d] = cats[d]
  BY <1>1, <1>6, <1>7
<1>9. SumFunctionOnSet([d \in Categories |-> cats'[d].weight], Categories) = BPSTotal
  <2>1. \A d \in Categories : cats'[d].weight = cats[d].weight
    BY <1>6, <1>8
  <2>2. [d \in Categories |-> cats'[d].weight] = [d \in Categories |-> cats[d].weight]
    BY <2>1
  <2> QED BY <1>2, <2>2
<1>10. ASSUME NEW d \in Categories
       PROVE  cats'[d].aiu = SumFunctionOnSet([b \in Agents |-> profile'[b].aiu[d]], Agents)
  <2> DEFINE old == [b \in Agents |-> profile[b].aiu[d]]
             new == [b \in Agents |-> profile'[b].aiu[d]]
  <2>1. \A b \in Agents : profile[b].aiu[d] \in Nat /\ profile'[b].aiu[d] \in Nat
    BY <1>1, <1>8 DEF ProfileType
  <2>2. /\ \A b \in Agents : old[b] \in Int /\ new[b] \in Int /\ old[b] \in Nat
        /\ \A b \in Agents \ {a} : new[b] = old[b]
        /\ old[a] = p.aiu[d] /\ new[a] = aiu[d]
    BY <1>6, <1>8, <2>1
  <2>5. cats[d].aiu = SumFunctionOnSet(old, Agents)
    BY <1>2
  <2> HIDE DEF old, new
  <2>3. SumFunctionOnSet(new, Agents) = SumFunctionOnSet(old, Agents) - old[a] + new[a]
    BY <1>1, <2>2, SumOfOneChange
  <2>4. SumFunctionOnSet(old, Agents) \in Nat
    BY <1>1, <2>2, SumOfNaturals
  <2>6. CASE d = c
    BY <1>3, <1>6, <1>8, <2>2, <2>3, <2>4, <2>5, <2>6 DEF earned, new
  <2>7. CASE d # c
    BY <1>3, <1>8, <2>2, <2>3, <2>4, <2>5, <2>7 DEF new
  <2> QED BY <2>6, <2>7
<1>11. ASSUME NEW b \in Agents, NEW d \in Categories
       PROVE  profile'[b].aiu[d] <= profile'[b].aiu[profile'[b].primary]
  BY <1>2, <1>4, <1>6, <1>8
<1> QED
  BY <1>8, <1>9, <1>10, <1>11
  DEF RegistryInv, RegistryTypeOK, ProfilesAgree, CategoryType, ProfileType

\* The others' new weights, and what is left to the first of them, are naturals.
LEMMA RebalancedIsNatural ==
    ASSUME RegistryInv, NEW c \in Categories, NEW new \in Nat, new <= BPSTotal
    PROVE  \A d \in Categories : Rebalanced(c, new)[d] \in Nat
<1> DEFINE others == Categories \ {c}
           left == BPSTotal - new
           oldLeft == BPSTotal - cats[c].weight
           Part(d) == IF oldLeft > 0 THEN (cats[d].weight * left) \div oldLeft
                      ELSE left \div Cardinality(others)
           parts == [d \in others |-> Part(d)]
           rounding == left - SumFunctionOnSet(parts, others)
           weights == [d \in Categories |-> cats[d].weight]
<1>1. /\ IsFiniteSet(Categories) /\ BPSTotal \in Nat
      /\ \A d \in Categories : cats[d].weight \in 0..BPSTotal /\ weights[d] \in Int
      /\ \A d \in Categories : cats[d].weight \in Nat
      /\ SumFunctionOnSet(weights, Categories) = BPSTotal
  <2>1. IsFiniteSet(Categories) /\ BPSTotal \in Nat
    BY EconomyAssumption
  <2>2. \A d \in Categories : cats[d].weight \in 0..BPSTotal
    BY DEF RegistryInv, RegistryTypeOK
  <2>3. SumFunctionOnSet(weights, Categories) = BPSTotal
    BY DEF RegistryInv, ProfilesAgree
  <2> QED BY <2>1, <2>2, <2>3
<1>2. IsFiniteSet(others) /\ others \subseteq Categories /\ left \in Nat /\ oldLeft \in Nat
  BY <1>1, FS_Subset
<1>3. SumFunctionOnSet(weights, others) = oldLeft
  <2> HIDE DEF weights
  <2>1. SumFunctionOnSet(weights, Categories) = weights[c] + SumFunctionOnSet(weights, others)
    BY <1>1, SumTakesOut
  <2>2. SumFunctionOnSet(weights, others) \in Int
    BY <1>1, <1>2, SumType
  <2>3. weights[c] = cats[c].weight
    BY DEF weights
  <2> QED BY <1>1, <2>1, <2>2, <2>3
<1>4. /\ \A d \in others : parts[d] \in Nat
      /\ SumFunctionOnSet(parts, others) \in Nat /\ SumFunctionOnSet(parts, others) <= left
  <2>1. CASE oldLeft > 0
    <3>1. \A d \in others : weights[d] \in Nat /\ parts[d] = (left * weights[d]) \div oldLeft
      <4> SUFFICES ASSUME NEW d \in others
                   PROVE  weights[d] \in Nat /\ parts[d] = (left * weights[d]) \div oldLeft
        OBVIOUS
      <4>1. weights[d] = cats[d].weight /\ weights[d] \in Nat
        BY <1>1
      <4>2. parts[d] = (weights[d] * left) \div oldLeft
        BY <2>1, <4>1
      <4>3. weights[d] * left = left * weights[d]
        BY <1>2, <4>1
      <4> QED BY <4>1, <4>2, <4>3
    <3>2. oldLeft \in Nat \ {0} /\ SumFunctionOnSet(weights, others) <= oldLeft
      BY <1>2, <1>3, <2>1
    <3> HIDE DEF others, left, oldLeft, parts, weights
    <3> QED BY <1>2, <3>1, <3>2, PartsFit
  <2>2. CASE oldLeft = 0 /\ others # {}
    <3> DEFINE n == Cardinality(others)
               each == left \div n
    <3>1. n \in Nat \ {0}
      BY <1>2, <2>2, FS_CardinalityType, FS_EmptySet
    <3>2. \A d \in others : parts[d] = each
      BY <2>2
    <3> HIDE DEF n
    <3>3. each \in Nat /\ n * each <= left
      BY <1>2, <3>1, Quotient
    <3> HIDE DEF each, parts, others
    <3>4. SumFunctionOnSet(parts, others) = each * n
      <4>1. \A d \in others : parts[d] = IF d \in others THEN each ELSE 0
        BY <3>2
      <4>2. others \in SUBSET others /\ each \in Int
        BY <3>3
      <4> QED BY <1>2, <4>1, <4>2, SumOfBatch DEF n
    <3>5. each * n = n * each /\ each * n \in Nat
      BY <3>1, <3>3
    <3> QED BY <3>2, <3>3, <3>4, <3>5
  <2>3. CASE others = {}
    <3>1. SumFunctionOnSet(parts, others) = 0
      BY <2>3, SumOfNothing
    <3> HIDE DEF parts
    <3> QED BY <1>2, <2>3, <3>1
  <2> QED BY <1>2, <2>1, <2>2, <2>3
<1>5. rounding \in Nat
  <2> HIDE DEF parts, others, left
  <2> QED BY <1>2, <1>4
<1>6. \A d \in Categories : Rebalanced(c, new)[d] =
         IF d = c THEN new ELSE Part(d) + (IF d = Min(others) THEN rounding ELSE 0)
  BY DEF Rebalanced
<1>7. \A d \in others : Part(d) \in Nat
  BY <1>4
<1> HIDE DEF Part, rounding
<1> QED
  BY <1>5, <1>6, <1>7

\* A new weight is accepted when all of them add up, and they are then in range.
LEMMA WeightKeeps ==
    ASSUME RegistryInv, NEW caller, NEW c \in Categories, NEW new \in Nat,
           SetCategoryWeight(caller, c, new)
    PROVE  RegistryInv'
<1> DEFINE w == Rebalanced(c, new)
<1>1. /\ new <= BPSTotal /\ SumFunctionOnSet(w, Categories) = BPSTotal
      /\ cats' = [d \in Categories |-> [cats[d] EXCEPT !.weight = w[d]]]
      /\ profile' = profile
  BY DEF SetCategoryWeight
<1>2. \A d \in Categories : w[d] \in Nat
  BY <1>1, RebalancedIsNatural
<1>3. /\ IsFiniteSet(Categories) /\ BPSTotal \in Nat
      /\ cats \in [Categories -> CategoryType]
  BY EconomyAssumption DEF RegistryInv, RegistryTypeOK, CategoryType
<1> HIDE DEF w
<1>4. \A d \in Categories : w[d] \in 0..BPSTotal
  BY <1>1, <1>2, <1>3, SumOfNaturals
<1>5. \A d \in Categories : /\ cats'[d] \in CategoryType
                            /\ cats'[d].weight = w[d] /\ cats'[d].aiu = cats[d].aiu
  <2> SUFFICES ASSUME NEW d \in Categories
               PROVE  /\ cats'[d] \in CategoryType
                      /\ cats'[d].weight = w[d] /\ cats'[d].aiu = cats[d].aiu
    OBVIOUS
  <2>1. cats[d] \in CategoryType /\ cats'[d] = [cats[d] EXCEPT !.weight = w[d]]
    BY <1>1, <1>3
  <2> QED BY <1>4, <2>1 DEF CategoryType
<1>6. cats' \in [Categories -> CategoryType]
  BY <1>1, <1>5
<1>7. SumFunctionOnSet([d \in Categories |-> cats'[d].weight], Categories) = BPSTotal
  <2> DEFINE v == [d \in Categories |-> cats'[d].weight]
  <2>1. \A d \in Categories : v[d] = w[d]
    BY <1>5
  <2> HIDE DEF v
  <2>2. SumFunctionOnSet(v, Categories) = SumFunctionOnSet(w, Categories)
    BY <1>3, <2>1, SumOfEquals
  <2> QED BY <1>1, <2>2 DEF v
<1>8. ProfilesAgree'
  <2>1. \A d \in Categories :
           cats'[d].aiu = SumFunctionOnSet([a \in Agents |-> profile'[a].aiu[d]], Agents)
    BY <1>1, <1>5 DEF RegistryInv, ProfilesAgree
  <2>2. \A a \in Agents, d \in Categories :
           profile'[a].aiu[d] <= profile'[a].aiu[profile'[a].primary]
    BY <1>1 DEF RegistryInv, ProfilesAgree
  <2> QED BY <1>7, <2>1, <2>2 DEF ProfilesAgree
<1>9. RegistryTypeOK'
  BY <1>1, <1>6 DEF RegistryInv, RegistryTypeOK, CategoryType
<1> QED
  BY <1>8, <1>9 DEF RegistryInv

\* The calls on the registries.
LEMMA RegistryKeeps ==
    ASSUME RegistryInv, scene \in DOMAIN MaxCalls, RegistryCall \/ RegistryAdmin
    PROVE  RegistryInv'
<1>1. cats \in [Categories -> CategoryType]
  BY DEF RegistryInv, RegistryTypeOK, CategoryType
<1>2. \A x \in V : x \in Nat
  BY EconomyAssumption DEF V
<1>3. CASE RegistryCall
  <2>1. PICK caller \in Officers :
          \/ \E a \in Agents, c \in Categories, x \in V :
                \/ RecordCategoryCompletion(caller, a, c, x)
                \/ UpdateEpochVolume(caller, c, x)
          \/ \E a \in Agents, t \in Tasks : MintReceipt(caller, a, t, 100)
    BY <1>3 DEF RegistryCall
  <2>2. ASSUME NEW a \in Agents, NEW c \in Categories, NEW x \in V,
               RecordCategoryCompletion(caller, a, c, x)
        PROVE  RegistryInv'
    BY <1>2, <2>2, CompletionKeeps
  <2>3. ASSUME NEW c \in Categories, NEW x \in V, UpdateEpochVolume(caller, c, x)
        PROVE  RegistryInv'
    <3>1. cats' = [cats EXCEPT ![c] = [cats[c] EXCEPT !.volume = x]] /\ UNCHANGED profile
      BY <1>1, <2>3 DEF UpdateEpochVolume
    <3> DEFINE k == [cats[c] EXCEPT !.volume = x]
    <3>2. k \in CategoryType /\ k.weight = cats[c].weight /\ k.aiu = cats[c].aiu
      BY <1>1, <1>2 DEF CategoryType
    <3> HIDE DEF k
    <3>3. cats' = [cats EXCEPT ![c] = k]
      BY <3>1 DEF k
    <3> QED BY <1>1, <3>1, <3>2, <3>3, SameStanding
  <2>4. ASSUME NEW a \in Agents, NEW t \in Tasks, MintReceipt(caller, a, t, 100)
        PROVE  RegistryInv'
    BY <1>1, <2>4, SameStanding DEF MintReceipt
  <2> QED BY <2>1, <2>2, <2>3, <2>4
<1>4. CASE RegistryAdmin
  <2>1. PICK caller \in Officers, c \in Categories :
          \/ \E w \in {1, 70, BPSTotal} : SetCategoryWeight(caller, c, w)
          \/ \E active \in BOOLEAN : SetCategoryActive(caller, c, active)
    BY <1>4 DEF RegistryAdmin
  <2>2. ASSUME NEW w \in {1, 70, BPSTotal}, SetCategoryWeight(caller, c, w)
        PROVE  RegistryInv'
    <3>1. w \in Nat
      BY EconomyAssumption
    <3> QED BY <2>2, <3>1, WeightKeeps
  <2>3. ASSUME NEW active \in BOOLEAN, SetCategoryActive(caller, c, active)
        PROVE  RegistryInv'
    <3> DEFINE k == [cats[c] EXCEPT !.active = active]
    <3>1. k \in CategoryType /\ k.weight = cats[c].weight /\ k.aiu = cats[c].aiu
      BY <1>1, <2>3 DEF CategoryType
    <3>2. cats' = [cats EXCEPT ![c] = k] /\ UNCHANGED profile
      BY <1>1, <2>3 DEF SetCategoryActive
    <3> HIDE DEF k
    <3> QED BY <1>1, <3>1, <3>2, SameStanding
  <2> QED BY <2>1, <2>2, <2>3
<1> QED
  BY <1>3, <1>4

-----------------------------------------------------------------------------
(* IdeaEscrow *)

IdeaType == [poster : Users \cup {NoOne}, total : Nat, available : Nat, exists : BOOLEAN]

MilestoneType ==
    [amount : Nat, idea : Ideas \cup {NoOne},
     status : {"None", "Reserved", "Released", "Refunded"}]

\* What the ideas hold are naturals, also what is reserved of each.
LEMMA IdeaFacts ==
    ASSUME IdeaInv
    PROVE  /\ ideas \in [Ideas -> IdeaType] /\ milestones \in [Milestones -> MilestoneType]
           /\ IsFiniteSet(Ideas) /\ IsFiniteSet(Milestones)
           /\ \A i \in Ideas :
                 /\ Reserved(i) \subseteq Milestones /\ IsFiniteSet(Reserved(i))
                 /\ SumFunctionOnSet([m \in Milestones |-> milestones[m].amount], Reserved(i)) \in Nat
                 /\ Held(i) \in Nat /\ Held(i) <= ideas[i].total /\ ideas[i].available \in Nat
                 /\ Held(i) >= ideas[i].available
<1>1. /\ ideas \in [Ideas -> IdeaType] /\ milestones \in [Milestones -> MilestoneType]
      /\ IsFiniteSet(Ideas) /\ IsFiniteSet(Milestones)
  BY EconomyAssumption DEF IdeaInv, IdeaTypeOK, IdeaType, MilestoneType
<1>2. ASSUME NEW i \in Ideas
      PROVE  /\ Reserved(i) \subseteq Milestones /\ IsFiniteSet(Reserved(i))
             /\ SumFunctionOnSet([m \in Milestones |-> milestones[m].amount], Reserved(i)) \in Nat
             /\ Held(i) \in Nat /\ Held(i) <= ideas[i].total /\ ideas[i].available \in Nat
             /\ Held(i) >= ideas[i].available
  <2> DEFINE f == [m \in Milestones |-> milestones[m].amount]
  <2>1. Reserved(i) \subseteq Milestones
    BY DEF Reserved
  <2>2. IsFiniteSet(Reserved(i))
    BY <1>1, <2>1, FS_Subset
  <2>3. \A m \in Reserved(i) : f[m] \in Nat
    BY <1>1, <2>1 DEF MilestoneType
  <2>6. Held(i) = ideas[i].available + SumFunctionOnSet(f, Reserved(i))
    BY DEF Held
  <2>7. /\ SumFunctionOnSet(f, Reserved(i)) \in Nat
    <3> HIDE DEF f
    <3> QED BY <2>2, <2>3, SumOfNaturals
  <2>4. ideas[i].available \in Nat
    BY <1>1 DEF IdeaType
  <2>5. Held(i) <= ideas[i].total
    BY DEF IdeaInv, IdeasApart
  <2> HIDE DEF f
  <2>8. Held(i) \in Nat /\ Held(i) >= ideas[i].available
    BY <2>4, <2>6, <2>7
  <2> QED BY <2>1, <2>2, <2>4, <2>5, <2>7, <2>8 DEF f
<1> QED
  BY <1>1, <1>2

\* What makes the invariant hold after a step on one idea.
LEMMA IdeaFits ==
    ASSUME IdeaInv, TokenInv, NEW i \in Ideas, NEW idea \in IdeaType, NEW h \in Nat, NEW d \in Nat,
           ideas' = [ideas EXCEPT ![i] = idea],
           milestones' \in [Milestones -> MilestoneType],
           dust' = d, Held(i)' = h, h <= idea.total, idea.exists \/ idea.total = 0,
           \A j \in Ideas \ {i} : Held(j)' = Held(j),
           balance'["ideas"] = balance["ideas"] + (h - Held(i)) + (d - dust)
    PROVE  IdeaInv'
<1> DEFINE old == [j \in Ideas |-> Held(j)]
           new == [j \in Ideas |-> Held(j)']
<1>1. /\ ideas \in [Ideas -> IdeaType] /\ IsFiniteSet(Ideas)
      /\ \A j \in Ideas : Held(j) \in Nat /\ Held(j) <= ideas[j].total
      /\ dust \in Nat /\ balance["ideas"] = SumFunctionOnSet(old, Ideas) + dust
      /\ \A j \in Ideas : ~ideas[j].exists => ideas[j].total = 0
  BY IdeaFacts DEF IdeaInv, IdeasApart
<1>2. /\ ideas' \in [Ideas -> IdeaType] /\ ideas'[i] = idea
      /\ \A j \in Ideas \ {i} : ideas'[j] = ideas[j]
  BY <1>1
<1>3. /\ \A j \in Ideas : old[j] \in Int /\ old[j] \in Nat /\ new[j] \in Int
      /\ \A j \in Ideas \ {i} : new[j] = old[j]
      /\ old[i] = Held(i) /\ new[i] = h
  BY <1>1
<1>4. SumFunctionOnSet([j \in Ideas |-> Held(j)], Ideas)' = SumFunctionOnSet(new, Ideas)
  OBVIOUS
<1> HIDE DEF old, new
<1>5. /\ SumFunctionOnSet(new, Ideas) = SumFunctionOnSet(old, Ideas) - old[i] + new[i]
      /\ SumFunctionOnSet(old, Ideas) \in Nat
  BY <1>1, <1>3, SumOfOneChange, SumOfNaturals
<1>6. balance'["ideas"] = SumFunctionOnSet(new, Ideas) + d
  BY <1>1, <1>3, <1>5
<1>7. \A j \in Ideas : Held(j)' <= ideas'[j].total
  BY <1>1, <1>2
<1>8. IdeasApart'
  BY <1>4, <1>6, <1>7 DEF IdeasApart
<1>9. \A j \in Ideas : ~ideas'[j].exists => ideas'[j].total = 0
  BY <1>1, <1>2
<1> QED
  BY <1>2, <1>8, <1>9 DEF IdeaInv, IdeaTypeOK, IdeaType, MilestoneType

\* What an idea holds after a step, by the amounts of its milestones.
LEMMA HeldAfter ==
    ASSUME NEW i \in Ideas, NEW S \in SUBSET Milestones, IsFiniteSet(Milestones),
           Reserved(i)' = S, NEW g, \A m \in S : milestones'[m].amount = g[m]
    PROVE  Held(i)' = ideas'[i].available + SumFunctionOnSet(g, S)
<1> DEFINE f == [m \in Milestones |-> milestones'[m].amount]
<1>1. Held(i)' = ideas'[i].available + SumFunctionOnSet(f, S)
  BY DEF Held
<1>2. IsFiniteSet(S) /\ \A m \in S : f[m] = g[m]
  BY FS_Subset
<1> HIDE DEF f
<1>3. SumFunctionOnSet(f, S) = SumFunctionOnSet(g, S)
  BY <1>2, SumOfEquals
<1> QED
  BY <1>1, <1>3

\* The other ideas keep what they hold when their milestones and what is available
\* of them stay.
LEMMA HeldSame ==
    ASSUME IdeaInv, NEW j \in Ideas, ideas'[j].available = ideas[j].available,
           Reserved(j)' = Reserved(j),
           \A m \in Reserved(j) : milestones'[m].amount = milestones[m].amount
    PROVE  Held(j)' = Held(j)
<1> DEFINE f == [m \in Milestones |-> milestones[m].amount]
<1>1. IsFiniteSet(Milestones) /\ Reserved(j) \in SUBSET Milestones
  BY IdeaFacts
<1>2. \A m \in Reserved(j) : milestones'[m].amount = f[m]
  BY <1>1
<1>4. Held(j) = ideas[j].available + SumFunctionOnSet(f, Reserved(j))
  BY DEF Held
<1> HIDE DEF f
<1>3. Held(j)' = ideas'[j].available + SumFunctionOnSet(f, Reserved(j))
  BY <1>1, <1>2, HeldAfter
<1> QED
  BY <1>3, <1>4

\* A poster funds an idea that was not there.
LEMMA FundKeeps ==
    ASSUME IdeaInv, TokenInv, NEW u \in Users, NEW i \in Ideas, NEW x \in Nat, FundIdea(u, i, x)
    PROVE  IdeaInv' /\ TokenInv' /\ Quiet({"ideas"})
<1> DEFINE idea == [poster |-> u, total |-> x, available |-> x, exists |-> TRUE]
<1>1. /\ ~ideas[i].exists /\ Move(u, "ideas", x) /\ ideas' = [ideas EXCEPT ![i] = idea]
      /\ UNCHANGED <<milestones, dust>>
  BY DEF FundIdea
<1>2. /\ ideas \in [Ideas -> IdeaType] /\ milestones \in [Milestones -> MilestoneType]
      /\ Held(i) \in Nat /\ Held(i) <= ideas[i].total /\ Held(i) >= ideas[i].available
      /\ ideas[i].available \in Nat /\ ideas[i].total = 0 /\ dust \in Nat
  BY <1>1, IdeaFacts DEF IdeaInv
<1>3. Held(i) = 0 /\ ideas[i].available = 0
  BY <1>2
<1>4. idea \in IdeaType /\ idea.total = x /\ idea.exists /\ idea.available = x
  BY DEF IdeaType
<1> HIDE DEF idea
<1>5. ideas'[i] = idea /\ \A j \in Ideas \ {i} : ideas'[j] = ideas[j]
  BY <1>1, <1>2
<1>6. \A j \in Ideas : Reserved(j)' = Reserved(j)
  BY <1>1 DEF Reserved
<1>7. \A j \in Ideas \ {i} : Held(j)' = Held(j)
  BY <1>1, <1>5, <1>6, HeldSame
<1>8. Held(i)' = x
  <2> DEFINE f == [m \in Milestones |-> milestones[m].amount]
  <2>1. Held(i) = ideas[i].available + SumFunctionOnSet(f, Reserved(i))
    BY DEF Held
  <2>2. Held(i)' = ideas'[i].available + SumFunctionOnSet(f, Reserved(i))
    BY <1>1, <1>6 DEF Held
  <2>3. SumFunctionOnSet(f, Reserved(i)) \in Nat
    BY IdeaFacts
  <2> HIDE DEF f
  <2> QED BY <1>3, <1>4, <1>5, <2>1, <2>2, <2>3
<1>9. "ideas" \in Contracts /\ Contracts \subseteq Accounts /\ u \in Accounts \ Contracts
  BY AccountFacts
<1>10. /\ TokenInv' /\ balance \in [Accounts -> Nat] /\ balance' \in [Accounts -> Nat]
       /\ \A c \in Accounts \ {u, "ideas"} : balance'[c] = balance[c]
       /\ balance'["ideas"] = balance["ideas"] + x
  BY <1>1, <1>9, MoveFits
<1>11. balance'["ideas"] = balance["ideas"] + (x - Held(i)) + (dust - dust)
  BY <1>2, <1>3, <1>9, <1>10
<1>12. IdeaInv'
  <2>1. /\ milestones' \in [Milestones -> MilestoneType] /\ dust' = dust /\ x <= idea.total
        /\ idea.exists \/ idea.total = 0
    BY <1>1, <1>2, <1>4
  <2> QED BY <1>1, <1>2, <1>4, <1>7, <1>8, <1>11, <2>1, IdeaFits
<1> QED
  BY <1>9, <1>10, <1>12 DEF Quiet

\* A poster reserves milestones out of what is available.
LEMMA ReserveKeeps ==
    ASSUME IdeaInv, TokenInv, NEW caller, NEW i \in Ideas, NEW ms \in SUBSET Milestones,
           NEW amounts \in [ms -> Nat], ReserveMilestones(caller, i, amounts)
    PROVE  IdeaInv'
<1> DEFINE total == SumFunctionOnSet(amounts, ms)
           available == ideas[i].available - total
           idea == [ideas[i] EXCEPT !.available = available]
           f == [m \in Milestones |-> milestones[m].amount]
           old == Reserved(i)
<1>1. /\ ideas[i].exists /\ ideas[i].available >= total
      /\ \A m \in ms : amounts[m] > 0 /\ milestones[m].status = "None"
      /\ ideas' = [ideas EXCEPT ![i].available = @ - total]
      /\ milestones' = [m \in Milestones |->
                           IF m \in ms THEN [amount |-> amounts[m], status |-> "Reserved", idea |-> i]
                           ELSE milestones[m]]
      /\ UNCHANGED <<dust, tokenVars>>
  BY DEF ReserveMilestones, IsPoster
<1>2. /\ ideas \in [Ideas -> IdeaType] /\ milestones \in [Milestones -> MilestoneType]
      /\ ideas[i] \in IdeaType /\ IsFiniteSet(Milestones)
      /\ Held(i) \in Nat /\ Held(i) <= ideas[i].total /\ ideas[i].available \in Nat
      /\ dust \in Nat /\ old \subseteq Milestones /\ IsFiniteSet(old) /\ IsFiniteSet(ms)
  BY IdeaFacts, FS_Subset DEF IdeaInv
<1>3. total \in Nat
  BY <1>2, SumOfNaturals
<1>4. available \in Nat /\ ideas' = [ideas EXCEPT ![i] = idea]
  BY <1>1, <1>2, <1>3
<1>20. /\ milestones' \in [Milestones -> MilestoneType]
       /\ \A m \in ms : milestones'[m].amount = amounts[m]
       /\ \A m \in Milestones \ ms : milestones'[m] = milestones[m]
       /\ \A m \in ms : milestones'[m].status = "Reserved" /\ milestones'[m].idea = i
  <2>1. \A m \in ms : /\ milestones'[m] = [amount |-> amounts[m], status |-> "Reserved", idea |-> i]
                      /\ amounts[m] \in Nat
    BY <1>1
  <2>2. \A m \in ms : /\ milestones'[m] \in MilestoneType /\ milestones'[m].amount = amounts[m]
                      /\ milestones'[m].status = "Reserved" /\ milestones'[m].idea = i
    <3> SUFFICES ASSUME NEW m \in ms
                 PROVE  /\ milestones'[m] \in MilestoneType /\ milestones'[m].amount = amounts[m]
                        /\ milestones'[m].status = "Reserved" /\ milestones'[m].idea = i
      OBVIOUS
    <3> DEFINE r == [amount |-> amounts[m], status |-> "Reserved", idea |-> i]
    <3>1. r \in MilestoneType /\ r.amount = amounts[m] /\ r.status = "Reserved" /\ r.idea = i
      BY <2>1 DEF MilestoneType
    <3>2. milestones'[m] = r
      BY <2>1
    <3> HIDE DEF r
    <3> QED BY <3>1, <3>2
  <2>3. \A m \in Milestones \ ms : milestones'[m] = milestones[m]
    BY <1>1
  <2>4. \A m \in Milestones : milestones'[m] \in MilestoneType
    BY <1>2, <2>2, <2>3
  <2>5. milestones' \in [Milestones -> MilestoneType]
    BY <1>1, <2>4
  <2> QED BY <2>2, <2>3, <2>5
<1>5. balance' = balance
  BY <1>1 DEF tokenVars
<1> HIDE DEF total, available
<1>6. /\ idea \in IdeaType /\ idea.total = ideas[i].total /\ idea.exists
      /\ idea.available = available
  BY <1>1, <1>2, <1>4 DEF IdeaType
<1> HIDE DEF idea
<1>7. ideas'[i] = idea /\ \A j \in Ideas \ {i} : ideas'[j] = ideas[j]
  BY <1>2, <1>4
<1>8. \A j \in Ideas : \A m \in Reserved(j) : m \notin ms
  BY <1>1 DEF Reserved
<1>9. \A j \in Ideas \ {i} : Reserved(j)' = Reserved(j)
  BY <1>1, <1>20 DEF Reserved
<1>10. \A j \in Ideas \ {i} : Held(j)' = Held(j)
  <2> SUFFICES ASSUME NEW j \in Ideas \ {i} PROVE Held(j)' = Held(j)
    OBVIOUS
  <2>1. \A m \in Reserved(j) : milestones'[m] = milestones[m]
    BY <1>8, <1>20 DEF Reserved
  <2> QED BY <1>7, <1>9, <2>1, HeldSame
<1>11. Reserved(i)' = old \cup ms /\ old \cap ms = {}
  BY <1>1, <1>8, <1>20 DEF Reserved
<1>12. Held(i)' = Held(i)
  <2> DEFINE g == [m \in Milestones |-> milestones'[m].amount]
  <2>1. Held(i)' = ideas'[i].available + SumFunctionOnSet(g, old \cup ms)
    BY <1>11 DEF Held
  <2>2. Held(i) = ideas[i].available + SumFunctionOnSet(f, old)
    BY DEF Held
  <2>3. /\ \A m \in old : g[m] = f[m]
        /\ \A m \in ms : g[m] = amounts[m]
        /\ \A m \in old \cup ms : g[m] \in Int
    <3>1. \A m \in Milestones : milestones'[m].amount \in Nat
      BY <1>20 DEF MilestoneType
    <3> QED BY <1>2, <1>8, <1>20, <3>1
  <2>4. \A m \in old : f[m] \in Nat
    BY <1>2 DEF MilestoneType
  <2> HIDE DEF f, g, old
  <2>5. SumFunctionOnSet(g, old \cup ms) = SumFunctionOnSet(g, old) + SumFunctionOnSet(g, ms)
    BY <1>2, <1>11, <2>3, SumOfUnion
  <2>6. SumFunctionOnSet(g, old) = SumFunctionOnSet(f, old)
    BY <1>2, <2>3, SumOfEquals
  <2>7. SumFunctionOnSet(g, ms) = total
    BY <1>2, <2>3, SumOfEquals DEF total
  <2>8. SumFunctionOnSet(f, old) \in Nat
    BY <1>2, <2>4, SumOfNaturals
  <2> QED BY <1>2, <1>3, <1>6, <1>7, <2>1, <2>2, <2>5, <2>6, <2>7, <2>8 DEF available
<1>13. balance'["ideas"] = balance["ideas"] + (Held(i) - Held(i)) + (dust - dust)
  <2>1. balance["ideas"] \in Nat
    BY AccountFacts, HeldOfSupply
  <2> QED BY <1>2, <1>5, <2>1
<1> QED
  BY <1>1, <1>2, <1>4, <1>6, <1>10, <1>12, <1>13, <1>20, IdeaFits

\* A milestone that is settled is no longer reserved.
LEMMA SettledMilestone ==
    ASSUME IdeaInv, NEW i \in Ideas, NEW m \in Reserved(i), NEW s \in {"Released", "Refunded"},
           milestones' = [milestones EXCEPT ![m].status = s],
           \A j \in Ideas \ {i} : ideas'[j] = ideas[j]
    PROVE  /\ m \in Milestones /\ milestones[m].amount \in Nat
           /\ milestones' \in [Milestones -> MilestoneType]
           /\ \A j \in Ideas \ {i} : Held(j)' = Held(j)
           /\ ideas'[i].available \in Nat =>
                 Held(i)' = ideas'[i].available + Held(i) - ideas[i].available - milestones[m].amount
           /\ Held(i) >= ideas[i].available + milestones[m].amount
<1> DEFINE f == [n \in Milestones |-> milestones[n].amount]
           rest == Reserved(i) \ {m}
           k == [milestones[m] EXCEPT !.status = s]
<1>1. /\ milestones \in [Milestones -> MilestoneType] /\ IsFiniteSet(Milestones)
      /\ Reserved(i) \subseteq Milestones /\ IsFiniteSet(Reserved(i))
      /\ Held(i) \in Nat /\ ideas[i].available \in Nat
      /\ m \in Milestones /\ milestones[m] \in MilestoneType
  BY IdeaFacts
<1>2. /\ k \in MilestoneType /\ k.status = s /\ k.amount = milestones[m].amount
      /\ k.idea = milestones[m].idea
  BY <1>1 DEF MilestoneType
<1>3. milestones' = [milestones EXCEPT ![m] = k]
  BY <1>1
<1> HIDE DEF k
<1>4. /\ milestones' \in [Milestones -> MilestoneType] /\ milestones'[m] = k
      /\ \A n \in Milestones \ {m} : milestones'[n] = milestones[n]
      /\ \A n \in Milestones : milestones'[n].amount = milestones[n].amount
  BY <1>1, <1>2, <1>3
<1>5. s # "Reserved" /\ milestones[m].status = "Reserved" /\ milestones[m].idea = i
  BY DEF Reserved
<1>6. Reserved(i)' = rest
  BY <1>1, <1>2, <1>4, <1>5 DEF Reserved
<1>7. \A j \in Ideas \ {i} : Reserved(j)' = Reserved(j)
  BY <1>1, <1>2, <1>4, <1>5 DEF Reserved
<1>8. \A j \in Ideas \ {i} : Held(j)' = Held(j)
  <2> SUFFICES ASSUME NEW j \in Ideas \ {i} PROVE Held(j)' = Held(j)
    OBVIOUS
  <2>1. \A n \in Reserved(j) : milestones'[n].amount = milestones[n].amount
    BY <1>4 DEF Reserved
  <2> QED BY <1>7, <2>1, HeldSame
<1>9. /\ \A n \in Reserved(i) : f[n] \in Nat /\ f[n] \in Int
      /\ f[m] = milestones[m].amount /\ milestones[m].amount \in Nat
      /\ \A n \in rest : milestones'[n].amount = f[n]
      /\ rest \in SUBSET Milestones /\ IsFiniteSet(rest)
  BY <1>1, <1>4, FS_Subset DEF MilestoneType
<1>10. Held(i) = ideas[i].available + SumFunctionOnSet(f, Reserved(i))
  BY DEF Held
<1> HIDE DEF f
<1>11. Held(i)' = ideas'[i].available + SumFunctionOnSet(f, rest)
  BY <1>1, <1>6, <1>9, HeldAfter
<1>12. SumFunctionOnSet(f, Reserved(i)) = f[m] + SumFunctionOnSet(f, rest)
  BY <1>1, <1>9, SumTakesOut
<1>13. SumFunctionOnSet(f, rest) \in Nat
  <2>1. \A n \in rest : f[n] \in Nat
    BY <1>9
  <2> HIDE DEF rest
  <2> QED BY <1>9, <2>1, SumOfNaturals
<1> HIDE DEF rest
<1>14. ideas'[i].available \in Nat =>
          Held(i)' = ideas'[i].available + Held(i) - ideas[i].available - milestones[m].amount
  BY <1>1, <1>9, <1>10, <1>11, <1>12, <1>13
<1>15. Held(i) >= ideas[i].available + milestones[m].amount
  BY <1>1, <1>9, <1>10, <1>12, <1>13
<1> QED
  BY <1>1, <1>4, <1>8, <1>9, <1>14, <1>15

\* A refund makes the milestone's amount available again.
LEMMA RefundKeeps ==
    ASSUME IdeaInv, TokenInv, NEW caller, NEW i \in Ideas, NEW m \in Milestones,
           RefundMilestone(caller, i, m)
    PROVE  IdeaInv'
<1> DEFINE amount == milestones[m].amount
           available == ideas[i].available + amount
           idea == [ideas[i] EXCEPT !.available = available]
<1>1. /\ ideas[i].exists /\ m \in Reserved(i)
      /\ milestones' = [milestones EXCEPT ![m].status = "Refunded"]
      /\ ideas' = [ideas EXCEPT ![i].available = @ + amount]
      /\ UNCHANGED <<dust, tokenVars>>
  BY DEF RefundMilestone, IsPoster
<1>2. /\ ideas \in [Ideas -> IdeaType] /\ ideas[i] \in IdeaType
      /\ Held(i) \in Nat /\ Held(i) <= ideas[i].total /\ ideas[i].available \in Nat
      /\ dust \in Nat /\ balance["ideas"] \in Nat
  BY IdeaFacts, AccountFacts, HeldOfSupply DEF IdeaInv
<1>3. \A j \in Ideas \ {i} : ideas'[j] = ideas[j]
  BY <1>1, <1>2
<1>4. /\ amount \in Nat
      /\ milestones' \in [Milestones -> MilestoneType]
      /\ \A j \in Ideas \ {i} : Held(j)' = Held(j)
      /\ ideas'[i].available \in Nat =>
            Held(i)' = ideas'[i].available + Held(i) - ideas[i].available - amount
  BY <1>1, <1>3, SettledMilestone
<1>5. available \in Nat /\ ideas' = [ideas EXCEPT ![i] = idea] /\ balance' = balance
  BY <1>1, <1>2, <1>4 DEF tokenVars
<1> HIDE DEF available, amount
<1>6. /\ idea \in IdeaType /\ idea.total = ideas[i].total /\ idea.exists
      /\ idea.available = available
  BY <1>1, <1>2, <1>5 DEF IdeaType
<1> HIDE DEF idea
<1>7. ideas'[i] = idea
  BY <1>2, <1>5
<1>8. Held(i)' = Held(i)
  <2>1. Held(i)' = available + Held(i) - ideas[i].available - amount
    BY <1>4, <1>5, <1>6, <1>7
  <2> QED BY <1>2, <1>4, <2>1 DEF available
<1>9. balance'["ideas"] = balance["ideas"] + (Held(i) - Held(i)) + (dust - dust)
  BY <1>2, <1>5
<1>10. dust' = dust
  BY <1>1
<1> QED
  BY <1>2, <1>4, <1>5, <1>6, <1>8, <1>9, <1>10, IdeaFits

\* The three shares of a milestone come to no more than it.
LEMMA SharesFit ==
    ASSUME NEW a \in Nat
    PROVE  /\ Share(a, 8100) \in Nat /\ Share(a, 900) \in Nat /\ Share(a, 1000) \in Nat
           /\ Share(a, 8100) + Share(a, 900) + Share(a, 1000) <= a
  BY DEF Share

\* A release pays three shares and leaves the dust of their divisions.
LEMMA ReleaseKeeps ==
    ASSUME IdeaInv, TokenInv, NEW caller, NEW i \in Ideas, NEW m \in Milestones,
           NEW worker \in Users, ReleaseMilestone(caller, i, m, worker)
    PROVE  IdeaInv' /\ TokenInv' /\ Quiet({"ideas"})
<1> DEFINE amount == milestones[m].amount
           toWorker == Share(amount, 8100)
           toStakers == Share(amount, 900)
           toTreasury == Share(amount, 1000)
           sent == toWorker + toStakers + toTreasury
<1>1. /\ m \in Reserved(i) /\ balance["ideas"] >= sent
      /\ milestones' = [milestones EXCEPT ![m].status = "Released"]
      /\ dust' = dust + amount - sent
      /\ UNCHANGED <<ideas, allowance, token>>
  BY DEF ReleaseMilestone
<1>2. /\ ideas \in [Ideas -> IdeaType] /\ ideas[i] \in IdeaType
      /\ Held(i) \in Nat /\ Held(i) <= ideas[i].total /\ ideas[i].available \in Nat
      /\ ideas[i].total \in Nat /\ dust \in Nat /\ (~ideas[i].exists => ideas[i].total = 0)
  BY IdeaFacts DEF IdeaInv, IdeaType
<1>3. /\ amount \in Nat /\ milestones' \in [Milestones -> MilestoneType]
      /\ \A j \in Ideas \ {i} : Held(j)' = Held(j)
      /\ ideas'[i].available \in Nat =>
            Held(i)' = ideas'[i].available + Held(i) - ideas[i].available - amount
      /\ Held(i) >= ideas[i].available + amount
  <2>1. "Released" \in {"Released", "Refunded"} /\ \A j \in Ideas \ {i} : ideas'[j] = ideas[j]
    BY <1>1
  <2>2. m \in Reserved(i) /\ milestones' = [milestones EXCEPT ![m].status = "Released"]
    BY <1>1
  <2> HIDE DEF sent, toWorker, toStakers, toTreasury
  <2> QED BY <2>1, <2>2, SettledMilestone
<1>4. balance' = [[[[balance EXCEPT !["ideas"] = @ - sent] EXCEPT ![worker] = @ + toWorker]
                     EXCEPT ![Stakers] = @ + toStakers] EXCEPT ![TreasuryReceiver] = @ + toTreasury]
  BY DEF ReleaseMilestone
<1>5. /\ toWorker \in Nat /\ toStakers \in Nat /\ toTreasury \in Nat
      /\ sent \in Nat /\ sent <= amount
  BY <1>3, SharesFit
<1>6. /\ "ideas" \in Contracts /\ Contracts \subseteq Accounts
      /\ worker \in Accounts \ Contracts /\ Stakers \in Accounts \ Contracts
      /\ TreasuryReceiver \in Accounts \ Contracts
  BY AccountFacts
<1>7. /\ balance \in [Accounts -> Nat] /\ token.supply = Total(balance) /\ token.supply \in Nat
  BY HeldOfSupply
<1> HIDE DEF amount, toWorker, toStakers, toTreasury
<1>20. sent = toWorker + toStakers + toTreasury
  OBVIOUS
<1> HIDE DEF sent
<1> DEFINE b1 == Credited(balance, "ideas", -sent)
           b2 == Credited(b1, worker, toWorker)
           b3 == Credited(b2, Stakers, toStakers)
           b4 == Credited(b3, TreasuryReceiver, toTreasury)
<1>8. -sent \in Int /\ balance["ideas"] + (-sent) >= 0 /\ balance["ideas"] \in Nat
  BY <1>1, <1>5, <1>6, <1>7
<1>9. /\ b1 \in [Accounts -> Nat] /\ Total(b1) = Total(balance) + (-sent)
      /\ \A c \in Accounts : b1[c] = IF c = "ideas" THEN balance[c] + (-sent) ELSE balance[c]
  BY <1>6, <1>7, <1>8, CreditedFits
<1>10. [balance EXCEPT !["ideas"] = @ - sent] = b1
  BY <1>5, <1>6, <1>7 DEF Credited
<1> HIDE DEF b1
<1>11. /\ b2 \in [Accounts -> Nat] /\ Total(b2) = Total(b1) + toWorker
       /\ \A c \in Accounts : b2[c] = IF c = worker THEN b1[c] + toWorker ELSE b1[c]
  BY <1>5, <1>6, <1>9, CreditedFits
<1> HIDE DEF b2
<1>12. /\ b3 \in [Accounts -> Nat] /\ Total(b3) = Total(b2) + toStakers
       /\ \A c \in Accounts : b3[c] = IF c = Stakers THEN b2[c] + toStakers ELSE b2[c]
  BY <1>5, <1>6, <1>11, CreditedFits
<1> HIDE DEF b3
<1>13. /\ b4 \in [Accounts -> Nat] /\ Total(b4) = Total(b3) + toTreasury
       /\ \A c \in Accounts : b4[c] = IF c = TreasuryReceiver THEN b3[c] + toTreasury ELSE b3[c]
  BY <1>5, <1>6, <1>12, CreditedFits
<1>14. balance' = b4
  BY <1>4, <1>10 DEF Credited, b2, b3
<1> HIDE DEF b4
<1>15. Total(balance') = token.supply
  BY <1>5, <1>7, <1>9, <1>11, <1>12, <1>13, <1>14, <1>20
<1>16. TokenInv'
  <2>1. SumFunctionOnSet(balance', Accounts) = token.supply
    BY <1>15 DEF Total
  <2> QED BY <1>1, <1>13, <1>14, <2>1 DEF TokenInv, TokenTypeOK, SupplyBacked
<1>17. /\ balance'["ideas"] = balance["ideas"] + (-sent)
       /\ \A c \in Contracts \ {"ideas"} : balance'[c] = balance[c]
  BY <1>6, <1>9, <1>11, <1>12, <1>13, <1>14
<1>18. IdeaInv'
  <2> DEFINE h == Held(i) - amount
             d == dust + (amount - sent)
  <2>1. h \in Nat /\ h <= ideas[i].total /\ d \in Nat
    BY <1>2, <1>3, <1>5
  <2>2. Held(i)' = h
    BY <1>1, <1>2, <1>3
  <2>3. dust' = d
    BY <1>1, <1>2, <1>3, <1>5
  <2>4. balance'["ideas"] = balance["ideas"] + (h - Held(i)) + (d - dust)
    BY <1>2, <1>3, <1>5, <1>8, <1>17
  <2>5. ideas' = [ideas EXCEPT ![i] = ideas[i]] /\ (ideas[i].exists \/ ideas[i].total = 0)
    BY <1>1, <1>2
  <2> HIDE DEF h, d
  <2> QED BY <1>2, <1>3, <2>1, <2>2, <2>3, <2>4, <2>5, IdeaFits
<1> QED
  BY <1>16, <1>17, <1>18 DEF Quiet

\* What makes the invariant hold when what is available of an idea is paid out.
LEMMA PaidOutKeeps ==
    ASSUME IdeaInv, TokenInv, NEW i \in Ideas, NEW u \in Users, NEW total \in Nat,
           Move("ideas", u, ideas[i].available),
           ideas' = [ideas EXCEPT ![i] = [ideas[i] EXCEPT !.available = 0, !.total = total]],
           total >= Held(i) - ideas[i].available, ideas[i].exists \/ total = 0,
           UNCHANGED <<milestones, dust>>
    PROVE  IdeaInv' /\ TokenInv' /\ Quiet({"ideas"})
<1> DEFINE amount == ideas[i].available
           idea == [ideas[i] EXCEPT !.available = 0, !.total = total]
           h == Held(i) - amount
<1>1. /\ ideas \in [Ideas -> IdeaType] /\ ideas[i] \in IdeaType
      /\ milestones' \in [Milestones -> MilestoneType]
      /\ Held(i) \in Nat /\ amount \in Nat /\ Held(i) >= amount /\ dust \in Nat /\ dust' = dust
  BY IdeaFacts DEF IdeaInv
<1>2. /\ idea \in IdeaType /\ idea.total = total /\ idea.available = 0
      /\ idea.exists = ideas[i].exists /\ ideas' = [ideas EXCEPT ![i] = idea]
  BY <1>1 DEF IdeaType
<1> HIDE DEF idea
<1>3. ideas'[i] = idea /\ \A j \in Ideas \ {i} : ideas'[j] = ideas[j]
  BY <1>1, <1>2
<1>4. \A j \in Ideas : Reserved(j)' = Reserved(j)
  BY DEF Reserved
<1>5. \A j \in Ideas \ {i} : Held(j)' = Held(j)
  BY <1>3, <1>4, HeldSame
<1>6. Held(i)' = h
  <2> DEFINE f == [n \in Milestones |-> milestones[n].amount]
  <2>1. Held(i) = amount + SumFunctionOnSet(f, Reserved(i))
    BY DEF Held
  <2>2. Held(i)' = ideas'[i].available + SumFunctionOnSet(f, Reserved(i))
    BY <1>4 DEF Held
  <2>3. SumFunctionOnSet(f, Reserved(i)) \in Nat
    BY IdeaFacts
  <2> HIDE DEF f
  <2> QED BY <1>1, <1>2, <1>3, <2>1, <2>2, <2>3
<1>7. "ideas" \in Contracts /\ Contracts \subseteq Accounts /\ u \in Accounts \ Contracts
  BY AccountFacts
<1>8. /\ TokenInv' /\ balance \in [Accounts -> Nat]
      /\ \A c \in Accounts \ {"ideas", u} : balance'[c] = balance[c]
      /\ balance'["ideas"] = balance["ideas"] - amount
  BY <1>1, <1>7, MoveFits
<1>9. balance'["ideas"] = balance["ideas"] + (h - Held(i)) + (dust - dust)
  <2>1. balance["ideas"] \in Nat
    BY <1>7, <1>8
  <2> QED BY <1>1, <1>8, <2>1
<1>10. h \in Nat /\ h <= idea.total /\ (idea.exists \/ idea.total = 0)
  BY <1>1, <1>2
<1> HIDE DEF h
<1>11. IdeaInv'
  BY <1>1, <1>2, <1>5, <1>6, <1>9, <1>10, IdeaFits
<1> QED
  BY <1>7, <1>8, <1>11 DEF Quiet

\* A poster takes back what is available.
LEMMA WithdrawIdeaKeeps ==
    ASSUME IdeaInv, TokenInv, NEW u \in Users, NEW i \in Ideas, WithdrawIdea(u, i)
    PROVE  IdeaInv' /\ TokenInv' /\ Quiet({"ideas"})
<1> DEFINE amount == ideas[i].available
           total == ideas[i].total - amount
<1>1. /\ amount > 0 /\ amount <= ideas[i].total /\ Move("ideas", u, amount)
      /\ ideas' = [ideas EXCEPT ![i].available = 0, ![i].total = @ - amount]
      /\ UNCHANGED <<milestones, dust>>
  BY DEF WithdrawIdea
<1>2. /\ ideas \in [Ideas -> IdeaType] /\ ideas[i] \in IdeaType
      /\ Held(i) \in Nat /\ Held(i) <= ideas[i].total /\ amount \in Nat /\ Held(i) >= amount
      /\ ideas[i].total \in Nat /\ (~ideas[i].exists => ideas[i].total = 0)
  BY IdeaFacts DEF IdeaInv, IdeaType
<1>3. total \in Nat /\ total >= Held(i) - amount /\ (ideas[i].exists \/ total = 0)
  BY <1>1, <1>2
<1>4. ideas' = [ideas EXCEPT ![i] = [ideas[i] EXCEPT !.available = 0, !.total = total]]
  BY <1>1, <1>2 DEF IdeaType
<1> HIDE DEF total
<1> QED
  BY <1>1, <1>3, <1>4, PaidOutKeeps

\* The owner takes out what is available; the total stays.
LEMMA RescueKeeps ==
    ASSUME IdeaInv, TokenInv, NEW u \in Users, NEW i \in Ideas, NEW caller,
           RescueFunds(caller, i, u)
    PROVE  IdeaInv' /\ TokenInv' /\ Quiet({"ideas"})
<1>1. /\ ideas[i].exists /\ Move("ideas", u, ideas[i].available)
      /\ ideas' = [ideas EXCEPT ![i].available = 0]
      /\ UNCHANGED <<milestones, dust>>
  BY DEF RescueFunds
<1>2. /\ ideas \in [Ideas -> IdeaType] /\ ideas[i] \in IdeaType
      /\ Held(i) \in Nat /\ Held(i) <= ideas[i].total /\ ideas[i].available \in Nat
      /\ ideas[i].total \in Nat
  BY IdeaFacts DEF IdeaType
<1>3. ideas' = [ideas EXCEPT ![i] = [ideas[i] EXCEPT !.available = 0, !.total = ideas[i].total]]
  BY <1>1, <1>2 DEF IdeaType
<1>4. ideas[i].total >= Held(i) - ideas[i].available
  BY <1>2
<1> QED
  BY <1>1, <1>2, <1>3, <1>4, PaidOutKeeps

\* The calls on ideas.
LEMMA IdeaCallKeeps ==
    ASSUME IdeaInv, TokenInv, scene \in DOMAIN MaxCalls, IdeaCall
    PROVE  IdeaInv' /\ TokenInv' /\ Quiet({"ideas"})
<1> DEFINE Kept == IdeaInv' /\ TokenInv' /\ Quiet({"ideas"})
<1>1. PICK u \in Users, i \in Ideas :
          \/ \E x \in V : FundIdea(u, i, x)
          \/ \E ms \in SUBSET Milestones : \E amounts \in [ms -> V] : ReserveMilestones(u, i, amounts)
          \/ \E m \in Milestones :
                RefundMilestone(u, i, m) \/ \E worker \in Users : ReleaseMilestone(u, i, m, worker)
          \/ WithdrawIdea(u, i)
          \/ \E caller \in Officers : RescueFunds(caller, i, u)
  BY DEF IdeaCall
<1>2. V \subseteq Nat
  BY EconomyAssumption DEF V
<1>3. UNCHANGED tokenVars => TokenInv' /\ Quiet({"ideas"})
  BY DEF tokenVars, TokenInv, TokenTypeOK, SupplyBacked, Quiet
<1>4. ASSUME NEW x \in V, FundIdea(u, i, x) PROVE Kept
  BY <1>2, <1>4, FundKeeps
<1>5. ASSUME NEW ms \in SUBSET Milestones, NEW amounts \in [ms -> V],
             ReserveMilestones(u, i, amounts)
      PROVE  Kept
  <2>1. amounts \in [ms -> Nat]
    BY <1>2
  <2>2. UNCHANGED tokenVars
    BY <1>5 DEF ReserveMilestones
  <2> QED BY <1>3, <1>5, <2>1, <2>2, ReserveKeeps
<1>6. ASSUME NEW m \in Milestones, RefundMilestone(u, i, m) PROVE Kept
  <2>1. UNCHANGED tokenVars
    BY <1>6 DEF RefundMilestone
  <2> QED BY <1>3, <1>6, <2>1, RefundKeeps
<1>7. ASSUME NEW m \in Milestones, NEW worker \in Users, ReleaseMilestone(u, i, m, worker)
      PROVE  Kept
  BY <1>7, ReleaseKeeps
<1>8. ASSUME WithdrawIdea(u, i) PROVE Kept
  BY <1>8, WithdrawIdeaKeeps
<1>9. ASSUME NEW caller \in Officers, RescueFunds(caller, i, u) PROVE Kept
  BY <1>9, RescueKeeps
<1> HIDE DEF Kept
<1>10. Kept
  BY <1>1, <1>4, <1>5, <1>6, <1>7, <1>8, <1>9
<1> QED
  BY <1>10 DEF Kept

-----------------------------------------------------------------------------
(* EpochRewardDistributor *)

ConfType ==
    [pool : Nat, topBps : Nat, minAiu : Nat, maxJobs : Nat, epoch : Nat,
     jobs : [Epochs -> [Users -> Nat]]]

ScoreType == [worker : Users, aiu : Nat]

\* What the epochs owe are naturals.
LEMMA RewardFacts ==
    ASSUME RewardInv
    PROVE  /\ rewards \in [Epochs -> RewardType] /\ rewardConf \in ConfType
           /\ IsFiniteSet(Epochs) /\ IsFiniteSet(Users)
           /\ \A e \in Epochs :
                 /\ Unclaimed(e) \in Nat
                 /\ rewards[e].claimed \subseteq {w \in Users : rewards[e].earned[w] > 0}
                 /\ ~rewards[e].distributed => \A w \in Users : rewards[e].earned[w] = 0
           /\ SumFunctionOnSet([e \in Epochs |-> Unclaimed(e)], Epochs) \in Nat
           /\ balance["rewards"] >= SumFunctionOnSet([e \in Epochs |-> Unclaimed(e)], Epochs)
<1>1. /\ rewards \in [Epochs -> RewardType] /\ rewardConf \in ConfType
      /\ IsFiniteSet(Epochs) /\ IsFiniteSet(Users)
  BY EconomyAssumption, AccountFacts DEF RewardInv, ConfType
<1>2. ASSUME NEW e \in Epochs PROVE Unclaimed(e) \in Nat
  <2>1. rewards[e].earned \in [Users -> Nat]
    BY <1>1 DEF RewardType
  <2>2. /\ IsFiniteSet(Users \ rewards[e].claimed)
        /\ \A w \in Users \ rewards[e].claimed : rewards[e].earned[w] \in Nat
    BY <1>1, <2>1, FS_Subset
  <2> QED BY <2>2, SumOfNaturals DEF Unclaimed
<1> DEFINE owed == [e \in Epochs |-> Unclaimed(e)]
<1>3. \A e \in Epochs : owed[e] \in Nat
  BY <1>2
<1>4. balance["rewards"] >= SumFunctionOnSet(owed, Epochs)
  BY DEF RewardInv, RewardsCovered
<1>5. SumFunctionOnSet(owed, Epochs) \in Nat
  <2> HIDE DEF owed
  <2> QED BY <1>1, <1>3, SumOfNaturals
<1> QED
  BY <1>1, <1>2, <1>4, <1>5 DEF RewardInv, RewardTypeOK

\* What makes the invariant hold after a step on one epoch.
LEMMA RewardFits ==
    ASSUME RewardInv, TokenInv, TokenInv', NEW e \in Epochs, NEW r \in RewardType, NEW u \in Nat,
           rewards' = [rewards EXCEPT ![e] = r], rewardConf' \in ConfType,
           r.claimed \subseteq {w \in Users : r.earned[w] > 0},
           ~r.distributed => \A w \in Users : r.earned[w] = 0,
           SumFunctionOnSet(r.earned, Users \ r.claimed) = u,
           balance'["rewards"] >= balance["rewards"] + (u - Unclaimed(e))
    PROVE  RewardInv'
<1> DEFINE old == [d \in Epochs |-> Unclaimed(d)]
           new == [d \in Epochs |-> Unclaimed(d)']
<1>1. /\ rewards \in [Epochs -> RewardType] /\ IsFiniteSet(Epochs)
      /\ \A d \in Epochs :
            /\ old[d] \in Nat /\ old[d] = Unclaimed(d)
            /\ rewards[d].claimed \subseteq {w \in Users : rewards[d].earned[w] > 0}
            /\ ~rewards[d].distributed => \A w \in Users : rewards[d].earned[w] = 0
      /\ SumFunctionOnSet(old, Epochs) \in Nat
      /\ balance["rewards"] >= SumFunctionOnSet(old, Epochs)
  BY RewardFacts
<1>2. /\ rewards' \in [Epochs -> RewardType] /\ rewards'[e] = r
      /\ \A d \in Epochs \ {e} : rewards'[d] = rewards[d]
  BY <1>1
<1>3. Unclaimed(e)' = u /\ \A d \in Epochs \ {e} : Unclaimed(d)' = Unclaimed(d)
  BY <1>2 DEF Unclaimed
<1>4. /\ \A d \in Epochs : old[d] \in Int /\ new[d] \in Int
      /\ \A d \in Epochs \ {e} : new[d] = old[d]
      /\ new[e] = u
  BY <1>1, <1>3
<1>5. SumFunctionOnSet([d \in Epochs |-> Unclaimed(d)], Epochs)' = SumFunctionOnSet(new, Epochs)
  OBVIOUS
<1>6. balance["rewards"] \in Nat /\ balance'["rewards"] \in Nat
  BY AccountFacts DEF TokenInv, TokenTypeOK
<1> HIDE DEF old, new
<1>7. SumFunctionOnSet(new, Epochs) = SumFunctionOnSet(old, Epochs) - old[e] + new[e]
  BY <1>1, <1>4, SumOfOneChange
<1>8. balance'["rewards"] >= SumFunctionOnSet(new, Epochs)
  BY <1>1, <1>4, <1>6, <1>7
<1>9. RewardsCovered'
  BY <1>5, <1>8 DEF RewardsCovered
<1>10. \A d \in Epochs :
          /\ rewards'[d].claimed \subseteq {w \in Users : rewards'[d].earned[w] > 0}
          /\ ~rewards'[d].distributed => \A w \in Users : rewards'[d].earned[w] = 0
  BY <1>1, <1>2
<1>11. RewardTypeOK'
  BY <1>2, <1>10 DEF RewardTypeOK, RewardType
<1> QED
  BY <1>2, <1>9, <1>10, <1>11 DEF RewardInv, ConfType

\* The workers that are listed are a sequence of those submitted.
LEMMA ListedIsSeq ==
    ASSUME NEW e \in Epochs, NEW list \in Seq(ScoreType)
    PROVE  Listed(e, list) \in Seq(ScoreType)
<1> DEFINE free == {i \in DOMAIN list : rewardConf.jobs[e][list[i].worker] < rewardConf.maxJobs}
           Nth(n) == CHOOSE i \in free : Cardinality({j \in free : j <= i}) = n
           size == Cardinality(free)
           listed == [n \in 1..size |-> list[Nth(n)]]
<1>1. Len(list) \in Nat /\ DOMAIN list = 1..Len(list) /\ \A i \in DOMAIN list : list[i] \in ScoreType
  BY LenProperties, ElementOfSeq
<1>2. free \subseteq DOMAIN list /\ free \in SUBSET Nat /\ IsFiniteSet(free)
  <2>1. IsFiniteSet(DOMAIN list)
    BY <1>1, FS_Interval
  <2>2. free \subseteq DOMAIN list /\ free \in SUBSET Nat
    BY <1>1
  <2> QED BY <2>1, <2>2, FS_Subset
<1>3. size \in Nat
  BY <1>2, FS_CardinalityType
<1>4. \A n \in 1..size : Nth(n) \in free
  <2> HIDE DEF free
  <2> QED BY <1>2, NthExists
<1>5. \A n \in 1..size : list[Nth(n)] \in ScoreType
  BY <1>1, <1>2, <1>4
<1>6. Listed(e, list) = listed
  BY DEF Listed
<1> HIDE DEF Nth, size
<1>7. listed \in [1..size -> ScoreType]
  BY <1>5
<1>8. listed \in Seq(ScoreType)
  BY <1>3, <1>7, SeqDef
<1> QED
  BY <1>6, <1>8

\* A score that is listed is a natural, as those that were kept.
LEMMA ScoresFit ==
    ASSUME NEW aiu \in [Users -> Nat], NEW listed \in Seq(ScoreType)
    PROVE  Scores(aiu, listed) \in [Users -> Nat]
<1> DEFINE LastOf(w) == {i \in DOMAIN listed :
                            /\ listed[i].worker = w
                            /\ \A j \in DOMAIN listed : listed[j].worker = w => j <= i}
<1>1. \A i \in DOMAIN listed : listed[i].aiu \in Nat
  <2>1. \A i \in DOMAIN listed : listed[i] \in ScoreType
    BY LenProperties, ElementOfSeq
  <2> QED BY <2>1 DEF ScoreType
<1>2. \A w \in Users : LastOf(w) # {} => (CHOOSE i \in LastOf(w) : TRUE) \in DOMAIN listed
  OBVIOUS
<1>3. Scores(aiu, listed) =
         [w \in Users |-> IF LastOf(w) = {} THEN aiu[w]
                          ELSE listed[CHOOSE i \in LastOf(w) : TRUE].aiu]
  BY DEF Scores
<1> HIDE DEF LastOf
<1> QED
  BY <1>1, <1>2, <1>3

\* How many ranks share the pool is a natural.
LEMMA TopCountIsNatural ==
    ASSUME rewardConf \in ConfType, NEW list \in Seq(ScoreType)
    PROVE  TopCount(list) \in Nat
<1> DEFINE share == (Len(list) * rewardConf.topBps) \div 10000
<1>1. Len(list) \in Nat /\ rewardConf.topBps \in Nat
  BY LenProperties DEF ConfType
<1>2. Len(list) * rewardConf.topBps \in Nat
  BY <1>1
<1>3. share \in Nat
  BY <1>2, Quotient
<1>4. TopCount(list) = IF share = 0 /\ list # <<>> THEN 1 ELSE share
  BY DEF TopCount
<1> HIDE DEF share
<1> QED
  BY <1>3, <1>4

\* A list of scores adds ranks and changes scores, not what is earned.
LEMMA SubmitKeeps ==
    ASSUME RewardInv, TokenInv, NEW caller, NEW e \in Epochs, NEW list \in Seq(ScoreType),
           SubmitEpochScores(caller, e, list)
    PROVE  RewardInv'
<1> DEFINE r == rewards[e]
           listed == Listed(e, list)
           workers == [i \in DOMAIN listed |-> listed[i].worker]
           ranked == r.ranked \o workers
           top == TopCount(list)
           aiu == Scores(r.aiu, listed)
           s == [r EXCEPT !.ranked = ranked, !.top = top, !.aiu = aiu]
<1>1. /\ rewards \in [Epochs -> RewardType] /\ rewardConf \in ConfType
      /\ r \in RewardType /\ Unclaimed(e) \in Nat
      /\ r.claimed \subseteq {w \in Users : r.earned[w] > 0}
      /\ ~r.distributed => \A w \in Users : r.earned[w] = 0
  BY RewardFacts
<1>2. UNCHANGED <<rewardConf, tokenVars>>
  BY DEF SubmitEpochScores
<1>3. rewards' = [rewards EXCEPT ![e] = s]
  BY <1>1 DEF SubmitEpochScores, RewardType
<1>4. listed \in Seq(ScoreType)
  BY ListedIsSeq
<1>6. top \in Nat
  BY <1>1, TopCountIsNatural
<1> HIDE DEF top, listed
<1>7. workers \in Seq(Users)
  <2>1. /\ Len(listed) \in Nat /\ DOMAIN listed = 1..Len(listed)
        /\ \A i \in DOMAIN listed : listed[i] \in ScoreType
    BY <1>4, LenProperties, ElementOfSeq
  <2>2. workers \in [1..Len(listed) -> Users]
    BY <2>1 DEF ScoreType
  <2> QED BY <2>1, <2>2, SeqDef
<1> HIDE DEF workers
<1>8. ranked \in Seq(Users)
  BY <1>1, <1>7, ConcatProperties DEF RewardType
<1>9. aiu \in [Users -> Nat]
  BY <1>1, <1>4, ScoresFit DEF RewardType
<1> HIDE DEF aiu, ranked
<1>10. /\ s \in RewardType /\ s.earned = r.earned /\ s.claimed = r.claimed
       /\ s.distributed = r.distributed
  BY <1>1, <1>6, <1>8, <1>9 DEF RewardType
<1>11. SumFunctionOnSet(s.earned, Users \ s.claimed) = Unclaimed(e)
  BY <1>10 DEF Unclaimed
<1> HIDE DEF s
<1>12. /\ TokenInv' /\ balance["rewards"] \in Nat
       /\ balance'["rewards"] >= balance["rewards"] + (Unclaimed(e) - Unclaimed(e))
  <2>1. UNCHANGED <<balance, allowance, token>>
    BY <1>2 DEF tokenVars
  <2>2. balance["rewards"] \in Nat
    BY AccountFacts, HeldOfSupply
  <2>3. balance'["rewards"] >= balance["rewards"] + (Unclaimed(e) - Unclaimed(e))
    BY <1>1, <2>1, <2>2
  <2> QED BY <2>1, <2>2, <2>3 DEF TokenInv, TokenTypeOK, SupplyBacked
<1> DEFINE u == Unclaimed(e)
<1>13. u \in Nat /\ rewardConf' \in ConfType
  BY <1>1, <1>2
<1> QED
  BY <1>1, <1>3, <1>10, <1>11, <1>12, <1>13, RewardFits

\* The ranks that share a pool.
LEMMA TopFits ==
    ASSUME NEW r \in RewardType, r.ranked # <<>>
    PROVE  LET top == TopOf(r) IN
           /\ Len(top) \in Nat \ {0} /\ DOMAIN top = 1..Len(top) /\ IsFiniteSet(DOMAIN top)
           /\ \A i \in DOMAIN top : top[i] \in Users
<1> DEFINE n == IF r.top = 0 THEN 1 ELSE r.top
           k == IF n > Len(r.ranked) THEN Len(r.ranked) ELSE n
           top == SubSeq(r.ranked, 1, k)
<1>1. r.ranked \in Seq(Users) /\ r.top \in Nat
  BY DEF RewardType
<1>2. Len(r.ranked) \in Nat \ {0} /\ \A i \in 1..Len(r.ranked) : r.ranked[i] \in Users
  BY <1>1, EmptySeq, ElementOfSeq
<1>3. k \in 1..Len(r.ranked)
  BY <1>1, <1>2
<1>4. TopOf(r) = top
  BY DEF TopOf
<1> HIDE DEF k
<1>5. top \in Seq(Users) /\ Len(top) = k
  <2>1. 1 \in Int /\ k \in Int /\ 1 <= k /\ \A i \in 1..k : r.ranked[i] \in Users
    BY <1>2, <1>3
  <2>2. Len(top) = IF 1 <= k THEN k - 1 + 1 ELSE 0
    BY <2>1, SubSeqProperties
  <2>3. top \in Seq(Users)
    BY <2>1, SubSeqProperties
  <2> QED BY <2>1, <2>2, <2>3
<1> HIDE DEF top
<1>6. Len(top) \in Nat \ {0} /\ DOMAIN top = 1..Len(top)
  BY <1>2, <1>3, <1>5, LenProperties
<1>7. \A i \in DOMAIN top : top[i] \in Users
  BY <1>5, <1>6, ElementOfSeq
<1>8. IsFiniteSet(DOMAIN top)
  BY <1>6, FS_Interval
<1> QED
  BY <1>4, <1>6, <1>7, <1>8

\* Whatever the ranks, what the workers earn of a pool is natural and no more than it.
LEMMA EarnedFits ==
    ASSUME NEW r \in RewardType, r.ranked # <<>>, NEW pool \in Nat,
           OverRanks(r.aiu, TopOf(r)) > 0
    PROVE  /\ Earned(r, pool) \in [Users -> Nat]
           /\ SumFunctionOnSet(Earned(r, pool), Users) \in Nat
           /\ SumFunctionOnSet(Earned(r, pool), Users) <= pool
<1> DEFINE top == TopOf(r)
           D == DOMAIN top
           scores == [i \in D |-> r.aiu[top[i]]]
           total == OverRanks(r.aiu, top)
           reward == [w \in Users |-> (pool * r.aiu[w]) \div total]
           parts == [i \in D |-> reward[top[i]]]
           paidOut == OverRanks(reward, top)
           left == pool - paidOut
           last == top[Len(top)]
           once == [w \in Users |-> IF \E i \in D : top[i] = w THEN reward[w] ELSE 0]
           rest == [w \in Users |-> IF w = last THEN left ELSE 0]
           earned == [w \in Users |-> (IF \E i \in D : top[i] = w THEN reward[w] ELSE 0)
                                      + (IF w = last THEN left ELSE 0)]
<1>1. /\ Len(top) \in Nat \ {0} /\ D = 1..Len(top) /\ IsFiniteSet(D)
      /\ \A i \in D : top[i] \in Users
      /\ r.aiu \in [Users -> Nat] /\ IsFiniteSet(Users)
  BY TopFits, AccountFacts DEF RewardType
<1>2. last \in Users
  BY <1>1
<1>3. Earned(r, pool) = earned
  BY DEF Earned
<1>4. total = SumFunctionOnSet(scores, D) /\ paidOut = SumFunctionOnSet(parts, D)
  BY DEF OverRanks
<1>5. \A i \in D : scores[i] \in Nat /\ parts[i] = (pool * scores[i]) \div total
  BY <1>1
<1> HIDE DEF top, D, last
<1>6. total \in Nat \ {0} /\ SumFunctionOnSet(scores, D) <= total
  <2> HIDE DEF scores, total
  <2>1. SumFunctionOnSet(scores, D) \in Nat
    BY <1>1, <1>5, SumOfNaturals
  <2>2. total > 0
    BY DEF total, top
  <2> QED BY <1>4, <2>1, <2>2
<1>7. paidOut \in Nat /\ paidOut <= pool
  <2> HIDE DEF scores, total, parts, paidOut
  <2> QED BY <1>1, <1>4, <1>5, <1>6, PartsFit
<1>8. left \in Nat
  <2> HIDE DEF paidOut
  <2> QED BY <1>7
<1> HIDE DEF total
<1>9. \A w \in Users : reward[w] \in Nat
  <2> SUFFICES ASSUME NEW w \in Users PROVE reward[w] \in Nat
    OBVIOUS
  <2>1. pool * r.aiu[w] \in Nat
    BY <1>1
  <2> QED BY <1>6, <2>1, Quotient
<1>10. SumFunctionOnSet(once, Users) <= paidOut
  <2> HIDE DEF reward, paidOut
  <2> QED BY <1>1, <1>4, <1>9, OncePaidAtMost
<1> HIDE DEF reward, paidOut, left
<1>11. /\ \A w \in Users : once[w] \in Nat /\ once[w] \in Int /\ rest[w] \in Int /\ rest[w] \in Nat
       /\ \A w \in Users : earned[w] = once[w] + rest[w] /\ earned[w] \in Nat
       /\ \A w \in Users : rest[w] = IF w \in {last} THEN left ELSE 0
       /\ earned \in [Users -> Nat]
  BY <1>8, <1>9
<1> HIDE DEF once, rest, earned
<1>12. SumFunctionOnSet(rest, Users) = left
  <2>1. SumFunctionOnSet(rest, Users) = left * Cardinality({last})
    <3> DEFINE B == {last}
    <3>1. /\ B \in SUBSET Users /\ left \in Int /\ IsFiniteSet(Users)
          /\ \A w \in Users : rest[w] = IF w \in B THEN left ELSE 0
      BY <1>1, <1>2, <1>8, <1>11
    <3> HIDE DEF B
    <3>2. SumFunctionOnSet(rest, Users) = left * Cardinality(B)
      BY <3>1, SumOfBatch
    <3> QED BY <3>2 DEF B
  <2>2. Cardinality({last}) = 1
    BY FS_Singleton
  <2> QED BY <1>8, <2>1, <2>2
<1>13. SumFunctionOnSet(earned, Users) = SumFunctionOnSet(once, Users) + SumFunctionOnSet(rest, Users)
  BY <1>1, <1>11, SumOfSums
<1>14. SumFunctionOnSet(once, Users) \in Nat /\ SumFunctionOnSet(earned, Users) \in Nat
  BY <1>1, <1>11, SumOfNaturals
<1>15. SumFunctionOnSet(earned, Users) <= pool
  BY <1>7, <1>8, <1>10, <1>12, <1>13, <1>14 DEF left
<1> QED
  BY <1>3, <1>11, <1>14, <1>15

\* A distribution draws the pool from the treasury and promises no more than it.
LEMMA DistributeKeeps ==
    ASSUME RewardInv, TokenInv, NEW caller, NEW e \in Epochs, DistributeEpochRewards(caller, e)
    PROVE  RewardInv' /\ TokenInv' /\ Quiet({"rewards"})
<1> DEFINE r == rewards[e]
           pool == rewardConf.pool
           earned == Earned(r, pool)
           s == [r EXCEPT !.distributed = TRUE, !.earned = earned]
           u == SumFunctionOnSet(earned, Users)
<1>1. /\ rewards \in [Epochs -> RewardType] /\ rewardConf \in ConfType
      /\ r \in RewardType /\ Unclaimed(e) \in Nat /\ IsFiniteSet(Users)
      /\ r.claimed \subseteq {w \in Users : r.earned[w] > 0}
      /\ ~r.distributed => \A w \in Users : r.earned[w] = 0
  BY RewardFacts
<1>2. /\ r.ranked # <<>> /\ ~r.distributed
      /\ OverRanks(r.aiu, TopOf(r)) > 0
      /\ Move(RewardTreasury, "rewards", pool)
      /\ rewardConf' = rewardConf
  BY DEF DistributeEpochRewards
<1>3. rewards' = [rewards EXCEPT ![e] = s]
  BY <1>1 DEF DistributeEpochRewards, RewardType
<1>4. pool \in Nat
  BY <1>1 DEF ConfType
<1>5. earned \in [Users -> Nat] /\ u \in Nat /\ u <= pool
  BY <1>1, <1>2, <1>4, EarnedFits
<1>6. r.claimed = {} /\ Unclaimed(e) = 0
  <2>1. /\ \A w \in Users : r.earned[w] = 0
        /\ r.claimed = {}
    BY <1>1, <1>2
  <2>2. Users \ r.claimed = Users
    BY <2>1
  <2>3. SumFunctionOnSet(r.earned, Users) = 0
    BY <1>1, <2>1, SumOfZeros
  <2> QED BY <2>1, <2>2, <2>3 DEF Unclaimed
<1> HIDE DEF earned, u
<1>7. /\ s \in RewardType /\ s.earned = earned /\ s.claimed = {} /\ s.distributed
  BY <1>1, <1>5, <1>6 DEF RewardType
<1>8. SumFunctionOnSet(s.earned, Users \ s.claimed) = u
  <2>1. Users \ s.claimed = Users
    BY <1>7
  <2> QED BY <1>7, <2>1 DEF u
<1> HIDE DEF s
<1>9. "rewards" \in Contracts /\ Contracts \subseteq Accounts /\ RewardTreasury \in Accounts \ Contracts
  BY AccountFacts
<1>10. /\ TokenInv' /\ balance \in [Accounts -> Nat] /\ balance' \in [Accounts -> Nat]
       /\ \A c \in Accounts \ {RewardTreasury, "rewards"} : balance'[c] = balance[c]
       /\ balance'["rewards"] = balance["rewards"] + pool
  <2> HIDE DEF pool
  <2> QED BY <1>2, <1>4, <1>9, MoveFits
<1>11. balance'["rewards"] >= balance["rewards"] + (u - Unclaimed(e))
  <2>1. balance["rewards"] \in Nat
    BY <1>9, <1>10
  <2> QED BY <1>4, <1>5, <1>6, <1>10, <2>1
<1>12. /\ s.claimed \subseteq {w \in Users : s.earned[w] > 0}
       /\ ~s.distributed => \A w \in Users : s.earned[w] = 0
       /\ rewardConf' \in ConfType
  BY <1>1, <1>2, <1>7
<1>13. RewardInv'
  BY <1>3, <1>5, <1>7, <1>8, <1>10, <1>11, <1>12, RewardFits
<1> QED
  BY <1>9, <1>10, <1>13 DEF Quiet

\* A claim pays a worker what it has earned of an epoch, and the epoch owes it no more.
LEMMA ClaimRewardKeeps ==
    ASSUME RewardInv, TokenInv, NEW w \in Users, NEW e \in Epochs, ClaimReward(w, e)
    PROVE  RewardInv' /\ TokenInv' /\ Quiet({"rewards"})
<1> DEFINE r == rewards[e]
           amount == r.earned[w]
           claimed == r.claimed \cup {w}
           s == [r EXCEPT !.claimed = claimed]
           u == SumFunctionOnSet(r.earned, Users \ claimed)
<1>1. /\ rewards \in [Epochs -> RewardType] /\ rewardConf \in ConfType
      /\ r \in RewardType /\ Unclaimed(e) \in Nat /\ IsFiniteSet(Users)
      /\ r.claimed \subseteq {v \in Users : r.earned[v] > 0}
      /\ ~r.distributed => \A v \in Users : r.earned[v] = 0
      /\ r.earned \in [Users -> Nat]
  BY RewardFacts DEF RewardType
<1>2. /\ r.distributed /\ amount > 0 /\ w \notin r.claimed
      /\ Move("rewards", w, amount) /\ rewardConf' = rewardConf
  BY DEF ClaimReward
<1>3. rewards' = [rewards EXCEPT ![e] = s]
  BY <1>1 DEF ClaimReward, RewardType
<1>4. /\ claimed \subseteq {v \in Users : r.earned[v] > 0} /\ claimed \subseteq Users
      /\ amount \in Nat
  BY <1>1, <1>2
<1>5. u \in Nat /\ Unclaimed(e) = amount + u
  <2> DEFINE open == Users \ r.claimed
  <2>1. /\ IsFiniteSet(open) /\ w \in open /\ open \ {w} = Users \ claimed
        /\ IsFiniteSet(Users \ claimed)
        /\ \A v \in open : r.earned[v] \in Int
        /\ \A v \in Users \ claimed : r.earned[v] \in Nat
    BY <1>1, <1>2, FS_Subset
  <2>2. Unclaimed(e) = SumFunctionOnSet(r.earned, open)
    BY DEF Unclaimed
  <2> HIDE DEF open, claimed
  <2>3. SumFunctionOnSet(r.earned, open) = r.earned[w] + SumFunctionOnSet(r.earned, open \ {w})
    BY <2>1, SumTakesOut
  <2>4. u \in Nat
    BY <2>1, SumOfNaturals
  <2> QED BY <2>1, <2>2, <2>3, <2>4
<1> HIDE DEF claimed
<1>6. /\ s \in RewardType /\ s.earned = r.earned /\ s.claimed = claimed
      /\ s.distributed = r.distributed
  BY <1>1, <1>4 DEF RewardType
<1>7. SumFunctionOnSet(s.earned, Users \ s.claimed) = u
  BY <1>6
<1> HIDE DEF s, u
<1>8. "rewards" \in Contracts /\ Contracts \subseteq Accounts /\ w \in Accounts \ Contracts
  BY AccountFacts
<1>9. /\ TokenInv' /\ balance \in [Accounts -> Nat] /\ balance' \in [Accounts -> Nat]
      /\ \A c \in Accounts \ {"rewards", w} : balance'[c] = balance[c]
      /\ balance'["rewards"] = balance["rewards"] - amount
  <2> HIDE DEF amount
  <2> QED BY <1>2, <1>4, <1>8, MoveFits
<1>10. balance'["rewards"] >= balance["rewards"] + (u - Unclaimed(e))
  <2>1. balance["rewards"] \in Nat
    BY <1>8, <1>9
  <2> QED BY <1>4, <1>5, <1>9, <2>1
<1>11. /\ s.claimed \subseteq {v \in Users : s.earned[v] > 0}
       /\ ~s.distributed => \A v \in Users : s.earned[v] = 0
       /\ rewardConf' \in ConfType
  BY <1>1, <1>2, <1>4, <1>6
<1>12. RewardInv'
  BY <1>3, <1>5, <1>6, <1>7, <1>9, <1>10, <1>11, RewardFits
<1> QED
  BY <1>8, <1>9, <1>12 DEF Quiet

\* A change of the configuration alone.
LEMMA ConfKeeps ==
    ASSUME RewardInv, UNCHANGED <<rewards, tokenVars>>, rewardConf' \in ConfType
    PROVE  RewardInv'
<1>1. UNCHANGED <<rewards, balance>>
  BY DEF tokenVars
<1>2. SumFunctionOnSet([e \in Epochs |-> Unclaimed(e)], Epochs)'
        = SumFunctionOnSet([e \in Epochs |-> Unclaimed(e)], Epochs)
  BY <1>1 DEF Unclaimed
<1> QED
  BY <1>1, <1>2 DEF RewardInv, RewardTypeOK, RewardsCovered, ConfType

\* The calls on the distributor.
LEMMA RewardsKeep ==
    ASSUME RewardInv, TokenInv, scene \in DOMAIN MaxCalls, RewardsCall \/ RewardsAdmin
    PROVE  RewardInv' /\ TokenInv' /\ Quiet({"rewards"})
<1> DEFINE Kept == RewardInv' /\ TokenInv' /\ Quiet({"rewards"})
<1>1. V \subseteq Nat
  BY EconomyAssumption DEF V
<1>2. UNCHANGED tokenVars => TokenInv' /\ Quiet({"rewards"})
  BY DEF tokenVars, TokenInv, TokenTypeOK, SupplyBacked, Quiet
<1>3. rewardConf \in ConfType
  BY RewardFacts
<1>4. ASSUME NEW w \in Users, NEW e \in Epochs, ClaimReward(w, e) PROVE Kept
  BY <1>4, ClaimRewardKeeps
<1>5. ASSUME NEW caller \in Officers, NEW e \in Epochs, NEW list \in ScoreLists,
             SubmitEpochScores(caller, e, list)
      PROVE  Kept
  <2>1. list \in Seq(ScoreType)
    BY EconomyAssumption DEF ScoreType
  <2>2. UNCHANGED tokenVars
    BY <1>5 DEF SubmitEpochScores
  <2> QED BY <1>2, <1>5, <2>1, <2>2, SubmitKeeps
<1>6. ASSUME NEW caller \in Officers, NEW e \in Epochs, DistributeEpochRewards(caller, e)
      PROVE  Kept
  BY <1>6, DistributeKeeps
<1>7. ASSUME NEW caller \in Officers, NEW e \in Epochs, NEW w \in Users, CountJob(caller, e, w)
      PROVE  Kept
  <2> DEFINE n == rewardConf.epoch + 1
             k == rewardConf.jobs[e][w] + 1
             jobs == [rewardConf.jobs EXCEPT ![e] = [rewardConf.jobs[e] EXCEPT ![w] = k]]
  <2>1. /\ \/ rewardConf' = [rewardConf EXCEPT !.epoch = n]
           \/ rewardConf' = [rewardConf EXCEPT !.jobs = jobs]
        /\ UNCHANGED <<rewards, tokenVars>>
    BY <1>3, <1>7 DEF CountJob, ConfType
  <2>2. /\ rewardConf.jobs \in [Epochs -> [Users -> Nat]] /\ rewardConf.jobs[e] \in [Users -> Nat]
        /\ n \in Nat /\ k \in Nat
    BY <1>3 DEF ConfType
  <2>3. [rewardConf.jobs[e] EXCEPT ![w] = k] \in [Users -> Nat]
    <3> HIDE DEF k
    <3> QED BY <2>2
  <2>4. jobs \in [Epochs -> [Users -> Nat]]
    BY <2>2, <2>3
  <2> HIDE DEF n, jobs
  <2>5. rewardConf' \in ConfType
    BY <1>3, <2>1, <2>2, <2>4 DEF ConfType
  <2> QED BY <1>2, <2>1, <2>5, ConfKeeps
<1>8. ASSUME NEW u \in Users, NEW x \in V, DepositRewardPool(u, x) PROVE Kept
  <2>1. Move(u, "rewards", x) /\ UNCHANGED rewardVars /\ x \in Nat
    BY <1>1, <1>8 DEF DepositRewardPool
  <2>2. "rewards" \in Contracts /\ Contracts \subseteq Accounts /\ u \in Accounts \ Contracts
    BY AccountFacts
  <2>3. /\ TokenInv' /\ balance \in [Accounts -> Nat] /\ balance' \in [Accounts -> Nat]
        /\ \A c \in Accounts \ {u, "rewards"} : balance'[c] = balance[c]
        /\ balance'["rewards"] = balance["rewards"] + x
    BY <2>1, <2>2, MoveFits
  <2>4. /\ balance["rewards"] \in Nat /\ balance'["rewards"] \in Nat
        /\ balance'["rewards"] >= balance["rewards"]
    BY <2>1, <2>2, <2>3
  <2>5. RewardInv'
    BY <2>1, <2>4, RewardUntouched
  <2> QED BY <2>2, <2>3, <2>5 DEF Quiet
<1>9. ASSUME NEW caller \in Officers, NEW bps \in Nat, SetRewardConf(caller, 3, bps, 2, 0) PROVE Kept
  <2>1. /\ \/ rewardConf' = [rewardConf EXCEPT !.pool = 3]
           \/ rewardConf' = [rewardConf EXCEPT !.minAiu = 2]
           \/ rewardConf' = [rewardConf EXCEPT !.maxJobs = 0]
           \/ rewardConf' = [rewardConf EXCEPT !.topBps = bps]
        /\ UNCHANGED <<rewards, tokenVars>>
    BY <1>9 DEF SetRewardConf
  <2>2. rewardConf' \in ConfType
    BY <1>3, <2>1 DEF ConfType
  <2> QED BY <1>2, <2>1, <2>2, ConfKeeps
<1> HIDE DEF Kept
<1>10. ASSUME RewardsCall PROVE Kept
  BY <1>4, <1>5, <1>6, <1>7, <1>8, <1>10 DEF RewardsCall
<1>11. ASSUME RewardsAdmin PROVE Kept
  BY <1>9, <1>11 DEF RewardsAdmin
<1>12. Kept
  BY <1>10, <1>11
<1> QED
  BY <1>12 DEF Kept

-----------------------------------------------------------------------------
(* The contracts together *)

\* What a step of the whole does: the invariant is kept, and the limits are.
StepKept == EconomyInv' /\ MintCapKept /\ RoutingAnnounced /\ RateAnnounced /\ VestingKept

\* What a step leaves of the other parts, when it is a step of one.
LEMMA OthersKept ==
    ASSUME EconomyInv, TokenInv', now' \in Nat, now' >= now, NEW part, But(part)
    PROVE  /\ part # "mint" => MintKept
           /\ part # "mining" /\ balance'["mining"] = balance["mining"] => MiningKept
           /\ part # "mining" /\ balance'["buyback"] = balance["buyback"] => BuybackInv'
           /\ part # "rewards" /\ balance'["rewards"] = balance["rewards"] => RewardInv'
           /\ part # "vesting" /\ balance'["vesting"] = balance["vesting"] =>
                 VestingInv' /\ VestingKept
           /\ part # "ideas" /\ balance'["ideas"] = balance["ideas"] => IdeaInv'
           /\ part # "timelock" => TimelockInv'
           /\ part # "registry" => RegistryInv'
<1>1. /\ MintInv /\ MiningInv /\ BuybackInv /\ RewardInv /\ VestingInv /\ IdeaInv
      /\ TimelockInv /\ RegistryInv /\ now \in Nat /\ TokenInv
  BY DEF EconomyInv, RolesInv
<1>2. \A a \in Accounts : balance[a] \in Nat /\ balance'[a] \in Nat
  BY <1>1 DEF TokenInv, TokenTypeOK
<1>3. "rewards" \in Accounts /\ "vesting" \in Accounts
  BY AccountFacts
<1>4. part # "mint" => MintKept
  BY <1>1, MintUntouched DEF But
<1>5. part # "mining" /\ balance'["mining"] = balance["mining"] => MiningKept
  BY <1>1, MiningUntouched DEF But, miningVars
<1>6. part # "mining" /\ balance'["buyback"] = balance["buyback"] => BuybackInv'
  BY <1>1, BuybackUntouched DEF But
<1>7. ASSUME part # "rewards", balance'["rewards"] = balance["rewards"] PROVE RewardInv'
  <2>1. balance["rewards"] \in Nat /\ balance'["rewards"] \in Nat
    BY <1>2, <1>3
  <2>2. balance'["rewards"] >= balance["rewards"]
    BY <1>7, <2>1
  <2>3. UNCHANGED rewardVars
    BY <1>7 DEF But
  <2> QED BY <1>1, <2>1, <2>2, <2>3, RewardUntouched
<1>8. ASSUME part # "vesting", balance'["vesting"] = balance["vesting"]
      PROVE  VestingInv' /\ VestingKept
  <2>1. balance["vesting"] \in Nat /\ balance'["vesting"] \in Nat
    BY <1>2, <1>3
  <2>2. balance'["vesting"] >= balance["vesting"]
    BY <1>8, <2>1
  <2>3. UNCHANGED vesting
    BY <1>8 DEF But
  <2> QED BY <1>1, <2>1, <2>2, <2>3, VestingUntouched
<1>9. part # "ideas" /\ balance'["ideas"] = balance["ideas"] => IdeaInv'
  BY <1>1, IdeaUntouched DEF But
<1>10. part # "timelock" => TimelockInv'
  BY <1>1, TimelockUntouched DEF But
<1>11. part # "registry" => RegistryInv'
  BY <1>1, RegistryUntouched DEF But
<1> QED
  BY <1>4, <1>5, <1>6, <1>7, <1>8, <1>9, <1>10, <1>11

\* The contracts whose balance a part's invariant reads.
Holders == {"mining", "buyback", "rewards", "vesting", "ideas"}

\* A step of one part that keeps the token's invariant and that part's own, and
\* moves no balance a contract of another part holds.
LEMMA PartKeeps ==
    ASSUME EconomyInv, TokenInv', roles' \in [Contracts -> RoleType],
           now' \in Nat, now' >= now, UNCHANGED scene, NEW part, But(part), part # "buyback",
           part = "mint" => MintKept,
           part = "mining" => MiningKept /\ BuybackInv',
           part = "rewards" => RewardInv',
           part = "vesting" => VestingInv' /\ VestingKept,
           part = "ideas" => IdeaInv',
           part = "timelock" => TimelockInv',
           part = "registry" => RegistryInv',
           \A c \in Holders :
              c = part \/ (c = "buyback" /\ part = "mining") \/ balance'[c] = balance[c]
    PROVE  StepKept
<1>1. RolesInv'
  <2>1. now \in Nat /\ Executed \in Nat /\ RolesInv
    BY DEF EconomyInv, RolesInv, Executed
  <2> QED BY <2>1 DEF RolesInv
<1>2. MintKept
  BY OthersKept
<1>3. MiningKept /\ BuybackInv'
  <2>1. /\ part = "mining" \/ balance'["mining"] = balance["mining"]
        /\ part = "mining" \/ balance'["buyback"] = balance["buyback"]
    BY DEF Holders
  <2>2. MiningKept
    BY <2>1, OthersKept
  <2>3. BuybackInv'
    BY <2>1, OthersKept
  <2> QED BY <2>2, <2>3
<1>4. RewardInv' /\ VestingInv' /\ VestingKept /\ IdeaInv'
  <2>1. /\ part = "rewards" \/ balance'["rewards"] = balance["rewards"]
        /\ part = "vesting" \/ balance'["vesting"] = balance["vesting"]
        /\ part = "ideas" \/ balance'["ideas"] = balance["ideas"]
    BY DEF Holders
  <2>2. RewardInv'
    BY <2>1, OthersKept
  <2>3. VestingInv' /\ VestingKept
    BY <2>1, OthersKept
  <2>4. IdeaInv'
    BY <2>1, OthersKept
  <2> QED BY <2>2, <2>3, <2>4
<1>5. TimelockInv' /\ RegistryInv'
  BY OthersKept
<1> QED
  BY <1>1, <1>2, <1>3, <1>4, <1>5 DEF StepKept, EconomyInv, MintKept, MiningKept

\* A quiet token keeps its invariant.
LEMMA TokenUntouched ==
    ASSUME TokenInv, UNCHANGED tokenVars
    PROVE  TokenInv' /\ \A c \in Holders : balance'[c] = balance[c]
  BY DEF TokenInv, TokenTypeOK, SupplyBacked, tokenVars

\* The users' and operators' calls, and the owners' calls on one part.
LEMMA CallKeeps ==
    ASSUME EconomyInv, UNCHANGED <<now, scene>>,
           \/ TokenCall \/ TokenAdmin \/ MintCall \/ MintAdmin \/ MiningCall \/ MiningAdmin
           \/ BuybackCall \/ BuybackAdmin \/ RewardsCall \/ RewardsAdmin \/ VestingCall
           \/ IdeaCall \/ (scene = "timelock" /\ TimelockCall) \/ RegistryCall \/ RegistryAdmin
    PROVE  StepKept
<1>1. /\ RolesInv /\ TokenInv /\ MintInv /\ MiningInv /\ BuybackInv /\ RewardInv /\ VestingInv
      /\ IdeaInv /\ TimelockInv /\ RegistryInv
  BY DEF EconomyInv
<1>2. /\ scene \in DOMAIN MaxCalls /\ now \in Nat /\ now' = now /\ now' \in Nat /\ now' >= now
      /\ roles \in [Contracts -> RoleType]
  BY <1>1 DEF RolesInv
<1>3. Holders \subseteq Contracts
  BY AccountFacts DEF Holders
<1>4. CASE TokenCall \/ TokenAdmin
  <2>1. TokenKept
    BY <1>1, <1>2, <1>4, TokenCallKeeps, TokenAdminKeeps
  <2>2. TokenInv' /\ \A c \in Holders : balance'[c] = balance[c]
    BY <2>1, <1>3 DEF TokenKept
  <2>3. But("token") /\ UNCHANGED roles
    BY <1>4 DEF TokenCall, TokenAdmin
  <2> QED BY <1>2, <2>2, <2>3, PartKeeps
<1>5. CASE MintCall \/ MintAdmin
  <2>1. MintKept /\ TokenInv' /\ \A c \in Holders : balance'[c] = balance[c]
    BY <1>1, <1>2, <1>3, <1>5, MintCallKeeps, MintAdminKeeps, TokenUntouched DEF TokenKept
  <2>2. But("mint") /\ UNCHANGED roles
    BY <1>5 DEF MintCall, MintAdmin
  <2> QED BY <1>2, <2>1, <2>2, PartKeeps
<1>6. CASE MiningCall \/ MiningAdmin
  <2>1. MiningKept /\ TokenInv' /\ \A c \in Holders \ {"mining"} : balance'[c] = balance[c]
    BY <1>1, <1>2, <1>3, <1>6, MiningCallKeeps, MiningAdminKeeps, TokenUntouched DEF Quiet
  <2>2. But("mining") /\ UNCHANGED roles /\ UNCHANGED buybackVars
    BY <1>6 DEF MiningCall, MiningAdmin
  <2>3. BuybackInv'
    BY <1>1, <2>1, <2>2, BuybackUntouched DEF Holders
  <2> QED BY <1>2, <2>1, <2>2, <2>3, PartKeeps
<1>7. CASE BuybackCall \/ BuybackAdmin
  <2>1. BuybackInv' /\ MiningKept /\ TokenInv' /\ Quiet(MarketSide)
    BY <1>1, <1>2, <1>7, BuybackCallKeeps, BuybackAdminKeeps
  <2>2. \A c \in Holders \ {"mining", "buyback"} : balance'[c] = balance[c]
    BY <1>3, <2>1 DEF Quiet, MarketSide, Holders
  <2>3. But("mining") /\ UNCHANGED roles
    BY <1>7 DEF BuybackCall, BuybackAdmin
  <2> QED BY <1>2, <2>1, <2>2, <2>3, PartKeeps
<1>8. CASE RewardsCall \/ RewardsAdmin
  <2>1. RewardInv' /\ TokenInv' /\ \A c \in Holders \ {"rewards"} : balance'[c] = balance[c]
    BY <1>1, <1>2, <1>3, <1>8, RewardsKeep DEF Quiet
  <2>2. But("rewards") /\ UNCHANGED roles
    BY <1>8 DEF RewardsCall, RewardsAdmin
  <2> QED BY <1>2, <2>1, <2>2, PartKeeps
<1>9. CASE VestingCall
  <2>1. /\ VestingInv' /\ VestingKept /\ TokenInv'
        /\ \A c \in Holders \ {"vesting"} : balance'[c] = balance[c]
    BY <1>1, <1>2, <1>3, <1>9, VestingCallKeeps DEF Quiet
  <2>2. But("vesting") /\ UNCHANGED roles
    BY <1>9 DEF VestingCall
  <2> QED BY <1>2, <2>1, <2>2, PartKeeps
<1>10. CASE IdeaCall
  <2>1. IdeaInv' /\ TokenInv' /\ \A c \in Holders \ {"ideas"} : balance'[c] = balance[c]
    BY <1>1, <1>2, <1>3, <1>10, IdeaCallKeeps DEF Quiet
  <2>2. But("ideas") /\ UNCHANGED roles
    BY <1>10 DEF IdeaCall
  <2> QED BY <1>2, <2>1, <2>2, PartKeeps
<1>11. CASE scene = "timelock" /\ TimelockCall
  <2>1. TimelockInv' /\ TokenInv' /\ \A c \in Holders : balance'[c] = balance[c]
    BY <1>1, <1>11, TimelockCallKeeps, TokenUntouched
  <2>2. But("timelock") /\ UNCHANGED roles
    BY <1>11 DEF TimelockCall
  <2> QED BY <1>2, <2>1, <2>2, PartKeeps
<1>12. CASE RegistryCall \/ RegistryAdmin
  <2>1. But("registry") /\ UNCHANGED roles /\ UNCHANGED tokenVars
    BY <1>12 DEF RegistryCall, RegistryAdmin
  <2>2. RegistryInv' /\ TokenInv' /\ \A c \in Holders : balance'[c] = balance[c]
    BY <1>1, <1>2, <1>12, <2>1, RegistryKeeps, TokenUntouched
  <2> QED BY <1>2, <2>1, <2>2, PartKeeps
<1> QED
  BY <1>4, <1>5, <1>6, <1>7, <1>8, <1>9, <1>10, <1>11, <1>12

\* The calls that change who may call.
LEMMA RolesCallKeeps ==
    ASSUME EconomyInv, UNCHANGED <<now, scene>>, RolesCall
    PROVE  StepKept
<1>1. RolesInv /\ TokenInv /\ now \in Nat /\ now' = now /\ now' \in Nat /\ now' >= now
  BY DEF EconomyInv, RolesInv
<1>2. {"intel", "mint", "mining", "buyback", "pol", "rewards", "categories", "receipts"}
          \subseteq Contracts
  BY AccountFacts
<1>3. PICK caller \in Officers, own \in Contracts :
          SetOperator(own, caller) \/ TransferOwnership(own, caller) \/ AcceptOwnership(own, caller)
  BY <1>2 DEF RolesCall, IntelTransferOwnership, IntelAcceptOwnership,
              MintSetOperator, MintTransferOwnership, MintAcceptOwnership,
              MiningSetOperator, MiningTransferOwnership, MiningAcceptOwnership,
              BuybackSetOperator, BuybackTransferOwnership, BuybackAcceptOwnership,
              PolTransferOwnership, PolAcceptOwnership,
              RewardsSetOperator, RewardsTransferOwnership, RewardsAcceptOwnership,
              CategoriesSetOperator, CategoriesTransferOwnership, CategoriesAcceptOwnership,
              ReceiptsSetOperator, ReceiptsTransferOwnership, ReceiptsAcceptOwnership
<1>4. roles' \in [Contracts -> RoleType]
  BY <1>1, <1>3, RolesStep
<1>5. But("roles") /\ UNCHANGED tokenVars
  BY DEF RolesCall
<1>6. TokenInv' /\ \A c \in Holders : balance'[c] = balance[c]
  BY <1>1, <1>5, TokenUntouched
<1> QED
  BY <1>1, <1>4, <1>5, <1>6, PartKeeps

\* Time, and a step that changes nothing.
LEMMA TimeKeeps ==
    ASSUME EconomyInv, Tick \/ UNCHANGED vars
    PROVE  StepKept
<1>1. RolesInv /\ TokenInv /\ now \in Nat /\ roles \in [Contracts -> RoleType]
  BY DEF EconomyInv, RolesInv
<1>2. But("nobody") /\ UNCHANGED tokenVars /\ UNCHANGED <<roles, scene>>
  BY DEF Tick, vars, But
<1>3. now' \in Nat /\ now' >= now
  BY <1>1 DEF Tick, vars
<1>4. TokenInv' /\ \A c \in Holders : balance'[c] = balance[c]
  BY <1>1, <1>2, TokenUntouched
<1>5. roles' \in [Contracts -> RoleType]
  BY <1>1, <1>2
<1> QED
  BY <1>2, <1>3, <1>4, <1>5, PartKeeps

\* Every step.
LEMMA NextKeeps ==
    ASSUME EconomyInv, [Next]_vars
    PROVE  StepKept
<1>1. CASE Call
  <2>1. UNCHANGED <<now, scene>>
    BY <1>1 DEF Call
  <2>2. \/ TokenCall \/ MintCall \/ MiningCall \/ BuybackCall \/ RewardsCall \/ VestingCall
        \/ IdeaCall \/ (scene = "timelock" /\ TimelockCall) \/ RegistryCall
    BY <1>1 DEF Call
  <2> QED BY <2>1, <2>2, CallKeeps
<1>2. CASE Admin
  <2>1. UNCHANGED <<now, scene>>
    BY <1>2 DEF Admin
  <2>2. \/ TokenAdmin \/ MintAdmin \/ MiningAdmin \/ BuybackAdmin \/ RewardsAdmin
        \/ RegistryAdmin \/ RolesCall
    BY <1>2 DEF Admin
  <2> QED BY <2>1, <2>2, CallKeeps, RolesCallKeeps
<1> QED
  BY <1>1, <1>2, TimeKeeps DEF Next

-----------------------------------------------------------------------------
(* The initial states *)

\* The mining contract is wired to the buyback, or not.
LEMMA WiredOrNot ==
    ASSUME Init
    PROVE  \E wired \in BOOLEAN : Wired(wired)
<1>1. PICK wired \in Wirings : Wired(wired)
  BY DEF Init
<1>2. wired \in BOOLEAN
  BY DEF Wirings
<1> QED
  BY <1>1, <1>2

\* Who may call what, after the deployment.
LEMMA RolesStart ==
    ASSUME Init
    PROVE  RolesInv
<1>1. PICK wired \in BOOLEAN : Wired(wired)
  BY WiredOrNot
<1>2. Deployer \in Officers /\ "buyback" \in Contracts
  BY EconomyAssumption
<1>3. roles \in [Contracts -> RoleType]
  BY <1>1, <1>2 DEF Wired, RolesInit, RoleType
<1>4. scene \in DOMAIN MaxCalls /\ now \in Nat /\ (scene = "timelock" => now > Executed)
  BY DEF Init, Executed
<1> QED
  BY <1>3, <1>4 DEF RolesInv

\* The supply is what was shared out, and the other accounts hold nothing.
LEMMA TokenStart ==
    ASSUME Init
    PROVE  /\ TokenInv
           /\ balance["mining"] = 0 /\ balance["buyback"] = 0 /\ balance["ideas"] = 0
           /\ balance["rewards"] \in Nat /\ balance["vesting"] \in Nat
<1> DEFINE shares == Shares[scene]
           D == DOMAIN shares
           R == Accounts \ D
           m == IF scene = "mint" THEN "mint" ELSE NoOne
           held == SumFunctionOnSet(shares, D)
<1>1. /\ scene \in DOMAIN MaxCalls /\ TokenInit(shares, m)
  BY DEF Init
<1>2. /\ D \subseteq Accounts \ {"mining", "buyback", "ideas"}
      /\ \A a \in D : shares[a] \in Nat
      /\ MaxSupply > 0 => held <= MaxSupply
  BY <1>1, EconomyAssumption
<1>3. m \in Accounts \cup {NoOne}
  BY AccountFacts
<1> HIDE DEF m
<1>4. /\ IsFiniteSet(Accounts) /\ IsFiniteSet(D) /\ IsFiniteSet(R)
      /\ D \cup R = Accounts /\ D \cap R = {}
  <2>1. IsFiniteSet(Accounts)
    BY AccountFacts
  <2>2. D \subseteq Accounts /\ R \subseteq Accounts
    BY <1>2
  <2>3. IsFiniteSet(D) /\ IsFiniteSet(R)
    BY <2>1, <2>2, FS_Subset
  <2> QED BY <2>1, <2>2, <2>3
<1>5. /\ balance = [a \in Accounts |-> IF a \in D THEN shares[a] ELSE 0]
      /\ allowance = [a \in Users |-> [s \in Users |-> 0]]
      /\ token = [supply |-> held, minter |-> m, paused |-> FALSE]
  BY <1>1 DEF TokenInit
<1> HIDE DEF shares, D, R, held
<1>6. \A a \in Accounts : balance[a] = IF a \in D THEN shares[a] ELSE 0
  BY <1>5
<1>7. \A a \in Accounts : balance[a] \in Nat /\ balance[a] \in Int
  BY <1>2, <1>6
<1>8. /\ \A a \in D : balance[a] = shares[a] /\ balance[a] \in Int
      /\ \A a \in R : balance[a] = 0 /\ balance[a] \in Int
  BY <1>2, <1>4, <1>6, <1>7
<1>9. SumFunctionOnSet(balance, D) = held
  BY <1>4, <1>8, SumOfEquals DEF held
<1>10. SumFunctionOnSet(balance, R) = 0
  BY <1>4, <1>8, SumOfZeros
<1>11. SumFunctionOnSet(balance, D) \in Nat
  BY <1>2, <1>4, <1>8, SumOfNaturals
<1>12. SumFunctionOnSet(balance, D \cup R)
          = SumFunctionOnSet(balance, D) + SumFunctionOnSet(balance, R)
  BY <1>4, <1>8, SumOfUnion
<1>13. SumFunctionOnSet(balance, Accounts) = held /\ held \in Nat
  <2>1. SumFunctionOnSet(balance, Accounts)
           = SumFunctionOnSet(balance, D) + SumFunctionOnSet(balance, R)
    BY <1>4, <1>12
  <2> QED BY <1>9, <1>10, <1>11, <2>1
<1>14. TokenTypeOK
  <2>1. balance \in [Accounts -> Nat]
    BY <1>5, <1>7
  <2>2. allowance \in [Users -> [Users -> Nat]]
    BY <1>5
  <2>3. token \in [supply : Nat, minter : Accounts \cup {NoOne}, paused : BOOLEAN]
    BY <1>3, <1>5, <1>13
  <2> QED BY <2>1, <2>2, <2>3 DEF TokenTypeOK
<1>15. SupplyBacked
  BY <1>2, <1>5, <1>13 DEF SupplyBacked
<1>16. {"mining", "buyback", "ideas", "rewards", "vesting"} \subseteq Accounts
  BY AccountFacts
<1>17. balance["mining"] = 0 /\ balance["buyback"] = 0 /\ balance["ideas"] = 0
  BY <1>2, <1>6, <1>16
<1> QED
  BY <1>7, <1>14, <1>15, <1>16, <1>17 DEF TokenInv

\* The mint controller starts with nothing minted and nothing pending.
LEMMA MintStart ==
    ASSUME Init
    PROVE  MintInv
<1> DEFINE route == CHOOSE r \in Route : TRUE
<1>1. route \in Route
  BY EconomyAssumption
<1>2. now \in Nat /\ NoOne \notin Route /\ Quotas \subseteq Nat
  BY EconomyAssumption DEF Init
<1>3. MintInit(100, 2000, 100, route, 4)
  BY DEF Init
<1> HIDE DEF route
<1> DEFINE Start(ceiling, spread) ==
              [twap |-> 100, twapAt |-> now, floor |-> 100, premium |-> 2000,
               multiplier |-> BPS, paused |-> FALSE, cap |-> 4, minted |-> 0, capEpoch |-> 1,
               target |-> 100, floorBps |-> 2000, ceilingBps |-> ceiling, activity |-> FALSE,
               maxDeviation |-> spread, deviationCheck |-> TRUE,
               route |-> route, pending |-> NoOne, readyAt |-> 0]
<1>4. PICK ceiling \in Nat, spread \in Nat : mc = Start(ceiling, spread) /\ 2000 <= ceiling - 1
  <2>1. mc = Start(20000, 3000)
    BY <1>3 DEF MintInit
  <2>2. 20000 \in Nat /\ 3000 \in Nat /\ 2000 <= 20000 - 1
    OBVIOUS
  <2> HIDE DEF Start
  <2> QED BY <2>1, <2>2
<1>5. BPS \in Nat \ {0} /\ BPS \in BPS..3 * BPS
  BY DEF BPS
<1>6. /\ paid = [routed |-> 0, stakers |-> 0, kept |-> 0]
      /\ mintedIn = [e \in {1} |-> 0]
      /\ announcedAt = [r \in Route |-> NotYet]
  BY <1>3 DEF MintInit
<1>7. mc \in McType
  BY <1>1, <1>2, <1>4, <1>5 DEF McType
<1>8. staking \in [epoch : Nat \ {0}, left : [Users -> Nat]] /\ staking.epoch = 1
      /\ staking.left \in [Users -> Nat]
  BY <1>2, <1>3 DEF MintInit
<1>9. MintTypeOK
  BY <1>1, <1>2, <1>4, <1>5, <1>6, <1>8 DEF MintTypeOK
<1>10. /\ 1..staking.epoch = {1}
       /\ mintedIn \in [1..staking.epoch -> Nat]
       /\ mintedIn[staking.epoch] = 0
  BY <1>6, <1>8
<1> QED
  BY <1>4, <1>6, <1>7, <1>8, <1>9, <1>10 DEF MintInv

\* Nobody has staked, and nothing has been bought.
LEMMA LiquidityStart ==
    ASSUME Init
    PROVE  MiningInv /\ BuybackInv
<1>1. balance["mining"] = 0 /\ balance["buyback"] = 0 /\ now \in Nat
  BY TokenStart, RolesStart DEF RolesInv
<1>2. MiningInit
  BY DEF Init
<1>3. MiningTypeOK
  BY <1>2 DEF MiningInit, MiningTypeOK
<1>4. StakesApart
  <2> DEFINE s == [u \in Users |-> miners[u].staked]
  <2>1. \A u \in Users : s[u] = 0
    BY <1>2 DEF MiningInit
  <2>2. SumFunctionOnSet(s, Users) = 0
    <3> HIDE DEF s
    <3> QED BY <2>1, AccountFacts, SumOfZeros
  <2> QED BY <1>1, <1>2, <2>2 DEF MiningInit, StakesApart
<1>5. MiningInv
  BY <1>1, <1>2, <1>3, <1>4 DEF MiningInv, MiningInit
<1>6. PICK wired \in BOOLEAN : Wired(wired)
  BY WiredOrNot
<1>7. BuybackTypeOK
  BY <1>6 DEF Wired, BuybackInit, BuybackTypeOK
<1>8. BurnFloor /\ bought \in [all : Nat, burned : Nat]
  BY <1>1, <1>6 DEF Wired, BuybackInit, BurnFloor
<1> QED
  BY <1>5, <1>7, <1>8 DEF BuybackInv

\* No epoch has been distributed.
LEMMA RewardStart ==
    ASSUME Init
    PROVE  RewardInv
<1>1. RewardsInit(5, 1) /\ balance["rewards"] \in Nat
  <2>1. RewardsInit(5, 1)
    BY DEF Init
  <2> QED BY <2>1, TokenStart
<1>2. \A e \in Epochs : rewards[e] = NoScores
  BY <1>1 DEF RewardsInit
<1>3. NoScores \in RewardType
  <2>1. <<>> \in Seq(Users)
    OBVIOUS
  <2> QED BY <2>1 DEF NoScores, RewardType
<1>4. rewards \in [Epochs -> RewardType]
  BY <1>1, <1>3 DEF RewardsInit
<1>5. RewardTypeOK
  <2>1. \A e \in Epochs : rewards[e] \in RewardType /\ rewards[e].claimed = {}
    BY <1>2, <1>3 DEF NoScores
  <2> QED BY <2>1 DEF RewardType, RewardTypeOK
<1>6. rewardConf \in [pool : Nat, topBps : Nat, minAiu : Nat, maxJobs : Nat, epoch : Nat,
                      jobs : [Epochs -> [Users -> Nat]]]
  BY <1>1 DEF RewardsInit
<1>7. \A e \in Epochs : \A w \in Users : rewards[e].earned[w] = 0
  BY <1>2 DEF NoScores
<1>8. RewardsCovered
  <2> DEFINE f == [e \in Epochs |-> Unclaimed(e)]
  <2>1. \A e \in Epochs : f[e] = 0
    <3> SUFFICES ASSUME NEW e \in Epochs PROVE Unclaimed(e) = 0
      OBVIOUS
    <3>1. IsFiniteSet(Users \ rewards[e].claimed)
      BY AccountFacts, FS_Subset
    <3> QED BY <1>7, <3>1, SumOfZeros DEF Unclaimed
  <2> HIDE DEF f
  <2>2. SumFunctionOnSet(f, Epochs) = 0
    BY <2>1, EconomyAssumption, SumOfZeros
  <2> QED BY <1>1, <2>2 DEF RewardsCovered, f
<1> QED
  BY <1>4, <1>5, <1>6, <1>7, <1>8 DEF RewardInv

\* Nothing has been released.
LEMMA VestingStart ==
    ASSUME Init
    PROVE  VestingInv
<1>1. vesting = [released |-> 0, revoked |-> FALSE] /\ now \in Nat
  BY DEF Init, VestingInit
<1>2. Allocation \in Nat /\ Cliff \in Nat /\ VestingDuration \in Nat \ {0}
  BY EconomyAssumption
<1>3. ASSUME now >= Cliff PROVE (Allocation * (now - Cliff)) \div VestingDuration >= 0
  <2>1. now - Cliff \in Nat
    BY <1>1, <1>2, <1>3
  <2> DEFINE t == now - Cliff
  <2> HIDE DEF t
  <2>2. Allocation * t \in Nat
    BY <1>2, <2>1, ProductGrows DEF t
  <2>3. (Allocation * t) \div VestingDuration \in Nat
    BY <1>2, <2>2, Quotient
  <2> QED BY <2>3 DEF t
<1>4. VestedAmount(now) >= 0
  BY <1>1, <1>2, <1>3 DEF VestedAmount
<1> QED
  BY <1>1, <1>2, <1>4 DEF VestingInv, VestingTypeOK

\* No idea has been funded.
LEMMA IdeaStart ==
    ASSUME Init
    PROVE  IdeaInv
<1>1. IdeasInit /\ balance["ideas"] = 0
  <2>1. IdeasInit
    BY DEF Init
  <2> QED BY <2>1, TokenStart
<1>2. IdeaTypeOK /\ dust = 0 /\ \A i \in Ideas : ideas[i].total = 0 /\ ideas[i].available = 0
  BY <1>1 DEF IdeasInit, IdeaTypeOK
<1>3. \A i \in Ideas : Held(i) = 0
  <2> SUFFICES ASSUME NEW i \in Ideas PROVE Held(i) = 0
    OBVIOUS
  <2>1. Reserved(i) = {}
    BY <1>1 DEF IdeasInit, Reserved
  <2>2. SumFunctionOnSet([m \in Milestones |-> milestones[m].amount], {}) = 0
    BY SumOfNothing
  <2> QED BY <1>2, <2>1, <2>2 DEF Held
<1>4. IdeasApart
  <2> DEFINE h == [i \in Ideas |-> Held(i)]
  <2>1. \A i \in Ideas : h[i] = 0
    BY <1>3
  <2> HIDE DEF h
  <2>2. SumFunctionOnSet(h, Ideas) = 0
    BY <2>1, EconomyAssumption, SumOfZeros
  <2> QED BY <1>1, <1>2, <1>3, <2>2 DEF IdeasApart, h
<1> QED
  BY <1>2, <1>4 DEF IdeaInv

\* Nothing is queued, and no agent has earned.
LEMMA GovernanceStart ==
    ASSUME Init
    PROVE  TimelockInv /\ RegistryInv
<1>1. TimelockInit(Deployer, MinimumDelay, {}) /\ CategoryInit(Weights)
  BY DEF Init
<1>2. MinimumDelay \in Nat /\ Deployer \in Officers
  BY TimelockAssumption, EconomyAssumption
<1>3. TimelockInv
  BY <1>1, <1>2 DEF TimelockInit, TimelockInv, TimelockTypeOK, OperationsKept, IsQueued,
                    Unknown, Executed, NotQueued
<1>4. /\ IsFiniteSet(Categories) /\ IsFiniteSet(Agents) /\ 0 \in Categories
      /\ Weights \in [Categories -> 0..BPSTotal]
      /\ SumFunctionOnSet(Weights, Categories) = BPSTotal
  BY EconomyAssumption
<1>5. /\ cats = [c \in Categories |->
                   [weight |-> Weights[c], aiu |-> 0, volume |-> 0, active |-> TRUE]]
      /\ profile = [a \in Agents |-> [aiu |-> [c \in Categories |-> 0],
                                      jobs |-> [c \in Categories |-> 0], primary |-> 0]]
  BY <1>1 DEF CategoryInit
<1>6. RegistryTypeOK
  BY <1>4, <1>5 DEF RegistryTypeOK
<1>7. SumFunctionOnSet([c \in Categories |-> cats[c].weight], Categories) = BPSTotal
  <2>1. [c \in Categories |-> cats[c].weight] = Weights
    BY <1>4, <1>5
  <2> QED BY <1>4, <2>1
<1>8. \A c \in Categories :
         cats[c].aiu = SumFunctionOnSet([a \in Agents |-> profile[a].aiu[c]], Agents)
  <2> SUFFICES ASSUME NEW c \in Categories
               PROVE  cats[c].aiu = SumFunctionOnSet([a \in Agents |-> profile[a].aiu[c]], Agents)
    OBVIOUS
  <2> DEFINE f == [a \in Agents |-> profile[a].aiu[c]]
  <2>1. \A a \in Agents : f[a] = 0
    BY <1>5
  <2> HIDE DEF f
  <2>2. SumFunctionOnSet(f, Agents) = 0
    BY <1>4, <2>1, SumOfZeros
  <2> QED BY <1>5, <2>2 DEF f
<1>9. \A a \in Agents, c \in Categories : profile[a].aiu[c] <= profile[a].aiu[profile[a].primary]
  BY <1>4, <1>5
<1> QED
  BY <1>3, <1>6, <1>7, <1>8, <1>9 DEF RegistryInv, ProfilesAgree

\* The invariant holds after the deployment.
LEMMA EconomyStarts == Init => EconomyInv
  BY RolesStart, TokenStart, MintStart, LiquidityStart, RewardStart, VestingStart, IdeaStart,
     GovernanceStart DEF EconomyInv

-----------------------------------------------------------------------------
(* The theorems *)

\* The invariant holds throughout.
THEOREM EconomyInvariant == Spec => []EconomyInv
<1>1. EconomyInv /\ [Next]_vars => EconomyInv'
  BY NextKeeps DEF StepKept
<1> QED
  BY EconomyStarts, <1>1, PTL DEF Spec

\* Every slot of the contracts holds a value of its type.
THEOREM EconomyTyped == Spec => []EconomyTypeOK
<1>1. EconomyInv => EconomyTypeOK
  BY DEF EconomyInv, EconomyTypeOK, RolesInv, TokenInv, MintInv, MiningInv, BuybackInv, RewardInv,
         VestingInv, IdeaInv, TimelockInv, RegistryInv
<1> QED
  BY EconomyInvariant, <1>1, PTL

\* The supply is what the accounts hold, and every contract holds what it owes: the
\* stakes and the rewards, the shares of workers, the ideas' money; and seven tenths
\* of what was bought back are burned.
THEOREM FundsAreBacked == Spec => []FundsBacked
<1>1. EconomyInv => FundsBacked
  BY DEF EconomyInv, FundsBacked, TokenInv, MiningInv, BuybackInv, RewardInv, IdeaInv
<1> QED
  BY EconomyInvariant, <1>1, PTL

\* The timelock runs an operation once, after its delay, and the registries' totals
\* are what the agents earned.
THEOREM RecordsAreKept == Spec => []RecordsAgree
<1>1. EconomyInv => RecordsAgree
  BY DEF EconomyInv, RecordsAgree, TimelockInv, RegistryInv
<1> QED
  BY EconomyInvariant, <1>1, PTL

\* No step mints above the cap, pays unannounced addresses or at an unannounced rate,
\* or takes what has vested.
THEOREM LimitsAreKept == Spec => LimitsKept
<1>1. EconomyInv /\ [Next]_vars => [MintCapKept /\ RoutingAnnounced /\ RateAnnounced /\ VestingKept]_vars
  BY NextKeeps DEF StepKept
<1> QED
  BY EconomyInvariant, <1>1, PTL DEF Spec, LimitsKept
=============================================================================
