----------------------------- MODULE IntelToken -----------------------------
(***************************************************************************)
(* IntelToken.sol: the ERC-20 that the contracts hold and move.  Its owner *)
(* pauses it and names the minter.  A contract that draws from a user's    *)
(* balance calls Move: the user is the caller and has approved it, save    *)
(* where a contract's own approvals matter.                                *)
(***************************************************************************)
EXTENDS Roles, Integers, FiniteSetsExt

CONSTANTS
    Users,          \* wallets
    MaxSupply       \* 0 for none

VARIABLES
    balance,        \* balanceOf
    allowance,      \* allowance, by owner and spender
    token           \* totalSupply, minter, paused

tokenVars == <<balance, allowance, token>>

Accounts == Users \cup Officers \cup Contracts

TokenInit(shares, minter) ==
    /\ balance = [a \in Accounts |-> IF a \in DOMAIN shares THEN shares[a] ELSE 0]
    /\ allowance = [a \in Users |-> [s \in Users |-> 0]]
    /\ token = [supply |-> SumFunctionOnSet(shares, DOMAIN shares),
                minter |-> minter, paused |-> FALSE]

Moved(b, from, to, amount) == [[b EXCEPT ![from] = @ - amount] EXCEPT ![to] = @ + amount]

\* _transfer under whenNotPaused, by a contract or by transfer
Move(from, to, amount) ==
    /\ ~token.paused
    /\ balance[from] >= amount
    /\ balance' = Moved(balance, from, to, amount)
    /\ UNCHANGED <<allowance, token>>

Approve(u, spender, amount) ==
    /\ allowance' = [allowance EXCEPT ![u][spender] = amount]
    /\ UNCHANGED <<balance, token>>

TransferFrom(spender, from, to, amount) ==
    /\ ~token.paused
    /\ allowance[from][spender] >= amount
    /\ balance[from] >= amount
    /\ allowance' = [allowance EXCEPT ![from][spender] = @ - amount]
    /\ balance' = Moved(balance, from, to, amount)
    /\ UNCHANGED token

CanMint(caller, amount) ==
    /\ caller = token.minter \/ IsOwner("intel", caller)
    /\ ~token.paused
    /\ MaxSupply > 0 => token.supply + amount <= MaxSupply

Mint(caller, to, amount) ==
    /\ CanMint(caller, amount)
    /\ balance' = [balance EXCEPT ![to] = @ + amount]
    /\ token' = [token EXCEPT !.supply = @ + amount]
    /\ UNCHANGED allowance

Burn(from, amount) ==
    /\ ~token.paused
    /\ balance[from] >= amount
    /\ balance' = [balance EXCEPT ![from] = @ - amount]
    /\ token' = [token EXCEPT !.supply = @ - amount]
    /\ UNCHANGED allowance

BurnFrom(spender, from, amount) ==
    /\ ~token.paused
    /\ allowance[from][spender] >= amount
    /\ balance[from] >= amount
    /\ allowance' = [allowance EXCEPT ![from][spender] = @ - amount]
    /\ balance' = [balance EXCEPT ![from] = @ - amount]
    /\ token' = [token EXCEPT !.supply = @ - amount]

Pause(caller) ==
    /\ IsOwner("intel", caller)
    /\ token' = [token EXCEPT !.paused = TRUE]
    /\ UNCHANGED <<balance, allowance>>

Unpause(caller) ==
    /\ IsOwner("intel", caller)
    /\ token' = [token EXCEPT !.paused = FALSE]
    /\ UNCHANGED <<balance, allowance>>

\* address(0) revokes
SetMinter(caller, minter) ==
    /\ IsOwner("intel", caller)
    /\ token' = [token EXCEPT !.minter = minter]
    /\ UNCHANGED <<balance, allowance>>

IntelTransferOwnership(caller) == TransferOwnership("intel", caller)
IntelAcceptOwnership(caller) == AcceptOwnership("intel", caller)

-----------------------------------------------------------------------------
(* Properties *)

TokenTypeOK ==
    /\ balance \in [Accounts -> Nat]
    /\ allowance \in [Users -> [Users -> Nat]]
    /\ token \in [supply : Nat, minter : Accounts \cup {NoOne}, paused : BOOLEAN]

\* The supply is what the accounts hold, and stays below its maximum whoever
\* mints, the minter or the owner, and whatever is burned in between.
SupplyBacked ==
    /\ token.supply = SumFunctionOnSet(balance, Accounts)
    /\ MaxSupply > 0 => token.supply <= MaxSupply
=============================================================================
