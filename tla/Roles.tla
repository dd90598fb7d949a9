------------------------------- MODULE Roles -------------------------------
(***************************************************************************)
(* What many of the contracts repeat line by line: an owner, who may name  *)
(* operators and nominate a next owner, and the nominee's acceptance.  The *)
(* modules of the contracts use these operators under their own names.     *)
(***************************************************************************)
CONSTANTS
    Contracts,      \* the contracts composed, as accounts
    Deployer,       \* msg.sender of the constructors
    Officers,       \* accounts the owner may name operator or owner
    NoOne           \* address(0)

VARIABLES
    roles,          \* by contract: owner, pendingOwner, operators
    now             \* block.timestamp

RoleType ==
    [owner : Officers, pendingOwner : Officers \cup {NoOne},
     operators : SUBSET (Officers \cup Contracts)]

\* Roles after deployment, when wired[c] have been made operators of c.
RolesInit(wired) ==
    roles = [c \in Contracts |->
                [owner |-> Deployer, pendingOwner |-> NoOne, operators |-> wired[c]]]

IsOwner(c, caller) == caller = roles[c].owner

IsOperator(c, caller) == caller \in roles[c].operators \cup {roles[c].owner}

SetOperator(c, caller) ==
    /\ IsOwner(c, caller)
    /\ \E op \in Officers \cup Contracts :
          roles' \in {[roles EXCEPT ![c].operators = @ \cup {op}],
                      [roles EXCEPT ![c].operators = @ \ {op}]}

TransferOwnership(c, caller) ==
    /\ IsOwner(c, caller)
    /\ \E a \in Officers : roles' = [roles EXCEPT ![c].pendingOwner = a]

AcceptOwnership(c, caller) ==
    /\ caller = roles[c].pendingOwner
    /\ roles' = [roles EXCEPT ![c].owner = caller, ![c].pendingOwner = NoOne]
=============================================================================
