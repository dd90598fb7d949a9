------------------------ MODULE IntelMintController ------------------------
(***************************************************************************)
(* IntelMintController.sol: users with an allowance from IntelStaking buy  *)
(* INTEL at a price that follows a TWAP, up to a cap per staking epoch;    *)
(* the payment goes to POL, stakers and treasury.                          *)
(*                                                                         *)
(* Prices are per unit of INTEL.  IntelStaking is its epoch and what is    *)
(* left of each wallet's allowance; the model IntelStaking has how they    *)
(* come about.  Its depositEthYield refuses an empty deposit and may fail  *)
(* otherwise.  The two addresses paid are opaque; payments in an ERC-20    *)
(* differ from those in ether in that stakers are not paid.                *)
(***************************************************************************)
EXTENDS IntelToken

CONSTANTS
    Addresses,        \* addresses that may be paid
    TwapMaxAge, RoutingTimelock,  \* TWAP_MAX_AGE, ROUTING_TIMELOCK
    BaseCap,          \* BASE_EPOCH_CAP
    Quotas            \* allowances IntelStaking may grant

VARIABLES
    mc,               \* the storage of the contract
    paid,             \* ether sent: to the addresses, to stakers; and kept
    staking,          \* epoch, and allowance left, by user
    mintedIn,         \* history: INTEL minted through the controller, by epoch
    announcedAt       \* history: when the pair of addresses pending was proposed,
                      \* NotYet for the pairs that are not pending

mintVars == <<mc, paid, staking, mintedIn, announcedAt>>

BPS == 10000
NotYet == -1

Route == [pol : Addresses, treasury : Addresses]

\* When stakers have been granted a quota.
MintInit(floor, premium, firstTwap, route, cap) ==
    /\ mc = [twap |-> firstTwap, twapAt |-> now, floor |-> floor, premium |-> premium,
             multiplier |-> BPS, paused |-> FALSE,
             cap |-> cap, minted |-> 0, capEpoch |-> 1,
             target |-> 100, floorBps |-> 2000, ceilingBps |-> 20000, activity |-> FALSE,
             maxDeviation |-> 3000, deviationCheck |-> TRUE,
             route |-> route, pending |-> NoOne, readyAt |-> 0]
    /\ paid = [routed |-> 0, stakers |-> 0, kept |-> 0]
    /\ \E q \in Quotas : staking = [epoch |-> 1, left |-> [u \in Users |-> q]]
    /\ mintedIn = [e \in {1} |-> 0]
    /\ announcedAt = [r \in Route |-> NotYet]

-----------------------------------------------------------------------------
(* The price *)

TwapIsStale == mc.twapAt > 0 /\ now - mc.twapAt > TwapMaxAge

MintPrice ==
    LET withPremium == ((IF TwapIsStale THEN mc.floor ELSE mc.twap) * (BPS + mc.premium)) \div BPS
        base == IF withPremium > mc.floor THEN withPremium ELSE mc.floor
    IN  (base * mc.multiplier) \div BPS

\* _checkTwapDeviation
TwapDeviates ==
    /\ mc.deviationCheck
    /\ mc.twap > 0 /\ mc.floor > 0
    /\ mc.twap < (mc.floor * (BPS - mc.maxDeviation)) \div BPS

\* Both ways of setting the TWAP refuse one far below the floor or far from the last.
TwapAccepted(new) ==
    /\ mc.floor > 0 => new >= (mc.floor * 8000) \div BPS
    /\ mc.twap > 0 => ((IF new > mc.twap THEN new - mc.twap ELSE mc.twap - new) * BPS)
                          \div mc.twap <= 5000

UpdateTWAP(caller, new) ==
    /\ IsOperator("mint", caller)
    /\ new > 0
    /\ TwapAccepted(new)
    /\ mc' = [mc EXCEPT !.twap = new, !.twapAt = now]
    /\ UNCHANGED <<paid, staking, mintedIn, announcedAt>>

\* from a pool that reports the price observed
PullTWAP(caller, observed) ==
    /\ IsOperator("mint", caller)
    /\ TwapAccepted(observed)
    /\ mc' = [mc EXCEPT !.twap = IF observed < mc.floor THEN mc.floor ELSE observed,
                        !.twapAt = now]
    /\ UNCHANGED <<paid, staking, mintedIn, announcedAt>>

UpdateUtilization(caller, pendingVolume, capacity) ==
    LET ratio == IF capacity = 0 \/ pendingVolume = 0 THEN BPS
                 ELSE (pendingVolume * BPS) \div capacity
    IN
    /\ IsOperator("mint", caller)
    /\ mc' = [mc EXCEPT !.multiplier =
                  IF ratio < BPS THEN BPS ELSE IF ratio > 3 * BPS THEN 3 * BPS ELSE ratio]
    /\ UNCHANGED <<paid, staking, mintedIn, announcedAt>>

-----------------------------------------------------------------------------
(* Minting *)

\* A slip the checks must notice: nothing is counted while there is no cap.
CountedUnderCap(amount) ==
    LET minted == IF staking.epoch > mc.capEpoch THEN 0 ELSE mc.minted IN
    /\ mc.cap > 0 => minted + amount <= mc.cap
    /\ mc' = IF mc.cap = 0 THEN mc
             ELSE [mc EXCEPT !.minted = minted + amount, !.capEpoch = staking.epoch]

\* _checkAndUpdateEpochMinted
CheckAndUpdateEpochMinted(amount) ==
    LET minted == IF staking.epoch > mc.capEpoch THEN 0 ELSE mc.minted IN
    /\ mc.cap > 0 => minted + amount <= mc.cap
    /\ mc' = [mc EXCEPT !.minted = minted + amount, !.capEpoch = staking.epoch]

Minting(to, amount) ==
    /\ amount > 0
    /\ ~mc.paused /\ ~TwapIsStale /\ ~TwapDeviates
    /\ amount <= staking.left[to]
    /\ staking' = [staking EXCEPT !.left[to] = @ - amount]
    /\ CheckAndUpdateEpochMinted(amount)
    /\ Mint("mint", to, amount)
    /\ mintedIn' = [mintedIn EXCEPT ![staking.epoch] = @ + amount]
    /\ UNCHANGED announcedAt

\* _doMint: selfMint, or executeMint by an operator
MintForEther(caller, to, amount, maxPrice) ==
    LET required == MintPrice * amount
        stakers == (required * 4500) \div BPS
    IN
    /\ caller = to \/ IsOperator("mint", caller)
    /\ MintPrice <= maxPrice
    /\ Minting(to, amount)
    /\ stakers > 0
    /\ paid' = [paid EXCEPT !.routed = @ + required - stakers, !.stakers = @ + stakers]

\* the stakers' share goes to the POL address
ExecuteMintERC20(caller, to, amount, maxPrice) ==
    /\ IsOperator("mint", caller)
    /\ MintPrice <= maxPrice
    /\ Minting(to, amount)
    /\ UNCHANGED paid

-----------------------------------------------------------------------------
(* The cap, the addresses, the other parameters *)

SetEpochMintCap(caller, new) ==
    /\ IsOwner("mint", caller)
    /\ new = 0 \/ new >= mc.cap
    /\ mc' = [mc EXCEPT !.cap = new]
    /\ UNCHANGED <<paid, staking, mintedIn, announcedAt>>

UpdateEpochCapFromActivity(caller, volume) ==
    LET ratio == (volume * BPS) \div mc.target
        clamped == IF ratio < mc.floorBps THEN mc.floorBps
                   ELSE IF ratio > mc.ceilingBps THEN mc.ceilingBps ELSE ratio
    IN
    /\ IsOperator("mint", caller)
    /\ mc.activity
    /\ mc' = [mc EXCEPT !.cap = (BaseCap * clamped) \div BPS]
    /\ UNCHANGED <<paid, staking, mintedIn, announcedAt>>

SetActivityCap(caller, target, floorBps, ceilingBps, enabled) ==
    /\ IsOwner("mint", caller)
    /\ \/ mc' = [mc EXCEPT !.activity = enabled]
       \/ target > 0 /\ mc' = [mc EXCEPT !.target = target]
       \/ /\ floorBps > 0 /\ floorBps < ceilingBps /\ ceilingBps <= 50000
          /\ mc' = [mc EXCEPT !.floorBps = floorBps, !.ceilingBps = ceilingBps]
    /\ UNCHANGED <<paid, staking, mintedIn, announcedAt>>

ProposeRoutingAddresses(caller, r) ==
    /\ IsOwner("mint", caller)
    /\ mc' = [mc EXCEPT !.pending = r, !.readyAt = now + RoutingTimelock]
    /\ announcedAt' = [x \in Route |-> IF x = r THEN now ELSE NotYet]
    /\ UNCHANGED <<paid, staking, mintedIn>>

\* A slip the checks must notice: the clock of the proposal applied is not reset.
ApplyKeepingClock(caller) ==
    /\ IsOwner("mint", caller)
    /\ mc.readyAt # 0 /\ mc.pending # NoOne
    /\ now >= mc.readyAt
    /\ mc' = [mc EXCEPT !.route = mc.pending, !.pending = NoOne]
    /\ announcedAt' = [r \in Route |-> NotYet]
    /\ UNCHANGED <<paid, staking, mintedIn>>

ApplyRoutingAddresses(caller) ==
    /\ IsOwner("mint", caller)
    /\ mc.readyAt # 0 /\ mc.pending # NoOne
    /\ now >= mc.readyAt
    /\ mc' = [mc EXCEPT !.route = mc.pending, !.pending = NoOne, !.readyAt = 0]
    /\ announcedAt' = [r \in Route |-> NotYet]
    /\ UNCHANGED <<paid, staking, mintedIn>>

CancelRoutingAddresses(caller) ==
    /\ IsOwner("mint", caller)
    /\ mc' = [mc EXCEPT !.pending = NoOne, !.readyAt = 0]
    /\ announcedAt' = [r \in Route |-> NotYet]
    /\ UNCHANGED <<paid, staking, mintedIn>>

\* pauseMinting, unpauseMinting
PauseMinting(caller, pause) ==
    /\ IsOwner("mint", caller)
    /\ mc' = [mc EXCEPT !.paused = pause]
    /\ UNCHANGED <<paid, staking, mintedIn, announcedAt>>

\* setFloorPrice, setPremium
SetPrices(caller, floor, premium) ==
    /\ IsOwner("mint", caller)
    /\ mc' \in {[mc EXCEPT !.floor = floor], [mc EXCEPT !.premium = premium]}
    /\ UNCHANGED <<paid, staking, mintedIn, announcedAt>>

\* setMaxTwapDeviation, setTwapDeviationPauseEnabled
SetTwapDeviation(caller, bps, enabled) ==
    /\ IsOwner("mint", caller)
    /\ \/ bps <= BPS /\ mc' = [mc EXCEPT !.maxDeviation = bps]
       \/ mc' = [mc EXCEPT !.deviationCheck = enabled]
    /\ UNCHANGED <<paid, staking, mintedIn, announcedAt>>

ReceiveEther(amount) ==
    /\ paid' = [paid EXCEPT !.kept = @ + amount]
    /\ UNCHANGED <<mc, staking, mintedIn, announcedAt>>

SweepETH(caller) ==
    /\ IsOwner("mint", caller)
    /\ paid.kept > 0
    /\ paid' = [paid EXCEPT !.kept = 0]
    /\ UNCHANGED <<mc, staking, mintedIn, announcedAt>>

MintSetOperator(caller) == SetOperator("mint", caller)
MintTransferOwnership(caller) == TransferOwnership("mint", caller)
MintAcceptOwnership(caller) == AcceptOwnership("mint", caller)

\* IntelStaking moves to a new epoch and grants allowances.
NextStakingEpoch ==
    /\ \E left \in [Users -> Quotas] : staking' = [epoch |-> staking.epoch + 1, left |-> left]
    /\ mintedIn' = [e \in 1..staking.epoch + 1 |-> IF e \in DOMAIN mintedIn THEN mintedIn[e] ELSE 0]
    /\ UNCHANGED <<mc, paid, announcedAt>>

-----------------------------------------------------------------------------
(* Properties *)

MintTypeOK ==
    /\ mc.twap \in Nat /\ mc.twapAt \in Nat /\ mc.floor \in Nat /\ mc.premium \in Nat
    /\ mc.multiplier \in BPS..3 * BPS
    /\ mc.cap \in Nat /\ mc.minted \in Nat /\ mc.capEpoch \in 1..staking.epoch
    /\ mc.floorBps \in 1..mc.ceilingBps - 1
    /\ mc.route \in Route /\ mc.pending \in Route \cup {NoOne}
    /\ (mc.pending = NoOne) = (mc.readyAt = 0)
    /\ paid \in [routed : Nat, stakers : Nat, kept : Nat]
    /\ staking.left \in [Users -> Nat]

\* What is minted through the controller in a staking epoch is, after every mint,
\* within the cap of that moment, however often the cap was lifted, lowered or
\* recomputed from activity before, and whether or not the epoch turned.
MintCapKept ==
    \A e \in DOMAIN mintedIn :
        mintedIn'[e] > mintedIn[e] => mc.cap = 0 \/ mintedIn'[e] <= mc.cap

\* The addresses that are paid change only to a pair that was the owner's latest
\* proposal, uncancelled, for the whole of the timelock.
RoutingAnnounced ==
    mc'.route # mc.route =>
        announcedAt[mc'.route] # NotYet /\ now >= announcedAt[mc'.route] + RoutingTimelock
=============================================================================
