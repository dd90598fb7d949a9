---------------------------- MODULE ReviewSystem ----------------------------
(***************************************************************************)
(* The review side of the protocol: ReviewerQueue, ReviewerStakeManager,   *)
(* ReviewerCredential, WorkerStakeManager and DisputeResolution, deployed  *)
(* together.  A slash, the stake manager's or a dispute's, takes the       *)
(* reviewer out of the queue; credentials follow the reviews recorded.     *)
(*                                                                         *)
(* scene, fixed at the start, picks the contracts that are called in a     *)
(* behaviour, so that the number of behaviours is the sum and not the      *)
(* product of theirs; contracts called in different scenes share nothing   *)
(* but the reviewers' stake manager, which is called in all.               *)
(***************************************************************************)
EXTENDS DisputeResolution

CONSTANTS
    Values,              \* by scene: amounts of INTEL
    MinBond, Cooldown, Timeout, MaxActive,
    DisputeParams,       \* parameters of DisputeResolution's constructor
    NewDisputeParams,    \* and those its owner may set
    Funds,               \* INTEL DisputeResolution may be given beforehand
    MaxCalls,            \* by scene: bound on the calls of a behaviour
    MaxDisputes, MaxAdminCalls, MaxTime    \* bounds

ParamType == [jurors : Nat, quorumBps : Bps, window : Nat, bond : Nat, slashBps : Bps]

ASSUME ReviewAssumption ==
    /\ {"queue", "rsm", "credential", "wsm", "disputes"} \subseteq Contracts /\ Deployer \in Officers
    /\ IsFiniteSet(Reviewers) /\ IsFiniteSet(Workers) /\ IsFiniteSet(Jurors)
    /\ {MinBond, Cooldown, Timeout, MaxActive} \subseteq Nat /\ Funds \subseteq Nat
    /\ {SlashLockWindow, WorkerLockWindow, GracePeriod, ExpiryGrace} \subseteq Nat
    /\ Values \in [DOMAIN MaxCalls -> SUBSET Nat]
    /\ {DisputeParams, NewDisputeParams} \subseteq ParamType

VARIABLES scene, calls, adminCalls

vars == <<queueVars, rsmVars, creds, wsmVars, disputeVars, roles, now, scene, calls, adminCalls>>

\* Nothing wired, as the deployment scripts leave it, or everything, as the tests do.
Init ==
    /\ scene \in DOMAIN MaxCalls
    /\ \E wired \in BOOLEAN, funds \in Funds :
          /\ RolesInit([c \in Contracts |->
                IF ~wired THEN {}
                ELSE CASE c = "queue" -> {"rsm"}
                       [] c \in {"rsm", "wsm"} -> {"disputes"}
                       [] OTHER -> {}])
          /\ RSMInit(MinBond, Cooldown, wired)
          /\ DRInit(DisputeParams, wired, funds)
    /\ QueueInit(Timeout, MaxActive)
    /\ CredentialInit
    /\ WSMInit(Cooldown)
    /\ now = 0 /\ calls = 0 /\ adminCalls = 0

Bond == [r \in Reviewers |-> reviewers[r].bond]

RegisterCall ==
    /\ \E r \in Reviewers, amount \in Values[scene] : RegisterAsReviewer(r, amount)
    /\ UNCHANGED <<queueVars, wsmVars, creds, disputeVars, roles>>

UnstakeCall ==
    /\ \E r \in Reviewers : FinalizeUnstake(r) \/ \E amount \in Values[scene] : RequestUnstake(r, amount)
    /\ UNCHANGED <<queueVars, wsmVars, creds, disputeVars, roles>>

RecordCall ==
    /\ \E caller \in Officers, r \in Reviewers, value \in Values[scene] : RecordReview(caller, r, value)
    /\ UNCHANGED <<queueVars, wsmVars, creds, disputeVars, roles>>

FeeCall ==
    /\ \/ \E r \in Reviewers : ClaimReviewFees(r)
       \/ \E caller \in Officers, amount \in Values[scene] : DepositFees(caller, amount)
    /\ UNCHANGED <<queueVars, wsmVars, creds, disputeVars, roles>>

SlashCall ==
    /\ \E caller \in Officers, r \in Reviewers, amount \in Values[scene] : Slash(caller, r, amount)
    /\ UNCHANGED <<wsmVars, creds, disputeVars, roles>>

QueueCall ==
    /\ \E caller \in Officers, t \in Tasks, r \in Reviewers :
          \/ \E list \in SUBSET Reviewers, worker \in Reviewers \cup {NoOne} :
                AssignReview(caller, t, list, worker, Bond)
          \/ \E list \in SUBSET Reviewers : ReassignTimedOut(caller, t, list, Bond)
          \/ CompleteReview(caller, t, r)
          \/ RemoveEligibleReviewer(caller, r)
          \/ SetVerified(r)
    /\ UNCHANGED <<rsmVars, wsmVars, creds, disputeVars, roles>>

CredentialCall ==
    /\ \E caller \in Officers, r \in Reviewers :
          \/ MintInitialCredential(caller, r)
          \/ \E more \in 0..1 : EvaluateAndUpdateTier(caller, r, creds[r].slashes + more)
    /\ UNCHANGED <<queueVars, rsmVars, wsmVars, disputeVars, roles>>

WSMCall ==
    /\ \E w \in Workers, amount \in Values[scene] :
          \/ WorkerStake(w, amount)
          \/ WorkerRequestUnstake(w, amount)
          \/ WorkerFinalizeUnstake(w)
          \/ \E caller \in Officers : WorkerSlash(caller, w, amount)
    /\ UNCHANGED <<queueVars, rsmVars, creds, disputeVars, roles>>

Opened ==
    /\ Len(disputes) < MaxDisputes
    /\ \E t \in Tasks, w \in Workers, r \in Reviewers : OpenDispute(t, w, r)

DisputeCall ==
    /\ \/ Opened
       \/ \E d \in 1..Len(disputes) :
             \/ \E caller \in Officers, jury \in [1..dr.jurors -> Jurors] : SelectJury(caller, d, jury)
             \/ \E juror \in Jurors, uphold \in BOOLEAN : CastVote(juror, d, uphold)
    /\ UNCHANGED <<queueVars, rsmVars, wsmVars, creds, roles>>

VerdictCall ==
    /\ \E d \in 1..Len(disputes) :
          \/ \E caller \in Officers, fault \in BOOLEAN : ResolveDispute(caller, d, fault)
          \/ ExpireDispute(d)
    /\ UNCHANGED <<creds, roles>>

RolesCall(RolesOp(_)) ==
    /\ \E caller \in Officers : RolesOp(caller)
    /\ UNCHANGED <<queueVars, rsmVars, wsmVars, creds, disputeVars>>

QueueAdmin ==
    \/ \E caller \in Officers :
          /\ \/ \E x \in 0..1 : SetReviewTimeout(caller, x) \/ SetMaxActiveReviews(caller, x)
             \/ \E gated \in BOOLEAN : SetIdentityGate(caller, gated)
          /\ UNCHANGED <<rsmVars, wsmVars, creds, disputeVars, roles>>
    \/ RolesCall(QueueSetOperator) \/ RolesCall(QueueTransferOwnership)

RSMAdmin ==
    \/ \E caller \in Officers :
          /\ \/ \E x \in Values[scene] : SetMinReviewerBond(caller, x)
             \/ SetReviewerFeeShareBps(caller, 10000)
             \/ SetUnstakeCooldown(caller, 0)
             \/ \E set \in BOOLEAN : SetReviewerQueue(caller, set)
          /\ UNCHANGED <<queueVars, wsmVars, creds, disputeVars, roles>>
    \/ RolesCall(RSMSetOperator) \/ RolesCall(RSMTransferOwnership)

CredentialAdmin ==
    RolesCall(CredentialSetOperator) \/ RolesCall(CredentialTransferOwnership)

WSMAdmin ==
    \/ \E caller \in Officers :
          /\ SetCooldown(caller, 0) \/ SetSlashSplit(caller, 10000)
          /\ UNCHANGED <<queueVars, rsmVars, creds, disputeVars, roles>>
    \/ RolesCall(WSMSetOperator) \/ RolesCall(WSMTransferOwnership)

DisputeAdmin ==
    \/ \E caller \in Officers :
          /\ \/ SetDisputeParams(caller, NewDisputeParams)
             \/ \E set \in BOOLEAN : SetStakeManagers(caller, set)
          /\ UNCHANGED <<queueVars, rsmVars, wsmVars, creds, roles>>
    \/ RolesCall(DisputesSetOperator) \/ RolesCall(DisputesTransferOwnership)

\* the nominees' answers, each after a transfer by an owner
AcceptCall ==
    RolesCall(LAMBDA caller : \/ QueueAcceptOwnership(caller) \/ RSMAcceptOwnership(caller)
                              \/ CredentialAcceptOwnership(caller)
                              \/ WSMAcceptOwnership(caller) \/ DisputesAcceptOwnership(caller))

Call ==
    /\ calls < MaxCalls[scene]
    /\ calls' = calls + 1
    /\ \/ RegisterCall
       \/ AcceptCall
       \/ scene = "bonds" /\ (UnstakeCall \/ RecordCall \/ FeeCall \/ SlashCall)
       \/ scene = "queue" /\ (QueueCall \/ SlashCall)
       \/ scene = "credentials" /\ (RecordCall \/ CredentialCall)
       \/ scene = "disputes" /\ (UnstakeCall \/ WSMCall \/ DisputeCall \/ VerdictCall)
    /\ UNCHANGED <<now, scene, adminCalls>>

Admin ==
    /\ adminCalls < MaxAdminCalls /\ calls < MaxCalls[scene]
    /\ adminCalls' = adminCalls + 1
    /\ calls' = calls + 1
    /\ \/ scene = "bonds" /\ RSMAdmin
       \/ scene = "queue" /\ QueueAdmin
       \/ scene = "credentials" /\ CredentialAdmin
       \/ scene = "disputes" /\ (WSMAdmin \/ DisputeAdmin)
    /\ UNCHANGED <<now, scene>>

Tick ==
    /\ now < MaxTime
    /\ now' = now + 1
    /\ UNCHANGED <<queueVars, rsmVars, creds, wsmVars, disputeVars, roles, scene, calls, adminCalls>>

Next == Call \/ Admin \/ Tick

Spec == Init /\ [][Next]_vars

-----------------------------------------------------------------------------
(* Properties of the whole *)

\* Every slot of the five contracts holds a value of its type.
ReviewTypeOK ==
    /\ roles \in [Contracts -> RoleType]
    /\ QueueTypeOK /\ RSMTypeOK /\ CredentialTypeOK /\ WSMTypeOK /\ DisputeTypeOK

\* None of the three contracts that hold INTEL for others owes more than it
\* holds, save for the two leaks named with BondsCovered and DisputeBondsCovered,
\* also when a verdict slashes at both stake managers in one call.
EveryoneCovered == BondsCovered /\ StakesCovered /\ DisputeBondsCovered

\* Reviews in progress are counted, in the queue as with their reviewers, and a task has
\* one open dispute at most (ReviewerQueue.sol, DisputeResolution.sol).
ReviewsKept == ReviewsCounted /\ OneOpenDispute
=============================================================================
