----------------------- MODULE BrokerServices_proofs ------------------------
(***************************************************************************)
(* Theorems about BrokerServices, for all accounts, agents, humans, keys,  *)
(* jobs, requests, scenes and settings: requests may overlap, fail or be   *)
(* lost in a restart, and every page and command of a client may act.      *)
(*                                                                         *)
(* AccessTyped, with SignedInv, RolesInv, RegInv (BrokerAccess_proofs),    *)
(* IdInv, TrialInv and GateInv, is inductive; LimitInv (BrokerMoney_proofs)*)
(* is, with it and whatever else the broker serves.  They imply AccessKept.*)
(*                                                                         *)
(* WorkTyped says what jobs, acts and the rows of requests for work hold;  *)
(* with DepositsInv and MarksInv of the wallet (BrokerMoney_proofs) and    *)
(* KeysInv, AllowedInv, HeldInv and FollowInv it is inductive where the    *)
(* services run, and implies WorkKept.                                     *)
(***************************************************************************)
EXTENDS BrokerAccess_proofs

-----------------------------------------------------------------------------
(* Identities are registered                                                  *)

\* The registered authorizations of an agent
Held(f) == {i \in DOMAIN auths : /\ <<auths[i].account, auths[i].agent>> = f
                                 /\ auths[i].token # None}

Publishing(r) == r.op = "register" /\ r.step \in {"identity", "publish"}

\* A registration that has activated an authorization of the agent is still served.
Registering(f) == \E p \in Requests : Publishing(proc[p]) /\ <<proc[p].account, proc[p].agent>> = f

Published(f) ==
    /\ Held(f) # {} => identities[f] # NoIdentity
    /\ identities[f] # NoIdentity => identities[f].token \in {auths[i].token : i \in Held(f)}

Owned(f) == identities[f] # NoIdentity => \E i \in Held(f) : auths[i].role = identities[f].role

\* While nothing overlaps a registration publishes what it activated, and what it read
\* of the identity is so.
Knows(r) ==
    /\ auths[r.auth].token = r.token
    /\ r.step = "publish" => r.valid = (identities[<<r.account, r.agent>>] # NoIdentity)

IdRow(p) == alone /\ Publishing(proc[p]) => Knows(proc[p])

IdInv ==
    /\ \A f \in Fingerprints : Owned(f)
    /\ alone /\ faults = 0 => \A f \in Fingerprints : Registering(f) \/ Published(f)
    /\ \A p \in Requests : IdRow(p)

LEMMA IdentitiesMove ==
    ASSUME AllSteps
    PROVE  \/ identities' = identities
           \/ \E p \in Requests : IdentityWrite(p) /\ auths' = auths
           \/ \E p \in Requests : AgentStep(p) /\ SyncRegistration(p)
<1>1. ASSUME NEW p \in Requests, AccessCall(p) PROVE identities' = identities
  BY <1>1, ZenonT(40) DEF AccessCall, ChallengeCall, LoginCall, WorldCall, AuthorizeCall, RegisterCall, SyncRoleCall,
          RegisterAgentBook, KitCall, RevokeSession, accessVars, agentVars
<1>2. ASSUME NEW p \in Requests, AccessStep(p)
      PROVE  identities' = identities \/ (IdentityWrite(p) /\ auths' = auths)
  BY <1>2, SMTT(30) DEF AccessStep, ChallengeUse, AccountInsert, ChallengeInsert, SessionInsert, RoleRead, RoleWrite,
          AuthorizationWrite, RecordRegistration, Activate, IdentityRead, IdentityWrite, SetVerified,
          ClaimNonce, LookupHuman, TryIncrementUsage, accessVars, agentVars
<1>3. ASSUME NEW p \in Requests, AgentStep(p)
      PROVE  identities' = identities \/ SyncRegistration(p)
  BY <1>3, Zenon DEF AgentStep, AgentSignIn, OpenWidget, ProveInDemo, VerifyRole, Authorize, KeepDraft, SyncRole, RegisterBook,
          SendRegistration, RegisterAgent, SetupRefused, SetupFails, accessVars, agentVars
<1> QED BY <1>1, <1>2, <1>3 DEF AllSteps, Tick, PageSigns, SignOut, accessVars, agentVars

\* What a page records: the token of the transaction, for the authorization it was sent for
Records(i, t) ==
    LET f == <<auths[i].account, auths[i].agent>> IN
    /\ i \in DOMAIN auths /\ auths[i].role = "worker" /\ t # None /\ f \in Fingerprints
    /\ DOMAIN auths' = DOMAIN auths
    /\ \A k \in DOMAIN auths : auths'[k].token = IF k = i THEN t ELSE auths[k].token
    /\ identities'[f] # NoIdentity /\ identities'[f].role = "worker" /\ identities'[f].token = t
    /\ \A x \in Fingerprints : x # f => identities'[x] = identities[x]

LEMMA PageRecords ==
    ASSUME AccessTyped, NEW p \in Requests, AgentStep(p), SyncRegistration(p)
    PROVE  Records(proc[p].auth, proc[p].token)
<1> USE DEF AccessTyped
<1> DEFINE i == proc[p].auth
           t == proc[p].token
           f == <<auths[i].account, auths[i].agent>>
           row == [auths[i] EXCEPT !.active = TRUE, !.token = t]
           known == [role |-> "worker", token |-> t, scope |-> auths[i].scope]
<1>1. AgentRow(proc[p]) /\ proc[p].op = "agent" /\ proc[p].step = "record"
  BY DEF SyncRegistration, On, RowsTyped, AccessRow
<1>2. proc[p].kind = "mint" /\ t \in Nat
  BY <1>1 DEF AgentRow
<1>3. i \in DOMAIN auths /\ auths[i].role = "worker"
  BY <1>1, <1>2 DEF Referring
<1>4. auths[i] \in AuthType
  BY <1>3, TableRows
<1>5. f \in Fingerprints /\ t # None
  BY <1>2, <1>4, NoneAssumption DEF Fingerprints, AuthType
<1>6. (CHOOSE k \in Recorded(p) : TRUE) = i /\ Recorded(p) # {}
  BY DEF Recorded
<1>7. auths' = [auths EXCEPT ![i] = row] /\ identities' = [identities EXCEPT ![f] = known]
  BY <1>6 DEF SyncRegistration, Agent
<1>8. row.token = t
  BY <1>4 DEF AuthType
<1>9. known.role = "worker" /\ known.token = t /\ known # NoIdentity
  BY <1>5 DEF NoIdentity
<1>10. identities \in [Fingerprints -> IdentityType]
  BY DEF AccessTables
<1> HIDE DEF row, known, t, i
<1>11. /\ DOMAIN auths' = DOMAIN auths
       /\ \A k \in DOMAIN auths : auths'[k].token = IF k = i THEN t ELSE auths[k].token
  BY <1>7, <1>8
<1> HIDE DEF f
<1>12. identities'[f] = known /\ \A x \in Fingerprints : x # f => identities'[x] = identities[x]
  BY <1>5, <1>7, <1>10
<1>13. Records(i, t)
  BY <1>3, <1>5, <1>9, <1>11, <1>12 DEF Records, f
<1> QED BY <1>13 DEF i, t

\* What a registration publishes
LEMMA RequestPublishes ==
    ASSUME AccessTyped, NEW p \in Requests, IdentityWrite(p)
    PROVE  LET r == proc[p]
               f == <<r.account, r.agent>>
           IN  /\ r.op = "register" /\ r.step = "publish" /\ f \in Fingerprints
               /\ r.auth \in DOMAIN auths /\ SameAgent(auths[r.auth], r) /\ auths[r.auth].token # None
               /\ \A x \in Fingerprints : x # f => identities'[x] = identities[x]
               /\ \/ identities'[f] = identities[f] /\ ~r.valid /\ identities[f] # NoIdentity
                  \/ identities'[f] # NoIdentity /\ identities'[f].role = r.role /\ identities'[f].token = r.token
<1> USE DEF AccessTyped
<1> DEFINE r == proc[p]
           f == <<r.account, r.agent>>
           known == [role |-> r.role, token |-> r.token, scope |-> r.scope]
<1>1. r.op = "register" /\ r.step = "publish" /\ RegisterRow(r)
  BY DEF IdentityWrite, At, RowsTyped, AccessRow
<1>2. f \in Fingerprints /\ r.token # None
  BY <1>1, NoneAssumption DEF Fingerprints, RegisterRow
<1>3. r.auth \in DOMAIN auths /\ SameAgent(auths[r.auth], r) /\ auths[r.auth].token # None
  BY <1>1 DEF Referring
<1>4. \/ identities' = identities /\ ~r.valid /\ identities[f] # NoIdentity
      \/ identities' = [identities EXCEPT ![f] = known]
  BY DEF IdentityWrite
<1>5. known.role = r.role /\ known.token = r.token /\ known # NoIdentity
  BY <1>2 DEF NoIdentity
<1>6. identities \in [Fingerprints -> IdentityType]
  BY DEF AccessTables
<1> HIDE DEF known, r, f
<1>7. /\ \A x \in Fingerprints : x # f => identities'[x] = identities[x]
      /\ \/ identities'[f] = identities[f] /\ ~r.valid /\ identities[f] # NoIdentity
         \/ identities'[f] = known
  BY <1>2, <1>4, <1>6
<1> QED BY <1>1, <1>2, <1>3, <1>5, <1>7 DEF r, f

\* Tokens change only where one is recorded.
TokensStay ==
    /\ DOMAIN auths \subseteq DOMAIN auths'
    /\ \A i \in DOMAIN auths : auths'[i].token = auths[i].token

LEMMA TokensMove ==
    ASSUME AccessTyped, AllSteps
    PROVE  \/ TokensStay
           \/ \E p \in Requests : /\ Activate(p)
                                  /\ DOMAIN auths' = DOMAIN auths
                                  /\ auths'[proc[p].auth].token = proc[p].token
                                  /\ \A i \in DOMAIN auths : i # proc[p].auth => auths'[i].token = auths[i].token
           \/ \E p \in Requests : AgentStep(p) /\ SyncRegistration(p)
<1> USE DEF AccessTyped
<1>0. /\ \A i \in DOMAIN auths : auths[i] \in AuthType
      /\ auths \in Seq(AuthType) /\ DOMAIN auths = 1..Len(auths) /\ Len(auths) \in Nat
  BY TableRows DEF AccessTables
<1>1. ASSUME NEW e, auths' = Append(auths, e) PROVE TokensStay
  <2>1. DOMAIN auths' = DOMAIN auths \cup {Len(auths) + 1} /\ Len(auths) + 1 \notin DOMAIN auths
        /\ (\A i \in DOMAIN auths : auths'[i] = auths[i])
    BY <1>0, <1>1
  <2> QED BY <2>1 DEF TokensStay
<1>2. ASSUME NEW p \in Requests, AuthorizationWrite(p) PROVE TokensStay
  <2> DEFINE r == proc[p]
             changed == [auths[r.auth] EXCEPT !.scope = r.scope, !.active = (r.token # None)]
  <2>1. CASE r.auth = 0
    BY <1>1, <1>2, <2>1 DEF AuthorizationWrite
  <2>2. CASE r.auth # 0
    <3>1. auths' = [auths EXCEPT ![r.auth] = changed]
      BY <1>2, <2>2 DEF AuthorizationWrite
    <3>2. r.auth \in DOMAIN auths => changed.token = auths[r.auth].token
      <4> HIDE DEF r
      <4> QED BY <1>0 DEF AuthType
    <3> HIDE DEF changed, r
    <3> QED BY <3>1, <3>2 DEF TokensStay
  <2> QED BY <2>1, <2>2
<1>3. ASSUME NEW p \in Requests, Authorize(p) PROVE TokensStay
  <2> DEFINE rows == Matching(Page(p), proc[p].agent, "worker")
             scope == {"claim_jobs", "submit_results"}
             Changed(i) == [auths[i] EXCEPT !.scope = scope, !.active = (auths[i].token # None)]
             next == [i \in DOMAIN auths |-> IF i \in rows THEN Changed(i) ELSE auths[i]]
  <2>1. CASE rows = {}
    BY <1>1, <1>3, <2>1 DEF Authorize
  <2>2. CASE rows # {}
    <3>1. auths' = next
      BY <1>3, <2>2, Zenon DEF Authorize
    <3>2. \A i \in DOMAIN auths : Changed(i).token = auths[i].token
      <4> HIDE DEF scope
      <4> QED BY <1>0 DEF AuthType
    <3> HIDE DEF Changed, rows
    <3> QED BY <3>1, <3>2 DEF TokensStay
  <2> QED BY <2>1, <2>2
<1>4. ASSUME NEW p \in Requests, Activate(p)
      PROVE  /\ DOMAIN auths' = DOMAIN auths
             /\ auths'[proc[p].auth].token = proc[p].token
             /\ \A i \in DOMAIN auths : i # proc[p].auth => auths'[i].token = auths[i].token
  <2> DEFINE r == proc[p]
             changed == [auths[r.auth] EXCEPT !.active = TRUE, !.token = r.token]
  <2>1. auths' = [auths EXCEPT ![r.auth] = changed]
    BY <1>4 DEF Activate
  <2>2. r.auth \in DOMAIN auths
    BY <1>4 DEF Activate, At, Referring
  <2>3. changed.token = r.token
    <3>1. auths[r.auth] \in AuthType
      BY <1>0, <2>2
    <3> HIDE DEF r
    <3> QED BY <3>1 DEF AuthType
  <2> HIDE DEF changed, r
  <2>4. /\ DOMAIN auths' = DOMAIN auths
        /\ auths'[r.auth].token = r.token
        /\ \A i \in DOMAIN auths : i # r.auth => auths'[i].token = auths[i].token
    BY <2>1, <2>2, <2>3
  <2> QED BY <2>4 DEF r
<1>5. auths' = auths => TokensStay
  BY DEF TokensStay
<1> QED BY <1>2, <1>3, <1>4, <1>5, AuthsMove

\* A registration that has activated its authorization goes on, unless something fails.
LEMMA PublishingGoesOn ==
    ASSUME AccessTyped, AllSteps, faults' = 0, NEW p \in Requests, Publishing(proc[p])
    PROVE  \/ proc'[p] = proc[p]
           \/ IdentityRead(p) \/ IdentityWrite(p)
<1>1. CASE AccessCall(p)
  BY <1>1, AccessCalls, IdleRow DEF Publishing
<1>2. CASE proc[p] # Idle /\ AccessStep(p)
  BY <1>2 DEF Publishing, AccessStep, ChallengeUse, AccountInsert, ChallengeInsert, SessionInsert, RecordRegistration,
       Activate, RoleRead, RoleWrite, AuthorizationWrite, SetVerified, ClaimNonce, LookupHuman, TryIncrementUsage, At
<1>3. ASSUME NEW q \in Requests, AccessCall(q) \/ AccessStep(q)
      PROVE  OthersKeep(q)
  BY <1>3, AccessCalls, AccessSteps
<1>4. Tick => proc' = proc
  BY DEF Tick, requestVars
<1> QED BY <1>1, <1>2, <1>3, <1>4 DEF AllSteps, Aside, Within, OthersKeep, Post, Agentic, OtherOps, Publishing

\* What IdentityRead does to its row
LEMMA ReadsIdentity ==
    ASSUME AccessTyped, NEW p \in Requests, IdentityRead(p)
    PROVE  LET r == proc'[p] IN
           /\ proc[p].op = "register" /\ proc[p].step = "identity"
           /\ r.op = "register" /\ r.step = "publish"
           /\ r.valid = (identities[<<proc[p].account, proc[p].agent>>] # NoIdentity)
           /\ r.account = proc[p].account /\ r.agent = proc[p].agent /\ r.auth = proc[p].auth
           /\ r.token = proc[p].token
           /\ UNCHANGED <<auths, identities>>
<1>1. proc[p].op = "register" /\ proc[p].step = "identity" /\ RegisterRow(proc[p]) /\ UNCHANGED <<auths, identities>>
  BY DEF IdentityRead, At, AccessTyped, RowsTyped, AccessRow, accessVars, agentVars
<1> DEFINE v == identities[<<proc[p].account, proc[p].agent>>] # NoIdentity
<1>2. proc' = [proc EXCEPT ![p].step = "publish", ![p].valid = v]
  BY DEF IdentityRead
<1>3. proc'[p].op = "register" /\ proc'[p].step = "publish" /\ proc'[p].valid = v /\ proc'[p].account = proc[p].account /\ proc'[p].agent = proc[p].agent
      /\ proc'[p].auth = proc[p].auth /\ proc'[p].token = proc[p].token
  <2> HIDE DEF v
  <2> QED BY <1>1, <1>2 DEF AccessTyped, RowsTyped, Rows, RegisterRow
<1> QED BY <1>1, <1>3

LEMMA HeldGrows ==
    ASSUME AccessTyped, AllSteps, NEW f
    PROVE  \A i \in Held(f) : i \in Held(f)' /\ auths'[i].role = auths[i].role
BY AuthsKept DEF Held, SameAgent

LEMMA OwnedKept ==
    ASSUME AccessTyped, AllSteps, IdInv, NEW f \in Fingerprints
    PROVE  Owned(f)'
<1>0. Owned(f) /\ \A i \in Held(f) : i \in Held(f)' /\ auths'[i].role = auths[i].role
  BY HeldGrows DEF IdInv
<1>1. CASE identities'[f] = identities[f]
  BY <1>0, <1>1 DEF Owned, NoIdentity
<1>2. ASSUME NEW p \in Requests, IdentityWrite(p), auths' = auths PROVE Owned(f)'
  <2> DEFINE r == proc[p]
             k == <<r.account, r.agent>>
  <2>1. /\ r.auth \in DOMAIN auths /\ SameAgent(auths[r.auth], r) /\ auths[r.auth].token # None
        /\ \A x \in Fingerprints : x # k => identities'[x] = identities[x]
        /\ \/ identities'[k] = identities[k]
           \/ identities'[k] # NoIdentity /\ identities'[k].role = r.role
    BY <1>2, RequestPublishes
  <2>2. CASE f = k /\ identities'[k].role = r.role
    <3>1. r.auth \in Held(f)
      BY <2>1, <2>2 DEF Held, SameAgent
    <3>2. r.auth \in Held(f)' /\ auths'[r.auth].role = identities'[f].role
      BY <1>0, <2>1, <2>2, <3>1 DEF SameAgent
    <3> QED BY <3>2 DEF Owned
  <2> HIDE DEF r
  <2> QED BY <1>1, <2>1, <2>2
<1>3. ASSUME NEW p \in Requests, AgentStep(p), SyncRegistration(p) PROVE Owned(f)'
  <2> DEFINE i == proc[p].auth
             t == proc[p].token
             k == <<auths[i].account, auths[i].agent>>
  <2>1. /\ i \in DOMAIN auths /\ auths[i].role = "worker" /\ t # None
        /\ DOMAIN auths' = DOMAIN auths /\ auths'[i].token = t
        /\ identities'[k].role = "worker"
        /\ \A x \in Fingerprints : x # k => identities'[x] = identities[x]
    BY <1>3, PageRecords DEF Records
  <2>2. SameAgent(auths'[i], auths[i])
    BY <2>1, AuthsKept
  <2>3. CASE f = k
    <3>1. i \in Held(f)' /\ auths'[i].role = identities'[f].role
      BY <2>1, <2>2, <2>3 DEF Held, SameAgent
    <3> QED BY <3>1 DEF Owned
  <2> HIDE DEF i
  <2> QED BY <1>1, <2>1, <2>3
<1> QED BY <1>1, <1>2, <1>3, IdentitiesMove

\* What does not touch an agent's authorizations and identity leaves it settled.
LEMMA SettledStays ==
    ASSUME AccessTyped, AllSteps, NEW f \in Fingerprints, Published(f),
           identities'[f] = identities[f],
           \A i \in DOMAIN auths : <<auths[i].account, auths[i].agent>> = f => auths'[i].token = auths[i].token
    PROVE  Published(f)'
<1>1. Held(f)' = Held(f)
  BY AuthsKept, ZenonT(40) DEF Held, SameAgent
<1>2. \A i \in Held(f) : auths'[i].token = auths[i].token
  BY DEF Held
<1> QED BY <1>1, <1>2 DEF Published, NoIdentity

LEMMA AgentsSettle ==
    ASSUME AccessTyped, AllSteps, IdInv, alone', faults' = 0, NEW f \in Fingerprints
    PROVE  Registering(f)' \/ Published(f)'
<1>0. alone /\ faults = 0 /\ (Registering(f) \/ Published(f))
  BY Steady DEF IdInv
<1>1. ASSUME NEW p \in Requests, IdentityWrite(p), auths' = auths
      PROVE  Registering(f)' \/ Published(f)'
  <2> DEFINE r == proc[p]
             k == <<r.account, r.agent>>
  <2>1. /\ r.op = "register" /\ r.step = "publish" /\ k \in Fingerprints
        /\ r.auth \in DOMAIN auths /\ SameAgent(auths[r.auth], r) /\ auths[r.auth].token # None
        /\ \A x \in Fingerprints : x # k => identities'[x] = identities[x]
        /\ \/ identities'[k] = identities[k] /\ ~r.valid /\ identities[k] # NoIdentity
           \/ identities'[k] # NoIdentity /\ identities'[k].token = r.token
    BY <1>1, RequestPublishes
  <2>2. auths[r.auth].token = r.token /\ r.valid = (identities[k] # NoIdentity)
    BY <1>0, <2>1 DEF IdInv, IdRow, Knows, Publishing
  <2>3. CASE f = k
    <3>1. r.auth \in Held(f)' /\ auths'[r.auth].token = r.token
      BY <1>1, <2>1, <2>2, <2>3 DEF Held, SameAgent
    <3>2. identities'[f] # NoIdentity /\ identities'[f].token = r.token
      BY <2>1, <2>2, <2>3
    <3> QED BY <3>1, <3>2 DEF Published, NoIdentity
  <2>4. CASE f # k
    <3>1. CASE Published(f)
      BY <1>1, <2>1, <2>4, <3>1, SettledStays
    <3>2. ASSUME NEW q \in Requests, Publishing(proc[q]), <<proc[q].account, proc[q].agent>> = f
          PROVE  Registering(f)'
      <4>1. q # p
        BY <2>4, <3>2
      <4>2. OthersKeep(p)
        BY <1>1, <2>1, AccessSteps DEF AccessStep
      <4>3. proc'[q] = proc[q]
        BY <3>2, <4>1, <4>2 DEF OthersKeep
      <4> QED BY <3>2, <4>3 DEF Registering
    <3> QED BY <1>0, <3>1, <3>2 DEF Registering
  <2> QED BY <2>3, <2>4
<1>2. ASSUME identities' = identities, Registering(f) PROVE Registering(f)' \/ Published(f)' \/ \E p \in Requests : IdentityWrite(p)
  <2>1. PICK q \in Requests : Publishing(proc[q]) /\ <<proc[q].account, proc[q].agent>> = f
    BY <1>2 DEF Registering
  <2>2. CASE proc'[q] = proc[q]
    BY <2>1, <2>2 DEF Registering
  <2>3. CASE IdentityRead(q)
    BY <2>1, <2>3, ReadsIdentity DEF Registering, Publishing
  <2> QED BY <2>1, <2>2, <2>3, PublishingGoesOn
<1>3. ASSUME NEW p \in Requests, AgentStep(p), SyncRegistration(p)
      PROVE  Registering(f)' \/ Published(f)'
  <2> DEFINE i == proc[p].auth
             t == proc[p].token
             k == <<auths[i].account, auths[i].agent>>
  <2>1. /\ i \in DOMAIN auths /\ t # None
        /\ DOMAIN auths' = DOMAIN auths
        /\ \A x \in DOMAIN auths : auths'[x].token = IF x = i THEN t ELSE auths[x].token
        /\ identities'[k] # NoIdentity /\ identities'[k].token = t
        /\ \A x \in Fingerprints : x # k => identities'[x] = identities[x]
    BY <1>3, PageRecords DEF Records
  <2>2. SameAgent(auths'[i], auths[i])
    BY <2>1, AuthsKept
  <2>3. CASE f = k
    <3>1. i \in Held(f)' /\ auths'[i].token = t
      BY <2>1, <2>2, <2>3 DEF Held, SameAgent
    <3> QED BY <2>1, <2>3, <3>1 DEF Published, NoIdentity
  <2>4. CASE f # k
    <3> HIDE DEF t
    <3>1. CASE Published(f)
      <4>1. identities'[f] = identities[f]
        BY <2>1, <2>4
      <4>2. \A x \in DOMAIN auths : <<auths[x].account, auths[x].agent>> = f => auths'[x].token = auths[x].token
        BY <2>1, <2>4
      <4> QED BY <3>1, <4>1, <4>2, SettledStays
    <3>2. ASSUME NEW q \in Requests, Publishing(proc[q]), <<proc[q].account, proc[q].agent>> = f
          PROVE  Registering(f)'
      <4>0. proc[p].op = "agent"
        BY <1>3 DEF AgentStep, Working
      <4>1. proc'[q] = proc[q] \/ IdentityRead(q) \/ IdentityWrite(q)
        BY <3>2, PublishingGoesOn
      <4>2. ~IdentityRead(q) /\ ~IdentityWrite(q)
        <5>1. AccessTyped => proc[q] # Idle /\ proc[p] # Idle /\ p # q
          BY <3>2, <4>0, IdleRow DEF Publishing
        <5> QED BY <1>0, <5>1 DEF AccessTyped, RowsTyped, Lonely
      <4> QED BY <3>2, <4>1, <4>2 DEF Registering
    <3> QED BY <1>0, <3>1, <3>2 DEF Registering
  <2> QED BY <2>3, <2>4
<1>4. ASSUME NEW p \in Requests, Activate(p), identities' = identities,
             DOMAIN auths' = DOMAIN auths,
             \A i \in DOMAIN auths : i # proc[p].auth => auths'[i].token = auths[i].token
      PROVE  Registering(f)' \/ Published(f)' \/ \E q \in Requests : IdentityWrite(q)
  <2> DEFINE k == <<proc[p].account, proc[p].agent>>
  <2>1. proc[p].op = "register" /\ RegisterRow(proc[p]) /\ Rows
    BY <1>4 DEF Activate, At, AccessTyped, RowsTyped, AccessRow
  <2>2. GoesTo(p, "identity")
    BY <1>4, <2>1, GotoGoes DEF Activate
  <2>3. CASE f = k
    <3>1. proc'[p].op = "register" /\ proc'[p].step = "identity" /\ proc'[p].account = proc[p].account
          /\ proc'[p].agent = proc[p].agent
      BY <2>1, <2>2 DEF GoesTo, RegisterRow, Rows
    <3> QED BY <2>3, <3>1 DEF Registering, Publishing
  <2>4. CASE f # k /\ Published(f)
    <3>1. proc[p].auth \in DOMAIN auths /\ SameAgent(auths[proc[p].auth], proc[p])
      BY <2>1 DEF AccessTyped, Referring
    <3>2. \A i \in DOMAIN auths : <<auths[i].account, auths[i].agent>> = f => i # proc[p].auth
      BY <2>4, <3>1 DEF SameAgent
    <3> QED BY <1>4, <2>4, <3>2, SettledStays
  <2> QED BY <1>0, <1>2, <1>4, <2>3, <2>4
<1>5. ASSUME TokensStay, identities' = identities
      PROVE  Registering(f)' \/ Published(f)' \/ \E q \in Requests : IdentityWrite(q)
  <2>1. CASE Published(f)
    BY <1>5, <2>1, SettledStays DEF TokensStay
  <2> QED BY <1>0, <1>2, <1>5, <2>1
<1>6. ASSUME NEW p \in Requests, IdentityWrite(p) PROVE auths' = auths
  BY <1>6 DEF IdentityWrite
<1> QED BY <1>1, <1>3, <1>4, <1>5, <1>6, TokensMove, IdentitiesMove

LEMMA IdRows ==
    ASSUME AccessTyped, AllSteps, IdInv, NEW q \in Requests
    PROVE  IdRow(q)'
<1> SUFFICES ASSUME alone', NEW r, r = proc'[q], Publishing(r)
             PROVE  Knows(r)'
  BY DEF IdRow
<1>0. alone
  BY Steady
<1>1. CASE proc'[q] = proc[q]
  <2>1. auths' = auths /\ identities' = identities
    BY <1>1, AloneWrites, IdleRow DEF Publishing
  <2> QED BY <1>0, <1>1, <2>1 DEF IdInv, IdRow, Knows, NoIdentity
<1>2. ASSUME NEW a \in Accounts, NEW i \in DOMAIN auths, NEW x \in Txs, NEW t \in Tokens, RegisterCall(q, a, i, x, t)
      PROVE  FALSE
  <2> DEFINE s == IF [tx |-> x, event |-> "agent_registered"] \in syncs THEN "activate" ELSE "registration"
             c == [op |-> "register", account |-> a, agent |-> auths[i].agent, role |-> auths[i].role,
                   scope |-> auths[i].scope, auth |-> i, token |-> t,
                   tx |-> x, event |-> "agent_registered", step |-> s]
  <2>1. Start(q, c)
    BY <1>2 DEF RegisterCall
  <2>2. Begins(q, c)
    BY <2>1, StartBegins DEF AccessTyped, RowsTyped
  <2>3. r.step = s
    <3> HIDE DEF s
    <3> QED BY <2>2 DEF Begins, With
  <2> QED BY <2>3 DEF Publishing
<1>3. ASSUME NEW s, GoesTo(q, s), proc[q].op = "register"
      PROVE  r.step = s /\ r.auth = proc[q].auth /\ r.token = proc[q].token
  <2>1. RegisterRow(proc[q]) /\ Rows
    BY <1>3 DEF AccessTyped, RowsTyped, AccessRow
  <2> QED BY <1>3, <2>1 DEF GoesTo, RegisterRow, Rows
<1>4. CASE RecordRegistration(q) /\ GoesTo(q, "activate")
  BY <1>3, <1>4 DEF RecordRegistration, At, Publishing
<1>5. CASE Activate(q) /\ GoesTo(q, "identity")
  <2>1. proc[q].op = "register"
    BY <1>5 DEF Activate, At
  <2>2. auths'[proc[q].auth].token = proc[q].token
    <3> DEFINE e == [auths[proc[q].auth] EXCEPT !.active = TRUE, !.token = proc[q].token]
    <3>1. auths' = [auths EXCEPT ![proc[q].auth] = e]
      BY <1>5 DEF Activate
    <3>2. proc[q].auth \in DOMAIN auths
      BY <2>1 DEF AccessTyped, Referring
    <3>3. e.token = proc[q].token
      <4>1. auths[proc[q].auth] \in AuthType
        BY <3>2, TableRows DEF AccessTyped
      <4> QED BY <4>1 DEF AuthType
    <3> HIDE DEF e
    <3> QED BY <3>1, <3>2, <3>3
  <2> QED BY <1>3, <1>5, <2>1, <2>2 DEF Knows
<1>6. CASE IdentityRead(q)
  <2>1. /\ proc[q].op = "register" /\ proc[q].step = "identity"
        /\ r.op = "register" /\ r.step = "publish"
        /\ r.valid = (identities[<<proc[q].account, proc[q].agent>>] # NoIdentity)
        /\ r.account = proc[q].account /\ r.agent = proc[q].agent /\ r.auth = proc[q].auth
        /\ r.token = proc[q].token
        /\ auths' = auths /\ identities' = identities
    BY <1>6, ReadsIdentity
  <2>2. auths[proc[q].auth].token = proc[q].token
    BY <1>0, <2>1 DEF IdInv, IdRow, Knows, Publishing
  <2> QED BY <2>1, <2>2 DEF Knows, NoIdentity
<1> QED BY <1>1, <1>2, <1>4, <1>5, <1>6, RegisterRows DEF Publishing

LEMMA IdKept ==
    ASSUME AccessTyped, AllSteps, IdInv
    PROVE  IdInv'
<1>1. \A f \in Fingerprints : Owned(f)'
  BY OwnedKept
<1>2. alone' /\ faults' = 0 => \A f \in Fingerprints : Registering(f)' \/ Published(f)'
  BY AgentsSettle
<1>3. \A p \in Requests : IdRow(p)'
  BY IdRows
<1> QED BY <1>1, <1>2, <1>3 DEF IdInv, Fingerprints

LEMMA IdStart ==
    ASSUME ClientInit
    PROVE  IdInv
<1>0. scene \in DOMAIN Scenes /\ AccessInit /\ \A p \in Requests : proc[p] = Idle
  BY DEF ClientInit, ServicesInit, RequestsInit
<1>1. \A p \in Requests : IdRow(p)
  BY <1>0, IdleRow DEF IdRow, Publishing
<1>2. ASSUME NEW f \in Fingerprints PROVE Owned(f) /\ Published(f)
  <2> DEFINE known == [role |-> Setting.registered, token |-> TokenAtStart, scope |-> UNION Permissions]
  <2>1. identities[f] = IF SomeRegistered /\ f[2] = AgentAtStart THEN known ELSE NoIdentity
    BY <1>0, StartFacts
  <2>2. f[1] \in Accounts /\ f = <<f[1], f[2]>>
    BY DEF Fingerprints
  <2>3. CASE SomeRegistered
    <3>1. /\ DOMAIN auths = DOMAIN KnownAtStart
          /\ \A i \in DOMAIN auths : /\ auths[i].account = KnownAtStart[i] /\ auths[i].agent = AgentAtStart
                                     /\ auths[i].role = Setting.registered /\ auths[i].token = TokenAtStart
          /\ TokenAtStart # None
          /\ \A a \in Accounts : \E i \in DOMAIN KnownAtStart : KnownAtStart[i] = a
      BY <1>0, <2>3, StartFacts
    <3>2. CASE f[2] = AgentAtStart
      <4>1. PICK i \in DOMAIN KnownAtStart : KnownAtStart[i] = f[1]
        BY <2>2, <3>1
      <4>2. i \in Held(f) /\ auths[i].role = Setting.registered /\ auths[i].token = TokenAtStart
        BY <2>2, <3>1, <3>2, <4>1 DEF Held
      <4>3. identities[f] = known /\ known.role = Setting.registered /\ known.token = TokenAtStart /\ known # NoIdentity
        BY <2>1, <2>3, <3>1, <3>2 DEF NoIdentity
      <4> HIDE DEF known
      <4> QED BY <4>2, <4>3 DEF Owned, Published
    <3>3. CASE f[2] # AgentAtStart
      <4>1. Held(f) = {}
        BY <2>2, <3>1, <3>3 DEF Held
      <4> QED BY <2>1, <3>3, <4>1 DEF Owned, Published
    <3> QED BY <3>2, <3>3
  <2>4. CASE ~SomeRegistered
    <3>1. auths = <<>>
      BY <1>0, <2>4, StartFacts
    <3> QED BY <2>1, <2>4, <3>1 DEF Owned, Published, Held
  <2> QED BY <2>3, <2>4
<1> QED BY <1>1, <1>2 DEF IdInv

LEMMA IdRegisters ==
    ASSUME IdInv
    PROVE  IdentityRegistered
<1>1. ASSUME NEW f, Registering(f), \A p \in Requests : proc[p] = Idle PROVE FALSE
  BY <1>1, IdleRow DEF Registering, Publishing
<1>2. \A f \in Fingerprints : Held(f) = {i \in DOMAIN auths : /\ <<auths[i].account, auths[i].agent>> = f
                                                              /\ auths[i].token # None}
  BY DEF Held
<1> HIDE DEF Held
<1> QED BY <1>1, <1>2 DEF IdInv, IdentityRegistered, Owned, Published

-----------------------------------------------------------------------------
(* Nonces and trials are counted                                              *)

\* A request whose nonce is claimed and opens a door yet
Spent(r) == r.op = "kit" /\ r.step \in {"human", "count"}

Opening(p) == Spent(proc[p]) => /\ proc[p].nonce \in nonces
                                /\ \A g \in grants : g.nonce # proc[p].nonce

Alike(p, q) == Spent(proc[p]) /\ Spent(proc[q]) /\ proc[p].nonce = proc[q].nonce => p = q

TrialInv ==
    /\ TrialKept
    /\ \A g \in grants : g.nonce \in nonces
    /\ \A p \in Requests : Opening(p)
    /\ \A p, q \in Requests : Alike(p, q)

LEMMA KitMoves ==
    ASSUME AllSteps
    PROVE  \/ UNCHANGED <<nonces, uses, grants>>
           \/ \E p \in Requests : /\ proc[p] # Idle /\ AccessStep(p)
                                  /\ ClaimNonce(p) \/ LookupHuman(p) \/ TryIncrementUsage(p)
<1>1. ASSUME NEW p \in Requests, AccessCall(p) PROVE UNCHANGED <<nonces, uses, grants>>
  BY <1>1 DEF AccessCall, ChallengeCall, LoginCall, WorldCall, AuthorizeCall, RegisterCall, SyncRoleCall,
          RegisterAgentBook, KitCall, RevokeSession, accessVars, kitVars
<1>2. ASSUME NEW p \in Requests, AccessStep(p)
      PROVE  \/ UNCHANGED <<nonces, uses, grants>>
             \/ ClaimNonce(p) \/ LookupHuman(p) \/ TryIncrementUsage(p)
  BY <1>2, SMTT(30) DEF AccessStep, ChallengeUse, AccountInsert, ChallengeInsert, SessionInsert, RoleRead, RoleWrite,
          AuthorizationWrite, RecordRegistration, Activate, IdentityRead, IdentityWrite, SetVerified, accessVars, kitVars
<1>3. ASSUME NEW p \in Requests, AgentStep(p)
      PROVE  UNCHANGED <<nonces, uses, grants>>
  BY <1>3, Zenon DEF AgentStep, AgentSignIn, OpenWidget, ProveInDemo, VerifyRole, Authorize, KeepDraft, SyncRole, RegisterBook,
          SendRegistration, RegisterAgent, SyncRegistration, SetupRefused, SetupFails, RowsKept, accessVars, kitVars
<1> QED BY <1>1, <1>2, <1>3 DEF AllSteps, Tick, PageSigns, SignOut, accessVars, kitVars

LEMMA KitRows ==
    ASSUME AccessTyped, AllSteps, NEW q \in Requests, Spent(proc'[q])
    PROVE  \/ proc'[q] = proc[q]
           \/ ClaimNonce(q) /\ OthersKeep(q) /\ proc[q].nonce \notin nonces /\ proc'[q].nonce = proc[q].nonce
           \/ LookupHuman(q) /\ OthersKeep(q) /\ Spent(proc[q]) /\ proc'[q].nonce = proc[q].nonce /\ UNCHANGED <<nonces, grants>>
<1> USE DEF AccessTyped
<1>1. CASE AccessCall(q)
  <2>1. PICK a \in Accounts, e \in Endpoints, n \in Nonces : KitCall(q, a, e, n)
    BY <1>1, AccessCalls DEF Spent
  <2> DEFINE c == [op |-> "kit", step |-> "nonce", account |-> a, endpoint |-> e, nonce |-> n]
  <2>2. Begins(q, c)
    BY <2>1, StartBegins DEF KitCall, RowsTyped
  <2>3. proc'[q].step = "nonce"
    BY <2>2 DEF Begins, With
  <2> QED BY <2>3 DEF Spent
<1>2. CASE proc[q] # Idle /\ AccessStep(q)
  <2>1. proc[q].op = "kit" /\ proc'[q] # Idle /\ OthersKeep(q)
    BY <1>2, AccessSteps, IdleRow DEF Spent
  <2>2. KitRow(proc[q]) /\ Rows /\ DOMAIN proc = Requests
    BY <2>1 DEF RowsTyped, AccessRow, Rows
  <2>3. ClaimNonce(q) \/ LookupHuman(q) \/ TryIncrementUsage(q)
    BY <1>2, <2>1, <2>2 DEF AccessStep, ChallengeUse, KitRow, AccountInsert, ChallengeInsert, SessionInsert,
       RoleRead, RoleWrite, AuthorizationWrite, RecordRegistration, Activate, IdentityRead, IdentityWrite, SetVerified, At
  <2>4. ~Finish(q)
    BY <2>1, <2>2 DEF Finish
  <2>5. CASE ClaimNonce(q)
    <3>1. GoesTo(q, "human") /\ proc[q].nonce \notin nonces
      BY <2>2, <2>4, <2>5, GotoGoes DEF ClaimNonce
    <3> QED BY <2>1, <2>2, <2>5, <3>1 DEF GoesTo, KitRow
  <2>6. CASE LookupHuman(q)
    <3> DEFINE h == agentBook[proc[q].account]
               c == [human |-> h, step |-> "count"]
    <3>1. proc' = [proc EXCEPT ![q] = With(proc[q], c)] /\ UNCHANGED <<nonces, grants>> /\ Spent(proc[q])
      BY <2>4, <2>6 DEF LookupHuman, At, Spent
    <3>2. DOMAIN c = {"human", "step"}
      OBVIOUS
    <3> HIDE DEF c
    <3>3. Learns(q, c)
      BY <2>2, <3>1, WithLearns
    <3>4. proc'[q].nonce = proc[q].nonce
      BY <2>2, <3>2, <3>3 DEF Learns, KitRow
    <3> QED BY <2>1, <2>6, <3>1, <3>4
  <2>7. CASE TryIncrementUsage(q)
    BY <2>4, <2>7 DEF TryIncrementUsage
  <2> QED BY <2>3, <2>5, <2>6, <2>7
<1> QED BY <1>1, <1>2, RequestMoves DEF OtherOps, Spent

\* What a step with the Agent Kit does to nonces, uses and grants
Granted(p, h) == [endpoint |-> proc[p].endpoint, human |-> h, nonce |-> proc[p].nonce]

LEMMA KitSteps ==
    ASSUME AccessTyped, NEW p \in Requests, proc[p] # Idle, AccessStep(p),
           ClaimNonce(p) \/ LookupHuman(p) \/ TryIncrementUsage(p)
    PROVE  /\ OthersKeep(p) /\ KitRow(proc[p])
           /\ \/ nonces' = nonces \cup {proc[p].nonce} /\ UNCHANGED <<uses, grants>>
              \/ /\ proc'[p] = Idle /\ Spent(proc[p]) /\ UNCHANGED <<nonces, uses>>
                 /\ ~Setting.trial /\ \E h \in Humans : grants' = grants \cup {Granted(p, h)}
              \/ UNCHANGED <<nonces, uses, grants>>
              \/ /\ proc'[p] = Idle /\ Spent(proc[p]) /\ UNCHANGED nonces
                 /\ proc[p].human \in Humans /\ grants' = grants \cup {Granted(p, proc[p].human)}
                 /\ uses[proc[p].endpoint][proc[p].human] + 1 \in 1..TrialUses
                 /\ uses' = [uses EXCEPT ![proc[p].endpoint][proc[p].human] = @ + 1]
<1> USE DEF AccessTyped
<1>1. KitRow(proc[p]) /\ Rows
  BY DEF RowsTyped, AccessRow, ClaimNonce, LookupHuman, TryIncrementUsage, At
<1>2. OthersKeep(p)
  BY AccessSteps
<1>3. Finish(p) => proc'[p] = Idle
  BY <1>1 DEF Finish, Rows
<1>4. CASE ClaimNonce(p)
  BY <1>1, <1>2, <1>4 DEF ClaimNonce
<1>5. CASE LookupHuman(p)
  <2> DEFINE h == agentBook[proc[p].account]
  <2>1. h \in Humans \cup {None}
    BY <1>1 DEF AccessTables, KitRow
  <2>2. Spent(proc[p]) /\ UNCHANGED <<nonces, uses>>
    BY <1>5 DEF LookupHuman, At, Spent
  <2>3. \/ UNCHANGED grants
        \/ proc'[p] = Idle /\ h # None /\ ~Setting.trial /\ grants' = grants \cup {Granted(p, h)}
    BY <1>3, <1>5 DEF LookupHuman, Grant, Granted
  <2> HIDE DEF h
  <2> QED BY <1>1, <1>2, <2>1, <2>2, <2>3
<1>6. CASE TryIncrementUsage(p)
  <2> DEFINE e == proc[p].endpoint
             h == proc[p].human
  <2>1. Spent(proc[p]) /\ h \in Humans /\ e \in Endpoints /\ proc'[p] = Idle /\ UNCHANGED nonces
    BY <1>1, <1>3, <1>6 DEF TryIncrementUsage, At, Spent, KitRow
  <2>2. uses[e][h] \in Nat
    BY <2>1 DEF AccessTables
  <2>3. \/ UNCHANGED <<uses, grants>>
        \/ /\ uses[e][h] = 0 \/ uses[e][h] < TrialUses
           /\ uses' = [uses EXCEPT ![e][h] = @ + 1] /\ grants' = grants \cup {Granted(p, h)}
    BY <1>6 DEF TryIncrementUsage, Grant, Granted
  <2>4. uses[e][h] = 0 \/ uses[e][h] < TrialUses => uses[e][h] + 1 \in 1..TrialUses
    BY <2>2, AccessAssumption
  <2> QED BY <1>1, <1>2, <2>1, <2>3, <2>4
<1> QED BY <1>4, <1>5, <1>6

GrantsOf(e, h) == {g \in grants : g.endpoint = e /\ g.human = h}

LEMMA OneGrant ==
    ASSUME AccessTyped, TrialInv, NEW p \in Requests, KitRow(proc[p]), Spent(proc[p]), NEW h \in Humans,
           grants' = grants \cup {Granted(p, h)}, nonces' = nonces
    PROVE  /\ \A g, k \in grants' : g.nonce = k.nonce => g = k
           /\ \A g \in grants' : g.nonce \in nonces'
           /\ \A q \in Requests \ {p} : Spent(proc[q]) =>
                 proc[q].nonce \in nonces' /\ \A g \in grants' : g.nonce # proc[q].nonce
           /\ \A e : e = proc[p].endpoint =>
                 Cardinality({g \in grants' : g.endpoint = e /\ g.human = h}) = Cardinality(GrantsOf(e, h)) + 1
           /\ \A e, x : ~(e = proc[p].endpoint /\ x = h) => {g \in grants' : g.endpoint = e /\ g.human = x} = GrantsOf(e, x)
<1> DEFINE new == Granted(p, h)
<1>1. new.nonce = proc[p].nonce /\ new.endpoint = proc[p].endpoint /\ new.human = h
  BY DEF Granted
<1>2. proc[p].nonce \in nonces /\ \A g \in grants : g.nonce # proc[p].nonce
  BY DEF TrialInv, Opening
<1>3. IsFiniteSet(grants)
  BY DEF AccessTyped, AccessTables
<1>4. \A q \in Requests \ {p} : Spent(proc[q]) => proc[q].nonce # proc[p].nonce
  BY DEF TrialInv, Alike
<1> HIDE DEF new
<1>5. new \notin grants
  BY <1>1, <1>2
<1>6. ASSUME NEW e, e = proc[p].endpoint
      PROVE  Cardinality({g \in grants' : g.endpoint = e /\ g.human = h}) = Cardinality(GrantsOf(e, h)) + 1
  <2> DEFINE S == GrantsOf(e, h)
  <2>1. IsFiniteSet(S)
    BY <1>3, FS_Subset DEF GrantsOf
  <2>2. {g \in grants' : g.endpoint = e /\ g.human = h} = S \cup {new}
    BY <1>1, <1>6 DEF GrantsOf, new
  <2>3. new \notin S
    BY <1>5 DEF GrantsOf
  <2> HIDE DEF S
  <2>4. Cardinality(S \cup {new}) = Cardinality(S) + 1
    BY <2>1, <2>3, FS_AddElement
  <2>5. Cardinality({g \in grants' : g.endpoint = e /\ g.human = h}) = Cardinality(S) + 1
    BY <2>2, <2>4
  <2> QED BY <2>5 DEF S
<1>7. /\ \A g, k \in grants' : g.nonce = k.nonce => g = k
      /\ \A g \in grants' : g.nonce \in nonces'
  BY <1>1, <1>2 DEF TrialInv, TrialKept, new
<1>8. \A q \in Requests \ {p} : Spent(proc[q]) =>
                 proc[q].nonce \in nonces' /\ \A g \in grants' : g.nonce # proc[q].nonce
  BY <1>1, <1>4 DEF TrialInv, Opening, new
<1>9. \A e, x : ~(e = proc[p].endpoint /\ x = h) => {g \in grants' : g.endpoint = e /\ g.human = x} = GrantsOf(e, x)
  BY <1>1 DEF GrantsOf, new
<1> QED BY <1>6, <1>7, <1>8, <1>9

LEMMA TrialsCounted ==
    ASSUME AccessTyped, AllSteps, TrialInv
    PROVE  /\ TrialKept'
           /\ \A g \in grants' : g.nonce \in nonces'
<1>0. Setting' = Setting
  BY Steady DEF Setting
<1>1. CASE UNCHANGED <<nonces, uses, grants>>
  BY <1>0, <1>1 DEF TrialInv, TrialKept
<1>2. ASSUME NEW p \in Requests, proc[p] # Idle, AccessStep(p),
             ClaimNonce(p) \/ LookupHuman(p) \/ TryIncrementUsage(p)
      PROVE  TrialKept' /\ \A g \in grants' : g.nonce \in nonces'
  <2>0. KitRow(proc[p])
    BY <1>2, KitSteps
  <2>1. CASE nonces' = nonces \cup {proc[p].nonce} /\ UNCHANGED <<uses, grants>>
    BY <1>0, <2>1 DEF TrialInv, TrialKept
  <2>2. ASSUME ~Setting.trial, NEW h \in Humans, Spent(proc[p]), nonces' = nonces,
               grants' = grants \cup {Granted(p, h)}
        PROVE  TrialKept' /\ \A g \in grants' : g.nonce \in nonces'
    <3>1. /\ \A g, k \in grants' : g.nonce = k.nonce => g = k
          /\ \A g \in grants' : g.nonce \in nonces'
      BY <2>0, <2>2, OneGrant
    <3> QED BY <1>0, <2>2, <3>1 DEF TrialKept
  <2>3. ASSUME Spent(proc[p]), nonces' = nonces,
               proc[p].human \in Humans, grants' = grants \cup {Granted(p, proc[p].human)},
               uses[proc[p].endpoint][proc[p].human] + 1 \in 1..TrialUses,
               uses' = [uses EXCEPT ![proc[p].endpoint][proc[p].human] = @ + 1]
        PROVE  TrialKept' /\ \A g \in grants' : g.nonce \in nonces'
    <3> DEFINE e0 == proc[p].endpoint
               h0 == proc[p].human
               Now(e, h) == {g \in grants' : g.endpoint = e /\ g.human = h}
               n == uses[e0][h0] + 1
    <3>1. /\ \A g, k \in grants' : g.nonce = k.nonce => g = k
          /\ \A g \in grants' : g.nonce \in nonces'
          /\ Cardinality(Now(e0, h0)) = Cardinality(GrantsOf(e0, h0)) + 1
          /\ \A e, h : ~(e = e0 /\ h = h0) => Now(e, h) = GrantsOf(e, h)
      BY <2>0, <2>3, OneGrant
    <3>2. e0 \in Endpoints /\ h0 \in Humans /\ uses \in [Endpoints -> [Humans -> Nat]]
      BY <2>0, <2>3 DEF KitRow, AccessTyped, AccessTables
    <3>3. n <= TrialUses /\ uses' = [uses EXCEPT ![e0][h0] = n]
      BY <2>3, <3>2, AccessAssumption
    <3> HIDE DEF n
    <3>4. \A e \in Endpoints, h \in Humans : uses'[e][h] = IF e = e0 /\ h = h0 THEN n ELSE uses[e][h]
      BY <3>2, <3>3
    <3>5. Setting.trial => \A e \in Endpoints, h \in Humans :
             Cardinality(GrantsOf(e, h)) = uses[e][h] /\ uses[e][h] <= TrialUses
      BY DEF TrialInv, TrialKept, GrantsOf
    <3> HIDE DEF e0, h0, Now
    <3>6. Setting.trial => \A e \in Endpoints, h \in Humans :
             Cardinality(Now(e, h)) = uses'[e][h] /\ uses'[e][h] <= TrialUses
      <4> SUFFICES ASSUME Setting.trial, NEW e \in Endpoints, NEW h \in Humans
                   PROVE  Cardinality(Now(e, h)) = uses'[e][h] /\ uses'[e][h] <= TrialUses
        OBVIOUS
      <4>1. CASE e = e0 /\ h = h0
        BY <3>1, <3>2, <3>3, <3>4, <3>5, <4>1 DEF n
      <4>2. CASE ~(e = e0 /\ h = h0)
        BY <3>1, <3>4, <3>5, <4>2
      <4> QED BY <4>1, <4>2
    <3> QED BY <1>0, <3>1, <3>6 DEF TrialKept, Now
  <2> HIDE DEF TrialKept
  <2> QED BY <1>1, <1>2, <2>1, <2>2, <2>3, KitSteps
<1> QED BY <1>1, <1>2, KitMoves

LEMMA OpeningKept ==
    ASSUME AccessTyped, AllSteps, TrialInv, NEW q \in Requests, Spent(proc'[q])
    PROVE  proc'[q].nonce \in nonces' /\ \A g \in grants' : g.nonce # proc'[q].nonce
<1>1. \/ proc'[q] = proc[q]
      \/ ClaimNonce(q) /\ OthersKeep(q) /\ proc[q].nonce \notin nonces /\ proc'[q].nonce = proc[q].nonce
      \/ LookupHuman(q) /\ OthersKeep(q) /\ Spent(proc[q]) /\ proc'[q].nonce = proc[q].nonce /\ UNCHANGED <<nonces, grants>>
  BY KitRows
<1>2. CASE ClaimNonce(q) /\ OthersKeep(q) /\ proc[q].nonce \notin nonces /\ proc'[q].nonce = proc[q].nonce
  <2>1. nonces' = nonces \cup {proc[q].nonce} /\ grants' = grants
    BY <1>2 DEF ClaimNonce
  <2> QED BY <1>2, <2>1 DEF TrialInv
<1>3. CASE LookupHuman(q) /\ Spent(proc[q]) /\ proc'[q].nonce = proc[q].nonce /\ UNCHANGED <<nonces, grants>>
  BY <1>3 DEF TrialInv, Opening
<1>4. CASE proc'[q] = proc[q]
  <2>0. Spent(proc[q]) /\ proc[q] # Idle
    BY <1>4, IdleRow DEF Spent
  <2>1. CASE UNCHANGED <<nonces, uses, grants>>
    BY <1>4, <2>0, <2>1 DEF TrialInv, Opening
  <2>2. ASSUME NEW p \in Requests, proc[p] # Idle, AccessStep(p),
               ClaimNonce(p) \/ LookupHuman(p) \/ TryIncrementUsage(p)
        PROVE  proc[q].nonce \in nonces' /\ \A g \in grants' : g.nonce # proc[q].nonce
    <3>0. proc[q].nonce \in nonces /\ \A g \in grants : g.nonce # proc[q].nonce
      BY <2>0 DEF TrialInv, Opening
    <3>1. ASSUME NEW h \in Humans, proc'[p] = Idle, Spent(proc[p]), nonces' = nonces, KitRow(proc[p]),
                 grants' = grants \cup {Granted(p, h)}
          PROVE  proc[q].nonce \in nonces' /\ \A g \in grants' : g.nonce # proc[q].nonce
      <4>1. q # p
        BY <1>4, <2>0, <3>1
      <4> QED BY <2>0, <3>1, <4>1, OneGrant
    <3>2. CASE nonces' = nonces \cup {proc[p].nonce} /\ UNCHANGED <<uses, grants>>
      BY <3>0, <3>2
    <3> QED BY <2>1, <2>2, <3>0, <3>1, <3>2, KitSteps
  <2> QED BY <1>4, <2>1, <2>2, KitMoves
<1> QED BY <1>1, <1>2, <1>3, <1>4

LEMMA AlikeKept ==
    ASSUME AccessTyped, AllSteps, TrialInv, NEW p \in Requests, NEW q \in Requests,
           Spent(proc'[p]), Spent(proc'[q]), proc'[p].nonce = proc'[q].nonce
    PROVE  p = q
<1> DEFINE Case(r) == \/ proc'[r] = proc[r]
                      \/ ClaimNonce(r) /\ OthersKeep(r) /\ proc[r].nonce \notin nonces /\ proc'[r].nonce = proc[r].nonce
                      \/ LookupHuman(r) /\ OthersKeep(r) /\ Spent(proc[r]) /\ proc'[r].nonce = proc[r].nonce
<1>1. Case(p) /\ Case(q)
  BY KitRows
<1>2. \A r \in Requests : Spent(proc[r]) => proc[r].nonce \in nonces
  BY DEF TrialInv, Opening
<1>3. \A r, s \in Requests : OthersKeep(r) /\ r # s => proc'[s] = proc[s]
  BY DEF OthersKeep
<1> SUFFICES ASSUME p # q PROVE FALSE
  OBVIOUS
<1>4. Spent(proc[p]) /\ Spent(proc[q]) => proc[p].nonce # proc[q].nonce
  BY DEF TrialInv, Alike
<1> HIDE DEF Spent
<1> QED BY <1>1, <1>2, <1>3, <1>4

LEMMA TrialStep ==
    ASSUME AccessTyped, AllSteps, TrialInv
    PROVE  TrialInv'
BY TrialsCounted, OpeningKept, AlikeKept DEF TrialInv, Opening, Alike

LEMMA TrialStart ==
    ASSUME ClientInit
    PROVE  TrialInv
<1>1. /\ \A p \in Requests : proc[p] = Idle
      /\ uses = [e \in Endpoints |-> [h \in Humans |-> 0]] /\ grants = {}
  BY DEF ClientInit, ServicesInit, RequestsInit, AccessInit
<1>2. Cardinality({}) = 0
  BY FS_EmptySet
<1>3. \A e, h : {g \in grants : g.endpoint = e /\ g.human = h} = {}
  BY <1>1
<1>4. \A e \in Endpoints, h \in Humans : uses[e][h] = 0
  BY <1>1
<1>5. TrialKept
  BY <1>1, <1>2, <1>3, <1>4, AccessAssumption DEF TrialKept
<1> QED BY <1>1, <1>5, IdleRow DEF TrialInv, Opening, Alike, Spent

-----------------------------------------------------------------------------
(* The gate knows who is verified                                             *)

Vetted(p) == proc[p].op = "syncRole" => RoleIfStrict(proc[p].account, proc[p].role)

GateInv == GateVerified /\ \A p \in Requests : Vetted(p)

LEMMA GateMoves ==
    ASSUME AllSteps
    PROVE  \/ gate' = gate
           \/ \E p \in Requests : SetVerified(p)
           \/ \E p \in Requests : AgentStep(p) /\ SyncRole(p)
<1>1. ASSUME NEW p \in Requests, AccessCall(p) PROVE gate' = gate
  BY <1>1, ZenonT(40) DEF AccessCall, ChallengeCall, LoginCall, WorldCall, AuthorizeCall, RegisterCall, SyncRoleCall,
          RegisterAgentBook, KitCall, RevokeSession, accessVars
<1>2. ASSUME NEW p \in Requests, AccessStep(p) PROVE gate' = gate \/ SetVerified(p)
  <2>1. ChallengeUse(p) \/ AccountInsert(p) \/ ChallengeInsert(p) \/ SessionInsert(p) => gate' = gate
    BY SMTT(30) DEF ChallengeUse, AccountInsert, ChallengeInsert, SessionInsert, accessVars
  <2>2. RoleRead(p) \/ RoleWrite(p) \/ AuthorizationWrite(p) \/ RecordRegistration(p) => gate' = gate
    BY SMTT(30) DEF RoleRead, RoleWrite, AuthorizationWrite, RecordRegistration, accessVars
  <2>3. Activate(p) \/ IdentityRead(p) \/ IdentityWrite(p) => gate' = gate
    BY SMTT(30) DEF Activate, IdentityRead, IdentityWrite, accessVars
  <2>4. ClaimNonce(p) \/ LookupHuman(p) \/ TryIncrementUsage(p) => gate' = gate
    BY SMTT(30) DEF ClaimNonce, LookupHuman, TryIncrementUsage, accessVars
  <2> QED BY <1>2, <2>1, <2>2, <2>3, <2>4, Zenon DEF AccessStep
<1>3. ASSUME NEW p \in Requests, AgentStep(p) PROVE gate' = gate \/ SyncRole(p)
  BY <1>3, Zenon DEF AgentStep, AgentSignIn, OpenWidget, ProveInDemo, VerifyRole, Authorize, KeepDraft, RegisterBook,
          SendRegistration, RegisterAgent, SyncRegistration, SetupRefused, SetupFails, RowsKept, accessVars
<1> QED BY <1>1, <1>2, <1>3, ZenonT(40) DEF AllSteps, Tick, PageSigns, SignOut, accessVars

LEMMA SyncRoleRows ==
    ASSUME AccessTyped, AllSteps, NEW q \in Requests, proc'[q].op = "syncRole"
    PROVE  \/ proc'[q] = proc[q]
           \/ RoleIfStrict(proc'[q].account, proc'[q].role)
<1>1. CASE AccessCall(q)
  <2>1. PICK a \in Accounts, role \in AgentRoles : SyncRoleCall(q, a, role)
    BY <1>1, AccessCalls
  <2> DEFINE c == [op |-> "syncRole", step |-> "send", account |-> a, role |-> role]
  <2>2. Begins(q, c) /\ RoleIfStrict(a, role)
    BY <2>1, StartBegins DEF SyncRoleCall, AccessTyped, RowsTyped
  <2>3. proc'[q].account = a /\ proc'[q].role = role
    BY <2>2 DEF Begins, With
  <2> QED BY <2>2, <2>3
<1>2. CASE proc[q] # Idle /\ AccessStep(q)
  <2>1. proc[q].op = "syncRole" /\ proc'[q] # Idle
    BY <1>2, AccessSteps, IdleRow
  <2>2. SyncRoleRow(proc[q]) /\ Rows /\ DOMAIN proc = Requests
    BY <2>1 DEF AccessTyped, RowsTyped, AccessRow, Rows
  <2>3. SetVerified(q)
    BY <1>2, <2>1, <2>2 DEF AccessStep, ChallengeUse, SyncRoleRow, AccountInsert, ChallengeInsert, SessionInsert,
       RoleRead, RoleWrite, AuthorizationWrite, RecordRegistration, Activate, IdentityRead, IdentityWrite,
       ClaimNonce, LookupHuman, TryIncrementUsage, At
  <2>4. ~Finish(q)
    BY <2>1, <2>2 DEF Finish
  <2> QED BY <2>3, <2>4 DEF SetVerified
<1> QED BY <1>1, <1>2, RequestMoves DEF OtherOps

LEMMA GateKept ==
    ASSUME AccessTyped, AllSteps, GateInv
    PROVE  GateInv'
<1>0. Setting' = Setting
  BY Steady DEF Setting
<1>1. \A a, role : RoleIfStrict(a, role) => (Setting.strict => HasRole(a, role)')
  BY RolesStay DEF RoleIfStrict
<1>2. ASSUME NEW q \in Requests, NEW r, r = proc'[q], r.op = "syncRole" PROVE RoleIfStrict(r.account, r.role)
  BY <1>2, SyncRoleRows DEF GateInv, Vetted
<1>3. ASSUME NEW q \in Requests, NEW r, r = proc'[q], r.op = "syncRole" PROVE RoleIfStrict(r.account, r.role)'
  <2>1. Setting.strict => HasRole(r.account, r.role)'
    BY <1>1, <1>2, <1>3
  <2> QED BY <1>0, <2>1 DEF RoleIfStrict
<1>4. \A q \in Requests : Vetted(q)'
  BY <1>3 DEF Vetted
<1>5. ASSUME Setting.strict, NEW x \in gate' PROVE HasRole(x[1], x[2])'
  <2>1. HasRole(x[1], x[2])
    <3>1. CASE x \in gate
      BY <1>5, <3>1 DEF GateInv, GateVerified
    <3>2. ASSUME NEW p \in Requests, SetVerified(p), x \notin gate PROVE HasRole(x[1], x[2])
      <4>1. x = <<proc[p].account, proc[p].role>> /\ proc[p].op = "syncRole"
        BY <1>5, <3>2 DEF SetVerified, At
      <4>2. HasRole(proc[p].account, proc[p].role)
        BY <1>5, <4>1 DEF GateInv, Vetted, RoleIfStrict
      <4> QED BY <4>1, <4>2
    <3>3. ASSUME NEW p \in Requests, SyncRole(p), x \notin gate PROVE HasRole(x[1], x[2])
      <4>1. x = <<Page(p), "worker">> /\ RoleIfStrict(Page(p), "worker")
        BY <1>5, <3>3 DEF SyncRole
      <4>2. HasRole(Page(p), "worker")
        BY <1>5, <4>1 DEF RoleIfStrict
      <4> QED BY <4>1, <4>2
    <3> QED BY <1>5, <3>1, <3>2, <3>3, GateMoves
  <2> QED BY <2>1, RolesStay
<1>6. GateVerified'
  BY <1>0, <1>5 DEF GateVerified
<1> QED BY <1>4, <1>6 DEF GateInv

LEMMA GateStart ==
    ASSUME ClientInit
    PROVE  GateInv
<1>1. gate = {} /\ \A p \in Requests : proc[p] = Idle
  BY DEF ClientInit, ServicesInit, RequestsInit, AccessInit
<1> QED BY <1>1, IdleRow DEF GateInv, GateVerified, Vetted

-----------------------------------------------------------------------------
(* The invariant of access                                                    *)

AccessInv == AccessTyped /\ SignedInv /\ RolesInv /\ RegInv /\ IdInv /\ TrialInv /\ GateInv

LEMMA SignedStill == ASSUME SignedInv, UNCHANGED allVars PROVE SignedInv'
<1>1. UNCHANGED <<proc, alone, accounts, challenges, sessions>>
  BY DEF allVars, servicesVars, requestVars, accessVars, accountVars
<1> QED BY <1>1 DEF SignedInv, SessionsSigned, SignedRow

LEMMA RolesStill == ASSUME RolesInv, UNCHANGED allVars PROVE RolesInv'
<1>1. UNCHANGED <<scene, proc, roles, drafts>>
  BY DEF allVars, servicesVars, clientVars, requestVars, accessVars, ideaPageVars
<1> QED BY <1>1 DEF RolesInv, OneHumanOneRole, PostPages, Pages, HasRole, Posting, Serves

LEMMA RegStill == ASSUME RegInv, UNCHANGED allVars PROVE RegInv'
<1>1. UNCHANGED <<proc, alone, auths>>
  BY DEF allVars, servicesVars, requestVars, accessVars, agentVars
<1> QED BY <1>1 DEF RegInv, ActiveIsRegistered, RegRow, Fits, Matching

LEMMA IdStill == ASSUME IdInv, UNCHANGED allVars PROVE IdInv'
<1>1. UNCHANGED <<proc, alone, faults, auths, identities>>
  BY DEF allVars, servicesVars, requestVars, accessVars, agentVars
<1>2. Fingerprints' = Fingerprints /\ NoIdentity' = NoIdentity
  BY DEF Fingerprints, NoIdentity
<1>3. \A f \in Fingerprints : Held(f)' = Held(f) /\ Registering(f)' = Registering(f)
  BY <1>1 DEF Held, Registering, Publishing
<1>4. \A f \in Fingerprints : (Owned(f) => Owned(f)') /\ (Published(f) => Published(f)')
  BY <1>1, <1>2, <1>3 DEF Owned, Published
<1>5. \A p \in Requests : IdRow(p) => IdRow(p)'
  BY <1>1, <1>2 DEF IdRow, Knows, Publishing
<1> QED BY <1>1, <1>2, <1>3, <1>4, <1>5 DEF IdInv

LEMMA TrialStill == ASSUME TrialInv, UNCHANGED allVars PROVE TrialInv'
<1>1. UNCHANGED <<scene, proc, nonces, uses, grants>>
  BY DEF allVars, servicesVars, requestVars, accessVars, kitVars
<1> QED BY <1>1 DEF TrialInv, TrialKept, Setting, Opening, Alike, Spent

LEMMA GateStill == ASSUME GateInv, UNCHANGED allVars PROVE GateInv'
<1>1. UNCHANGED <<scene, proc, gate, roles>>
  BY DEF allVars, servicesVars, requestVars, accessVars
<1> QED BY <1>1 DEF GateInv, GateVerified, Vetted, RoleIfStrict, HasRole, Setting

LEMMA RegKept ==
    ASSUME AccessTyped, AllSteps, RegInv
    PROVE  RegInv'
BY ActiveKept, RegRows DEF RegInv

\* Every request, page and lapse keeps what access rests on, whoever overlaps.
THEOREM AccessInductive == ClientSpec => []AccessInv
<1>1. ClientInit => AccessInv
  BY AccessStart, SignedStart, RolesStart, RegStart, IdStart, TrialStart, GateStart DEF AccessInv
<1>2. AccessInv /\ ClientNext => AccessInv'
  BY AccessTypedKept, SignedKept, RolesKept, RegKept, IdKept, TrialStep, GateKept DEF AccessInv
<1>3. AccessInv /\ UNCHANGED allVars => AccessInv'
  BY AccessTypedStill, SignedStill, RolesStill, RegStill, IdStill, TrialStill, GateStill DEF AccessInv
<1> QED BY <1>1, <1>2, <1>3, PTL DEF ClientSpec, allVars

-----------------------------------------------------------------------------
(* Who works: steps of the services, by what they do to work                  *)

Routes == {"claim", "unclaim", "submit"}
WorkOps == Routes \cup {"accepting", "rejecting", "spend"}
KeyNames == {None} \cup UNION {Settings[s].keys : s \in DOMAIN Scenes}

RouteRow(r) ==
    /\ {"job", "account", "agent", "key", "challenge", "asked"} \subseteq DOMAIN r
    /\ r.step \in {"use", "permission", "stake", "row", "write", "answer"}
    /\ r.job \in Jobs /\ r.account \in Accounts /\ r.agent \in Agents /\ r.key \in KeyNames
    /\ r.challenge \in Nat /\ r.asked \in Nat
    /\ r.step = "write" => "was" \in DOMAIN r /\ r.was \in Accounts \cup {None}

WorkRow(r) ==
    /\ r.op \in Routes => RouteRow(r)
    /\ r.op = "accepting" => /\ {"job", "account"} \subseteq DOMAIN r /\ r.step \in {"job", "settle"}
                             /\ r.job \in Jobs /\ r.account \in Accounts \cup {None}
    /\ r.op = "rejecting" => "job" \in DOMAIN r /\ r.job \in Jobs /\ r.step = "job"
    /\ r.op = "spend" => {"job", "account"} \subseteq DOMAIN r /\ r.job \in Jobs /\ r.step = "insert"

WorkRows == \A p \in Requests : WorkRow(proc[p])

\* Neither jobs nor calls to contracts move, and no request for work but one whose
\* challenge is used now, or one that fails.
Bystands ==
    /\ UNCHANGED <<walletVars, workVars, job>>
    /\ clock' \in Nat /\ clock' >= clock
    /\ \A q \in Requests :
          \/ proc'[q] = proc[q]
          \/ proc'[q].op \notin WorkOps /\ (faults' = 0 => proc[q].op \notin WorkOps)
          \/ ChallengeUse(q) /\ GoesTo(q, "permission") /\ proc[q].op \in Routes

\* The request p moves on within other ops, begins or ends.
LEMMA OneBystands ==
    ASSUME AccessTyped, NEW p \in Requests, OthersKeep(p), proc'[p].op \notin WorkOps,
           faults' = 0 => proc[p].op \notin WorkOps,
           UNCHANGED <<walletVars, workVars, job, clock>>
    PROVE  Bystands
BY DEF Bystands, OthersKeep, AccessTyped, AccessTables

LEMMA BystandStarts ==
    ASSUME AccessTyped, NEW p \in Requests, NEW r, Start(p, r), "op" \in DOMAIN r, r.op \notin WorkOps,
           UNCHANGED <<walletVars, workVars, clock>>
    PROVE  Bystands
<1>1. Begins(p, r)
  BY StartBegins DEF AccessTyped, RowsTyped
<1>2. proc'[p].op = r.op
  BY <1>1 DEF Begins, With
<1>3. proc[p].op \notin WorkOps
  BY <1>1, IdleRow DEF Begins, WorkOps, Routes
<1> QED BY <1>1, <1>2, <1>3, OneBystands DEF Begins

LEMMA BystandSteps ==
    ASSUME AccessTyped, NEW p \in Requests, proc[p].op \notin WorkOps,
           UNCHANGED <<walletVars, workVars, job, clock>>,
           \/ Finish(p)
           \/ \E s : Goto(p, s)
           \/ \E change : "op" \notin DOMAIN change /\ proc' = [proc EXCEPT ![p] = With(proc[p], change)]
    PROVE  Bystands
<1>0. Rows /\ {"op", "step"} \subseteq DOMAIN proc[p]
  BY DEF AccessTyped, RowsTyped, Rows
<1>1. CASE Finish(p)
  <2>1. Ends(p)
    BY <1>0, <1>1, FinishEnds
  <2> QED BY <2>1, OneBystands, IdleRow DEF Ends, WorkOps, Routes
<1>2. ASSUME NEW s, Goto(p, s) PROVE Bystands
  <2>1. GoesTo(p, s)
    BY <1>0, <1>2, GotoGoes
  <2> QED BY <1>0, <2>1, OneBystands DEF GoesTo
<1>3. ASSUME NEW change, "op" \notin DOMAIN change, proc' = [proc EXCEPT ![p] = With(proc[p], change)]
      PROVE  Bystands
  <2>1. Learns(p, change)
    BY <1>0, <1>3, WithLearns
  <2> QED BY <1>0, <1>3, <2>1, OneBystands DEF Learns
<1> QED BY <1>1, <1>2, <1>3

LEMMA AccessClock ==
    ASSUME AccessTyped, NEW p \in Requests, AccessCall(p) \/ AccessStep(p)
    PROVE  clock' = clock /\ job' = job
<1>1. CASE AccessCall(p)
  <2>1. clock' = clock
    BY <1>1, Zenon DEF AccessCall, ChallengeCall, LoginCall, WorldCall, AuthorizeCall, RegisterCall, SyncRoleCall,
          RegisterAgentBook, KitCall, RevokeSession, accessVars
  <2> QED BY <1>1, <2>1, AccessCalls
<1>2. CASE AccessStep(p)
  BY <1>2, Zenon DEF AccessStep, ChallengeUse, AccountInsert, ChallengeInsert, SessionInsert, RoleRead, RoleWrite,
        AuthorizationWrite, RecordRegistration, Activate, IdentityRead, IdentityWrite, SetVerified, ClaimNonce,
        LookupHuman, TryIncrementUsage, accessVars
<1> QED BY <1>1, <1>2

LEMMA AccessBystands ==
    ASSUME AccessTyped, WorkRows, NEW p \in Requests, UNCHANGED <<walletVars, workVars>>,
           AccessCall(p) \/ (proc[p] # Idle /\ AccessStep(p))
    PROVE  Bystands
<1>1. CASE AccessCall(p)
  <2>1. clock' = clock
    BY <1>1, AccessClock
  <2>2. OthersKeep(p) /\ job' = job /\ proc'[p].op \notin WorkOps /\ proc[p].op \notin WorkOps
    BY <1>1, AccessCalls, IdleRow DEF WorkOps, Routes
  <2> QED BY <2>1, <2>2, OneBystands
<1>2. CASE proc[p] # Idle /\ AccessStep(p)
  <2>0. Rows /\ {"op", "step"} \subseteq DOMAIN proc[p]
    BY DEF AccessTyped, RowsTyped, Rows
  <2>1. clock' = clock /\ job' = job
    BY <1>2, AccessClock
  <2>2. OthersKeep(p) /\ (proc'[p] = Idle \/ proc'[p].op = proc[p].op)
    BY <1>2, AccessSteps
  <2>3. CASE ~ChallengeUse(p)
    <3>1. proc[p].op \notin WorkOps
      BY <1>2, <2>3 DEF AccessStep, WorkOps, Routes
    <3> QED BY <2>1, <2>2, <3>1, OneBystands, IdleRow DEF WorkOps, Routes
  <2>4. CASE ChallengeUse(p)
    <3>1. GoesTo(p, IF proc[p].op = "login" THEN "session" ELSE "permission")
      BY <2>0, <2>4, GotoGoes DEF ChallengeUse
    <3>2. CASE proc[p].op \notin WorkOps
      BY <2>1, <2>2, <3>2, OneBystands, IdleRow DEF WorkOps, Routes
    <3>3. CASE proc[p].op \in Routes
      BY <2>1, <2>2, <2>4, <3>1, <3>3 DEF Bystands, OthersKeep, AccessTyped, AccessTables, Routes
    <3>4. proc[p].op \notin WorkOps \/ proc[p].op \in Routes
      BY <2>4 DEF ChallengeUse, WorkRows, WorkRow, WorkOps, Routes
    <3> QED BY <3>2, <3>3, <3>4
  <2> QED BY <2>3, <2>4
<1> QED BY <1>1, <1>2

PlanOps == {"idle", "create", "plan", "board"}

\* A request about plans begins, goes on or ends.
LEMMA PlanRequests ==
    ASSUME AccessTyped, NEW p \in Requests, PlanArrives(p) \/ PlanStep(p)
    PROVE  /\ OthersKeep(p) /\ UNCHANGED <<job, clock, faults>> /\ (alone' => alone)
           /\ proc[p].op \in PlanOps /\ proc'[p].op \in PlanOps
<1>0. Rows /\ {"op", "step"} \subseteq DOMAIN proc[p]
  BY DEF AccessTyped, RowsTyped, Rows
<1> DEFINE Goal == /\ OthersKeep(p) /\ UNCHANGED <<job, clock, faults>> /\ (alone' => alone)
                   /\ proc[p].op \in PlanOps /\ proc'[p].op \in PlanOps
<1>1. ASSUME NEW r, Start(p, r), "op" \in DOMAIN r, r.op \in PlanOps, clock' = clock PROVE Goal
  <2>1. Begins(p, r)
    BY <1>0, <1>1, StartBegins
  <2>2. proc'[p].op = r.op
    BY <1>1, <2>1 DEF Begins, With
  <2> QED BY <1>1, <2>1, <2>2, IdleRow DEF Begins, PlanOps
<1>2. CASE PlanArrives(p)
  <2>1. ASSUME NEW a, NEW b, CreateCall(p, a, b) PROVE Goal
    BY <1>1, <2>1 DEF CreateCall, accessVars, PlanOps
  <2>2. ASSUME NEW a, NEW i, PlanCall(p, i, a) PROVE Goal
    BY <1>1, <2>2 DEF PlanCall, accessVars, PlanOps
  <2>3. ASSUME NEW status, BoardCall(p, status) PROVE Goal
    BY <1>1, <2>3 DEF BoardCall, accessVars, PlanOps
  <2> QED BY <1>2, <2>1, <2>2, <2>3 DEF PlanArrives
<1>3. ASSUME UNCHANGED <<job, clock, faults, alone>>, proc[p].op \in PlanOps,
             \/ Finish(p)
             \/ \E s : Goto(p, s)
             \/ \E change : "op" \notin DOMAIN change /\ proc' = [proc EXCEPT ![p] = With(proc[p], change)]
      PROVE  Goal
  <2>1. CASE Finish(p)
    BY <1>0, <1>3, <2>1, FinishEnds, IdleRow DEF Ends, PlanOps
  <2>2. ASSUME NEW s, Goto(p, s) PROVE Goal
    BY <1>0, <1>3, <2>2, GotoGoes DEF GoesTo
  <2>3. ASSUME NEW change, "op" \notin DOMAIN change, proc' = [proc EXCEPT ![p] = With(proc[p], change)] PROVE Goal
    <3>1. Learns(p, change)
      BY <1>0, <2>3, WithLearns
    <3>2. proc'[p].op = proc[p].op
      BY <1>0, <2>3, <3>1 DEF Learns
    <3> QED BY <1>3, <3>1, <3>2 DEF Learns
  <2> QED BY <1>3, <2>1, <2>2, <2>3
<1>4. CASE PlanStep(p)
  <2>0. proc[p].op \in PlanOps
    BY <1>4 DEF PlanStep, PlanOps
  <2>1. CASE CreateIdea(p) \/ RecordReservation(p) \/ QueueJobs(p) \/ BuildGroupedJobBoard(p)
    BY <1>3, <2>0, <2>1 DEF CreateIdea, RecordReservation, QueueJobs, BuildGroupedJobBoard, accessVars, Quiet, Calm
  <2>2. CASE InsertBrief(p)
    <3> DEFINE c == [step |-> "job", brief |-> Len(briefs) + 1, amount |-> 1]
    <3>1. proc' = [proc EXCEPT ![p] = With(proc[p], c)] /\ "op" \notin DOMAIN c /\ UNCHANGED <<job, clock, faults, alone>>
      BY <2>2 DEF InsertBrief, accessVars, Quiet, Calm
    <3> HIDE DEF c
    <3> QED BY <1>3, <2>0, <3>1
  <2>3. CASE FindReservation(p)
    <3> DEFINE found == {m.order : m \in {x \in planned : x.brief = proc[p].brief}}
               c == [step |-> "reservation", found |-> found]
    <3>1. /\ Finish(p) \/ proc' = [proc EXCEPT ![p] = With(proc[p], c)]
          /\ "op" \notin DOMAIN c /\ UNCHANGED <<job, clock, faults, alone>>
      BY <2>3 DEF FindReservation, accessVars, Quiet, Calm
    <3> HIDE DEF c
    <3> QED BY <1>3, <2>0, <3>1
  <2>4. CASE InsertJob(p)
    <3>0. UNCHANGED <<job, clock, faults, alone>>
      BY <2>4 DEF InsertJob, accessVars, Quiet, Calm
    <3>1. CASE Finish(p) \/ Goto(p, "reserve")
      BY <1>3, <2>0, <3>0, <3>1
    <3>2. CASE proc' = [proc EXCEPT ![p].amount = @ + 1]
      <4>1. OthersKeep(p) /\ proc'[p].op = proc[p].op
        BY <1>0, <3>2 DEF OthersKeep, Rows
      <4> QED BY <2>0, <3>0, <4>1
    <3> QED BY <2>4, <3>1, <3>2 DEF InsertJob
  <2> QED BY <1>4, <2>1, <2>2, <2>3, <2>4 DEF PlanStep
<1> QED BY <1>2, <1>4

LEMMA PlanBystands ==
    ASSUME AccessTyped, NEW p \in Requests, UNCHANGED <<walletVars, workVars>>,
           PlanArrives(p) \/ PlanStep(p)
    PROVE  Bystands
BY PlanRequests, OneBystands DEF PlanOps, WorkOps, Routes

LEMMA LimitBystands ==
    ASSUME AccessTyped, NEW p \in Requests, UNCHANGED <<walletVars, workVars>>,
           LimitArrives(p) \/ LimitStep(p)
    PROVE  Bystands
<1>1. ASSUME NEW kind, NEW c, LimitedCall(p, kind, c) PROVE Bystands
  BY <1>1, BystandStarts DEF LimitedCall, WorkOps, Routes, accessVars
<1>2. ASSUME NEW c, AdminRefused(p, c) \/ GetBreakerStatus(p, c) \/ ResetBreaker(p, c) PROVE Bystands
  BY <1>2, BystandStarts DEF AdminRefused, GetBreakerStatus, ResetBreaker, WorkOps, Routes, accessVars
<1>3. ASSUME RecordAccept(p) PROVE Bystands
  <2>1. PICK r : Start(p, r) /\ r \in {[op |-> "limitAccept", step |-> "handle", seen |-> NextGeneration], [op |-> "idle"]}
    BY <1>3 DEF RecordAccept
  <2>2. "op" \in DOMAIN r /\ r.op \notin WorkOps
    BY <2>1 DEF WorkOps, Routes
  <2> QED BY <1>3, <2>1, <2>2, BystandStarts DEF RecordAccept, accessVars
<1>4. CASE LimitStep(p)
  <2>0. proc[p].op \notin WorkOps
    BY <1>4 DEF LimitStep, WorkOps, Routes
  <2>1. CASE Incr(p) \/ Expire(p) \/ CountInMemory(p)
    BY <2>0, <2>1, BystandSteps DEF Incr, Expire, CountInMemory, Decide, accessVars
  <2>2. CASE RedisFails(p)
    BY <2>0, <2>2, BystandSteps DEF RedisFails, accessVars
  <2>3. CASE AcceptAnswers(p) \/ \E is5xx \in BOOLEAN : RecordError(p, is5xx)
    BY <2>0, <2>3, BystandSteps, Zenon DEF AcceptAnswers, RecordError, accessVars
  <2> QED BY <1>4, <2>1, <2>2, <2>3 DEF LimitStep
<1> QED BY <1>1, <1>2, <1>3, <1>4 DEF LimitArrives, WalletLimitedCall

\* Every step of the services, by what it does to work
WorkSteps ==
    \/ Bystands
    \/ \E p \in Requests : WalletCall(p) /\ UNCHANGED <<workVars, clock>>
    \/ WalletStep /\ UNCHANGED <<workVars, clock>>
    \/ \E p \in Requests : WorkArrives(p) /\ clock' = clock
    \/ \E p \in Requests : proc[p] # Idle /\ WorkStep(p) /\ clock' = clock
    \/ \E j \in Jobs : Lapse(j) /\ clock' = clock
    \/ Restart /\ ForgetWork /\ clock' = clock

LEMMA WorkCases ==
    ASSUME AccessTyped, WorkRows, ServicesNext
    PROVE  WorkSteps
<1>1. ASSUME NEW p \in Requests, ServicesArrive(p) PROVE WorkSteps
  <2>1. WalletCall(p) \/ WorkArrives(p) => clock' = clock
    BY WalletCallAside, WorkArrivesAside DEF AccessTyped, accessVars
  <2> QED BY <1>1, <2>1, AccessBystands, PlanBystands, LimitBystands DEF ServicesArrive, WorkSteps
<1>2. ASSUME NEW p \in Requests, ServicesAnswer(p) PROVE WorkSteps
  <2>0. proc[p] # Idle
    BY <1>2 DEF ServicesAnswer
  <2>1. WorkStep(p) => clock' = clock
    BY <2>0, WorkStepAside DEF AccessTyped, accessVars
  <2>2. ASSUME Fail(p), UNCHANGED <<accessVars, walletVars, workVars>> PROVE Bystands
    <3>1. Ends(p) /\ faults' # 0
      BY <2>2, FinishEnds DEF Fail, AccessTyped, RowsTyped
    <3> QED BY <2>2, <3>1, OneBystands, IdleRow DEF Ends, Fail, WorkOps, Routes, accessVars
  <2> QED BY <1>2, <2>0, <2>1, <2>2, AccessBystands, PlanBystands, LimitBystands DEF ServicesAnswer, WorkSteps
<1>3. ASSUME Elsewhere PROVE WorkSteps
  <2>0. clock \in Nat
    BY DEF AccessTyped, AccessTables
  <2>1. ASSUME Tick, UNCHANGED <<walletVars, workVars>> PROVE Bystands
    BY <2>0, <2>1 DEF Tick, Bystands, requestVars
  <2>2. ASSUME PlanMoves, UNCHANGED <<walletVars, workVars>> PROVE Bystands
    BY <2>0, <2>2 DEF PlanMoves, FundOrCancel, TakeJob, Bystands, requestVars, accessVars
  <2>3. WalletStep => clock' = clock
    BY WalletStepAside DEF AccessTyped, accessVars
  <2>4. ASSUME NEW j, Lapse(j) PROVE clock' = clock
    BY <2>4, LapseAside DEF AccessTyped, accessVars
  <2> QED BY <1>3, <2>1, <2>2, <2>3, <2>4 DEF Elsewhere, WorkSteps
<1>4. ASSUME Restart, ForgetWork, UNCHANGED accessVars PROVE WorkSteps
  BY <1>4 DEF WorkSteps, accessVars
<1> QED BY <1>1, <1>2, <1>3, <1>4 DEF ServicesNext

-----------------------------------------------------------------------------
(* Requests for work begin                                                    *)

Begun(p) ==
    /\ OthersKeep(p) /\ proc[p] = Idle
    /\ alone' => alone /\ \A q \in Requests : proc[q] = Idle
    /\ scene' = scene /\ faults' = faults /\ job' = job

RouteBegun(p) ==
    LET r == proc'[p] IN
    /\ UNCHANGED <<walletVars, workVars>>
    /\ r.op \in Routes /\ RouteRow(r) /\ r.step \in {"use", "stake", "row"} /\ r.asked = clock
    /\ r.key # None => ~Cached(r.key)
    /\ IF r.step = "use"
       THEN /\ r.challenge \in DOMAIN challenges /\ ~challenges[r.challenge].used
            /\ challenges[r.challenge].account = r.account /\ challenges[r.challenge].purpose = Purpose[r.op]
            /\ challenges[r.challenge].job = r.job /\ challenges[r.challenge].agent = r.agent
       ELSE r.challenge = 0 /\ ~Setting.strict

OtherBegun(p) ==
    LET r == proc'[p] IN
    /\ UNCHANGED <<walletVars, workVars>>
    /\ r.op \in {"accepting", "rejecting", "spend"} /\ WorkRow(r)
    /\ r.op = "spend" => r.account \in Accounts /\ holder[r.job] = r.account

\* A call is made for a request that is answered at once.
CallBegun(p, s) ==
    /\ proc'[p].op = "idle" /\ ScriptRow(s) /\ s.nonce = 0 /\ s.step = "prepare" /\ Launch(s)
    /\ OneCall(s) /\ Head(s.calls).name \notin {"setWorker", "clearWorker"}
    /\ UNCHANGED <<contractVars, settled, accepts, missed, workVars>>

LEMMA StartBegun ==
    ASSUME AccessTyped, NEW p \in Requests, NEW r, Start(p, r)
    PROVE  Begun(p) /\ proc'[p] = With(Idle, r)
BY StartBegins DEF Begins, Begun, AccessTyped, RowsTyped

LEMMA ScriptOfOne ==
    ASSUME NEW name \in CallNames \ {"setWorker", "clearWorker"}, NEW j, NEW e, NEW w, e \in {w, None}
    PROVE  LET s == Script(<<Call(name, j, e)>>, j, w) IN
           /\ ScriptRow(s) /\ s.nonce = 0 /\ s.step = "prepare" /\ OneCall(s)
           /\ Head(s.calls).name \notin {"setWorker", "clearWorker"}
<1> DEFINE s == Script(<<Call(name, j, e)>>, j, w)
<1>1. ScriptFields(s) /\ s.nonce = 0 /\ s.step = "prepare" /\ s.calls = <<Call(name, j, e)>> /\ s.job = j /\ s.who = w
  BY DEF Script, ScriptFields
<1> HIDE DEF s
<1>2. OneCall(s)
  BY <1>1 DEF OneCall, CallNames
<1>3. Head(s.calls).name = name
  BY <1>1 DEF Call
<1> QED BY <1>1, <1>2, <1>3 DEF ScriptRow, s

LEMMA WalletCallBegins ==
    ASSUME AccessTyped, NEW p \in Requests, WalletCall(p), UNCHANGED workVars
    PROVE  Begun(p) /\ \E s : CallBegun(p, s)
<1>1. ASSUME NEW name \in {"scores", "distribute", "buyback", "cap", "evaluate", "credential"}, NEW e,
             AdminRoute(p, name, e)
      PROVE  Begun(p) /\ \E s : CallBegun(p, s)
  <2> DEFINE s == Script(<<Call(name, None, e)>>, None, e)
  <2>1. Begun(p) /\ proc'[p].op = "idle"
    <3>1. Begun(p) /\ proc'[p] = With(Idle, [op |-> "idle"])
      BY <1>1, StartBegun DEF AdminRoute
    <3> QED BY <3>1 DEF With
  <2>2. ScriptRow(s) /\ s.nonce = 0 /\ s.step = "prepare" /\ OneCall(s)
        /\ Head(s.calls).name \notin {"setWorker", "clearWorker"}
    BY ScriptOfOne DEF CallNames
  <2>3. Launch(s) /\ UNCHANGED <<contractVars, settled, accepts, missed, workVars>>
    BY <1>1 DEF AdminRoute
  <2> HIDE DEF s
  <2> QED BY <2>1, <2>2, <2>3 DEF CallBegun
<1> QED BY <1>1 DEF WalletCall, SubmitScores, DistributeEpoch, ExecuteBuyback, UpdateMintCap,
                   EvaluateTier, MintCredential

LEMMA RouteBegins ==
    ASSUME AccessTyped, NEW p \in Requests, NEW op \in Routes, NEW j \in Jobs, NEW a \in Accounts,
           NEW g \in Setting.agents, NEW key \in KeyNames, WorkCall(p, op, j, a, g, key)
    PROVE  Begun(p) /\ RouteBegun(p)
<1>0. g \in Agents /\ clock \in Nat /\ g # None /\ j # None /\ UNCHANGED <<walletVars, workVars>>
      /\ (key # None => ~Cached(key))
  BY SettingFacts, NoneAssumption DEF AccessTyped, RowsTyped, AccessTables, WorkCall
<1>1. ASSUME NEW c \in DOMAIN challenges, Active(c, a, Purpose[op], j, g),
             Start(p, [op |-> op, step |-> "use", job |-> j, account |-> a, agent |-> g,
                          key |-> key, challenge |-> c, asked |-> clock])
      PROVE  Begun(p) /\ RouteBegun(p)
  <2> DEFINE new == [op |-> op, step |-> "use", job |-> j, account |-> a, agent |-> g,
                          key |-> key, challenge |-> c, asked |-> clock]
             r == With(Idle, new)
  <2>1. Begun(p) /\ proc'[p] = r
    BY <1>1, StartBegun
  <2>2. /\ {"op", "step", "job", "account", "agent", "key", "challenge", "asked"} \subseteq DOMAIN r
        /\ r.op = op /\ r.step = "use" /\ r.job = j /\ r.account = a /\ r.agent = g /\ r.key = key
        /\ r.challenge = c /\ r.asked = clock
    BY DEF With
  <2>3. c \in Nat
    BY TableRows DEF AccessTyped
  <2> HIDE DEF r
  <2>4. RouteRow(r)
    BY <1>0, <2>2, <2>3 DEF RouteRow
  <2> QED BY <1>0, <1>1, <2>1, <2>2, <2>4 DEF RouteBegun, Active
<1>2. ASSUME ~Setting.strict,
             Start(p, [op |-> op, step |-> IF op = "claim" THEN "stake" ELSE "row", job |-> j,
                       account |-> a, agent |-> g, key |-> key, challenge |-> 0, asked |-> clock])
      PROVE  Begun(p) /\ RouteBegun(p)
  <2> DEFINE st == IF op = "claim" THEN "stake" ELSE "row"
             new == [op |-> op, step |-> st, job |-> j, account |-> a, agent |-> g,
                          key |-> key, challenge |-> 0, asked |-> clock]
             r == With(Idle, new)
  <2>1. Begun(p) /\ proc'[p] = r
    BY <1>2, StartBegun
  <2>2. /\ {"op", "step", "job", "account", "agent", "key", "challenge", "asked"} \subseteq DOMAIN r
        /\ r.op = op /\ r.step = st /\ r.job = j /\ r.account = a /\ r.agent = g /\ r.key = key
        /\ r.challenge = 0 /\ r.asked = clock
    BY DEF With
  <2>3. st \in {"stake", "row"}
    OBVIOUS
  <2> HIDE DEF r, st
  <2>4. RouteRow(r)
    BY <1>0, <2>2, <2>3 DEF RouteRow
  <2> QED BY <1>0, <1>2, <2>1, <2>2, <2>3, <2>4 DEF RouteBegun
<1> QED BY <1>1, <1>2 DEF WorkCall

LEMMA WorkBegins ==
    ASSUME AccessTyped, holder \in [Jobs -> Accounts \cup {None}], NEW p \in Requests, WorkArrives(p)
    PROVE  Begun(p) /\ (RouteBegun(p) \/ OtherBegun(p) \/ \E s : CallBegun(p, s))
<1> DEFINE Goal == Begun(p) /\ (RouteBegun(p) \/ OtherBegun(p) \/ \E s : CallBegun(p, s))
<1>1. ASSUME NEW j \in Jobs, NEW a \in Accounts, NEW g \in Setting.agents, NEW key \in Setting.keys,
             ClaimRoute(p, j, a, g, key) \/ SubmitRoute(p, j, a, g, key) \/ UnclaimRoute(p, j, a, g)
      PROVE Goal
  <2>1. key \in KeyNames /\ None \in KeyNames
    BY DEF KeyNames, Setting, AccessTyped, RowsTyped
  <2>2. "claim" \in Routes /\ "unclaim" \in Routes /\ "submit" \in Routes
    BY DEF Routes
  <2> QED BY <1>1, <2>1, <2>2, RouteBegins DEF ClaimRoute, SubmitRoute, UnclaimRoute
<1>2. ASSUME NEW j \in Jobs, NEW a \in Accounts, AcceptWork(p, j, a) PROVE Goal
  <2> DEFINE r == With(Idle, [op |-> "accepting", step |-> "job", job |-> j, account |-> holder[j]])
  <2>1. Begun(p) /\ proc'[p] = r
    BY <1>2, StartBegun DEF AcceptWork
  <2>2. {"op", "step", "job", "account"} \subseteq DOMAIN r /\ r.op = "accepting" /\ r.step = "job" /\ r.job = j
        /\ r.account = holder[j]
    BY DEF With
  <2> HIDE DEF r
  <2>3. WorkRow(r)
    BY <2>2 DEF WorkRow, Routes
  <2> QED BY <1>2, <2>1, <2>2, <2>3 DEF OtherBegun, AcceptWork
<1>3. ASSUME NEW j \in Jobs, RejectWork(p, j) PROVE Goal
  <2> DEFINE r == With(Idle, [op |-> "rejecting", step |-> "job", job |-> j])
  <2>1. Begun(p) /\ proc'[p] = r
    BY <1>3, StartBegun DEF RejectWork
  <2>2. {"op", "step", "job"} \subseteq DOMAIN r /\ r.op = "rejecting" /\ r.step = "job" /\ r.job = j
    BY DEF With
  <2> HIDE DEF r
  <2>3. WorkRow(r)
    BY <2>2 DEF WorkRow, Routes
  <2> QED BY <1>3, <2>1, <2>2, <2>3 DEF OtherBegun, RejectWork
<1>4. ASSUME NEW j \in Jobs, NEW a \in Accounts, SpendCall(p, j, a) PROVE Goal
  <2> DEFINE r == With(Idle, [op |-> "spend", step |-> "insert", job |-> j, account |-> a])
  <2>1. Begun(p) /\ proc'[p] = r
    BY <1>4, StartBegun DEF SpendCall
  <2>2. {"op", "step", "job", "account"} \subseteq DOMAIN r /\ r.op = "spend" /\ r.step = "insert" /\ r.job = j
        /\ r.account = a
    BY DEF With
  <2> HIDE DEF r
  <2>3. WorkRow(r)
    BY <2>2 DEF WorkRow, Routes
  <2> QED BY <1>4, <2>1, <2>2, <2>3 DEF OtherBegun, SpendCall
<1>5. ASSUME NEW j \in Jobs, NEW a \in Accounts, OpenDispute(p, j, a) PROVE Goal
  <2> DEFINE s == Script(<<Call("openDispute", j, None)>>, j, None)
  <2>1. Begun(p) /\ proc'[p].op = "idle"
    <3>1. Begun(p) /\ proc'[p] = With(Idle, [op |-> "idle"])
      BY <1>5, StartBegun DEF OpenDispute
    <3> QED BY <3>1 DEF With
  <2>2. ScriptRow(s) /\ s.nonce = 0 /\ s.step = "prepare" /\ OneCall(s)
        /\ Head(s.calls).name \notin {"setWorker", "clearWorker"}
    BY ScriptOfOne DEF CallNames
  <2>3. Launch(s) /\ UNCHANGED <<contractVars, settled, accepts, missed, workVars>>
    BY <1>5 DEF OpenDispute
  <2> HIDE DEF s
  <2> QED BY <2>1, <2>2, <2>3 DEF CallBegun
<1>6. \A x : Setting.agents # {} /\ x \in Setting.users => x \in Accounts
  BY SettingFacts DEF AccessTyped, RowsTyped
<1> QED BY <1>1, <1>2, <1>3, <1>4, <1>5, <1>6 DEF WorkArrives

-----------------------------------------------------------------------------
(* What the rows and tables of work contain                                   *)

ActType == [op : Routes, job : Jobs, account : Accounts, agent : Agents, key : KeyNames,
            challenge : Nat, asked : Nat, at : Nat]

WorkTables ==
    /\ DOMAIN job = Jobs /\ holder \in [Jobs -> Accounts \cup {None}]
    /\ acts \in Seq(ActType) /\ \A e \in store : e.created \in Nat

WorkTyped == WorkRows /\ WorkTables /\ WalletTables

\* The request of r has become x.
Continues(r, x) ==
    /\ x.op = r.op /\ x.job = r.job /\ x.account = r.account /\ x.agent = r.agent
    /\ x.key = r.key /\ x.challenge = r.challenge /\ x.asked = r.asked

LEMMA RouteGoes ==
    ASSUME AccessTyped, WorkRows, NEW p \in Requests, proc[p].op \in Routes,
           NEW s \in {"permission", "stake", "row", "answer"}, Goto(p, s)
    PROVE  OthersKeep(p) /\ Continues(proc[p], proc'[p]) /\ proc'[p].step = s /\ RouteRow(proc'[p])
<1>1. GoesTo(p, s)
  BY GotoGoes DEF AccessTyped, RowsTyped
<1>2. RouteRow(proc[p]) /\ {"op", "step"} \subseteq DOMAIN proc[p]
  BY DEF WorkRows, WorkRow, AccessTyped, RowsTyped, Rows
<1> QED BY <1>1, <1>2 DEF GoesTo, Continues, RouteRow

LEMMA RouteReads ==
    ASSUME AccessTyped, WorkRows, NEW p \in Requests, proc[p].op \in Routes, NEW w \in Accounts \cup {None},
           proc' = [proc EXCEPT ![p] = With(proc[p], [step |-> "write", was |-> w])]
    PROVE  /\ OthersKeep(p) /\ Continues(proc[p], proc'[p]) /\ proc'[p].step = "write" /\ proc'[p].was = w
           /\ RouteRow(proc'[p])
<1> DEFINE c == [step |-> "write", was |-> w]
<1>0. DOMAIN c = {"step", "was"} /\ c.step = "write" /\ c.was = w
  OBVIOUS
<1>1. Learns(p, c)
  BY WithLearns DEF AccessTyped, RowsTyped
<1>2. RouteRow(proc[p]) /\ {"op", "step"} \subseteq DOMAIN proc[p]
  BY DEF WorkRows, WorkRow, AccessTyped, RowsTyped, Rows
<1> HIDE DEF c
<1> QED BY <1>0, <1>1, <1>2 DEF Learns, Continues, RouteRow

LEMMA WorkFinish ==
    ASSUME AccessTyped, NEW p \in Requests, Finish(p)
    PROVE  OthersKeep(p) /\ proc'[p] = Idle
BY FinishEnds DEF AccessTyped, RowsTyped, Ends

LEMMA WorkRowsOne ==
    ASSUME WorkRows, NEW p \in Requests, OthersKeep(p), WorkRow(proc'[p])
    PROVE  WorkRows'
<1>1. \A q \in Requests : WorkRow(proc'[q])
  BY DEF WorkRows, OthersKeep
<1> QED BY <1>1 DEF WorkRows

LEMMA IdleWorkRow == WorkRow(Idle) /\ \A r : r.op \notin WorkOps => WorkRow(r)
BY IdleRow DEF WorkRow, WorkOps, Routes

LEMMA RouteWorkRow == \A r : r.op \in Routes /\ RouteRow(r) => WorkRow(r)
BY DEF WorkRow, Routes

LEMMA TablesStay ==
    ASSUME WalletTables, UNCHANGED <<contractVars, settled, missed>>, accepts' \in Nat,
           IsFiniteSet(scripts') /\ \A x \in scripts' : ScriptRow(x)
    PROVE  WalletTables'
<1>1. SentTyped'
  BY DEF WalletTables, SentTyped, CallFits, contractVars
<1> QED BY <1>1 DEF WalletTables, contractVars

LEMMA TablesSame ==
    ASSUME WalletTables, UNCHANGED walletVars
    PROVE  WalletTables'
BY TablesStay DEF WalletTables, walletVars

LEMMA BystandsTyped ==
    ASSUME AccessTyped, WorkTyped, Bystands
    PROVE  WorkTyped'
<1>1. \A q \in Requests : WorkRow(proc'[q])
  <2> TAKE q \in Requests
  <2>1. CASE proc'[q] = proc[q]
    BY <2>1 DEF WorkTyped, WorkRows
  <2>2. CASE proc'[q].op \notin WorkOps
    BY <2>2, IdleWorkRow
  <2>3. CASE ChallengeUse(q) /\ GoesTo(q, "permission") /\ proc[q].op \in Routes
    <3>1. Goto(q, "permission")
      BY <2>3 DEF ChallengeUse, Routes
    <3> QED BY <2>3, <3>1, RouteGoes, RouteWorkRow DEF WorkTyped, Continues
  <2> QED BY <2>1, <2>2, <2>3 DEF Bystands
<1>2. WorkTables' /\ WalletTables'
  BY TablesSame DEF Bystands, WorkTyped, WorkTables, workVars
<1> QED BY <1>1, <1>2 DEF WorkTyped, WorkRows

\* A request begins or a call is made.
LEMMA BegunTyped ==
    ASSUME WorkTyped, NEW p \in Requests, Begun(p),
           RouteBegun(p) \/ OtherBegun(p) \/ \E s : CallBegun(p, s)
    PROVE  WorkTyped'
<1>1. CASE RouteBegun(p) \/ OtherBegun(p)
  <2>1. WorkRow(proc'[p])
    BY <1>1, RouteWorkRow DEF RouteBegun, OtherBegun
  <2>2. WorkTables' /\ WalletTables'
    BY <1>1, TablesSame DEF RouteBegun, OtherBegun, Begun, WorkTyped, WorkTables, workVars
  <2> QED BY <2>1, <2>2, WorkRowsOne DEF WorkTyped, Begun
<1>2. ASSUME NEW s, CallBegun(p, s) PROVE WorkTyped'
  <2>1. WorkRow(proc'[p])
    BY <1>2, IdleWorkRow DEF CallBegun, WorkOps, Routes
  <2>2. WorkTables'
    BY <1>2 DEF CallBegun, Begun, WorkTyped, WorkTables, workVars
  <2>3. IsFiniteSet(scripts') /\ \A x \in scripts' : ScriptRow(x)
    BY <1>2, LaunchTyped DEF CallBegun, WorkTyped
  <2>4. WalletTables'
    BY <1>2, <2>3, TablesStay DEF CallBegun, WorkTyped, WalletTables
  <2> QED BY <2>1, <2>2, <2>4, WorkRowsOne DEF WorkTyped, Begun
<1> QED BY <1>1, <1>2

LEMMA ScriptTyped ==
    ASSUME WalletTables, NEW s \in scripts, ScriptSteps(s)
    PROVE  WalletTables'
<1>0. ScriptRow(s) /\ CallFits(Head(s.calls)) /\ SentTyped /\ accepts' = accepts
  BY ScriptEffect
<1>1. PICK t : Advances(s, t) /\ Becomes(s, t) /\ (UNCHANGED contractVars \/ Send(Head(s.calls)))
  BY ScriptEffect
<1> DEFINE Contracts == /\ UNCHANGED <<escrow, allowance, deposits, epochs>>
                        /\ SentTyped' /\ mined' \in 0..Len(sent)'
<1>2. ASSUME Send(Head(s.calls)) PROVE Contracts
  <2>1. Len(sent)' = Len(sent) + 1 /\ Len(sent) \in Nat /\ mined' = mined /\ mined \in 0..Len(sent)
        /\ UNCHANGED <<escrow, allowance, deposits, epochs>> /\ SentTyped'
    BY <1>0, <1>2, SendFacts DEF WalletTables
  <2> QED BY <2>1
<1>3. ASSUME UNCHANGED contractVars PROVE Contracts
  BY <1>0, <1>3 DEF contractVars, WalletTables, SentTyped, CallFits
<1>4. Contracts
  BY <1>1, <1>2, <1>3
<1>5. IsFiniteSet(scripts') /\ \A x \in scripts' : ScriptRow(x)
  BY <1>1, BecomesTyped
<1>6. settled' \subseteq Jobs
  <2>1. MarkSettledOnChain(s) => s.job \in Jobs
    BY <1>0, OneCallFacts DEF MarkSettledOnChain, ScriptRow, Settles
  <2> QED BY <2>1 DEF ScriptSteps, PrepareCall, SendCall, MarkSettledOnChain, CallFails, WalletTables
<1>7. missed' \in [Depositories -> Nat]
  <2>1. missed' = missed \/ missed' = [missed EXCEPT ![Head(s.calls).who] = @ + 1]
    BY DEF ScriptSteps, PrepareCall, SendCall, MarkSettledOnChain, CallFails
  <2> QED BY <2>1 DEF WalletTables
<1> HIDE DEF Contracts
<1>8. /\ escrow' \in [Jobs -> EscrowType] /\ allowance' \in [Depositories -> Nat]
      /\ deposits' \in [Depositories -> Nat] /\ DOMAIN epochs' = {"scored", "distributed"}
      /\ SentTyped' /\ mined' \in 0..Len(sent)' /\ accepts' \in Nat
  BY <1>0, <1>4 DEF Contracts, WalletTables
<1> QED BY <1>5, <1>6, <1>7, <1>8 DEF WalletTables

LEMMA MineTyped ==
    ASSUME WalletTables, Mine
    PROVE  WalletTables'
<1>0. /\ mined + 1 \in 1..Len(sent) /\ mined' = mined + 1 /\ sent' = sent /\ Len(sent) \in Nat /\ mined \in 0..Len(sent)
      /\ Executed(sent[mined + 1]) /\ CallFits(sent[mined + 1])
      /\ UNCHANGED <<scripts, settled, accepts, missed>>
  BY MineFacts, SentFacts DEF WalletTables
<1>1. /\ escrow' \in [Jobs -> EscrowType] /\ allowance' \in [Depositories -> Nat]
      /\ deposits' \in [Depositories -> Nat] /\ DOMAIN epochs' = {"scored", "distributed"}
  BY <1>0, ExecutedTask, ExecutedMoney, ExecutedEpochs DEF WalletTables
<1>2. mined' \in 0..Len(sent)'
  BY <1>0
<1>3. SentTyped'
  BY <1>0 DEF WalletTables, SentTyped, CallFits
<1> QED BY <1>0, <1>1, <1>2, <1>3 DEF WalletTables

LEMMA WalletStepTyped ==
    ASSUME WorkTyped, WalletStep, UNCHANGED workVars
    PROVE  WorkTyped'
<1>1. proc' = proc /\ job' = job
  BY Zenon DEF WalletStep, FundTask, LeaveEscrow, Mine, PrepareCall, SendCall, MarkSettledOnChain, CallFails, requestVars
<1>2. WorkRows' /\ WorkTables'
  BY <1>1 DEF WorkTyped, WorkRows, WorkTables, workVars
<1>3. ASSUME NEW j \in Jobs, FundTask(j) \/ LeaveEscrow(j) PROVE WalletTables'
  <2>1. PICK x \in {"funded", "refunded", "released"} : escrow' = [escrow EXCEPT ![j].state = x]
    BY <1>3 DEF FundTask, LeaveEscrow
  <2>2. escrow' \in [Jobs -> EscrowType]
    BY <2>1 DEF WorkTyped, WalletTables, EscrowType
  <2> QED BY <1>3, <2>2 DEF FundTask, LeaveEscrow, WorkTyped, WalletTables, SentTyped, CallFits
<1>4. WalletTables'
  BY <1>3, ScriptTyped, MineTyped DEF WalletStep, WorkTyped, ScriptSteps
<1> QED BY <1>2, <1>4 DEF WorkTyped

-----------------------------------------------------------------------------
(* What a request for work does, step by step                                 *)

Grants(a, g) == \E i \in Matching(a, g, "worker") : auths[i].active

\* A route goes on to its next check, reads the job's row, or ends.
Checks(p) ==
    LET r == proc[p] IN
    /\ UNCHANGED <<walletVars, workVars, job>> /\ r.op \in Routes /\ r.step \in {"permission", "stake", "row"}
    /\ \/ proc'[p] = Idle
       \/ /\ Continues(r, proc'[p]) /\ RouteRow(proc'[p])
          /\ \/ /\ r.step = "permission" /\ proc'[p].step \in {"stake", "row"}
                /\ RoleIfStrict(r.account, "worker") /\ Grants(r.account, r.agent)
             \/ r.step = "stake" /\ proc'[p].step = "row"
             \/ r.step = "row" /\ proc'[p].step = "write" /\ RowAllows(r) /\ proc'[p].was = holder[r.job]

\* A route writes the job's row.
Writes(p) ==
    LET r == proc[p] IN
    /\ r.op \in Routes /\ r.step = "write" /\ UNCHANGED <<walletVars, store, spends>>
    /\ Continues(r, proc'[p]) /\ RouteRow(proc'[p]) /\ proc'[p].step = "answer"
    /\ \E status \in {"claimed", "queued", "submitted", "rework"} :
          /\ r.op = "claim" <=> status = "claimed"
          /\ r.op = "unclaim" <=> status = "queued"
          /\ job' = [job EXCEPT ![r.job] = status]
          /\ holder' = [holder EXCEPT ![r.job] = CASE status = "claimed" -> r.account
                                                   [] status = "submitted" -> r.was
                                                   [] OTHER -> None]
          /\ kept' = (kept /\ status # "rework")
    /\ held' = IF r.op = "claim" THEN held \cup {<<r.job, r.account>>} ELSE held
    /\ \E a \in ActType :
          /\ acts' = Append(acts, a) /\ Continues(r, a) /\ a.at = clock

\* A call with the worker of a task
Tells(s, r) ==
    /\ s.calls = <<Call(IF r.op = "claim" THEN "setWorker" ELSE "clearWorker", r.job,
                        IF r.op = "claim" THEN r.account ELSE None)>>
    /\ s.job = r.job /\ s.step = "prepare" /\ s.nonce = 0 /\ ScriptRow(s) /\ OneCall(s)

\* A route tells TaskEscrow and stores its result.
Answers(p) ==
    LET r == proc[p] IN
    /\ r.op \in Routes /\ r.step = "answer" /\ proc'[p] = Idle /\ StoreResult(r.key)
    /\ UNCHANGED <<job, contractVars, settled, accepts, missed, holder, spends, acts, held, kept>>
    /\ \/ r.op = "submit" /\ UNCHANGED <<scripts, orderly>>
       \/ r.op # "submit" /\ \E s : Tells(s, r) /\ Launch(s)

\* A job is accepted, or rejected.
Decides(p) ==
    LET r == proc[p] IN
    /\ r.op \in {"accepting", "rejecting"} /\ r.step = "job" /\ UNCHANGED <<walletVars, store, spends, acts, held>>
    /\ WorkRow(proc'[p]) /\ proc'[p].op \in {"accepting", "idle"}
    /\ \/ job' = [job EXCEPT ![r.job] = "accepted"] /\ UNCHANGED <<holder, kept>>
       \/ /\ job' = [job EXCEPT ![r.job] = "rework"] /\ kept' = FALSE
          /\ holder' = [holder EXCEPT ![r.job] = None]

\* An accepted job is settled.
SettlesJob(p) ==
    LET r == proc[p] IN
    /\ r.op = "accepting" /\ proc'[p] = Idle /\ UNCHANGED <<job, contractVars, settled, missed, workVars>>
    /\ \/ UNCHANGED <<scripts, orderly, accepts>>
       \/ \E s : /\ Settles(s, 5) /\ s.job = r.job /\ ScriptRow(s) /\ s.step = "prepare" /\ s.nonce = 0
                 /\ Launch(s) /\ accepts' = IF Setting.chain THEN accepts + 1 ELSE accepts

Spends(p) ==
    LET r == proc[p] IN
    /\ r.op = "spend" /\ proc'[p] = Idle /\ UNCHANGED <<job, walletVars, holder, store, acts, held, kept>>
    /\ spends' = spends \cup {<<r.job, r.account>>}

LEMMA ChecksCase ==
    ASSUME AccessTyped, WorkTyped, NEW p \in Requests, CheckPermission(p) \/ CheckWorkerStake(p) \/ RowRead(p)
    PROVE  OthersKeep(p) /\ Checks(p)
<1>0. /\ proc[p].op \in Routes /\ RouteRow(proc[p]) /\ UNCHANGED <<walletVars, workVars, job>>
      /\ proc[p].step \in {"permission", "stake", "row"}
  BY DEF CheckPermission, CheckWorkerStake, RowRead, At, Purpose, Routes, WorkTyped, WorkRows, WorkRow
<1>1. CASE Finish(p)
  BY <1>0, <1>1, WorkFinish DEF Checks
<1>2. ASSUME NEW s \in {"stake", "row"}, Goto(p, s),
             \/ /\ proc[p].step = "permission" /\ RoleIfStrict(proc[p].account, "worker")
                /\ Grants(proc[p].account, proc[p].agent)
             \/ proc[p].step = "stake" /\ s = "row"
      PROVE  OthersKeep(p) /\ Checks(p)
  <2>1. OthersKeep(p) /\ Continues(proc[p], proc'[p]) /\ proc'[p].step = s /\ RouteRow(proc'[p])
    BY <1>0, <1>2, RouteGoes DEF WorkTyped
  <2> QED BY <1>0, <1>2, <2>1 DEF Checks
<1>3. CASE CheckPermission(p)
  <2>1. \A perm : MayFind(proc[p].account, proc[p].agent, "worker", perm, TRUE) => Grants(proc[p].account, proc[p].agent)
    BY DEF MayFind, Grants
  <2> QED BY <1>1, <1>2, <1>3, <2>1 DEF CheckPermission
<1>4. CASE CheckWorkerStake(p)
  BY <1>1, <1>2, <1>4 DEF CheckWorkerStake, At
<1>5. CASE RowRead(p)
  <2>1. CASE /\ RowAllows(proc[p])
             /\ proc' = [proc EXCEPT ![p] = With(proc[p], [step |-> "write", was |-> holder[proc[p].job]])]
    <3>1. holder[proc[p].job] \in Accounts \cup {None}
      BY <1>0 DEF RouteRow, WorkTyped, WorkTables
    <3>2. /\ OthersKeep(p) /\ Continues(proc[p], proc'[p]) /\ proc'[p].step = "write" /\ proc'[p].was = holder[proc[p].job]
          /\ RouteRow(proc'[p])
      BY <1>0, <2>1, <3>1, RouteReads DEF WorkTyped
    <3> QED BY <1>0, <1>5, <2>1, <3>2 DEF Checks, RowRead
  <2> QED BY <1>1, <1>5, <2>1 DEF RowRead
<1> QED BY <1>3, <1>4, <1>5

LEMMA WritesCase ==
    ASSUME AccessTyped, WorkTyped, NEW p \in Requests, RowWrite(p)
    PROVE  OthersKeep(p) /\ Writes(p)
<1>0. proc[p].op \in Routes /\ RouteRow(proc[p]) /\ proc[p].step = "write" /\ clock \in Nat
  BY DEF RowWrite, Purpose, Routes, WorkTyped, WorkRows, WorkRow, AccessTyped, AccessTables
<1>1. OthersKeep(p) /\ Continues(proc[p], proc'[p]) /\ proc'[p].step = "answer" /\ RouteRow(proc'[p])
  BY <1>0, RouteGoes DEF RowWrite, WorkTyped
<1> DEFINE r == proc[p]
           a == [op |-> r.op, job |-> r.job, account |-> r.account, agent |-> r.agent,
                 key |-> r.key, challenge |-> r.challenge, asked |-> r.asked, at |-> clock]
<1>2. a \in ActType /\ Continues(r, a) /\ a.at = clock
  BY <1>0 DEF ActType, RouteRow, Continues
<1>3. acts' = Append(acts, a) /\ UNCHANGED <<walletVars, store, spends>>
      /\ held' = IF r.op = "claim" THEN held \cup {<<r.job, r.account>>} ELSE held
  BY DEF RowWrite
<1>4. PICK status \in CASE r.op = "claim" -> {"claimed"}
                       [] r.op = "unclaim" -> {"queued"}
                       [] r.op = "submit" -> {"submitted", "rework"} :
          /\ job' = [job EXCEPT ![r.job] = status]
          /\ holder' = [holder EXCEPT ![r.job] = CASE status = "claimed" -> r.account
                                                   [] status = "submitted" -> r.was
                                                   [] OTHER -> None]
          /\ kept' = (kept /\ status # "rework")
  BY DEF RowWrite
<1>5. /\ status \in {"claimed", "queued", "submitted", "rework"}
      /\ r.op = "claim" <=> status = "claimed"
      /\ r.op = "unclaim" <=> status = "queued"
  BY <1>0, <1>4 DEF Routes
<1> HIDE DEF a
<1> QED BY <1>0, <1>1, <1>2, <1>3, <1>4, <1>5 DEF Writes

LEMMA TellsOne ==
    ASSUME NEW r, r.job \in Jobs, r.op = "claim" => r.account \in Accounts, NEW w,
           w = IF r.op = "claim" THEN r.account ELSE None
    PROVE  Tells(Script(<<Call(IF r.op = "claim" THEN "setWorker" ELSE "clearWorker", r.job, w)>>, r.job, w), r)
<1> DEFINE name == IF r.op = "claim" THEN "setWorker" ELSE "clearWorker"
           s == Script(<<Call(name, r.job, w)>>, r.job, w)
<1>1. ScriptFields(s) /\ s.calls = <<Call(name, r.job, w)>> /\ s.job = r.job /\ s.who = w /\ s.step = "prepare" /\ s.nonce = 0
  BY DEF Script, ScriptFields
<1>2. name \in CallNames /\ (name = "setWorker" => w \in Accounts) /\ (name = "clearWorker" => w = None)
  BY DEF CallNames
<1>3. s.calls = <<Call(IF r.op = "claim" THEN "setWorker" ELSE "clearWorker", r.job,
                        IF r.op = "claim" THEN r.account ELSE None)>>
  BY <1>1
<1> HIDE DEF s, name
<1>4. OneCall(s)
  BY <1>1, <1>2 DEF OneCall
<1>5. Tells(s, r)
  BY <1>1, <1>3, <1>4 DEF Tells, ScriptRow
<1> QED BY <1>5 DEF s, name

LEMMA AnswersCase ==
    ASSUME AccessTyped, WorkTyped, NEW p \in Requests, Answer(p)
    PROVE  OthersKeep(p) /\ Answers(p)
<1>0. proc[p].op \in Routes /\ RouteRow(proc[p]) /\ proc[p].step = "answer"
  BY DEF Answer, Purpose, Routes, WorkTyped, WorkRows, WorkRow
<1>1. OthersKeep(p) /\ proc'[p] = Idle
  BY WorkFinish DEF Answer
<1>2. StoreResult(proc[p].key)
      /\ UNCHANGED <<job, contractVars, settled, accepts, missed, holder, spends, acts, held, kept>>
  BY DEF Answer
<1>3. CASE proc[p].op = "submit"
  BY <1>0, <1>1, <1>2, <1>3 DEF Answer, Answers
<1>4. CASE proc[p].op # "submit"
  <2> DEFINE r == proc[p]
             w == IF r.op = "claim" THEN r.account ELSE None
             s == Script(<<Call(IF r.op = "claim" THEN "setWorker" ELSE "clearWorker", r.job, w)>>, r.job, w)
  <2>1. Tells(s, r)
    BY <1>0, TellsOne DEF RouteRow
  <2>2. Launch(s)
    <3>1. CASE r.op = "claim"
      BY <3>1 DEF Answer, SetWorkerOnEscrow
    <3>2. CASE r.op = "unclaim"
      BY <3>2 DEF Answer, ClearWorkerOnEscrow
    <3> QED BY <1>0, <1>4, <3>1, <3>2 DEF Routes
  <2> HIDE DEF s
  <2> QED BY <1>0, <1>1, <1>2, <1>4, <2>1, <2>2 DEF Answers
<1> QED BY <1>3, <1>4

LEMMA DecidesCase ==
    ASSUME AccessTyped, WorkTyped, NEW p \in Requests, JobAccepted(p) \/ JobRejected(p)
    PROVE  OthersKeep(p) /\ Decides(p)
<1>0. WorkRow(proc[p]) /\ Rows /\ {"op", "step"} \subseteq DOMAIN proc[p]
  BY DEF WorkTyped, WorkRows, AccessTyped, RowsTyped, Rows
<1>1. CASE JobAccepted(p)
  <2>1. GoesTo(p, "settle")
    BY <1>0, <1>1, GotoGoes DEF JobAccepted
  <2>2. proc[p].op = "accepting" /\ proc[p].step = "job" /\ UNCHANGED <<walletVars, workVars>>
        /\ job' = [job EXCEPT ![proc[p].job] = "accepted"]
    BY <1>1 DEF JobAccepted, At
  <2>3. proc'[p].op = "accepting" /\ WorkRow(proc'[p])
    BY <1>0, <2>1, <2>2 DEF GoesTo, WorkRow, Routes
  <2> QED BY <2>1, <2>2, <2>3 DEF GoesTo, Decides, workVars
<1>2. CASE JobRejected(p)
  <2>1. OthersKeep(p) /\ proc'[p] = Idle
    BY <1>2, WorkFinish DEF JobRejected
  <2> QED BY <1>2, <2>1, IdleWorkRow, IdleRow DEF JobRejected, At, Decides
<1> QED BY <1>1, <1>2

LEMMA SettlesCase ==
    ASSUME AccessTyped, WorkTyped, NEW p \in Requests, SettleOnChain(p)
    PROVE  OthersKeep(p) /\ SettlesJob(p)
<1>0. WorkRow(proc[p]) /\ proc[p].op = "accepting"
  BY DEF WorkTyped, WorkRows, SettleOnChain, At
<1>1. OthersKeep(p) /\ proc'[p] = Idle /\ UNCHANGED <<job, contractVars, settled, missed, workVars>>
  BY WorkFinish DEF SettleOnChain
<1>2. CASE UNCHANGED <<scripts, orderly, accepts>>
  BY <1>0, <1>1, <1>2 DEF SettlesJob
<1>3. CASE proc[p].account # None /\ Settle(proc[p].job, proc[p].account)
  <2> DEFINE j == proc[p].job
             w == proc[p].account
             s == Script(DepositStakerYield \o ReleaseTaskEscrow(j, w) \o DepositReviewerFees, j, w)
  <2>0. j \in Jobs /\ w \in Accounts
    BY <1>0, <1>3 DEF WorkRow
  <2>1. ScriptFields(s) /\ s.job = j /\ s.who = w /\ s.step = "prepare" /\ s.nonce = 0
        /\ s.calls = DepositStakerYield \o ReleaseTaskEscrow(j, w) \o DepositReviewerFees
    BY DEF Script, ScriptFields
  <2>2. DepositStakerYield \o ReleaseTaskEscrow(j, w) \o DepositReviewerFees = Onwards(5, j, w)
    <3>1. ASSUME NEW a, NEW b, NEW c, NEW d, NEW e PROVE (<<a, b>> \o <<c>>) \o <<d, e>> = <<a, b, c, d, e>>
      <4> DEFINE S == {a, b, c, d, e}
                 s1 == <<a, b>>
                 s2 == <<c>>
                 s3 == <<d, e>>
                 t == <<a, b, c, d, e>>
      <4>1. /\ s1 \in Seq(S) /\ Len(s1) = 2 /\ s1[1] = a /\ s1[2] = b
            /\ s2 \in Seq(S) /\ Len(s2) = 1 /\ s2[1] = c
            /\ s3 \in Seq(S) /\ Len(s3) = 2 /\ s3[1] = d /\ s3[2] = e
            /\ t \in Seq(S) /\ Len(t) = 5 /\ t[1] = a /\ t[2] = b /\ t[3] = c /\ t[4] = d /\ t[5] = e
        OBVIOUS
      <4> HIDE DEF S, s1, s2, s3, t
      <4>2. s1 \o s2 \in Seq(S) /\ Len(s1 \o s2) = 3
            /\ \A i \in 1..3 : (s1 \o s2)[i] = IF i <= 2 THEN s1[i] ELSE s2[i - 2]
        <5>1. s1 \o s2 \in Seq(S) /\ Len(s1 \o s2) = Len(s1) + Len(s2)
              /\ \A i \in 1 .. Len(s1) + Len(s2) : (s1 \o s2)[i] = IF i <= Len(s1) THEN s1[i] ELSE s2[i - Len(s1)]
          BY <4>1, ConcatProperties
        <5> QED BY <4>1, <5>1
      <4> DEFINE s12 == s1 \o s2
      <4>3. s12 \in Seq(S) /\ Len(s12) = 3 /\ s12[1] = a /\ s12[2] = b /\ s12[3] = c
        BY <4>1, <4>2
      <4> HIDE DEF s12
      <4>4. s12 \o s3 \in Seq(S) /\ Len(s12 \o s3) = 5
            /\ \A i \in 1..5 : (s12 \o s3)[i] = IF i <= 3 THEN s12[i] ELSE s3[i - 3]
        <5>1. s12 \o s3 \in Seq(S) /\ Len(s12 \o s3) = Len(s12) + Len(s3)
              /\ \A i \in 1 .. Len(s12) + Len(s3) : (s12 \o s3)[i] = IF i <= Len(s12) THEN s12[i] ELSE s3[i - Len(s12)]
          BY <4>1, <4>3, ConcatProperties
        <5> QED BY <4>1, <4>3, <5>1
      <4>5. \A i \in 1..5 : (s12 \o s3)[i] = t[i]
        <5> TAKE i \in 1..5
        <5>1. i = 1 \/ i = 2 \/ i = 3 \/ i = 4 \/ i = 5
          OBVIOUS
        <5> QED BY <4>1, <4>3, <4>4, <5>1, SMTT(30)
      <4>6. s12 \o s3 = t
        BY <4>1, <4>4, <4>5, SeqEqual
      <4> QED BY <4>6 DEF s12, s1, s2, s3, t
    <3> QED BY <3>1 DEF Onwards, DepositStakerYield, ReleaseTaskEscrow, DepositReviewerFees
  <2>3. Launch(s) /\ accepts' = IF Setting.chain THEN accepts + 1 ELSE accepts
    BY <1>3 DEF Settle
  <2> HIDE DEF s
  <2>4. Settles(s, 5)
    BY <2>0, <2>1, <2>2 DEF Settles
  <2>5. ScriptRow(s)
    BY <2>1, <2>4 DEF ScriptRow
  <2> QED BY <1>0, <1>1, <2>1, <2>3, <2>4, <2>5 DEF SettlesJob
<1> QED BY <1>2, <1>3 DEF SettleOnChain

LEMMA SpendsCase ==
    ASSUME AccessTyped, WorkTyped, NEW p \in Requests, SpendInsert(p)
    PROVE  OthersKeep(p) /\ Spends(p)
BY WorkFinish DEF SpendInsert, At, Spends

\* Every step of the services, by what it does to work, once more
WorkMoves ==
    \/ Bystands
    \/ /\ clock' = clock /\ scene' = scene
       /\ \/ \E p \in Requests : Begun(p) /\ (RouteBegun(p) \/ OtherBegun(p) \/ \E s : CallBegun(p, s))
          \/ WalletStep /\ UNCHANGED workVars
          \/ \E p \in Requests : /\ OthersKeep(p) /\ proc[p] # Idle
                                 /\ Checks(p) \/ Writes(p) \/ Answers(p) \/ Decides(p) \/ SettlesJob(p) \/ Spends(p)
          \/ \E j \in Jobs : Lapse(j)
          \/ Restart /\ ForgetWork

LEMMA WorkMovesCases ==
    ASSUME AccessTyped, WorkTyped, WorkSteps, scene' = scene
    PROVE  WorkMoves
<1>0. holder \in [Jobs -> Accounts \cup {None}]
  BY DEF WorkTyped, WorkTables
<1>1. ASSUME NEW p \in Requests, proc[p] # Idle, WorkStep(p)
      PROVE  OthersKeep(p) /\ (Checks(p) \/ Writes(p) \/ Answers(p) \/ Decides(p) \/ SettlesJob(p) \/ Spends(p))
  BY <1>1, ChecksCase, WritesCase, AnswersCase, DecidesCase, SettlesCase, SpendsCase DEF WorkStep
<1> QED BY <1>0, <1>1, WalletCallBegins, WorkBegins DEF WorkSteps, WorkMoves

LEMMA WorkTypedKept ==
    ASSUME AccessTyped, WorkTyped, WorkMoves
    PROVE  WorkTyped'
<1>0. WorkRows /\ WorkTables /\ WalletTables
  BY DEF WorkTyped
<1>1. ASSUME NEW p \in Requests, OthersKeep(p), Checks(p) PROVE WorkTyped'
  <2>1. WorkRow(proc'[p])
    BY <1>1, IdleWorkRow, RouteWorkRow DEF Checks, Continues
  <2>2. WorkTables' /\ WalletTables'
    BY <1>0, <1>1, TablesSame DEF Checks, WorkTables, workVars
  <2> QED BY <1>0, <1>1, <2>1, <2>2, WorkRowsOne DEF WorkTyped
<1>2. ASSUME NEW p \in Requests, OthersKeep(p), Writes(p) PROVE WorkTyped'
  <2>1. WorkRow(proc'[p])
    BY <1>2, RouteWorkRow DEF Writes, Continues
  <2>2. RouteRow(proc[p]) /\ proc[p].job \in Jobs /\ proc[p].was \in Accounts \cup {None} /\ proc[p].account \in Accounts
    BY <1>0, <1>2 DEF Writes, WorkRows, WorkRow, RouteRow
  <2>3. DOMAIN job' = Jobs /\ holder' \in [Jobs -> Accounts \cup {None}]
    <3>1. PICK w \in Accounts \cup {None} : \E x :
             job' = [job EXCEPT ![proc[p].job] = x] /\ holder' = [holder EXCEPT ![proc[p].job] = w]
      <4>1. PICK status : /\ job' = [job EXCEPT ![proc[p].job] = status]
                          /\ holder' = [holder EXCEPT ![proc[p].job] = CASE status = "claimed" -> proc[p].account
                                                                        [] status = "submitted" -> proc[p].was
                                                                        [] OTHER -> None]
        BY <1>2 DEF Writes
      <4> DEFINE w == CASE status = "claimed" -> proc[p].account [] status = "submitted" -> proc[p].was [] OTHER -> None
      <4>2. w \in Accounts \cup {None}
        BY <2>2
      <4>3. holder' = [holder EXCEPT ![proc[p].job] = w]
        BY <4>1
      <4> HIDE DEF w
      <4> QED BY <4>1, <4>2, <4>3
    <3> QED BY <1>0, <3>1 DEF WorkTables
  <2>4. acts' \in Seq(ActType)
    BY <1>0, <1>2, SeqAppend DEF Writes, WorkTables
  <2>5. WorkTables' /\ WalletTables'
    BY <1>0, <1>2, <2>3, <2>4, TablesSame DEF Writes, WorkTables
  <2> QED BY <1>0, <1>2, <2>1, <2>5, WorkRowsOne DEF WorkTyped
<1>3. ASSUME NEW p \in Requests, OthersKeep(p), Answers(p) \/ SettlesJob(p), clock' = clock PROVE WorkTyped'
  <2>1. WorkRow(proc'[p])
    BY <1>3, IdleWorkRow DEF Answers, SettlesJob
  <2>2. WorkTables'
    <3>1. Answers(p) => \A e \in store' : e.created \in Nat
      BY <1>0, <1>3 DEF Answers, StoreResult, WorkTables, AccessTyped, AccessTables
    <3> QED BY <1>0, <1>3, <3>1 DEF Answers, SettlesJob, WorkTables, workVars
  <2>3. UNCHANGED <<contractVars, settled, missed>> /\ accepts' \in Nat
    BY <1>0, <1>3 DEF Answers, SettlesJob, WalletTables
  <2>4. IsFiniteSet(scripts') /\ \A x \in scripts' : ScriptRow(x)
    <3>1. CASE scripts' = scripts
      BY <1>0, <3>1 DEF WalletTables
    <3>2. ASSUME NEW s, Launch(s), ScriptRow(s)
          PROVE  IsFiniteSet(scripts') /\ \A x \in scripts' : ScriptRow(x)
      BY <1>0, <3>2, LaunchTyped
    <3> QED BY <1>3, <3>1, <3>2 DEF Answers, SettlesJob, Tells
  <2>5. WalletTables'
    BY <1>0, <2>3, <2>4, TablesStay
  <2> QED BY <1>0, <1>3, <2>1, <2>2, <2>5, WorkRowsOne DEF WorkTyped
<1>4. ASSUME NEW p \in Requests, OthersKeep(p), Decides(p) \/ Spends(p) PROVE WorkTyped'
  <2>1. WorkRow(proc'[p])
    BY <1>4, IdleWorkRow DEF Decides, Spends
  <2>2. WalletTables'
    BY <1>0, <1>4, TablesSame DEF Decides, Spends
  <2>3. WorkTables'
    <3>1. CASE UNCHANGED <<job, holder>>
      BY <1>0, <1>4, <3>1 DEF Decides, Spends, WorkTables
    <3>2. ASSUME NEW j, NEW x, job' = [job EXCEPT ![j] = x],
                 holder' = holder \/ holder' = [holder EXCEPT ![j] = None]
          PROVE  DOMAIN job' = Jobs /\ holder' \in [Jobs -> Accounts \cup {None}]
      BY <1>0, <3>2 DEF WorkTables
    <3> QED BY <1>0, <1>4, <3>1, <3>2 DEF Decides, Spends, WorkTables
  <2> QED BY <1>0, <1>4, <2>1, <2>2, <2>3, WorkRowsOne DEF WorkTyped
<1>5. ASSUME NEW j \in Jobs, Lapse(j) PROVE WorkTyped'
  <2>1. DOMAIN job' = Jobs /\ holder' \in [Jobs -> Accounts \cup {None}]
    BY <1>0, <1>5 DEF Lapse, WorkTables
  <2>2. WorkTables' /\ WalletTables' /\ proc' = proc
    BY <1>0, <1>5, <2>1, TablesSame DEF Lapse, WorkTables
  <2> QED BY <1>0, <2>2 DEF WorkTyped, WorkRows
<1>6. ASSUME Restart, ForgetWork PROVE WorkTyped'
  <2>1. \A q \in Requests : WorkRow(proc'[q])
    BY <1>6, RestartEnds, IdleWorkRow DEF AccessTyped, RowsTyped
  <2>2. WorkTables'
    BY <1>0, <1>6 DEF Restart, ForgetWork, WorkTables
  <2>3. IsFiniteSet(scripts') /\ \A x \in scripts' : ScriptRow(x)
    BY <1>6, FS_EmptySet DEF ForgetWork, LoseScripts
  <2>4. WalletTables'
    BY <1>0, <1>6, <2>3, TablesStay DEF ForgetWork, LoseScripts, WalletTables
  <2> QED BY <2>1, <2>2, <2>4 DEF WorkTyped, WorkRows
<1> QED BY <1>1, <1>2, <1>3, <1>4, <1>5, <1>6, BystandsTyped, BegunTyped, WalletStepTyped DEF WorkMoves

LEMMA WalletMovesCases ==
    ASSUME WorkTyped, WorkMoves
    PROVE  WalletMoves
<1>0. accepts \in Nat
  BY DEF WorkTyped, WalletTables
<1>1. ASSUME NEW p \in Requests, NEW s, CallBegun(p, s) PROVE WalletMoves
  BY <1>0, <1>1, LaunchCases DEF CallBegun
<1>2. ASSUME NEW p \in Requests, Answers(p) PROVE WalletMoves
  <2>1. CASE UNCHANGED <<scripts, orderly>>
    BY <1>2, <2>1 DEF Answers, WalletMoves, walletVars
  <2>2. ASSUME NEW s, Tells(s, proc[p]), Launch(s) PROVE WalletMoves
    BY <1>0, <1>2, <2>2, LaunchCases DEF Answers, Tells
  <2> QED BY <1>2, <2>1, <2>2 DEF Answers
<1>3. ASSUME NEW p \in Requests, SettlesJob(p) PROVE WalletMoves
  <2>1. CASE UNCHANGED <<scripts, orderly, accepts>>
    BY <1>3, <2>1 DEF SettlesJob, WalletMoves, walletVars
  <2>2. ASSUME NEW s, Settles(s, 5), ScriptRow(s), s.step = "prepare", s.nonce = 0, Launch(s),
               accepts' = IF Setting.chain THEN accepts + 1 ELSE accepts
        PROVE WalletMoves
    BY <1>0, <1>3, <2>2, LaunchCases DEF SettlesJob
  <2> QED BY <1>3, <2>1, <2>2 DEF SettlesJob
<1>4. UNCHANGED walletVars => WalletMoves
  BY DEF WalletMoves
<1>5. ASSUME NEW p \in Requests, Checks(p) \/ Writes(p) \/ Decides(p) \/ Spends(p) PROVE WalletMoves
  BY <1>4, <1>5 DEF Checks, Writes, Decides, Spends
<1>6. WalletStep \/ ForgetWork => WalletMoves
  BY DEF WalletStep, ForgetWork, WalletMoves, ScriptSteps
<1>7. Bystands \/ (\E j \in Jobs : Lapse(j)) => WalletMoves
  BY <1>4 DEF Bystands, Lapse
<1>8. ASSUME NEW p \in Requests, RouteBegun(p) \/ OtherBegun(p) PROVE WalletMoves
  BY <1>4, <1>8 DEF RouteBegun, OtherBegun
<1> QED BY <1>1, <1>2, <1>3, <1>5, <1>6, <1>7, <1>8 DEF WorkMoves

-----------------------------------------------------------------------------
(* The rows of routes, and the acts                                           *)

\* A challenge of a route is used.
Uses(q) == ChallengeUse(q) /\ GoesTo(q, "permission") /\ proc[q].op \in Routes

\* A request for work goes on by its own steps, or fails.
LEMMA WorkRowMoves ==
    ASSUME AccessTyped, WorkMoves, NEW q \in Requests
    PROVE  \/ proc'[q] = proc[q]
           \/ proc'[q].op \notin WorkOps /\ (faults' = 0 => proc[q].op \notin WorkOps)
           \/ Bystands /\ Uses(q)
           \/ Begun(q) /\ (RouteBegun(q) \/ OtherBegun(q))
           \/ OthersKeep(q) /\ (Checks(q) \/ Writes(q) \/ Answers(q) \/ Decides(q) \/ SettlesJob(q) \/ Spends(q))
<1>1. ASSUME Bystands
      PROVE  \/ proc'[q] = proc[q]
             \/ proc'[q].op \notin WorkOps /\ (faults' = 0 => proc[q].op \notin WorkOps)
             \/ Bystands /\ Uses(q)
  BY <1>1 DEF Bystands, Uses
<1>2. ASSUME NEW p \in Requests, Begun(p), \E s : CallBegun(p, s)
      PROVE  proc'[q] = proc[q] \/ (proc'[q].op \notin WorkOps /\ proc[q].op \notin WorkOps)
  BY <1>2, IdleRow DEF Begun, CallBegun, OthersKeep, WorkOps, Routes
<1>3. ASSUME NEW p \in Requests, OthersKeep(p) PROVE proc'[q] = proc[q] \/ q = p
  BY <1>3, SMTT(30) DEF OthersKeep
<1>4. (WalletStep \/ \E j \in Jobs : Lapse(j)) => proc' = proc
  BY Zenon DEF WalletStep, FundTask, LeaveEscrow, Mine, PrepareCall, SendCall, MarkSettledOnChain, CallFails, Lapse, requestVars
<1>5. ASSUME Restart PROVE proc'[q].op \notin WorkOps /\ faults' # 0
  BY <1>5, RestartEnds, IdleRow DEF AccessTyped, RowsTyped, Restart, WorkOps, Routes
<1>6. ASSUME NEW p \in Requests, Begun(p) PROVE OthersKeep(p)
  BY <1>6 DEF Begun
<1> QED BY <1>1, <1>2, <1>3, <1>4, <1>5, <1>6 DEF WorkMoves

LEMMA RouteMoves ==
    ASSUME AccessTyped, WorkTyped, WorkMoves, NEW q \in Requests
    PROVE  \/ proc'[q] = proc[q]
           \/ proc'[q].op \notin Routes /\ (faults' = 0 => proc[q].op \notin Routes)
           \/ Begun(q) /\ RouteBegun(q)
           \/ Bystands /\ Uses(q) /\ Continues(proc[q], proc'[q]) /\ proc'[q].step = "permission"
           \/ OthersKeep(q) /\ (Checks(q) \/ Writes(q) \/ Answers(q))
<1>1. ASSUME Bystands, Uses(q) PROVE Continues(proc[q], proc'[q]) /\ proc'[q].step = "permission"
  <2>1. Goto(q, "permission") /\ proc[q].op \in Routes
    BY <1>1 DEF Uses, ChallengeUse, Routes
  <2> QED BY <2>1, RouteGoes DEF WorkTyped
<1>2. ASSUME OtherBegun(q), Begun(q) PROVE proc'[q].op \notin Routes /\ proc[q].op \notin Routes
  BY <1>2, IdleRow DEF OtherBegun, Begun, Routes
<1>3. ASSUME Decides(q) \/ SettlesJob(q) \/ Spends(q) PROVE proc'[q].op \notin Routes /\ proc[q].op \notin Routes
  BY <1>3, IdleRow DEF Decides, SettlesJob, Spends, Routes
<1> QED BY <1>1, <1>2, <1>3, WorkRowMoves DEF WorkOps

\* Acts are added by the step that writes the job's row.
LEMMA ActsMove ==
    ASSUME WorkMoves
    PROVE  \/ acts' = acts
           \/ \E p \in Requests : proc[p] # Idle /\ OthersKeep(p) /\ Writes(p) /\ clock' = clock
<1>1. (WalletStep /\ UNCHANGED workVars) => acts' = acts
  BY DEF workVars
<1>2. Bystands \/ (\E j \in Jobs : Lapse(j)) \/ ForgetWork => acts' = acts
  BY DEF Bystands, Lapse, ForgetWork, workVars
<1>3. ASSUME NEW p \in Requests, RouteBegun(p) \/ OtherBegun(p) \/ \E s : CallBegun(p, s) PROVE acts' = acts
  BY <1>3 DEF RouteBegun, OtherBegun, CallBegun, workVars
<1>4. ASSUME NEW p \in Requests, Checks(p) \/ Answers(p) \/ Decides(p) \/ SettlesJob(p) \/ Spends(p) PROVE acts' = acts
  BY <1>4, SMTT(30) DEF Checks, Answers, Decides, SettlesJob, Spends, workVars
<1> QED BY <1>1, <1>2, <1>3, <1>4 DEF WorkMoves

\* What was written: the acts there were, and that of the request
LEMMA ActAdded ==
    ASSUME WorkTyped, NEW p \in Requests, Writes(p)
    PROVE  \E n \in Nat : /\ DOMAIN acts = 1..n /\ DOMAIN acts' = 1..(n + 1)
                          /\ \A m \in 1..n : acts'[m] = acts[m]
                          /\ Continues(proc[p], acts'[n + 1]) /\ acts'[n + 1].at = clock
<1>1. acts \in Seq(ActType)
  BY DEF WorkTyped, WorkTables
<1>2. PICK a \in ActType : acts' = Append(acts, a) /\ Continues(proc[p], a) /\ a.at = clock
  BY DEF Writes
<1>3. /\ DOMAIN Append(acts, a) = DOMAIN acts \cup {Len(acts) + 1} /\ Len(acts) + 1 \notin DOMAIN acts
      /\ \A k \in DOMAIN acts : Append(acts, a)[k] = acts[k]
      /\ Append(acts, a)[Len(acts) + 1] = a
      /\ DOMAIN acts = 1..Len(acts) /\ Len(acts) \in Nat
  BY <1>1, <1>2, SeqAppend
<1>4. DOMAIN acts' = 1..(Len(acts) + 1)
  BY <1>2, <1>3
<1> QED BY <1>2, <1>3, <1>4, Zenon

LEMMA ActFacts ==
    ASSUME WorkTyped
    PROVE  \A m \in DOMAIN acts : acts[m] \in ActType /\ acts[m].at \in Nat /\ acts[m].asked \in Nat
<1>1. acts \in Seq(ActType)
  BY DEF WorkTyped, WorkTables
<1> TAKE m \in DOMAIN acts
<1>2. acts[m] \in ActType
  BY <1>1
<1>3. ASSUME NEW a \in ActType PROVE a.at \in Nat /\ a.asked \in Nat
  BY <1>3 DEF ActType
<1> QED BY <1>2, <1>3

LEMMA ClockMoves ==
    ASSUME AccessTyped, WorkMoves
    PROVE  clock \in Nat /\ clock' \in Nat /\ clock' >= clock
BY DEF WorkMoves, Bystands, AccessTyped, AccessTables

-----------------------------------------------------------------------------
(* A key answers for its time                                                 *)

\* A request that has taken effect and stores its result next
Answering(key) == \E p \in Requests : proc[p].op \in Routes /\ proc[p].step = "answer" /\ proc[p].key = key

Remembered(m) ==
    \/ \E e \in store : e.key = acts[m].key /\ e.created >= acts[m].at
    \/ clock - acts[m].at > KeyTTL
    \/ Answering(acts[m].key)

AskedLater(r) ==
    r.op \in Routes /\ r.step # "answer" /\ r.key # None =>
       \A m \in DOMAIN acts : acts[m].key = r.key => r.asked - acts[m].at > KeyTTL

KeysInv ==
    /\ \A m \in DOMAIN acts : acts[m].at <= clock
    /\ alone /\ faults = 0 => /\ \A m \in DOMAIN acts : acts[m].key # None => Remembered(m)
                              /\ \A p \in Requests : AskedLater(proc[p])
    /\ KeysAnswer

\* The store keeps what is fresh, and no request forgets but one that fails.
LEMMA StoreMoves ==
    ASSUME WorkMoves, WorkTyped, AccessTyped, faults' = 0
    PROVE  \/ store' = store
           \/ \E p \in Requests : OthersKeep(p) /\ Answers(p) /\ clock' = clock
<1>1. Bystands \/ (WalletStep /\ UNCHANGED workVars) \/ (\E j \in Jobs : Lapse(j)) => store' = store
  BY DEF Bystands, Lapse, workVars
<1>2. ASSUME NEW p \in Requests, RouteBegun(p) \/ OtherBegun(p) \/ \E s : CallBegun(p, s) PROVE store' = store
  BY <1>2 DEF RouteBegun, OtherBegun, CallBegun, workVars
<1>3. ASSUME NEW p \in Requests, Checks(p) \/ Writes(p) \/ Decides(p) \/ SettlesJob(p) \/ Spends(p) PROVE store' = store
  BY <1>3 DEF Checks, Writes, Decides, SettlesJob, Spends, workVars
<1>4. ~Restart
  BY DEF Restart, AccessTyped, RowsTyped
<1> QED BY <1>1, <1>2, <1>3, <1>4 DEF WorkMoves

LEMMA RememberedKept ==
    ASSUME AccessTyped, WorkTyped, WorkMoves, KeysInv, faults' = 0,
           NEW m \in DOMAIN acts, acts[m].key # None, Remembered(m), acts'[m] = acts[m]
    PROVE  Remembered(m)'
<1>0. acts[m].at \in Nat /\ acts[m].at <= clock /\ KeyTTL \in Nat
  BY ActFacts, KeyTTLAssumption DEF KeysInv
<1>1. clock \in Nat /\ clock' \in Nat /\ clock' >= clock
  BY ClockMoves
<1> DEFINE key == acts[m].key
           at == acts[m].at
<1>2. CASE clock - acts[m].at > KeyTTL
  BY <1>0, <1>1, <1>2 DEF Remembered
<1>3. ASSUME NEW e \in store, e.key = acts[m].key, e.created >= acts[m].at
      PROVE  Remembered(m)'
  <2>0. e.created \in Nat
    BY DEF WorkTyped, WorkTables
  <2>1. CASE store' = store
    BY <1>3, <2>1 DEF Remembered
  <2>2. ASSUME NEW p \in Requests, Answers(p), clock' = clock PROVE Remembered(m)'
    <3>1. CASE proc[p].key = None \/ (proc[p].key # key /\ Fresh(e))
      <4>1. e \in store'
        BY <1>3, <2>2, <3>1 DEF Answers, StoreResult
      <4> QED BY <1>3, <4>1 DEF Remembered
    <3>2. CASE proc[p].key = key /\ key # None
      <4> DEFINE x == [key |-> key, created |-> clock]
      <4>1. x \in store' /\ x.key = key /\ x.created = clock
        BY <2>2, <3>2 DEF Answers, StoreResult
      <4> HIDE DEF x
      <4> QED BY <1>0, <4>1 DEF Remembered
    <3>3. CASE ~Fresh(e)
      <4>1. clock - acts[m].at > KeyTTL
        BY <1>0, <1>1, <1>3, <2>0, <3>3 DEF Fresh
      <4> QED BY <2>2, <4>1 DEF Remembered
    <3> QED BY <3>1, <3>2, <3>3
  <2> QED BY <2>1, <2>2, StoreMoves
<1>4. ASSUME NEW q \in Requests, proc[q].op \in Routes, proc[q].step = "answer", proc[q].key = acts[m].key
      PROVE  Remembered(m)'
  <2>1. CASE proc'[q] = proc[q]
    <3>1. Answering(acts[m].key)'
      BY <1>4, <2>1 DEF Answering
    <3> QED BY <3>1 DEF Remembered
  <2>2. CASE Answers(q)
    <3> DEFINE x == [key |-> key, created |-> clock]
    <3>1. x \in store' /\ x.key = key /\ x.created = clock
      BY <1>4, <2>2 DEF Answers, StoreResult
    <3> HIDE DEF x
    <3> QED BY <1>0, <3>1 DEF Remembered
  <2>3. ~Checks(q) /\ ~Writes(q) /\ ~Begun(q) /\ ~Uses(q)
    <3>1. ~Begun(q)
      BY <1>4, IdleRow DEF Begun, Routes
    <3>2. ~Uses(q)
      BY <1>4 DEF Uses, ChallengeUse
    <3>3. ~Writes(q)
      BY <1>4 DEF Writes
    <3>4. ~Checks(q)
      BY <1>4 DEF Checks
    <3> QED BY <3>1, <3>2, <3>3, <3>4
  <2> QED BY <1>4, <2>1, <2>2, <2>3, RouteMoves
<1> QED BY <1>2, <1>3, <1>4 DEF Remembered, Answering

\* A request is asked after what its key stood for has expired: nothing answers it.
LEMMA BegunLater ==
    ASSUME AccessTyped, WorkTyped, KeysInv, alone, faults = 0, NEW q \in Requests, RouteBegun(q),
           \A p \in Requests : proc[p] = Idle, proc'[q].key # None,
           NEW m \in DOMAIN acts, acts[m].key = proc'[q].key
    PROVE  proc'[q].asked - acts[m].at > KeyTTL
<1>0. acts[m].at \in Nat /\ KeyTTL \in Nat /\ clock \in Nat /\ proc'[q].asked = clock /\ ~Cached(acts[m].key)
  BY ActFacts, KeyTTLAssumption DEF RouteBegun, AccessTyped, AccessTables
<1>1. Remembered(m)
  BY DEF KeysInv
<1>2. ~Answering(acts[m].key)
  BY IdleRow DEF Answering, Routes
<1>3. ASSUME NEW e \in store, e.key = acts[m].key, e.created >= acts[m].at PROVE clock - acts[m].at > KeyTTL
  <2>1. e.created \in Nat /\ ~Fresh(e)
    BY <1>0, <1>3 DEF Cached, WorkTyped, WorkTables
  <2> QED BY <1>0, <1>3, <2>1 DEF Fresh
<1> QED BY <1>0, <1>1, <1>2, <1>3 DEF Remembered

LEMMA AskedLaterKept ==
    ASSUME AccessTyped, WorkTyped, WorkMoves, KeysInv, alone, faults = 0, alone', faults' = 0, acts' = acts,
           NEW q \in Requests, proc'[q].op \in Routes, proc'[q].step # "answer", proc'[q].key # None,
           NEW m \in DOMAIN acts, acts[m].key = proc'[q].key
    PROVE  proc'[q].asked - acts[m].at > KeyTTL
<1>1. AskedLater(proc[q])
  BY DEF KeysInv
<1>2. ASSUME Continues(proc[q], proc'[q]), proc[q].step # "answer" PROVE proc'[q].asked - acts[m].at > KeyTTL
  BY <1>1, <1>2 DEF AskedLater, Continues
<1>3. CASE proc'[q] = proc[q]
  BY <1>1, <1>3 DEF AskedLater
<1>4. CASE Begun(q) /\ RouteBegun(q)
  BY <1>4, BegunLater DEF Begun
<1>5. CASE Uses(q) /\ Continues(proc[q], proc'[q])
  BY <1>2, <1>5 DEF Uses, ChallengeUse
<1>6. CASE Checks(q)
  BY <1>2, <1>6, IdleRow DEF Checks, Routes
<1>7. ~Writes(q) /\ ~Answers(q)
  BY IdleRow DEF Writes, Answers, Routes
<1> QED BY <1>3, <1>4, <1>5, <1>6, <1>7, RouteMoves

\* Once an act is added, the key's next request waits for its answer.
LEMMA KeysKept ==
    ASSUME AccessTyped, WorkTyped, WorkMoves, KeysInv, alone' => alone, faults' = 0 => faults = 0
    PROVE  KeysInv'
<1>0. clock \in Nat /\ clock' \in Nat /\ clock' >= clock
  BY ClockMoves
<1>1. CASE acts' = acts
  <2>1. \A m \in DOMAIN acts' : acts'[m].at <= clock'
    BY <1>0, <1>1, ActFacts DEF KeysInv
  <2>2. KeysAnswer'
    BY <1>1 DEF KeysInv, KeysAnswer
  <2>3. ASSUME alone', faults' = 0
        PROVE  /\ \A m \in DOMAIN acts' : acts'[m].key # None => Remembered(m)'
               /\ \A p \in Requests : AskedLater(proc[p])'
    <3>1. \A m \in DOMAIN acts' : acts'[m].key # None => Remembered(m)'
      BY <1>1, <2>3, RememberedKept DEF KeysInv
    <3>2. ASSUME NEW p \in Requests PROVE AskedLater(proc[p])'
      BY <1>1, <2>3, <3>2, AskedLaterKept DEF AskedLater
    <3> QED BY <3>1, <3>2
  <2> QED BY <2>1, <2>2, <2>3 DEF KeysInv
<1>2. ASSUME NEW p \in Requests, proc[p] # Idle, OthersKeep(p), Writes(p), clock' = clock PROVE KeysInv'
  <2>0. PICK n \in Nat : /\ DOMAIN acts = 1..n /\ DOMAIN acts' = 1..(n + 1)
                         /\ \A m \in 1..n : acts'[m] = acts[m]
                         /\ Continues(proc[p], acts'[n + 1]) /\ acts'[n + 1].at = clock
    BY <1>2, ActAdded
  <2>1. \A m \in DOMAIN acts' : acts'[m].at <= clock'
    <3> TAKE m \in DOMAIN acts'
    <3>1. m \in 1..n \/ m = n + 1
      BY <2>0
    <3> QED BY <1>0, <1>2, <2>0, <3>1 DEF KeysInv
  <2>2. ASSUME alone', faults' = 0
        PROVE  /\ \A m \in DOMAIN acts' : acts'[m].key # None => Remembered(m)'
               /\ \A q \in Requests : AskedLater(proc[q])'
    <3>1. ASSUME NEW m \in DOMAIN acts', acts'[m].key # None PROVE Remembered(m)'
      <4>1. CASE m \in 1..n
        BY <2>0, <2>2, <3>1, <4>1, RememberedKept DEF KeysInv
      <4>2. CASE m = n + 1
        <5>1. acts'[m].key = proc'[p].key /\ proc'[p].op \in Routes /\ proc'[p].step = "answer"
          BY <1>2, <2>0, <4>2 DEF Writes, Continues
        <5>2. Answering(acts[m].key)'
          BY <5>1 DEF Answering
        <5> QED BY <5>2 DEF Remembered
      <4> QED BY <2>0, <4>1, <4>2
    <3>2. ASSUME NEW q \in Requests PROVE AskedLater(proc[q])'
      <4>1. CASE q = p
        BY <1>2, <4>1 DEF Writes, AskedLater
      <4>2. CASE q # p
        <5>1. proc'[q] = Idle
          BY <1>2, <2>2, <4>2 DEF OthersKeep, AccessTyped, RowsTyped, Lonely
        <5> QED BY <5>1, IdleRow DEF AskedLater, Routes
      <4> QED BY <4>1, <4>2
    <3> QED BY <3>1, <3>2
  <2>3. KeysAnswer'
    <3> SUFFICES ASSUME alone', faults' = 0, NEW m \in DOMAIN acts', NEW k \in DOMAIN acts', m < k,
                        acts'[m].key # None, acts'[m].key = acts'[k].key
                 PROVE  acts'[k].asked - acts'[m].at > KeyTTL
      BY DEF KeysAnswer
    <3>1. m \in 1..n
      BY <2>0
    <3>2. CASE k \in 1..n
      BY <2>0, <3>1, <3>2 DEF KeysInv, KeysAnswer
    <3>3. CASE k = n + 1
      <4>1. /\ acts'[k].asked = proc[p].asked /\ acts[m].key = proc[p].key /\ proc[p].key # None
            /\ acts'[m] = acts[m] /\ m \in DOMAIN acts
        BY <2>0, <3>1, <3>3 DEF Continues
      <4>2. AskedLater(proc[p]) /\ proc[p].op \in Routes /\ proc[p].step # "answer"
        BY <1>2 DEF KeysInv, Writes
      <4> QED BY <4>1, <4>2 DEF AskedLater
    <3> QED BY <2>0, <3>2, <3>3
  <2> QED BY <2>1, <2>2, <2>3 DEF KeysInv
<1> QED BY <1>1, <1>2, ActsMove

-----------------------------------------------------------------------------
(* Who works was allowed to                                                   *)

\* Whom a request works for signed for it.
SignedFor(r) ==
    LET c == challenges[r.challenge] IN
    /\ r.challenge \in DOMAIN challenges
    /\ c.account = r.account /\ c.purpose = Purpose[r.op] /\ c.job = r.job /\ c.agent = r.agent

SignedOnce(r) == SignedFor(r) /\ challenges[r.challenge].used

Entitled(r) ==
    /\ Setting.strict => HasRole(r.account, "worker")
    /\ r.challenge # 0 => \E i \in Matching(r.account, r.agent, "worker") : auths[i].token # None

\* No act has used its challenge.
Unacted(r) == \A n \in DOMAIN acts : acts[n].challenge # r.challenge

AllowedRow(r) ==
    r.op \in Routes =>
       /\ Setting.strict => r.challenge # 0
       /\ r.challenge # 0 => SignedFor(r) /\ (r.step # "use" => SignedOnce(r))
       /\ r.step \in {"stake", "row", "write"} => Entitled(r)
       /\ alone /\ r.challenge # 0 /\ r.step # "answer" => Unacted(r)

AllowedAct(r) ==
    /\ Setting.strict => r.challenge # 0
    /\ r.challenge # 0 => SignedOnce(r)
    /\ Entitled(r)

AllowedInv ==
    /\ \A n \in DOMAIN acts : AllowedAct(acts[n])
    /\ \A p \in Requests : AllowedRow(proc[p])
    /\ alone => \A m, n \in DOMAIN acts :
          acts[m].challenge # 0 /\ acts[m].challenge = acts[n].challenge => m = n

LEMMA AllowedActs ==
    ASSUME AccessTyped, AllowedInv
    PROVE  ActsAllowed
<1>1. ASSUME NEW c \in ChallengeType, NEW a, NEW b, NEW d, NEW g,
             c.account = a, c.purpose = b, c.job = d, c.agent = g, c.used
      PROVE  c = [account |-> a, purpose |-> b, job |-> d, agent |-> g, expires |-> c.expires, used |-> TRUE]
  <2>1. c.used = TRUE
    BY <1>1 DEF ChallengeType
  <2> QED BY <1>1, <2>1 DEF ChallengeType
<1>2. ASSUME NEW n \in DOMAIN acts, NEW r, r = acts[n], r.challenge # 0
      PROVE  challenges[r.challenge] =
                 [account |-> r.account, purpose |-> Purpose[r.op], job |-> r.job,
                  agent |-> r.agent, expires |-> challenges[r.challenge].expires, used |-> TRUE]
  <2>1. SignedOnce(r)
    BY <1>2 DEF AllowedInv, AllowedAct
  <2> DEFINE c == challenges[r.challenge]
             b == Purpose[r.op]
  <2>2. c \in ChallengeType
    BY <2>1, TableRows DEF SignedOnce, SignedFor, AccessTyped
  <2>3. c.account = r.account /\ c.purpose = b /\ c.job = r.job /\ c.agent = r.agent /\ c.used
    BY <2>1 DEF SignedOnce, SignedFor
  <2> HIDE DEF c, b
  <2>4. c = [account |-> r.account, purpose |-> b, job |-> r.job,
             agent |-> r.agent, expires |-> c.expires, used |-> TRUE]
    BY <1>1, <2>2, <2>3
  <2> QED BY <2>4 DEF c, b
<1> QED BY <1>2 DEF ActsAllowed, AllowedInv, AllowedAct, Entitled

LEMMA SignedStays ==
    ASSUME AccessTyped, AllSteps, NEW r, SignedFor(r)
    PROVE  SignedFor(r)' /\ (challenges[r.challenge].used => SignedOnce(r)')
BY ChallengesKept DEF SignedFor, SignedOnce, SameChallenge

LEMMA EntitledStays ==
    ASSUME AccessTyped, AllSteps, scene' = scene, NEW r, Entitled(r)
    PROVE  Entitled(r)'
<1>1. \A i \in Matching(r.account, r.agent, "worker") : i \in Matching(r.account, r.agent, "worker")'
  BY AuthsKept DEF Matching, SameAgent
<1>2. Setting' = Setting
  BY DEF Setting
<1>3. HasRole(r.account, "worker") => HasRole(r.account, "worker")'
  BY RolesStay
<1>4. \A i \in Matching(r.account, r.agent, "worker") : auths[i].token # None => auths'[i].token # None
  BY AuthsKept DEF Matching
<1> QED BY <1>1, <1>2, <1>3, <1>4 DEF Entitled

LEMMA AllowedActStays ==
    ASSUME AccessTyped, AllSteps, scene' = scene, NEW r, AllowedAct(r)
    PROVE  AllowedAct(r)'
<1>1. Setting' = Setting
  BY DEF Setting
<1>2. r.challenge # 0 => SignedOnce(r)'
  BY SignedStays DEF AllowedAct, SignedOnce
<1>3. Entitled(r)'
  BY EntitledStays DEF AllowedAct
<1> QED BY <1>1, <1>2, <1>3 DEF AllowedAct

\* What the checks of a route establish stays so.
LEMMA AllowedMoves ==
    ASSUME AccessTyped, AllSteps, WorkTyped, WorkMoves, ActiveIsRegistered, AllowedInv, scene' = scene, alone' => alone,
           NEW q \in Requests, NEW x, x = proc'[q], x.op \in Routes
    PROVE  /\ Setting.strict => x.challenge # 0
           /\ x.challenge # 0 => SignedFor(x)' /\ (x.step # "use" => SignedOnce(x)')
           /\ x.step \in {"stake", "row", "write"} => Entitled(x)'
           /\ alone' /\ x.challenge # 0 /\ x.step # "answer" => Unacted(x)
<1> DEFINE r == proc[q]
           Goal == /\ Setting.strict => x.challenge # 0
                   /\ x.challenge # 0 => SignedFor(x)' /\ (x.step # "use" => SignedOnce(x)')
                   /\ x.step \in {"stake", "row", "write"} => Entitled(x)'
                   /\ alone' /\ x.challenge # 0 /\ x.step # "answer" => Unacted(x)
<1>0. AllowedRow(r)
  BY DEF AllowedInv
<1>1. ASSUME x = r PROVE Goal
  <2>1. SignedFor(x) => SignedFor(x)' /\ (challenges[x.challenge].used => SignedOnce(x)')
    BY SignedStays
  <2>2. Entitled(x) => Entitled(x)'
    BY EntitledStays
  <2> QED BY <1>0, <1>1, <2>1, <2>2 DEF AllowedRow, SignedOnce
<1>2. CASE Begun(q) /\ RouteBegun(q)
  <2>1. x.step # "use" => x.challenge = 0 /\ ~Setting.strict
    BY <1>2 DEF RouteBegun
  <2>2. CASE x.step = "use"
    <3>1. SignedFor(x) /\ ~challenges[x.challenge].used /\ x.challenge # 0
      BY <1>2, <2>2, TableRows DEF RouteBegun, SignedFor, AccessTyped
    <3>2. Unacted(x)
      BY <3>1 DEF Unacted, AllowedInv, AllowedAct, SignedOnce
    <3> QED BY <2>2, <3>1, <3>2, SignedStays
  <2>3. CASE x.step # "use"
    <3>1. Entitled(x)
      BY <2>1, <2>3 DEF Entitled
    <3> QED BY <2>1, <2>3, <3>1, EntitledStays
  <2> QED BY <2>2, <2>3
<1>3. ASSUME r.op \in Routes, Continues(r, x), r.step # "answer",
             x.challenge # 0 => SignedOnce(x)', x.step \in {"stake", "row", "write"} => Entitled(x)'
      PROVE  Goal
  <2>1. Setting.strict => x.challenge # 0
    BY <1>0, <1>3 DEF AllowedRow, Continues
  <2>2. alone' /\ x.challenge # 0 => Unacted(x)
    BY <1>0, <1>3 DEF AllowedRow, Continues, Unacted
  <2> QED BY <1>3, <2>1, <2>2 DEF SignedOnce
<1>4. ASSUME r.op \in Routes, Continues(r, x), x.challenge # 0 PROVE SignedFor(x)
  BY <1>0, <1>4 DEF AllowedRow, Continues, SignedFor
<1>5. CASE Uses(q) /\ Continues(r, x) /\ x.step = "permission"
  <2>0. r.op \in Routes /\ r.step = "use"
    BY <1>5 DEF Uses, ChallengeUse
  <2>1. x.challenge # 0 => SignedOnce(x)'
    <3> SUFFICES ASSUME x.challenge # 0 PROVE SignedOnce(x)'
      OBVIOUS
    <3>1. SignedFor(x) /\ SignedFor(x)'
      BY <1>4, <1>5, <2>0, SignedStays
    <3>2. challenges' = [challenges EXCEPT ![x.challenge].used = TRUE]
      BY <1>5 DEF Uses, ChallengeUse, Continues
    <3>3. challenges[x.challenge] \in ChallengeType
      BY <3>1, TableRows DEF SignedFor, AccessTyped
    <3>4. challenges'[x.challenge].used
      BY <3>1, <3>2, <3>3 DEF SignedFor, ChallengeType
    <3> QED BY <3>1, <3>4 DEF SignedOnce
  <2> QED BY <1>3, <1>5, <2>0, <2>1
<1>6. ASSUME Continues(r, x), r.op \in Routes, r.step \notin {"use", "answer"} PROVE x.challenge # 0 => SignedOnce(x)'
  <2> SUFFICES ASSUME x.challenge # 0 PROVE SignedOnce(x)'
    OBVIOUS
  <2>1. SignedFor(x) /\ challenges[x.challenge].used
    BY <1>0, <1>4, <1>6 DEF AllowedRow, Continues, SignedOnce
  <2> QED BY <2>1, SignedStays
<1>7. CASE Checks(q) /\ x # Idle
  <2>1. Continues(r, x) /\ r.op \in Routes /\ r.step \notin {"use", "answer"}
    BY <1>7 DEF Checks
  <2>2. Entitled(x)
    <3>1. CASE r.step = "permission"
      <4>1. RoleIfStrict(x.account, "worker") /\ Grants(x.account, x.agent)
        BY <1>7, <3>1 DEF Checks, Continues
      <4>2. \A i \in DOMAIN auths : auths[i].active => auths[i].token # None
        BY DEF ActiveIsRegistered
      <4> QED BY <4>1, <4>2 DEF Grants, Matching, RoleIfStrict, Entitled
    <3>2. CASE r.step \in {"stake", "row"}
      BY <1>0, <2>1, <3>2 DEF AllowedRow, Entitled, Continues
    <3> QED BY <1>7, <3>1, <3>2 DEF Checks
  <2>3. Entitled(x)'
    BY <2>2, EntitledStays
  <2> QED BY <1>3, <1>6, <2>1, <2>3
<1>8. CASE Writes(q)
  <2>1. Continues(r, x) /\ r.op \in Routes /\ r.step = "write" /\ x.step = "answer"
    BY <1>8 DEF Writes
  <2> QED BY <1>3, <1>6, <2>1
<1>9. ~Answers(q) /\ x # Idle
  BY IdleRow DEF Answers, Routes
<1> QED BY <1>1, <1>2, <1>5, <1>7, <1>8, <1>9, RouteMoves

\* A challenge serves one act while requests do not overlap.
LEMMA AllowedKept ==
    ASSUME AccessTyped, AllSteps, WorkTyped, WorkMoves, ActiveIsRegistered, AllowedInv,
           scene' = scene, alone' => alone
    PROVE  AllowedInv'
<1>0. Setting' = Setting
  BY DEF Setting
<1>1. ASSUME NEW q \in Requests, alone' => \A x : x = proc'[q] /\ x.op \in Routes /\ x.step # "answer" /\ x.challenge # 0
                                                   /\ Unacted(x) => Unacted(x)'
      PROVE  AllowedRow(proc[q])'
  <2>1. ASSUME NEW x, x = proc'[q], x.op \in Routes
        PROVE  /\ Setting'.strict => x.challenge # 0
               /\ x.challenge # 0 => SignedFor(x)' /\ (x.step # "use" => SignedOnce(x)')
               /\ x.step \in {"stake", "row", "write"} => Entitled(x)'
               /\ alone' /\ x.challenge # 0 /\ x.step # "answer" => Unacted(x)'
    BY <1>0, <1>1, <2>1, AllowedMoves
  <2> QED BY <2>1 DEF AllowedRow, SignedOnce, SignedFor, Entitled, Unacted, HasRole, Matching
<1>2. CASE acts' = acts
  <2>1. \A n \in DOMAIN acts' : AllowedAct(acts[n])'
    BY <1>2, AllowedActStays DEF AllowedInv
  <2>2. \A x : Unacted(x) => Unacted(x)'
    BY <1>2 DEF Unacted
  <2> QED BY <1>1, <1>2, <2>1, <2>2 DEF AllowedInv
<1>3. ASSUME NEW p \in Requests, proc[p] # Idle, OthersKeep(p), Writes(p) PROVE AllowedInv'
  <2>0. PICK n \in Nat : /\ DOMAIN acts = 1..n /\ DOMAIN acts' = 1..(n + 1)
                         /\ \A m \in 1..n : acts'[m] = acts[m]
                         /\ Continues(proc[p], acts'[n + 1]) /\ acts'[n + 1].at = clock
    BY <1>3, ActAdded
  <2>1. AllowedRow(proc[p]) /\ proc[p].op \in Routes /\ proc[p].step = "write"
    BY <1>3 DEF AllowedInv, Writes
  <2>2. ASSUME NEW a, a = acts'[n + 1] PROVE AllowedAct(a)'
    <3>1. AllowedAct(a)
      BY <2>0, <2>1, <2>2 DEF AllowedRow, AllowedAct, Continues, SignedOnce, SignedFor, Entitled
    <3> QED BY <3>1, AllowedActStays
  <2>3. \A m \in DOMAIN acts' : AllowedAct(acts[m])'
    <3> SUFFICES ASSUME NEW m \in DOMAIN acts', NEW a, a = acts'[m] PROVE AllowedAct(a)'
      OBVIOUS
    <3>1. CASE m \in 1..n
      <4>1. AllowedAct(a)
        BY <2>0, <3>1 DEF AllowedInv
      <4> QED BY <4>1, AllowedActStays
    <3> QED BY <2>0, <2>2, <3>1
  <2>4. ASSUME NEW q \in Requests PROVE AllowedRow(proc[q])'
    <3>1. CASE q = p
      BY <1>1, <1>3, <3>1 DEF Writes
    <3>2. CASE q # p
      <4>1. alone => proc'[q] = Idle
        BY <1>3, <3>2 DEF OthersKeep, AccessTyped, RowsTyped, Lonely
      <4> QED BY <1>1, <4>1, IdleRow DEF Routes
    <3> QED BY <3>1, <3>2
  <2>5. ASSUME alone', NEW m \in DOMAIN acts', NEW k \in DOMAIN acts',
               acts'[m].challenge # 0, acts'[m].challenge = acts'[k].challenge
        PROVE  m = k
    <3>1. \A i \in 1..n : acts'[n + 1].challenge # 0 => acts'[i].challenge # acts'[n + 1].challenge
      BY <2>0, <2>1, <2>5 DEF AllowedRow, Unacted, Continues
    <3>2. CASE m \in 1..n /\ k \in 1..n
      BY <2>0, <2>5, <3>2 DEF AllowedInv
    <3> QED BY <2>0, <2>5, <3>1, <3>2
  <2> QED BY <2>3, <2>4, <2>5 DEF AllowedInv
<1> QED BY <1>2, <1>3, ActsMove

-----------------------------------------------------------------------------
(* Who holds a job, and who held it                                           *)

HeldRow(r) ==
    /\ r.op = "spend" => <<r.job, r.account>> \in held
    /\ r.op \in Routes /\ r.step = "write" /\ r.was # None => <<r.job, r.was>> \in held

HeldInv ==
    /\ \A j \in Jobs : /\ job[j] \in {"queued", "rework"} => holder[j] = None
                       /\ holder[j] # None => <<j, holder[j]>> \in held
                       /\ escrow[j].state = "unfunded" => escrow[j].worker = None
    /\ spends \subseteq held
    /\ \A p \in Requests : HeldRow(proc[p])
    /\ ~Setting.chain => scripts = {} /\ sent = <<>> /\ \A j \in Jobs : escrow[j].state = "unfunded"

\* Who changes the holder of a job, or takes it back
LEMMA HolderMoves ==
    ASSUME WorkMoves
    PROVE  \/ UNCHANGED <<job, holder, held, kept>>
           \/ \E p \in Requests : OthersKeep(p) /\ proc[p] # Idle /\ (Writes(p) \/ Decides(p)) 
           \/ \E j \in Jobs : Lapse(j)
<1> DEFINE Same == UNCHANGED <<job, holder, held, kept>>
<1>1. Bystands \/ (ForgetWork /\ Restart) => Same
  BY SMTT(30) DEF Bystands, ForgetWork, Restart, workVars
<1>2. (WalletStep /\ UNCHANGED workVars) => Same
  BY Zenon DEF WalletStep, FundTask, LeaveEscrow, Mine, PrepareCall, SendCall, MarkSettledOnChain, CallFails, requestVars, workVars
<1>3. ASSUME NEW p \in Requests, Begun(p), RouteBegun(p) \/ OtherBegun(p) \/ \E s : CallBegun(p, s) PROVE Same
  BY <1>3 DEF Begun, RouteBegun, OtherBegun, CallBegun, workVars
<1>4. ASSUME NEW p \in Requests, Checks(p) \/ Answers(p) \/ SettlesJob(p) \/ Spends(p) PROVE Same
  BY <1>4 DEF Checks, Answers, SettlesJob, Spends, workVars
<1> HIDE DEF Same
<1>5. \/ Same
      \/ \E p \in Requests : OthersKeep(p) /\ proc[p] # Idle /\ (Writes(p) \/ Decides(p))
      \/ \E j \in Jobs : Lapse(j)
  BY <1>1, <1>2, <1>3, <1>4 DEF WorkMoves
<1> QED BY <1>5 DEF Same

\* What a route writes
LEMMA WriteFacts ==
    ASSUME WorkTyped, NEW p \in Requests, Writes(p), NEW r, r = proc[p]
    PROVE  /\ r.job \in Jobs /\ r.account \in Accounts /\ r.was \in Accounts \cup {None} /\ r.op \in Routes
           /\ r.step = "write"
           /\ \A j \in Jobs : j # r.job => job'[j] = job[j] /\ holder'[j] = holder[j]
           /\ r.op = "claim" => job'[r.job] = "claimed" /\ holder'[r.job] = r.account
           /\ r.op # "claim" => job'[r.job] \in {"queued", "rework", "submitted"}
           /\ job'[r.job] \in {"queued", "rework"} => holder'[r.job] = None
           /\ job'[r.job] = "submitted" => holder'[r.job] = r.was /\ r.op = "submit"
           /\ job'[r.job] = "rework" => ~kept'
           /\ kept' => kept
           /\ held \subseteq held' /\ (r.op = "claim" => <<r.job, r.account>> \in held')
<1>1. RouteRow(r) /\ r.op \in Routes /\ r.step = "write" /\ DOMAIN job = Jobs /\ DOMAIN holder = Jobs
  BY DEF Writes, WorkTyped, WorkRows, WorkRow, WorkTables
<1>2. PICK status \in {"claimed", "queued", "submitted", "rework"} :
          /\ r.op = "claim" <=> status = "claimed"
          /\ r.op = "unclaim" <=> status = "queued"
          /\ job' = [job EXCEPT ![r.job] = status]
          /\ holder' = [holder EXCEPT ![r.job] = CASE status = "claimed" -> r.account
                                                   [] status = "submitted" -> r.was
                                                   [] OTHER -> None]
          /\ kept' = (kept /\ status # "rework")
  BY DEF Writes
<1>3. held \subseteq held' /\ (r.op = "claim" => <<r.job, r.account>> \in held')
  BY DEF Writes
<1> QED BY <1>1, <1>2, <1>3 DEF RouteRow, Routes

LEMMA DecideFacts ==
    ASSUME WorkTyped, NEW p \in Requests, Decides(p), NEW r, r = proc[p]
    PROVE  /\ r.job \in Jobs /\ held' = held /\ (kept' => kept /\ holder' = holder)
           /\ \A j \in Jobs : \/ holder'[j] = None
                              \/ (holder'[j] = holder[j]) /\ (job'[j] = job[j] \/ job'[j] = "accepted")
<1>1. r.job \in Jobs /\ DOMAIN job = Jobs /\ DOMAIN holder = Jobs
  BY DEF Decides, WorkTyped, WorkRows, WorkRow, WorkTables
<1> QED BY <1>1 DEF Decides

\* Who held a job is remembered.
LEMMA HoldersRemembered ==
    ASSUME WorkTyped, WorkMoves
    PROVE  held \subseteq held'
<1>1. ASSUME NEW p \in Requests, Writes(p) \/ Decides(p) PROVE held \subseteq held'
  BY <1>1, WriteFacts, DecideFacts
<1> QED BY <1>1, HolderMoves DEF Lapse

LEMMA JobsHeld ==
    ASSUME WorkTyped, WorkMoves, HeldInv, NEW j \in Jobs
    PROVE  /\ job'[j] \in {"queued", "rework"} => holder'[j] = None
           /\ holder'[j] # None => <<j, holder'[j]>> \in held'
<1>0. /\ job[j] \in {"queued", "rework"} => holder[j] = None
      /\ holder[j] # None => <<j, holder[j]>> \in held
      /\ held \subseteq held'
  BY HoldersRemembered DEF HeldInv
<1>1. CASE UNCHANGED <<job, holder, held, kept>>
  BY <1>0, <1>1
<1>2. ASSUME NEW p \in Requests, Writes(p)
      PROVE  /\ job'[j] \in {"queued", "rework"} => holder'[j] = None
             /\ holder'[j] # None => <<j, holder'[j]>> \in held'
  <2> DEFINE r == proc[p]
  <2>1. r.was # None => <<r.job, r.was>> \in held
    BY <1>2 DEF HeldInv, HeldRow, Writes
  <2>2. CASE j # r.job
    <3>1. job'[j] = job[j] /\ holder'[j] = holder[j]
      BY <1>2, <2>2, WriteFacts
    <3> QED BY <1>0, <3>1
  <2>3. CASE j = r.job
    <3>1. /\ r.op = "claim" => job'[j] = "claimed" /\ holder'[j] = r.account /\ <<j, r.account>> \in held'
          /\ r.op # "claim" => job'[j] \in {"queued", "rework", "submitted"}
          /\ job'[j] \in {"queued", "rework"} => holder'[j] = None
          /\ job'[j] = "submitted" => holder'[j] = r.was
      BY <1>2, <2>3, WriteFacts
    <3> QED BY <1>0, <2>1, <2>3, <3>1
  <2> QED BY <2>2, <2>3
<1>3. ASSUME NEW p \in Requests, Decides(p)
      PROVE  /\ job'[j] \in {"queued", "rework"} => holder'[j] = None
             /\ holder'[j] # None => <<j, holder'[j]>> \in held'
  BY <1>0, <1>3, DecideFacts
<1>4. ASSUME NEW i \in Jobs, Lapse(i)
      PROVE  /\ job'[j] \in {"queued", "rework"} => holder'[j] = None
             /\ holder'[j] # None => <<j, holder'[j]>> \in held'
  BY <1>0, <1>4 DEF Lapse, WorkTyped, WorkTables
<1> QED BY <1>1, <1>2, <1>3, <1>4, HolderMoves

LEMMA RowsHeld ==
    ASSUME AccessTyped, WorkTyped, WorkMoves, HeldInv, NEW q \in Requests, NEW x, x = proc'[q]
    PROVE  HeldRow(x)'
<1>0. HeldRow(proc[q]) /\ held \subseteq held'
  BY HoldersRemembered DEF HeldInv
<1>1. CASE x = proc[q]
  BY <1>0, <1>1 DEF HeldRow
<1>2. CASE x.op \notin WorkOps \/ (x.op \in Routes /\ x.step # "write")
  BY <1>2 DEF HeldRow, WorkOps, Routes
<1>3. ASSUME Bystands, Uses(q) PROVE x.op \in Routes /\ x.step # "write"
  <2>1. Goto(q, "permission") /\ proc[q].op \in Routes
    BY <1>3 DEF Uses, ChallengeUse, Routes
  <2> QED BY <2>1, RouteGoes DEF WorkTyped, Continues
<1>4. CASE RouteBegun(q)
  BY <1>2, <1>4 DEF RouteBegun
<1>5. CASE OtherBegun(q)
  <2>1. x.op \notin Routes
    BY <1>5 DEF OtherBegun, Routes
  <2>2. x.op = "spend" => x.job \in Jobs /\ holder[x.job] = x.account /\ x.account \in Accounts /\ None \notin Accounts
    BY <1>5, NoneAssumption DEF OtherBegun, WorkRow
  <2> QED BY <1>0, <2>1, <2>2 DEF HeldRow, HeldInv
<1>6. CASE Checks(q)
  <2>1. CASE x = Idle
    BY <1>2, <2>1, IdleRow DEF WorkOps, Routes
  <2>2. CASE x # Idle /\ x.step = "write"
    <3>1. x.op \in Routes /\ x.job \in Jobs /\ x.was = holder[x.job]
      BY <1>6, <2>2 DEF Checks, Continues, RouteRow
    <3> QED BY <1>0, <3>1 DEF HeldRow, HeldInv, Routes
  <2>3. CASE x # Idle /\ x.step # "write"
    BY <1>2, <1>6, <2>3 DEF Checks, Continues
  <2> QED BY <2>1, <2>2, <2>3
<1>7. CASE Writes(q)
  <2>1. x.op \in Routes /\ x.step # "write"
    BY <1>7 DEF Writes, Continues
  <2> QED BY <1>2, <2>1
<1>8. CASE Answers(q) \/ SettlesJob(q) \/ Spends(q)
  BY <1>2, <1>8, IdleRow DEF Answers, SettlesJob, Spends, WorkOps, Routes
<1>9. CASE Decides(q)
  BY <1>9 DEF Decides, HeldRow, Routes
<1> QED BY <1>1, <1>2, <1>3, <1>4, <1>5, <1>6, <1>7, <1>8, <1>9, WorkRowMoves

LEMMA SpendsHeld ==
    ASSUME WorkMoves, HeldInv, held \subseteq held'
    PROVE  spends' \subseteq held'
<1>1. CASE spends' = spends
  BY <1>1 DEF HeldInv
<1>2. ASSUME NEW p \in Requests, Spends(p) PROVE spends' \subseteq held'
  BY <1>2 DEF Spends, HeldInv, HeldRow
<1>3. Bystands \/ (WalletStep /\ UNCHANGED workVars) \/ (\E j \in Jobs : Lapse(j)) \/ ForgetWork => spends' = spends
  BY DEF Bystands, Lapse, ForgetWork, workVars
<1>4. ASSUME NEW p \in Requests, RouteBegun(p) \/ OtherBegun(p) \/ \E s : CallBegun(p, s) PROVE spends' = spends
  BY <1>4 DEF RouteBegun, OtherBegun, CallBegun, workVars
<1>5. ASSUME NEW p \in Requests, Checks(p) \/ Writes(p) \/ Answers(p) \/ Decides(p) \/ SettlesJob(p) PROVE spends' = spends
  BY <1>5 DEF Checks, Writes, Answers, Decides, SettlesJob, workVars
<1> QED BY <1>1, <1>2, <1>3, <1>4, <1>5 DEF WorkMoves

\* Without addresses of the contracts nothing of theirs moves.
LEMMA ChainHeld ==
    ASSUME WorkTyped, WorkMoves, HeldInv, ~Setting.chain
    PROVE  UNCHANGED <<scripts, escrow, sent>> /\ scripts = {} /\ sent = <<>>
<1> DEFINE Same == UNCHANGED <<scripts, escrow, sent>>
<1>0. scripts = {} /\ sent = <<>> /\ ~Mine
  <2>1. sent = <<>> /\ mined \in 0..Len(sent)
    BY DEF HeldInv, WorkTyped, WalletTables
  <2>2. ~(mined < Len(sent))
    BY <2>1
  <2> QED BY <2>2 DEF HeldInv, Mine
<1>1. UNCHANGED walletVars \/ LoseScripts => Same
  BY <1>0 DEF walletVars, contractVars, LoseScripts
<1>2. Bystands \/ (WalletStep /\ UNCHANGED workVars) \/ (\E j \in Jobs : Lapse(j)) \/ ForgetWork => Same
  BY <1>0, <1>1 DEF Bystands, WalletStep, Lapse, ForgetWork
<1>3. ASSUME NEW p \in Requests, RouteBegun(p) \/ OtherBegun(p) \/ \E s : CallBegun(p, s) PROVE Same
  BY <1>1, <1>3 DEF RouteBegun, OtherBegun, CallBegun, Launch, contractVars
<1>4. ASSUME NEW p \in Requests, Checks(p) \/ Writes(p) \/ Answers(p) \/ Decides(p) \/ SettlesJob(p) \/ Spends(p)
      PROVE Same
  BY <1>1, <1>4 DEF Checks, Writes, Answers, Decides, SettlesJob, Spends, Launch, contractVars
<1> HIDE DEF Same
<1>5. Same
  BY <1>2, <1>3, <1>4 DEF WorkMoves
<1> QED BY <1>0, <1>5 DEF Same

LEMMA HeldKept ==
    ASSUME AccessTyped, WorkTyped, WorkMoves, HeldInv, scene' = scene
    PROVE  HeldInv'
<1>1. ASSUME NEW j \in Jobs, escrow'[j].state = "unfunded" PROVE escrow'[j].worker = None
  <2>1. escrow'[j] = escrow[j]
    <3>1. escrow'[j].state \notin {"funded", "released", "refunded"}
      BY <1>1
    <3> QED BY <3>1, TaskMoves, WalletMovesCases DEF Gone, WorkTyped
  <2> QED BY <1>1, <2>1 DEF HeldInv
<1>2. ASSUME NEW q \in Requests PROVE HeldRow(proc[q])'
  <2>1. ASSUME NEW x, x = proc'[q] PROVE HeldRow(x)'
    BY <2>1, RowsHeld
  <2> QED BY <2>1 DEF HeldRow
<1>3. Setting' = Setting
  BY DEF Setting
<1>4. ~Setting.chain => scripts' = {} /\ sent' = <<>> /\ \A j \in Jobs : escrow'[j].state = "unfunded"
  BY ChainHeld DEF HeldInv
<1>5. \A j \in Jobs : /\ job'[j] \in {"queued", "rework"} => holder'[j] = None
                      /\ holder'[j] # None => <<j, holder'[j]>> \in held'
  BY JobsHeld, Zenon
<1>6. spends' \subseteq held'
  <2>1. held \subseteq held'
    BY HoldersRemembered
  <2> QED BY <2>1, SpendsHeld
<1> QED BY <1>1, <1>2, <1>3, <1>4, <1>5, <1>6 DEF HeldInv

-----------------------------------------------------------------------------
(* TaskEscrow follows the holder                                              *)

\* An agent has given the job back and TaskEscrow is not told yet; or it is being told.
GivesBack(j) == \E p \in Requests : proc[p].op = "unclaim" /\ proc[p].step = "answer" /\ proc[p].job = j
Clears(j) == \E s \in scripts : s.calls = <<Call("clearWorker", j, None)>>

Appoints(j) == \E s \in scripts, w \in Accounts : s.calls = <<Call("setWorker", j, w)>>

\* A transaction that sets or clears the worker of j
About(c, j) == c.name \in {"setWorker", "clearWorker"} /\ c.job = j

\* The worker of j is in S once the first n transactions are mined.
WorkerAfter(j, n, S) ==
    \/ escrow[j].worker \in S /\ \A k \in (mined + 1)..n : ~About(sent[k], j)
    \/ \E k \in (mined + 1)..n : /\ About(sent[k], j) /\ Worker(sent[k]) \in S
                                 /\ \A i \in (k + 1)..n : ~About(sent[i], j)

WorkerLast(j, S) == WorkerAfter(j, Len(sent), S)

\* Every worker that is to be set finds none.
InTurn(j) ==
    \A k \in (mined + 1)..Len(sent) :
        sent[k].name = "setWorker" /\ sent[k].job = j => WorkerAfter(j, k - 1, {None})

FollowTask(j) ==
    escrow[j].state = "funded" =>
        InTurn(j) /\ (WorkerLast(j, {None, holder[j]}) \/ GivesBack(j) \/ Clears(j))

FollowScript(s) ==
    \A j \in Jobs, w \in Accounts :
        s.calls = <<Call("setWorker", j, w)>> =>
           /\ w = holder[j] \/ GivesBack(j)
           /\ escrow[j].state = "funded" => WorkerLast(j, {None})

FollowRow(r) ==
    r.op \in Routes =>
       /\ r.step = "write" => r.was = holder[r.job]
       /\ r.step = "write" /\ r.op = "claim" => r.was = None
       /\ r.step = "answer" /\ r.op = "claim" =>
             /\ holder[r.job] = r.account /\ ~Appoints(r.job)
             /\ escrow[r.job].state = "funded" => WorkerLast(r.job, {None}) \/ Clears(r.job)

Smooth == orderly /\ kept /\ alone /\ faults = 0

FollowInv ==
    Smooth => /\ \A j \in Jobs : FollowTask(j)
              /\ \A s \in scripts : FollowScript(s)
              /\ \A p \in Requests : FollowRow(proc[p])

LEMMA CallsEqual ==
    ASSUME NEW a, NEW b, NEW i, NEW j, NEW v, NEW w, <<Call(a, i, v)>> = <<Call(b, j, w)>>
    PROVE  a = b /\ i = j /\ v = w
<1> DEFINE c == Call(a, i, v)
           d == Call(b, j, w)
<1>1. c.name = a /\ c.job = i /\ c.who = v /\ d.name = b /\ d.job = j /\ d.who = w
  BY DEF Call
<1> HIDE DEF c, d
<1>2. c = d
  BY DEF c, d
<1> QED BY <1>1, <1>2

LEMMA OrderlyBack ==
    ASSUME WalletTables, WalletMoves, orderly'
    PROVE  orderly
<1>1. ASSUME NEW s \in scripts, ScriptSteps(s) PROVE orderly
  BY <1>1, ScriptEffect
<1> QED BY <1>1 DEF WalletMoves, walletVars, Launched, LoseScripts, FundTask, LeaveEscrow, Mine

-----------------------------------------------------------------------------
(* The worker that the transactions leave                                     *)

LEMMA AfterStays ==
    ASSUME UNCHANGED <<sent, mined>>, NEW j, escrow'[j].worker = escrow[j].worker
    PROVE  /\ \A n, S : WorkerAfter(j, n, S) => WorkerAfter(j, n, S)'
           /\ \A S : WorkerLast(j, S) => WorkerLast(j, S)'
           /\ InTurn(j) => InTurn(j)'
<1>1. \A n, S : WorkerAfter(j, n, S) => WorkerAfter(j, n, S)'
  BY DEF WorkerAfter, About, Worker
<1>2. \A S : WorkerLast(j, S) => WorkerLast(j, S)'
  BY <1>1 DEF WorkerLast
<1>3. InTurn(j) => InTurn(j)'
  BY <1>1 DEF InTurn
<1> QED BY <1>1, <1>2, <1>3

\* A transaction is mined, and the task is still funded.
LEMMA AfterMined ==
    ASSUME WalletTables, Mine, NEW j \in Jobs, escrow[j].state = "funded", escrow'[j].state = "funded", InTurn(j)
    PROVE  /\ \A n \in Nat : \A S : n > mined /\ WorkerAfter(j, n, S) => WorkerAfter(j, n, S)'
           /\ \A S : WorkerLast(j, S) => WorkerLast(j, S)'
           /\ InTurn(j)'
<1> DEFINE m == mined + 1
           c == sent[m]
<1>0. /\ m \in 1..Len(sent) /\ mined' = m /\ sent' = sent /\ Executed(c) /\ CallFits(c)
      /\ Len(sent) \in Nat /\ mined \in Nat /\ escrow \in [Jobs -> EscrowType]
  BY MineFacts, SentFacts DEF WalletTables
<1>2. ~About(c, j) => escrow'[j].worker = escrow[j].worker
  BY <1>0, ExecutedTask DEF About
<1>3. About(c, j) => escrow'[j].worker = Worker(c)
  <2> SUFFICES ASSUME About(c, j) PROVE escrow'[j].worker = Worker(c)
    OBVIOUS
  <2>1. c.name = "setWorker" => escrow[j].worker = None
    <3> SUFFICES ASSUME c.name = "setWorker" PROVE escrow[j].worker = None
      OBVIOUS
    <3>0. m \in (mined + 1)..Len(sent) /\ sent[m].name = "setWorker" /\ sent[m].job = j
      BY <1>0 DEF About
    <3>2. \A k : k \notin (mined + 1)..(m - 1)
      BY <1>0
    <3> HIDE DEF m
    <3>1. WorkerAfter(j, m - 1, {None})
      BY <3>0 DEF InTurn
    <3> QED BY <3>1, <3>2 DEF WorkerAfter
  <2>2. ~Reverts(c)
    BY <2>1 DEF Reverts, About
  <2> QED BY <1>0, <2>2, ExecutedTask DEF About
<1> HIDE DEF c, m
<1>4. ASSUME NEW n \in Nat, n > mined, NEW S, WorkerAfter(j, n, S) PROVE WorkerAfter(j, n, S)'
  <2>0. m = mined + 1 /\ n >= m /\ m \in Nat
    BY <1>0, <1>4 DEF m
  <2>1. CASE escrow[j].worker \in S /\ \A k \in (mined + 1)..n : ~About(sent[k], j)
    <3>1. ~About(c, j)
      BY <2>0, <2>1 DEF c
    <3>2. escrow'[j].worker \in S
      BY <1>2, <2>1, <3>1
    <3>3. \A k \in (m + 1)..n : ~About(sent[k], j)
      BY <2>0, <2>1
    <3> QED BY <1>0, <3>2, <3>3 DEF WorkerAfter, About, Worker
  <2>2. ASSUME NEW k \in (mined + 1)..n, About(sent[k], j), Worker(sent[k]) \in S,
               \A i \in (k + 1)..n : ~About(sent[i], j)
        PROVE  WorkerAfter(j, n, S)'
    <3>1. CASE k = m
      <4>1. escrow'[j].worker \in S /\ \A i \in (m + 1)..n : ~About(sent[i], j)
        BY <1>3, <2>2, <3>1 DEF c
      <4> QED BY <1>0, <4>1 DEF WorkerAfter, About, Worker
    <3>2. CASE k # m
      <4>1. k \in (m + 1)..n
        BY <2>0, <3>2
      <4> QED BY <1>0, <2>2, <4>1 DEF WorkerAfter, About, Worker
    <3> QED BY <3>1, <3>2
  <2> QED BY <1>4, <2>1, <2>2 DEF WorkerAfter
<1>5. ASSUME NEW S, WorkerLast(j, S) PROVE WorkerLast(j, S)'
  <2>1. Len(sent) \in Nat /\ Len(sent) > mined /\ Len(sent)' = Len(sent)
    BY <1>0 DEF m
  <2> QED BY <1>4, <1>5, <2>1 DEF WorkerLast
<1>6. InTurn(j)'
  <2> SUFFICES ASSUME NEW k \in (m + 1)..Len(sent), sent[k].name = "setWorker", sent[k].job = j
               PROVE  WorkerAfter(j, k - 1, {None})'
    BY <1>0 DEF InTurn
  <2>1. k \in (mined + 1)..Len(sent) /\ k - 1 \in Nat /\ k - 1 > mined
    BY <1>0 DEF m
  <2> QED BY <1>4, <2>1 DEF InTurn
<1> QED BY <1>4, <1>5, <1>6

\* A transaction is sent.
LEMMA AfterSent ==
    ASSUME WalletTables, NEW c, Send(c), NEW j \in Jobs, InTurn(j)
    PROVE  /\ ~About(c, j) => InTurn(j)' /\ \A S : WorkerLast(j, S) => WorkerLast(j, S)'
           /\ About(c, j) => WorkerLast(j, {Worker(c)})'
           /\ c.name = "clearWorker" \/ WorkerLast(j, {None}) => InTurn(j)'
<1>m. PICK m \in Nat : m = Len(sent)
  BY SendFacts DEF WalletTables
<1>0. /\ Len(sent)' = m + 1 /\ sent'[m + 1] = c /\ \A k \in 1..m : sent'[k] = sent[k]
      /\ escrow' = escrow /\ mined' = mined /\ mined \in 0..m
  BY <1>m, SendFacts DEF WalletTables
<1>1. ASSUME NEW n \in 0..m, NEW S, WorkerAfter(j, n, S) PROVE WorkerAfter(j, n, S)'
  <2>1. \A k \in (mined + 1)..n : sent'[k] = sent[k]
    BY <1>0
  <2>2. CASE escrow[j].worker \in S /\ \A k \in (mined + 1)..n : ~About(sent[k], j)
    BY <1>0, <2>1, <2>2 DEF WorkerAfter, About
  <2>3. ASSUME NEW k \in (mined + 1)..n, About(sent[k], j), Worker(sent[k]) \in S,
               \A i \in (k + 1)..n : ~About(sent[i], j)
        PROVE  WorkerAfter(j, n, S)'
    <3>1. About(sent[k], j)' /\ Worker(sent[k])' \in S
      BY <2>1, <2>3 DEF About, Worker
    <3>2. \A i \in (k + 1)..n : ~About(sent[i], j)'
      <4> TAKE i \in (k + 1)..n
      <4>1. i \in (mined + 1)..n
        BY <1>0
      <4> QED BY <2>1, <2>3, <4>1 DEF About
    <3> QED BY <1>0, <3>1, <3>2 DEF WorkerAfter
  <2> QED BY <1>1, <2>2, <2>3 DEF WorkerAfter
<1>2. ASSUME ~About(c, j), NEW S, WorkerLast(j, S) PROVE WorkerLast(j, S)'
  <2>1. WorkerAfter(j, m, S)'
    BY <1>m, <1>0, <1>1, <1>2 DEF WorkerLast
  <2>2. ~About(sent[m + 1], j)'
    BY <1>0, <1>2 DEF About
  <2>3. \A k : k \in (mined + 1)..(m + 1) => k \in (mined + 1)..m \/ k = m + 1
    BY <1>0
  <2>4. CASE escrow'[j].worker \in S /\ \A k \in (mined + 1)..m : ~About(sent[k], j)'
    BY <1>0, <2>2, <2>3, <2>4 DEF WorkerLast, WorkerAfter
  <2>5. ASSUME NEW k \in (mined + 1)..m, About(sent[k], j)', Worker(sent[k])' \in S,
               \A i \in (k + 1)..m : ~About(sent[i], j)'
        PROVE  WorkerLast(j, S)'
    <3>1. \A i \in (k + 1)..(m + 1) : ~About(sent[i], j)'
      <4> TAKE i \in (k + 1)..(m + 1)
      <4>1. i \in (k + 1)..m \/ i = m + 1
        BY <1>0
      <4> QED BY <2>2, <2>5, <4>1
    <3>2. k \in (mined + 1)..(m + 1)
      BY <1>0
    <3> QED BY <1>0, <2>5, <3>1, <3>2 DEF WorkerLast, WorkerAfter
  <2> QED BY <1>0, <2>1, <2>4, <2>5 DEF WorkerAfter
<1>3. ASSUME About(c, j) PROVE WorkerLast(j, {Worker(c)})'
  <2>1. About(sent[m + 1], j)' /\ Worker(sent[m + 1])' = Worker(c)
    BY <1>0, <1>3 DEF About, Worker
  <2>2. m + 1 \in (mined + 1)..(m + 1) /\ \A i \in ((m + 1) + 1)..(m + 1) : FALSE
    BY <1>0
  <2>3. WorkerAfter(j, m + 1, {Worker(c)})'
    BY <1>0, <2>1, <2>2 DEF WorkerAfter, About, Worker
  <2> QED BY <1>0, <2>3 DEF WorkerLast, Worker
<1>4. ASSUME (c.name = "setWorker" /\ c.job = j) => WorkerLast(j, {None}) PROVE InTurn(j)'
  <2> SUFFICES ASSUME NEW k \in (mined + 1)..(m + 1), sent'[k].name = "setWorker" /\ sent'[k].job = j
               PROVE  WorkerAfter(j, k - 1, {None})'
    BY <1>0 DEF InTurn
  <2>1. CASE k = m + 1
    <3>1. WorkerAfter(j, m, {None})
      BY <1>m, <1>0, <1>4, <2>1 DEF WorkerLast
    <3>2. k - 1 = m /\ m \in 0..m
      BY <1>0, <2>1
    <3> QED BY <1>1, <3>1, <3>2
  <2>2. CASE k # m + 1
    <3>1. k \in (mined + 1)..m /\ k \in 1..m /\ k - 1 \in 0..m
      BY <1>0, <2>2
    <3>2. sent[k].name = "setWorker" /\ sent[k].job = j
      BY <1>0, <3>1
    <3> QED BY <1>m, <1>1, <3>1, <3>2 DEF InTurn
  <2> QED BY <2>1, <2>2
<1> QED BY <1>2, <1>3, <1>4 DEF About

\* A task that is funded had no worker, and no transaction about it is sent.
LEMMA AfterFunded ==
    ASSUME WalletTables, Estimated, NEW j \in Jobs, FundTask(j), escrow[j].worker = None
    PROVE  InTurn(j)' /\ WorkerLast(j, {None})'
<1>0. escrow \in [Jobs -> EscrowType] /\ Len(sent) \in Nat /\ mined \in 0..Len(sent)
  BY SentFacts DEF WalletTables
<1>1. escrow'[j].worker = None /\ sent' = sent /\ mined' = mined /\ escrow[j].state = "unfunded"
  BY <1>0 DEF FundTask, EscrowType
<1>2. \A k \in (mined + 1)..Len(sent) : ~About(sent[k], j)
  <2> TAKE k \in (mined + 1)..Len(sent)
  <2>1. k \in 1..Len(sent)
    BY <1>0
  <2> QED BY <1>1, <2>1 DEF Estimated, About, TaskCalls
<1>3. InTurn(j)'
  BY <1>1, <1>2 DEF InTurn, About
<1>4. WorkerLast(j, {None})'
  BY <1>1, <1>2 DEF WorkerLast, WorkerAfter, About
<1> QED BY <1>3, <1>4

\* What a step leaves of a task that is funded after it
LEMMA AfterStep ==
    ASSUME WalletTables, WalletMoves, Estimated, orderly', NEW j \in Jobs, escrow'[j].state = "funded",
           escrow[j].state = "unfunded" => escrow[j].worker = None,
           escrow[j].state = "funded" => InTurn(j)
    PROVE  \/ InTurn(j)' /\ WorkerLast(j, {None})' /\ escrow[j].state # "funded"
           \/ escrow[j].state = "funded" /\ InTurn(j)' /\ \A S : WorkerLast(j, S) => WorkerLast(j, S)'
           \/ /\ escrow[j].state = "funded"
              /\ \E s \in scripts : LET c == Head(s.calls) IN
                    /\ SendCall(s) /\ About(c, j) /\ WorkerLast(j, {Worker(c)})'
                    /\ c.name = "clearWorker" \/ WorkerLast(j, {None}) => InTurn(j)'
<1> DEFINE Goal == \/ InTurn(j)' /\ WorkerLast(j, {None})' /\ escrow[j].state # "funded"
                   \/ escrow[j].state = "funded" /\ InTurn(j)' /\ \A S : WorkerLast(j, S) => WorkerLast(j, S)'
                   \/ /\ escrow[j].state = "funded"
                      /\ \E s \in scripts : LET c == Head(s.calls) IN
                            /\ SendCall(s) /\ About(c, j) /\ WorkerLast(j, {Worker(c)})'
                            /\ c.name = "clearWorker" \/ WorkerLast(j, {None}) => InTurn(j)'
<1>0. escrow \in [Jobs -> EscrowType] /\ ~(\E i \in Jobs : LeaveEscrow(i))
  BY DEF LeaveEscrow, WalletTables
<1>1. CASE escrow[j].state # "funded"
  <2>1. FundTask(j)
    BY <1>0, <1>1, TaskMoves
  <2>2. escrow[j].worker = None
    BY <2>1 DEF FundTask
  <2> QED BY <1>1, <2>1, <2>2, AfterFunded
<1>2. ASSUME escrow[j].state = "funded", UNCHANGED <<sent, mined>>, escrow'[j] = escrow[j] PROVE Goal
  BY <1>2, AfterStays
<1>3. ASSUME escrow[j].state = "funded", Mine PROVE Goal
  BY <1>3, AfterMined
<1>4. ASSUME escrow[j].state = "funded", NEW s \in scripts, ScriptSteps(s) PROVE Goal
  <2>1. UNCHANGED contractVars \/ (Send(Head(s.calls)) /\ SendCall(s))
    BY <1>4, ScriptEffect
  <2>2. CASE UNCHANGED contractVars
    BY <1>2, <1>4, <2>2 DEF contractVars
  <2>3. ASSUME NEW c, c = Head(s.calls), Send(c), SendCall(s) PROVE Goal
    <3>1. InTurn(j)
      BY <1>4
    <3>2. /\ ~About(c, j) => InTurn(j)' /\ \A S : WorkerLast(j, S) => WorkerLast(j, S)'
          /\ About(c, j) => WorkerLast(j, {Worker(c)})'
          /\ c.name = "clearWorker" \/ WorkerLast(j, {None}) => InTurn(j)'
      BY <2>3, <3>1, AfterSent
    <3>3. CASE ~About(c, j)
      BY <1>4, <3>2, <3>3
    <3>4. CASE About(c, j)
      <4>1. /\ SendCall(s) /\ About(c, j) /\ WorkerLast(j, {Worker(c)})'
            /\ c.name = "clearWorker" \/ WorkerLast(j, {None}) => InTurn(j)'
        BY <2>3, <3>2, <3>4
      <4> QED BY <1>4, <2>3, <4>1
    <3> QED BY <3>3, <3>4
  <2> QED BY <2>1, <2>2, <2>3
<1>5. ASSUME escrow[j].state = "funded",
             UNCHANGED walletVars \/ LoseScripts \/ (\E s : Launched(s)) \/ \E i \in Jobs : FundTask(i)
      PROVE  Goal
  <2>1. UNCHANGED <<sent, mined>>
    BY <1>5 DEF walletVars, contractVars, LoseScripts, Launched, FundTask
  <2>2. escrow'[j] = escrow[j]
    <3>1. UNCHANGED walletVars \/ LoseScripts \/ (\E s : Launched(s)) => escrow' = escrow
      BY DEF walletVars, contractVars, LoseScripts, Launched
    <3>2. ASSUME NEW i \in Jobs, FundTask(i) PROVE escrow'[j] = escrow[j]
      BY <1>0, <1>5, <3>2 DEF FundTask
    <3> QED BY <1>5, <3>1, <3>2
  <2> QED BY <1>2, <1>5, <2>1, <2>2
<1> HIDE DEF Goal
<1>6. escrow[j].state = "funded" => Goal
  BY <1>0, <1>3, <1>4, <1>5 DEF WalletMoves
<1> QED BY <1>1, <1>6 DEF Goal

-----------------------------------------------------------------------------
(* What is being told                                                         *)

LEMMA GivesBackMoves ==
    ASSUME AccessTyped, WorkTyped, WorkMoves, faults' = 0, NEW j, GivesBack(j)
    PROVE  GivesBack(j)' \/ \E p \in Requests : Answers(p) /\ proc[p].op = "unclaim" /\ proc[p].job = j
<1>1. PICK q \in Requests : proc[q].op = "unclaim" /\ proc[q].step = "answer" /\ proc[q].job = j
  BY DEF GivesBack
<1>2. proc[q].op \in Routes
  BY <1>1 DEF Routes
<1>3. ~Begun(q) /\ ~Uses(q) /\ ~Checks(q) /\ ~Writes(q)
  BY <1>1, IdleRow DEF Begun, Uses, ChallengeUse, Checks, Writes
<1>4. CASE proc'[q] = proc[q]
  BY <1>1, <1>4 DEF GivesBack
<1> QED BY <1>1, <1>2, <1>3, <1>4, RouteMoves

\* The call that clears the worker is the only one while calls come in order.
LEMMA ClearLaunched ==
    ASSUME WorkTyped, HeldInv, NEW p \in Requests, Answers(p), proc[p].op = "unclaim",
           NEW j, proc[p].job = j, orderly'
    PROVE  scripts = {} /\ (Setting.chain => Clears(j)')
<1>1. PICK s : Tells(s, proc[p]) /\ Launch(s)
  BY DEF Answers
<1>2. s.calls = <<Call("clearWorker", j, None)>>
  BY <1>1 DEF Tells
<1>3. CASE Setting.chain
  <2>1. scripts = {} /\ s \in scripts'
    BY <1>1, <1>3 DEF Launch
  <2> QED BY <1>2, <2>1 DEF Clears
<1>4. CASE ~Setting.chain
  BY <1>4 DEF HeldInv
<1> QED BY <1>3, <1>4

\* Until it is, the task is not funded, or no transaction leaves a worker, or the call is
\* still made.
LEMMA ClearsMoves ==
    ASSUME WalletTables, WalletMoves, InOrder, orderly', NEW j \in Jobs, Clears(j),
           escrow'[j].state = "funded", escrow[j].state = "funded" => InTurn(j)
    PROVE  Clears(j)' \/ WorkerLast(j, {None})'
<1>1. PICK s \in scripts : s.calls = <<Call("clearWorker", j, None)>>
  BY DEF Clears
<1>2. \A x \in scripts : x = s
  BY <1>1, OrderlyBack DEF InOrder
<1> DEFINE c == Head(s.calls)
           Goal == Clears(j)' \/ WorkerLast(j, {None})'
<1>3. c.name = "clearWorker" /\ c.job = j /\ s.calls # <<>> /\ ScriptRow(s)
  <2>1. c = Call("clearWorker", j, None)
    BY <1>1
  <2> QED BY <1>1, <2>1 DEF Call, WalletTables
<1>4. UNCHANGED walletVars \/ Mine \/ (\E i \in Jobs : FundTask(i) \/ LeaveEscrow(i)) => Goal
  BY <1>1 DEF walletVars, FundTask, LeaveEscrow, Mine, Clears
<1>5. LoseScripts \/ (\E x : Launched(x)) => Goal
  BY <1>1 DEF LoseScripts, Launched, Clears
<1>6. ASSUME ScriptSteps(s) PROVE Goal
  <2>1. PICK t : /\ Advances(s, t) /\ Becomes(s, t) /\ ~CallFails(s)
                 /\ (UNCHANGED contractVars /\ ~SendCall(s)) \/ (Send(c) /\ SendCall(s))
    BY <1>6, ScriptEffect
  <2>2. CASE PrepareCall(s) /\ Reverts(c)
    <3>1. escrow[j].state # "funded" /\ escrow' = escrow
      BY <1>3, <2>2 DEF Reverts, PrepareCall, contractVars
    <3> QED BY <3>1
  <2>3. CASE Stays(s, t)
    <3>1. t \in scripts' /\ t.calls = s.calls
      BY <1>3, <2>1, <2>3 DEF Stays, Becomes
    <3> QED BY <1>1, <3>1 DEF Clears
  <2>4. CASE SendCall(s)
    <3>1. Send(c) /\ escrow' = escrow
      BY <2>1, <2>4 DEF Send, contractVars
    <3>2. About(c, j) /\ Worker(c) = None /\ InTurn(j)
      BY <1>3, <3>1 DEF About, Worker
    <3> HIDE DEF c
    <3>3. WorkerLast(j, {Worker(c)})'
      BY <3>1, <3>2, AfterSent
    <3> QED BY <3>2, <3>3 DEF WorkerLast, WorkerAfter, Worker
  <2>5. ~MarkSettledOnChain(s)
    <3>1. s.step # "mark"
      <4>1. Settles(s, 3) => c.name = "release"
        BY <1>3, HeadOf
      <4> QED BY <1>3, <4>1 DEF ScriptRow
    <3> QED BY <3>1 DEF MarkSettledOnChain
  <2> QED BY <2>1, <2>2, <2>3, <2>4, <2>5 DEF Advances
<1> HIDE DEF Goal
<1>7. Goal
  BY <1>2, <1>4, <1>5, <1>6 DEF WalletMoves
<1> QED BY <1>7 DEF Goal

\* A call that sets a worker is one there was, or that of a claim.
LEMMA NewScripts ==
    ASSUME WorkTyped, WorkMoves, NEW x \in scripts', x \notin scripts
    PROVE  \/ \E s \in scripts : Advances(s, x)
           \/ Head(x.calls).name \notin {"setWorker", "clearWorker"}
           \/ \E p \in Requests : Answers(p) /\ proc[p].op # "submit" /\ Tells(x, proc[p])
<1> DEFINE Goal == \/ \E s \in scripts : Advances(s, x)
                   \/ Head(x.calls).name \notin {"setWorker", "clearWorker"}
                   \/ \E p \in Requests : Answers(p) /\ proc[p].op # "submit" /\ Tells(x, proc[p])
<1>0. \A s : Launch(s) => x = s
  BY DEF Launch
<1>1. ASSUME NEW p \in Requests, NEW s, CallBegun(p, s) PROVE Goal
  BY <1>0, <1>1 DEF CallBegun
<1>2. ASSUME NEW p \in Requests, Answers(p) PROVE Goal
  BY <1>0, <1>2 DEF Answers
<1>3. ASSUME NEW p \in Requests, SettlesJob(p) PROVE Goal
  <2>1. PICK s : Settles(s, 5) /\ ScriptRow(s) /\ Launch(s)
    BY <1>3 DEF SettlesJob
  <2>2. Head(s.calls).name = "approve"
    BY <2>1, HeadOf
  <2> QED BY <1>0, <2>1, <2>2
<1>4. scripts' # scripts
  OBVIOUS
<1>5. ASSUME NEW p \in Requests, Checks(p) \/ Writes(p) \/ Decides(p) \/ Spends(p) \/ RouteBegun(p) \/ OtherBegun(p) PROVE FALSE
  BY <1>4, <1>5 DEF Checks, Writes, Decides, Spends, RouteBegun, OtherBegun, walletVars
<1>6. ~Bystands /\ ~(\E j \in Jobs : Lapse(j)) /\ ~ForgetWork
  BY <1>4 DEF Bystands, Lapse, ForgetWork, LoseScripts, walletVars
<1>7. WalletStep => Goal
  <2>1. ASSUME NEW s \in scripts, ScriptSteps(s) PROVE Goal
    BY <2>1, WalletMovesCases, ScriptEffect DEF Becomes, WorkTyped
  <2>2. ~Mine /\ ~(\E j \in Jobs : FundTask(j) \/ LeaveEscrow(j))
    BY <1>4 DEF FundTask, LeaveEscrow, Mine
  <2> QED BY <2>1, <2>2 DEF WalletStep, ScriptSteps
<1> HIDE DEF Goal
<1>8. Goal
  BY <1>1, <1>2, <1>3, <1>5, <1>6, <1>7 DEF WorkMoves
<1> QED BY <1>8 DEF Goal

LEMMA SetMoves ==
    ASSUME WorkTyped, WorkMoves, NEW x \in scripts', NEW j \in Jobs, NEW w \in Accounts,
           x.calls = <<Call("setWorker", j, w)>>
    PROVE  \/ \E s \in scripts : s.calls = x.calls
           \/ \E p \in Requests : Answers(p) /\ proc[p].op = "claim" /\ proc[p].job = j /\ proc[p].account = w
<1>0. Head(x.calls).name = "setWorker" /\ x.calls # <<>>
  <2>1. Head(x.calls) = Call("setWorker", j, w)
    OBVIOUS
  <2> QED BY <2>1 DEF Call
<1>1. CASE x \in scripts
  BY <1>1
<1>2. ASSUME NEW s \in scripts, Advances(s, x) PROVE s.calls = x.calls
  <2>0. ScriptRow(s)
    BY DEF WorkTyped, WalletTables
  <2>1. CASE Stays(s, x)
    BY <2>1 DEF Stays
  <2>2. ASSUME Drops(s, x), \A k \in 1..5 : Settles(s, k) => \E l \in 0..4 : Settles(x, l) PROVE FALSE
    <3>1. ~OneCall(s) /\ ScriptRow(x)
      BY <1>0, <2>2 DEF Drops
    <3>2. PICK l \in 0..4 : Settles(x, l)
      BY <2>0, <2>2, <3>1 DEF ScriptRow
    <3>3. l # 0
      BY <1>0, <3>2, OnwardsNone DEF Settles
    <3>4. l = 1 \/ l = 2 \/ l = 3 \/ l = 4
      BY <3>3
    <3> QED BY <1>0, <3>1, <3>2, <3>4, HeadOf
  <2>3. x = Pop(s) \/ x = Rest(s) => FALSE
    BY <2>0, <2>2, PopDrops, RestDrops
  <2> QED BY <1>2, <2>1, <2>3 DEF Advances
<1>3. ASSUME NEW p \in Requests, Answers(p), proc[p].op # "submit", Tells(x, proc[p])
      PROVE  proc[p].op = "claim" /\ proc[p].job = j /\ proc[p].account = w
  <2> DEFINE r == proc[p]
             name == IF r.op = "claim" THEN "setWorker" ELSE "clearWorker"
             who == IF r.op = "claim" THEN r.account ELSE None
  <2>1. <<Call(name, r.job, who)>> = <<Call("setWorker", j, w)>>
    BY <1>3 DEF Tells
  <2> HIDE DEF name, who
  <2>2. name = "setWorker" /\ r.job = j /\ who = w
    BY <2>1, CallsEqual
  <2> QED BY <2>2 DEF name, who
<1> QED BY <1>0, <1>1, <1>2, <1>3, NewScripts

\* Under way smoothly, only a claim or giving it back changes who holds a job.
LEMMA HolderFollows ==
    ASSUME AccessTyped, WorkTyped, WorkMoves, alone, FollowInv, Smooth, kept', NEW j \in Jobs
    PROVE  \/ holder'[j] = holder[j]
           \/ GivesBack(j)'
           \/ holder[j] = None /\ ~GivesBack(j) /\ UNCHANGED walletVars
<1>1. ASSUME NEW p \in Requests, proc[p] # Idle, Writes(p)
      PROVE  \/ holder'[j] = holder[j]
             \/ GivesBack(j)'
             \/ holder[j] = None /\ ~GivesBack(j) /\ UNCHANGED walletVars
  <2> DEFINE r == proc[p]
  <2>0. /\ r.step = "write" /\ r.op \in Routes /\ r.was = holder[r.job] /\ (r.op = "claim" => r.was = None)
        /\ UNCHANGED walletVars
    BY <1>1 DEF Writes, FollowInv, FollowRow
  <2>1. ~GivesBack(j)
    BY <1>1, <2>0, IdleRow DEF GivesBack, AccessTyped, RowsTyped, Lonely
  <2>2. CASE j # r.job
    BY <1>1, <2>2, WriteFacts
  <2>3. CASE j = r.job /\ r.op = "claim"
    BY <2>0, <2>1, <2>3
  <2>4. CASE j = r.job /\ r.op = "unclaim"
    <3>1. proc'[p].op = "unclaim" /\ proc'[p].step = "answer" /\ proc'[p].job = j
      BY <1>1, <2>4 DEF Writes, Continues
    <3> QED BY <3>1 DEF GivesBack
  <2>5. CASE j = r.job /\ r.op = "submit"
    <3>1. job'[j] \in {"queued", "rework", "submitted"} /\ (job'[j] = "rework" => ~kept')
          /\ (job'[j] = "submitted" => holder'[j] = r.was)
      BY <1>1, <2>5, WriteFacts
    <3>2. job'[j] # "queued"
      <4>1. PICK status \in {"claimed", "queued", "submitted", "rework"} :
                /\ r.op = "unclaim" <=> status = "queued"
                /\ job' = [job EXCEPT ![r.job] = status]
        BY <1>1 DEF Writes
      <4> QED BY <2>5, <4>1 DEF WorkTyped, WorkTables
    <3> QED BY <2>0, <2>5, <3>1, <3>2
  <2> QED BY <2>0, <2>2, <2>3, <2>4, <2>5 DEF Routes
<1>2. ASSUME NEW p \in Requests, Decides(p) PROVE holder'[j] = holder[j]
  BY <1>2, DecideFacts
<1> QED BY <1>1, <1>2, HolderMoves DEF Lapse

LEMMA KeptBack ==
    ASSUME WorkTyped, WorkMoves, kept'
    PROVE  kept
<1>1. ASSUME NEW p \in Requests, Writes(p) \/ Decides(p) PROVE kept
  BY <1>1, WriteFacts, DecideFacts
<1> QED BY <1>1, HolderMoves DEF Lapse

\* What a task has once its last transaction is an agent's, or none's
LEMMA LastFollows ==
    ASSUME AccessTyped, WorkTyped, WorkMoves, InOrder, Estimated, HeldInv, FollowInv, Smooth, orderly', NEW j \in Jobs,
           escrow'[j].state = "funded"
    PROVE  \/ InTurn(j)' /\ WorkerLast(j, {None})' /\ escrow[j].state # "funded"
           \/ escrow[j].state = "funded" /\ InTurn(j)' /\ \A S : WorkerLast(j, S) => WorkerLast(j, S)'
           \/ escrow[j].state = "funded" /\ InTurn(j)' /\ WorkerLast(j, {None})'
           \/ /\ escrow[j].state = "funded" /\ InTurn(j)'
              /\ \E s \in scripts, w \in Accounts :
                    /\ SendCall(s) /\ s.calls = <<Call("setWorker", j, w)>> /\ WorkerLast(j, {w})'
<1>0. WalletMoves /\ WalletTables /\ FollowTask(j) /\ (escrow[j].state = "unfunded" => escrow[j].worker = None)
  BY WalletMovesCases DEF WorkTyped, FollowInv, HeldInv
<1>1. escrow[j].state = "funded" => InTurn(j)
  BY <1>0 DEF FollowTask
<1>2. ASSUME escrow[j].state = "funded", NEW s \in scripts, NEW c, c = Head(s.calls), SendCall(s), About(c, j),
             WorkerLast(j, {Worker(c)})', c.name = "clearWorker" \/ WorkerLast(j, {None}) => InTurn(j)'
      PROVE  \/ InTurn(j)' /\ WorkerLast(j, {None})'
             \/ /\ InTurn(j)'
                /\ \E w \in Accounts : s.calls = <<Call("setWorker", j, w)>> /\ WorkerLast(j, {w})'
  <2>1. CASE c.name = "clearWorker"
    <3>1. Worker(c) = None
      BY <2>1 DEF Worker
    <3>2. WorkerLast(j, {None})'
      BY <1>2, <3>1 DEF WorkerLast, WorkerAfter, Worker
    <3> QED BY <1>2, <2>1, <3>2
  <2>2. CASE c.name = "setWorker"
    <3>0. ScriptRow(s) /\ CallFits(c)
      BY <1>0, <1>2, HeadFits DEF WalletTables
    <3>1. OneCall(s)
      <4>1. \A k \in 1..5 : ~Settles(s, k)
        <5> TAKE k \in 1..5
        <5>1. k = 1 \/ k = 2 \/ k = 3 \/ k = 4 \/ k = 5
          OBVIOUS
        <5> QED BY <1>2, <2>2, <3>0, <5>1, HeadOf
      <4> QED BY <3>0, <4>1 DEF ScriptRow
    <3>2. PICK name \in CallNames, w \in {s.who, None} : s.calls = <<Call(name, s.job, w)>>
      BY <3>1 DEF OneCall
    <3>3. c = Call(name, s.job, w)
      BY <1>2, <3>2
    <3>4. name = "setWorker" /\ s.job = j /\ c.who = w /\ w \in Accounts
      BY <1>2, <2>2, <3>0, <3>3 DEF Call, CallFits, About
    <3>5. s.calls = <<Call("setWorker", j, w)>>
      BY <3>2, <3>4
    <3>6. WorkerLast(j, {None})
      BY <1>2, <3>4, <3>5 DEF FollowInv, FollowScript
    <3>7. Worker(c) = w
      BY <2>2, <3>4 DEF Worker
    <3>8. WorkerLast(j, {w})'
      BY <1>2, <3>7 DEF WorkerLast, WorkerAfter, Worker
    <3> QED BY <1>2, <3>4, <3>5, <3>6, <3>8
  <2> QED BY <1>2, <2>1, <2>2 DEF About
<1>3. \/ InTurn(j)' /\ WorkerLast(j, {None})' /\ escrow[j].state # "funded"
      \/ escrow[j].state = "funded" /\ InTurn(j)' /\ \A S : WorkerLast(j, S) => WorkerLast(j, S)'
      \/ /\ escrow[j].state = "funded"
         /\ \E s \in scripts : LET c == Head(s.calls) IN
               /\ SendCall(s) /\ About(c, j) /\ WorkerLast(j, {Worker(c)})'
               /\ c.name = "clearWorker" \/ WorkerLast(j, {None}) => InTurn(j)'
  BY <1>0, <1>1, AfterStep
<1> QED BY <1>2, <1>3

LEMMA RowsFollow ==
    ASSUME AccessTyped, WorkTyped, WorkMoves, InOrder, Estimated, HeldInv, FollowInv, Smooth, orderly', kept', faults' = 0,
           NEW q \in Requests, NEW x, x = proc'[q]
    PROVE  FollowRow(x)'
<1>0. FollowRow(proc[q]) /\ WalletMoves /\ WalletTables
  BY WalletMovesCases DEF FollowInv, WorkTyped
<1>1. CASE x = proc[q] /\ x.op \in Routes
  <2>1. x # Idle
    BY <1>1, IdleRow DEF Routes
  <2>2. \A p \in Requests : proc[p] # Idle => p = q
    BY <1>1, <2>1 DEF Smooth, AccessTyped, RowsTyped, Lonely
  <2>3. ~Decides(q)
    BY <1>1 DEF Decides, Routes
  <2>4. Writes(q) => x.step # "write" /\ x.step # "answer"
    BY <1>1 DEF Writes
  <2>5. holder' = holder \/ Writes(q)
    BY <2>2, <2>3, HolderMoves DEF Lapse
  <2>6. ASSUME x.step = "answer", x.op = "claim"
        PROVE  ~Appoints(x.job)' /\ (escrow'[x.job].state = "funded" => WorkerLast(x.job, {None})' \/ Clears(x.job)')
    <3> DEFINE j == x.job
    <3>0. j \in Jobs
      BY <1>1 DEF WorkTyped, WorkRows, WorkRow, RouteRow
    <3>1. ~Appoints(j) /\ (escrow[j].state = "funded" => WorkerLast(j, {None}) \/ Clears(j))
      BY <1>0, <1>1, <2>6 DEF FollowRow
    <3> HIDE DEF j
    <3>2. ~Answers(q) /\ \A p \in Requests : Answers(p) => p = q
      <4>1. ~Answers(q)
        BY <1>1, <2>1 DEF Answers
      <4>2. \A p \in Requests : Answers(p) => proc[p] # Idle
        BY IdleRow DEF Answers, Routes
      <4> QED BY <2>2, <4>1, <4>2
    <3>3. ASSUME NEW y \in scripts', NEW w \in Accounts, y.calls = <<Call("setWorker", j, w)>> PROVE FALSE
      BY <3>0, <3>1, <3>2, <3>3, SetMoves DEF Appoints
    <3>4. ~Appoints(j)'
      BY <3>3 DEF Appoints
    <3>5. ASSUME escrow'[j].state = "funded" PROVE WorkerLast(j, {None})' \/ Clears(j)'
      <4>1. ASSUME NEW s \in scripts, NEW w \in Accounts PROVE s.calls # <<Call("setWorker", j, w)>>
        BY <3>1, <4>1 DEF Appoints
      <4>2. CASE Clears(j)
        <5>1. escrow[j].state = "funded" => InTurn(j)
          BY <3>0 DEF FollowInv, FollowTask
        <5> QED BY <1>0, <3>0, <3>5, <4>2, <5>1, ClearsMoves
      <4> QED BY <3>0, <3>1, <3>5, <4>1, <4>2, LastFollows
    <3> QED BY <3>4, <3>5 DEF j
  <2> QED BY <1>0, <1>1, <2>4, <2>5, <2>6 DEF FollowRow
<1>2. CASE x.op \notin Routes \/ x.step \notin {"write", "answer"}
  BY <1>2 DEF FollowRow
<1>3. CASE RouteBegun(q) \/ x.step = "permission"
  BY <1>2, <1>3 DEF RouteBegun
<1>4. CASE Checks(q)
  <2>1. CASE x = Idle
    BY <1>2, <2>1, IdleRow DEF Routes
  <2>2. CASE x # Idle /\ x.step = "write"
    <3>1. /\ x.op \in Routes /\ x.job \in Jobs /\ x.was = holder[x.job] /\ holder' = holder
          /\ Continues(proc[q], x) /\ RowAllows(proc[q])
      BY <1>4, <2>2 DEF Checks, Continues, RouteRow, workVars
    <3>2. x.op = "claim" => job[x.job] \in {"queued", "rework"}
      BY <3>1 DEF RowAllows, Continues
    <3>3. x.op = "claim" => holder[x.job] = None
      BY <3>1, <3>2 DEF HeldInv
    <3> QED BY <2>2, <3>1, <3>3 DEF FollowRow
  <2>3. CASE x # Idle /\ x.step # "write"
    BY <1>2, <1>4, <2>3 DEF Checks
  <2> QED BY <2>1, <2>2, <2>3
<1>5. CASE Writes(q)
  <2>1. x.step = "answer" /\ Continues(proc[q], x) /\ UNCHANGED walletVars /\ proc[q].step = "write" /\ proc[q].op \in Routes
    BY <1>5 DEF Writes
  <2>2. ASSUME x.op = "claim"
        PROVE  /\ holder'[x.job] = x.account /\ ~Appoints(x.job)'
               /\ escrow'[x.job].state = "funded" => WorkerLast(x.job, {None})' \/ Clears(x.job)'
    <3>0. proc[q].op = "claim" /\ proc[q].job = x.job /\ proc[q].account = x.account
      BY <2>1, <2>2 DEF Continues
    <3>1. x.job \in Jobs /\ holder'[x.job] = x.account
      <4>1. proc[q].job \in Jobs /\ holder'[proc[q].job] = proc[q].account
        BY <1>5, <3>0, WriteFacts
      <4> QED BY <3>0, <4>1
    <3>2. holder[x.job] = None
      BY <1>0, <2>1, <3>0 DEF FollowRow
    <3>3. ~GivesBack(x.job)
      BY <2>1, <3>0, IdleRow DEF GivesBack, AccessTyped, RowsTyped, Lonely, Smooth, Routes
    <3>4. ~Appoints(x.job)
      BY <3>1, <3>2, <3>3, NoneAssumption DEF Appoints, FollowInv, FollowScript
    <3>5. escrow[x.job].state = "funded" => WorkerLast(x.job, {None}) \/ Clears(x.job)
      <4>1. {None, holder[x.job]} = {None}
        BY <3>2
      <4> QED BY <3>1, <3>3, <4>1 DEF FollowInv, FollowTask
    <3>6. ~Appoints(x.job)' /\ (Clears(x.job) => Clears(x.job)') /\ escrow' = escrow /\ UNCHANGED <<sent, mined>>
      BY <2>1, <3>4 DEF Appoints, Clears, walletVars, contractVars
    <3>7. WorkerLast(x.job, {None}) => WorkerLast(x.job, {None})'
      BY <3>6, AfterStays
    <3> QED BY <3>1, <3>5, <3>6, <3>7
  <2> QED BY <2>1, <2>2 DEF FollowRow
<1>6. CASE Answers(q)
  BY <1>2, <1>6, IdleRow DEF Answers, Routes
<1> QED BY <1>1, <1>2, <1>3, <1>4, <1>5, <1>6, RouteMoves

LEMMA TasksFollow ==
    ASSUME AccessTyped, WorkTyped, WorkMoves, InOrder, Estimated, HeldInv, FollowInv, Smooth, Smooth', NEW j \in Jobs,
           escrow'[j].state = "funded"
    PROVE  InTurn(j)' /\ (WorkerLast(j, {None, holder[j]})' \/ GivesBack(j)' \/ Clears(j)')
<1>0. WalletMoves /\ WalletTables /\ orderly' /\ kept' /\ faults' = 0 /\ alone /\ FollowTask(j)
  BY WalletMovesCases DEF WorkTyped, Smooth, FollowInv
<1>1. \/ holder'[j] = holder[j]
      \/ GivesBack(j)'
      \/ holder[j] = None /\ UNCHANGED walletVars
  BY <1>0, HolderFollows
<1>2. ASSUME GivesBack(j), escrow[j].state = "funded" PROVE GivesBack(j)' \/ Clears(j)'
  <2>1. Setting.chain
    BY <1>2 DEF HeldInv
  <2> QED BY <1>0, <1>2, <2>1, GivesBackMoves, ClearLaunched
<1>3. WorkerLast(j, {None})' => WorkerLast(j, {None, holder[j]})'
  BY DEF WorkerLast, WorkerAfter
<1>4. ASSUME NEW w, w = holder'[j], WorkerLast(j, {None, w})' \/ WorkerLast(j, {w})' PROVE WorkerLast(j, {None, holder[j]})'
  BY <1>4 DEF WorkerLast, WorkerAfter, Worker
<1>5. CASE escrow[j].state = "funded" /\ InTurn(j)' /\ \A S : WorkerLast(j, S) => WorkerLast(j, S)'
  <2>1. CASE Clears(j)
    BY <1>0, <1>3, <1>5, <2>1, ClearsMoves DEF FollowTask
  <2>2. ASSUME NEW w, w = holder[j], WorkerLast(j, {None, w})
        PROVE  WorkerLast(j, {None, holder[j]})' \/ GivesBack(j)'
    <3>1. WorkerLast(j, {None, w})'
      BY <1>5, <2>2
    <3>2. CASE holder'[j] = w
      BY <1>4, <3>1, <3>2
    <3>3. CASE w = None
      <4>1. WorkerLast(j, {None})'
        BY <3>1, <3>3 DEF WorkerLast, WorkerAfter
      <4> QED BY <1>3, <4>1
    <3> QED BY <1>1, <2>2, <3>2, <3>3
  <2> QED BY <1>0, <1>2, <1>5, <2>1, <2>2 DEF FollowTask
<1>6. ASSUME NEW s \in scripts, NEW w \in Accounts, escrow[j].state = "funded", InTurn(j)',
             SendCall(s), s.calls = <<Call("setWorker", j, w)>>, WorkerLast(j, {w})'
      PROVE  WorkerLast(j, {None, holder[j]})' \/ GivesBack(j)' \/ Clears(j)'
  <2>1. w = holder[j] \/ GivesBack(j)
    BY <1>6 DEF FollowInv, FollowScript
  <2>2. w = holder[j] => holder[j] # None
    BY NoneAssumption
  <2>3. w = holder'[j] => WorkerLast(j, {None, holder[j]})'
    BY <1>4, <1>6
  <2> QED BY <1>1, <1>2, <1>6, <2>1, <2>2, <2>3
<1> QED BY <1>0, <1>3, <1>5, <1>6, LastFollows

LEMMA ScriptsFollow ==
    ASSUME AccessTyped, WorkTyped, WorkMoves, InOrder, Estimated, HeldInv, FollowInv, Smooth, Smooth', NEW x \in scripts',
           NEW j \in Jobs, NEW w \in Accounts, x.calls = <<Call("setWorker", j, w)>>
    PROVE  /\ w = holder'[j] \/ GivesBack(j)'
           /\ escrow'[j].state = "funded" => WorkerLast(j, {None})'
<1>0. orderly' /\ kept' /\ faults' = 0 /\ alone /\ orderly
  BY DEF Smooth
<1>1. ASSUME NEW s \in scripts, s.calls = x.calls
      PROVE  /\ w = holder'[j] \/ GivesBack(j)'
             /\ escrow'[j].state = "funded" => WorkerLast(j, {None})'
  <2>1. /\ w = holder[j] \/ GivesBack(j)
        /\ escrow[j].state = "funded" => WorkerLast(j, {None})
    BY <1>1 DEF FollowInv, FollowScript
  <2>2. GivesBack(j) => GivesBack(j)'
    BY <1>0, <1>1, GivesBackMoves, ClearLaunched
  <2>3. w = holder[j] => holder'[j] = holder[j] \/ GivesBack(j)'
    BY <1>0, HolderFollows, NoneAssumption
  <2>4. ASSUME NEW y \in scripts, SendCall(y) PROVE FALSE
    <3>1. \A z \in scripts : z = s
      BY <1>0 DEF InOrder
    <3>2. y = s
      BY <3>1
    <3>3. Head(s.calls) = Call("setWorker", j, w) /\ Tail(s.calls) = <<>>
      BY <1>1
    <3>4. Head(s.calls).name = "setWorker"
      BY <3>3 DEF Call
    <3>5. PICK t : Advances(s, t) /\ Becomes(s, t)
      BY <2>4, <3>2, ScriptEffect DEF ScriptSteps, WorkTyped
    <3>6. SendCall(s) => Becomes(s, Pop(s))
      BY <3>4 DEF SendCall, Pop
    <3>7. Pop(s).calls = <<>>
      <4>1. ScriptFields(s)
        BY DEF WorkTyped, WalletTables, ScriptRow
      <4> QED BY <3>3, <4>1 DEF Pop, ScriptFields
    <3>8. scripts' = scripts \ {s}
      BY <2>4, <3>2, <3>6, <3>7 DEF Becomes
    <3> QED BY <3>1, <3>8
  <2>5. ASSUME escrow'[j].state = "funded" PROVE WorkerLast(j, {None})'
    BY <1>0, <2>1, <2>4, <2>5, LastFollows
  <2> QED BY <2>1, <2>2, <2>3, <2>5
<1>2. ASSUME NEW p \in Requests, Answers(p), proc[p].op = "claim", proc[p].job = j, proc[p].account = w, x \notin scripts
      PROVE  w = holder'[j] /\ (escrow'[j].state = "funded" => WorkerLast(j, {None})')
  <2>1. w = holder[j] /\ (escrow[j].state = "funded" => WorkerLast(j, {None}) \/ Clears(j))
    BY <1>2 DEF FollowInv, FollowRow, Answers, Routes
  <2>2. holder' = holder /\ UNCHANGED contractVars
    BY <1>2 DEF Answers
  <2>3. scripts = {}
    <3>1. PICK s : Launch(s)
      BY <1>2 DEF Answers
    <3> QED BY <1>0, <1>2, <3>1 DEF Launch
  <2>4. ~Clears(j)
    BY <2>3 DEF Clears
  <2>5. WorkerLast(j, {None}) => WorkerLast(j, {None})'
    BY <2>2, AfterStays DEF contractVars
  <2> QED BY <2>1, <2>2, <2>4, <2>5 DEF contractVars
<1>3. CASE x \in scripts
  BY <1>1, <1>3
<1>4. CASE x \notin scripts
  <2>1. \/ \E s \in scripts : s.calls = x.calls
        \/ \E p \in Requests : Answers(p) /\ proc[p].op = "claim" /\ proc[p].job = j /\ proc[p].account = w
    BY SetMoves
  <2> QED BY <1>1, <1>2, <1>4, <2>1
<1> QED BY <1>3, <1>4

LEMMA FollowKept ==
    ASSUME AccessTyped, WorkTyped, WorkMoves, InOrder, MarksInv, HeldInv, FollowInv, alone' => alone, faults' = 0 => faults = 0
    PROVE  FollowInv'
<1> SUFFICES ASSUME Smooth'
             PROVE  /\ \A j \in Jobs : FollowTask(j)'
                    /\ \A s \in scripts' : FollowScript(s)'
                    /\ \A p \in Requests : FollowRow(proc[p])'
  BY DEF FollowInv
<1>0. Smooth /\ Estimated
  BY OrderlyBack, KeptBack, WalletMovesCases DEF Smooth, WorkTyped, MarksInv
<1>1. \A j \in Jobs : FollowTask(j)'
  BY <1>0, TasksFollow DEF FollowTask
<1>2. \A s \in scripts' : FollowScript(s)'
  BY <1>0, ScriptsFollow DEF FollowScript
<1>3. ASSUME NEW p \in Requests PROVE FollowRow(proc[p])'
  <2>1. ASSUME NEW x, x = proc'[p] PROVE FollowRow(x)'
    BY <1>0, <2>1, RowsFollow DEF Smooth
  <2> QED BY <2>1 DEF FollowRow
<1> QED BY <1>1, <1>2, <1>3

-----------------------------------------------------------------------------
(* The invariant of work                                                      *)

WorkInv == WorkTyped /\ DepositsInv /\ MarksInv /\ KeysInv /\ AllowedInv /\ HeldInv /\ FollowInv

LEMMA WorkInvKeeps ==
    ASSUME AccessTyped, WorkInv
    PROVE  WorkKept
<1>0. WorkTyped /\ WalletTables /\ Bounded /\ InOrder
  BY DEF WorkInv, DepositsInv, WorkTyped
<1>1. KeysAnswer /\ ActsAllowed
  BY AllowedActs DEF WorkInv, KeysInv
<1>2. MarkedHasLeft
  <2>0. Len(sent) \in Nat /\ DOMAIN sent = 1..Len(sent) /\ mined \in 0..Len(sent)
    BY <1>0, SentFacts DEF WalletTables
  <2>1. ASSUME NEW j \in settled
        PROVE  \/ escrow[j].state \in {"released", "refunded"}
               \/ \E k \in DOMAIN sent : IsRelease(k, j) /\ (k > mined \/ Overtaken(k))
    <3>1. PICK k \in 1..Len(sent) : IsRelease(k, j)
      BY <2>1 DEF WorkInv, MarksInv, Marked, SentRelease
    <3>2. CASE k \in 1..mined
      BY <2>0, <3>1, <3>2 DEF WorkInv, MarksInv, Vain, IsRelease, Gone
    <3>3. CASE k > mined
      BY <2>0, <3>1, <3>3
    <3> QED BY <2>0, <3>2, <3>3
  <2>2. ASSUME orderly, scripts = {}, NEW j \in Jobs, escrow[j].state = "released" PROVE j \in settled
    BY <2>2 DEF WorkInv, MarksInv, Released
  <2> QED BY <2>1, <2>2 DEF MarkedHasLeft
<1>3. DepositsMatchSettlements
  <2>1. epochs.distributed \subseteq epochs.scored
    BY DEF WorkInv, MarksInv
  <2>2. ASSUME NEW d \in Depositories PROVE deposits[d] + allowance[d] <= Share[d] * accepts
    <3>1. /\ Cardinality(Coming(d)) \in Nat /\ Cardinality(Unmined("approve", d)) \in Nat
          /\ deposits[d] \in Nat /\ allowance[d] \in Nat /\ accepts \in Nat
      BY <1>0, CountsAreNat
    <3>2. deposits[d] + allowance[d] + Share[d] * (Cardinality(Coming(d)) + Cardinality(Unmined("approve", d)))
             <= Share[d] * accepts
      BY <1>0 DEF Bounded
    <3>3. Share[d] = 9 \/ Share[d] = 1
      BY ShareCases
    <3> QED BY <3>1, <3>2, <3>3
  <2>3. ASSUME orderly, scripts = {}, mined = Len(sent), NEW d \in Depositories
        PROVE  deposits[d] = Share[d] * (accepts - missed[d])
    <3>1. deposits[d] + Share[d] * (Cardinality(Unmined("deposit", d)) + Unsent(d) + missed[d]) = Share[d] * accepts
      BY <1>0, <2>3 DEF InOrder, OrderOf
    <3>2. Unsent(d) = 0
      BY <2>3 DEF Unsent
    <3>3. Cardinality(Unmined("deposit", d)) = 0
      <4>1. Len(sent) \in Nat
        BY <1>0, SentFacts DEF WalletTables
      <4>2. Unmined("deposit", d) = {}
        BY <2>3, <4>1 DEF Unmined
      <4> QED BY <4>2, FS_EmptySet
    <3>4. deposits[d] \in Nat /\ missed[d] \in Nat /\ accepts \in Nat
      BY <1>0, CountsAreNat DEF WalletTables
    <3>5. Share[d] = 9 \/ Share[d] = 1
      BY ShareCases
    <3>6. ASSUME NEW x \in Nat, NEW m \in Nat, NEW a \in Nat, NEW s \in {1, 9}, x + s * (0 + 0 + m) = s * a
          PROVE  x = s * (a - m)
      BY <3>6
    <3>7. deposits[d] + Share[d] * (0 + 0 + missed[d]) = Share[d] * accepts
      BY <3>1, <3>2, <3>3
    <3>8. Share[d] \in {1, 9}
      BY <3>5
    <3> QED BY <3>4, <3>6, <3>7, <3>8
  <2> QED BY <2>1, <2>2, <2>3 DEF DepositsMatchSettlements
<1>4. EscrowFollows
  <2>1. spends \subseteq held
    BY DEF WorkInv, HeldInv
  <2>2. ASSUME orderly, kept, scripts = {}, mined = Len(sent), \A p \in Requests : proc[p] = Idle, faults = 0, alone,
               NEW j \in Jobs, escrow[j].state = "funded"
        PROVE  escrow[j].worker \in {None, holder[j]}
    <3>1. FollowTask(j)
      BY <2>2 DEF WorkInv, FollowInv, Smooth
    <3>2. ~GivesBack(j) /\ ~Clears(j)
      BY <2>2, IdleRow DEF GivesBack, Clears
    <3>3. Len(sent) \in Nat
      BY <1>0, SentFacts DEF WalletTables
    <3> QED BY <2>2, <3>1, <3>2, <3>3 DEF FollowTask, WorkerLast, WorkerAfter
  <2> QED BY <2>1, <2>2 DEF EscrowFollows
<1> QED BY <1>1, <1>2, <1>3, <1>4 DEF WorkKept

LEMMA WorkInvStarts ==
    ASSUME ClientInit
    PROVE  WorkInv
<1>1. /\ \A p \in Requests : proc[p] = Idle
      /\ DOMAIN job = Jobs /\ \A j \in Jobs : job[j] = "queued"
      /\ holder = [j \in Jobs |-> None] /\ store = {} /\ spends = {} /\ acts = <<>> /\ held = {} /\ kept = TRUE
  BY DEF ClientInit, ServicesInit, RequestsInit, WorkInit
<1>2. /\ escrow = [j \in Jobs |-> [state |-> "unfunded", worker |-> None]]
      /\ allowance = [d \in Depositories |-> 0] /\ deposits = [d \in Depositories |-> 0]
      /\ epochs = [scored |-> {}, distributed |-> {}]
      /\ sent = <<>> /\ mined = 0 /\ scripts = {} /\ settled = {} /\ accepts = 0 /\ orderly = TRUE
      /\ missed = [d \in Depositories |-> 0]
  BY DEF ClientInit, ServicesInit, WalletInit
<1>3. WorkTyped
  <2>1. WorkRows
    BY <1>1, IdleWorkRow DEF WorkRows
  <2>2. WorkTables
    BY <1>1 DEF WorkTables
  <2>3. WalletTables
    <3>1. SentTyped /\ Len(sent) = 0
      BY <1>2 DEF SentTyped
    <3> QED BY <1>2, <3>1, FS_EmptySet DEF WalletTables, EscrowType
  <2> QED BY <2>1, <2>2, <2>3 DEF WorkTyped
<1>4. DepositsInv
  <2> SUFFICES ASSUME NEW d \in Depositories
               PROVE  /\ deposits[d] + allowance[d] + Share[d] * (Cardinality(Coming(d)) + Cardinality(Unmined("approve", d)))
                            <= Share[d] * accepts
                      /\ OrderOf(d)
    BY <1>2 DEF DepositsInv, Bounded, InOrder
  <2>1. deposits[d] = 0 /\ allowance[d] = 0 /\ missed[d] = 0 /\ accepts = 0 /\ Len(sent) = 0
    BY <1>2
  <2>2. Coming(d) = {} /\ \A name : Unmined(name, d) = {}
    BY <1>2, <2>1 DEF Coming, Unmined
  <2>3. Cardinality(Coming(d)) = 0 /\ \A name : Cardinality(Unmined(name, d)) = 0
    BY <2>2, FS_EmptySet
  <2>4. Unsent(d) = 0
    BY <1>2 DEF Unsent
  <2>5. OrderOf(d)
    BY <1>2, <2>1, <2>2, <2>3, <2>4, ShareCases DEF OrderOf
  <2> QED BY <2>1, <2>3, <2>5, ShareCases
<1>5. MarksInv
  <2>1. Len(sent) = 0
    BY <1>2
  <2>2. Estimated /\ WasSet /\ Vain /\ Marked
    BY <1>2, <2>1 DEF Estimated, WasSet, Vain, Marked
  <2>3. Released
    BY <1>2, <2>1 DEF Released, SentRelease
  <2> QED BY <1>2, <2>2, <2>3 DEF MarksInv
<1>6. KeysInv
  BY <1>1, IdleRow DEF KeysInv, KeysAnswer, AskedLater, Routes
<1>7. AllowedInv
  BY <1>1, IdleRow DEF AllowedInv, AllowedRow, Routes
<1>8. HeldInv
  BY <1>1, <1>2, IdleRow DEF HeldInv, HeldRow, Routes
<1>9. FollowInv
  BY <1>1, <1>2, IdleRow DEF FollowInv, FollowTask, FollowRow, Routes
<1> QED BY <1>3, <1>4, <1>5, <1>6, <1>7, <1>8, <1>9 DEF WorkInv

LEMMA WorkInvKept ==
    ASSUME AccessInv, AllSteps, WorkInv, ServicesNext
    PROVE  WorkInv'
<1>1. AccessTyped /\ ActiveIsRegistered
  BY DEF AccessInv, RegInv
<1>2. scene' = scene /\ (alone' => alone) /\ (faults' = 0 => faults = 0)
  BY <1>1, Steady
<1>3. /\ WorkTyped /\ WorkRows /\ WalletTables /\ Bounded /\ InOrder /\ MarksInv /\ KeysInv
      /\ AllowedInv /\ HeldInv /\ FollowInv
  BY DEF WorkInv, WorkTyped, DepositsInv
<1>4. WorkMoves
  BY <1>1, <1>2, <1>3, WorkCases, WorkMovesCases
<1>5. WalletMoves
  BY <1>3, <1>4, WalletMovesCases
<1>6. WorkTyped'
  BY <1>1, <1>3, <1>4, WorkTypedKept
<1>7. DepositsInv'
  BY <1>3, <1>5, MoneyKept, OrderKept DEF DepositsInv
<1>8. MarksInv'
  BY <1>3, <1>5, MarksKept
<1>9. KeysInv'
  BY <1>1, <1>2, <1>3, <1>4, KeysKept
<1>10. AllowedInv'
  BY <1>1, <1>2, <1>3, <1>4, AllowedKept
<1>11. HeldInv'
  BY <1>1, <1>2, <1>3, <1>4, HeldKept
<1>12. FollowInv'
  BY <1>1, <1>2, <1>3, <1>4, FollowKept
<1> QED BY <1>6, <1>7, <1>8, <1>9, <1>10, <1>11, <1>12 DEF WorkInv

\* Nothing that work rests on has moved: a stutter is a step beside it.
LEMMA WorkInvStill ==
    ASSUME AccessInv, WorkInv, UNCHANGED allVars
    PROVE  WorkInv'
<1>1. UNCHANGED <<scene, job, proc, faults, alone, accessVars, walletVars, workVars>>
  BY DEF allVars, servicesVars, requestVars
<1>2. AccessTyped /\ ActiveIsRegistered /\ RowsTyped /\ faults \in Nat
  BY DEF AccessInv, RegInv, AccessTyped, RowsTyped
<1>3. Aside
  BY <1>1, <1>2, StillAside
<1>4. UNCHANGED <<agentPageVars, ideaPageVars>>
  BY DEF allVars, clientVars
<1>5. AllSteps
  BY <1>1, <1>3, <1>4 DEF AllSteps
<1>6. clock \in Nat /\ clock' = clock
  BY <1>1, <1>2 DEF AccessTyped, AccessTables, accessVars
<1>7. Bystands
  BY <1>1, <1>6 DEF Bystands
<1>8. WorkMoves
  BY <1>7 DEF WorkMoves
<1>9. /\ WorkTyped /\ WorkRows /\ WalletTables /\ Bounded /\ InOrder /\ MarksInv /\ KeysInv
      /\ AllowedInv /\ HeldInv /\ FollowInv
  BY DEF WorkInv, WorkTyped, DepositsInv
<1>10. WalletMoves
  BY <1>1 DEF WalletMoves
<1>11. WorkTyped'
  BY <1>2, <1>8, <1>9, WorkTypedKept
<1>12. DepositsInv' /\ MarksInv'
  BY <1>9, <1>10, MoneyKept, OrderKept, MarksKept DEF DepositsInv
<1>13. KeysInv'
  BY <1>1, <1>2, <1>8, <1>9, KeysKept
<1>14. AllowedInv'
  BY <1>1, <1>2, <1>5, <1>8, <1>9, AllowedKept
<1>15. HeldInv' /\ FollowInv'
  BY <1>1, <1>2, <1>8, <1>9, HeldKept, FollowKept
<1> QED BY <1>11, <1>12, <1>13, <1>14, <1>15 DEF WorkInv

-----------------------------------------------------------------------------
(* The scenes of clients, whose routes are taken whole: no act, no call       *)

Bare ==
    /\ acts = <<>> /\ spends = {} /\ settled = {} /\ accepts = 0 /\ epochs.distributed = {}
    /\ \A d \in Depositories : deposits[d] = 0 /\ allowance[d] = 0 /\ missed[d] = 0
    /\ \A j \in Jobs : escrow[j].state = "unfunded"

LEMMA BareKeeps ==
    ASSUME Bare
    PROVE  WorkKept
<1>1. KeysAnswer /\ ActsAllowed
  BY DEF Bare, KeysAnswer, ActsAllowed
<1>2. EscrowFollows /\ MarkedHasLeft
  BY DEF Bare, EscrowFollows, MarkedHasLeft
<1>3. DepositsMatchSettlements
  BY ShareCases DEF Bare, DepositsMatchSettlements
<1> QED BY <1>1, <1>2, <1>3 DEF WorkKept

LEMMA BareStarts ==
    ASSUME ClientInit
    PROVE  Bare
BY DEF ClientInit, ServicesInit, WalletInit, WorkInit, Bare

LEMMA BareStays ==
    ASSUME Bare, UNCHANGED <<walletVars, acts, spends>>
    PROVE  Bare'
BY DEF Bare, walletVars, contractVars

LEMMA BoardLeavesWork ==
    ASSUME WorkerStep
    PROVE  UNCHANGED <<walletVars, acts, spends>>
<1>0. ServedByBroker => UNCHANGED <<walletVars, acts, spends>>
  BY DEF ServedByBroker
<1>1. ASSUME BoardMoves PROVE ServedByBroker
  BY <1>1, Zenon DEF BoardMoves, CloseDialog, OpenDialog, LeaseLapses
<1>2. ASSUME NEW p \in Requests, BoardArrives(p) PROVE ServedByBroker
  BY <1>2, Zenon DEF BoardArrives, Press, HandleDemoClaim, Command
<1>3. ASSUME NEW p \in Requests, BoardStep(p) PROVE ServedByBroker
  BY <1>3, Zenon DEF BoardStep, SignAction, Refused, ClaimJob, UnclaimJob, SubmitProof, Answered, PageFails
<1> QED BY <1>0, <1>1, <1>2, <1>3 DEF WorkerStep

LEMMA ReviewLeavesWork ==
    ASSUME ReviewerStep
    PROVE  UNCHANGED <<walletVars, acts, spends>>
<1>0. ReviewServed => UNCHANGED <<walletVars, acts, spends>>
  BY DEF ReviewServed
<1>1. ASSUME ReviewMoves PROVE ReviewServed
  BY <1>1, Zenon DEF ReviewMoves, Refetch, ToggleForm, Proceed, OpenReview, Resubmit
<1>2. ASSUME NEW p \in Requests, ReviewArrives(p) PROVE ReviewServed
  BY <1>2, Zenon DEF ReviewArrives, AskAccept, AskReject, AskRelease, AskSync, AskRecord, Ask
<1>3. ASSUME NEW p \in Requests, ReviewStep(p) PROVE ReviewServed
  BY <1>3, Zenon DEF ReviewStep, AcceptRoute, AcceptHalf, RejectRoute, ReleaseRoute, AttestRoute,
     RecordOnChain, ReviewAnswered, ReviewRefused, ReviewFails
<1> QED BY <1>0, <1>1, <1>2, <1>3 DEF ReviewerStep

LEMMA ClientsLeaveWork ==
    ASSUME WorkerStep \/ PosterStep \/ ReviewerStep \/ AgentsStep
    PROVE  UNCHANGED <<walletVars, acts, spends>>
<1>1. PosterStep \/ AgentsStep => UNCHANGED <<walletVars, acts, spends>>
  BY DEF PosterStep, AgentsStep, workVars
<1> QED BY <1>1, BoardLeavesWork, ReviewLeavesWork

LEMMA OfClientStays ==
    ASSUME scene' = scene
    PROVE  OfClient' = OfClient
BY DEF OfClient, AtWork, Posting, AtReview, SettingUp, Serves

ClientWorkInv == IF OfClient THEN Bare ELSE WorkInv

LEMMA ClientWorkKept ==
    ASSUME AccessInv, ClientWorkInv, ClientNext
    PROVE  ClientWorkInv'
<1>1. AllSteps /\ AccessTyped
  BY AccessTypedKept DEF AccessInv
<1>2. OfClient' = OfClient
  BY <1>1, Steady, OfClientStays
<1>3. ASSUME OfClient PROVE Bare'
  <2>1. WorkerStep \/ PosterStep \/ ReviewerStep \/ AgentsStep
    BY <1>3 DEF ClientNext, ServicesStep
  <2> QED BY <1>3, <2>1, ClientsLeaveWork, BareStays DEF ClientWorkInv
<1>4. ASSUME ~OfClient PROVE WorkInv'
  <2>1. ServicesNext
    BY <1>4 DEF ClientNext, ServicesStep, WorkerStep, PosterStep, ReviewerStep, AgentsStep, OfClient
  <2> QED BY <1>1, <1>4, <2>1, WorkInvKept DEF ClientWorkInv
<1> QED BY <1>2, <1>3, <1>4 DEF ClientWorkInv

LEMMA ClientWorkStill ==
    ASSUME AccessInv, ClientWorkInv, UNCHANGED allVars
    PROVE  ClientWorkInv'
<1>1. scene' = scene /\ UNCHANGED <<walletVars, acts, spends>>
  BY DEF allVars, servicesVars, requestVars, workVars
<1>2. OfClient' = OfClient
  BY <1>1, OfClientStays
<1>3. OfClient => Bare'
  BY <1>1, BareStays DEF ClientWorkInv
<1>4. ~OfClient => WorkInv'
  BY WorkInvStill DEF ClientWorkInv
<1> QED BY <1>2, <1>3, <1>4 DEF ClientWorkInv

\* Every request, call to a contract, lapse and restart keeps what work rests on, in any
\* order; the clients' scenes move none of it.
THEOREM WorkInductive == ClientSpec => []ClientWorkInv
<1>1. ClientInit => ClientWorkInv
  BY WorkInvStarts, BareStarts DEF ClientWorkInv
<1>2. AccessInv /\ ClientWorkInv /\ ClientNext => ClientWorkInv'
  BY ClientWorkKept
<1>3. AccessInv /\ ClientWorkInv /\ UNCHANGED allVars => ClientWorkInv'
  BY ClientWorkStill
<1> QED BY <1>1, <1>2, <1>3, AccessInductive, PTL DEF ClientSpec, allVars

\* Whoever overlaps, fails or restarts: a key answers for its time, who worked was
\* allowed to, TaskEscrow's worker follows the holder, deposits are what was settled, and
\* a mark stands for a task that has left (routes/jobs.ts 468-687, idempotencyStore.ts
\* 20-63, services/chainService.ts 507-1012).
THEOREM WorkIsKept == ClientSpec => []WorkKept
<1>1. AccessInv /\ ClientWorkInv => WorkKept
  BY WorkInvKeeps, BareKeeps DEF ClientWorkInv, AccessInv
<1> QED BY <1>1, AccessInductive, WorkInductive, PTL

-----------------------------------------------------------------------------
(* What limits requests, whatever else the broker serves                      *)

LEMMA OneStill ==
    ASSUME AccessTyped, NEW p \in Requests, OthersKeep(p), proc[p].op \notin LimitOps, proc'[p].op \notin LimitOps,
           UNCHANGED <<limitVars, clock, faults>>, alone' => alone
    PROVE  LimitsStill
BY DEF LimitsStill, OthersKeep, AccessTyped, AccessTables, RowsTyped

LEMMA AccessLeavesLimits ==
    ASSUME AccessTyped, LimitRows, NEW p \in Requests, UNCHANGED limitVars,
           AccessCall(p) \/ (proc[p] # Idle /\ AccessStep(p))
    PROVE  LimitsStill
<1>0. clock' = clock
  BY AccessClock
<1>1. CASE AccessCall(p)
  <2>1. OthersKeep(p) /\ faults' = faults /\ (alone' => alone) /\ proc[p].op \notin LimitOps /\ proc'[p].op \notin LimitOps
    BY <1>1, AccessCalls, IdleRow DEF LimitOps
  <2> QED BY <1>0, <2>1, OneStill
<1>2. CASE AccessStep(p)
  <2>1. OthersKeep(p) /\ Calm /\ (proc'[p] = Idle \/ proc'[p].op = proc[p].op)
    BY <1>2, AccessSteps
  <2>2. proc[p].op \notin LimitOps
    BY <1>2 DEF AccessStep, ChallengeUse, LimitRows, LimitRow, LimitOps
  <2> QED BY <1>0, <2>1, <2>2, OneStill, IdleRow DEF Calm, LimitOps
<1> QED BY <1>1, <1>2

LEMMA WorkLeavesLimits ==
    ASSUME AccessTyped, WorkTyped, NEW p \in Requests, UNCHANGED limitVars,
           \/ WalletCall(p) /\ UNCHANGED workVars
           \/ WorkArrives(p)
           \/ proc[p] # Idle /\ WorkStep(p)
    PROVE  LimitsStill
<1>1. clock' = clock
  BY WalletCallAside, WorkArrivesAside, WorkStepAside DEF AccessTyped, accessVars
<1>2. CASE (WalletCall(p) /\ UNCHANGED workVars) \/ WorkArrives(p)
  <2>1. Begun(p) /\ (RouteBegun(p) \/ OtherBegun(p) \/ \E s : CallBegun(p, s))
    BY <1>2, WalletCallBegins, WorkBegins DEF WorkTyped, WorkTables
  <2>2. proc'[p].op \notin LimitOps /\ proc[p].op \notin LimitOps
    BY <2>1, IdleRow DEF Begun, RouteBegun, OtherBegun, CallBegun, Routes, LimitOps
  <2> QED BY <1>1, <2>1, <2>2, OneStill DEF Begun
<1>3. CASE proc[p] # Idle /\ WorkStep(p)
  <2>1. OthersKeep(p) /\ (Checks(p) \/ Writes(p) \/ Answers(p) \/ Decides(p) \/ SettlesJob(p) \/ Spends(p))
    BY <1>3, ChecksCase, WritesCase, AnswersCase, DecidesCase, SettlesCase, SpendsCase DEF WorkStep
  <2>2. proc'[p].op \notin LimitOps /\ proc[p].op \notin LimitOps
    BY <2>1, IdleRow, SMTT(30) DEF Checks, Writes, Answers, Decides, SettlesJob, Spends, Continues, Routes, LimitOps
  <2>3. Calm
    BY <1>3 DEF WorkStep, CheckPermission, CheckWorkerStake, RowRead, RowWrite, Answer, JobAccepted, SettleOnChain,
       JobRejected, SpendInsert, Quiet
  <2> QED BY <1>1, <2>1, <2>2, <2>3, OneStill DEF Calm
<1> QED BY <1>2, <1>3

LEMMA ElsewhereLeavesLimits ==
    ASSUME AccessTyped, Elsewhere
    PROVE  LimitsStill
<1>0. clock \in Nat /\ faults \in Nat
  BY DEF AccessTyped, AccessTables, RowsTyped
<1>1. ASSUME proc' = proc, alone' = alone, UNCHANGED limitVars, clock' \in Nat, clock' >= clock,
             faults' = faults \/ faults' = faults + 1
      PROVE  LimitsStill
  BY <1>0, <1>1 DEF LimitsStill
<1>2. ASSUME Tick, UNCHANGED limitVars PROVE LimitsStill
  BY <1>0, <1>1, <1>2 DEF Tick, requestVars
<1>3. ASSUME WalletStep, UNCHANGED limitVars PROVE LimitsStill
  <2>1. clock' = clock
    BY <1>3, WalletStepAside DEF AccessTyped, accessVars
  <2>2. ASSUME NEW j, FundTask(j) \/ LeaveEscrow(j) PROVE LimitsStill
    BY <1>0, <1>1, <1>3, <2>1, <2>2 DEF FundTask, LeaveEscrow, requestVars
  <2>3. ASSUME NEW s, PrepareCall(s) \/ SendCall(s) \/ MarkSettledOnChain(s) PROVE LimitsStill
    BY <1>0, <1>1, <1>3, <2>1, <2>3 DEF PrepareCall, SendCall, MarkSettledOnChain, requestVars
  <2>4. ASSUME NEW s, CallFails(s) PROVE LimitsStill
    BY <1>0, <1>1, <1>3, <2>1, <2>4 DEF CallFails
  <2>5. CASE Mine
    BY <1>0, <1>1, <1>3, <2>1, <2>5 DEF Mine, requestVars
  <2> QED BY <1>3, <2>2, <2>3, <2>4, <2>5 DEF WalletStep
<1>4. ASSUME NEW j, Lapse(j), UNCHANGED limitVars PROVE LimitsStill
  <2>1. clock' = clock
    BY <1>4, LapseAside DEF AccessTyped, accessVars
  <2> QED BY <1>0, <1>1, <1>4, <2>1 DEF Lapse
<1>5. ASSUME PlanMoves, UNCHANGED limitVars PROVE LimitsStill
  BY <1>0, <1>1, <1>5 DEF PlanMoves, FundOrCancel, TakeJob, requestVars, accessVars
<1> QED BY <1>2, <1>3, <1>4, <1>5 DEF Elsewhere

LEMMA LimitServices ==
    ASSUME AccessTyped, WorkTyped, LimitRows, ServicesNext
    PROVE  LimitMoves
<1>1. ASSUME NEW p \in Requests, ServicesArrive(p) PROVE LimitMoves
  <2>1. ASSUME PlanArrives(p), UNCHANGED limitVars PROVE LimitsStill
    BY <2>1, PlanRequests, OneStill DEF PlanOps, LimitOps
  <2> QED BY <1>1, <2>1, AccessLeavesLimits, WorkLeavesLimits DEF ServicesArrive, LimitMoves
<1>2. ASSUME NEW p \in Requests, ServicesAnswer(p) PROVE LimitMoves
  <2>0. proc[p] # Idle
    BY <1>2 DEF ServicesAnswer
  <2>1. ASSUME PlanStep(p), UNCHANGED limitVars PROVE LimitsStill
    BY <2>1, PlanRequests, OneStill DEF PlanOps, LimitOps
  <2>2. ASSUME Fail(p), UNCHANGED <<accessVars, limitVars>> PROVE LimitsStill
    <3>1. Ends(p) /\ faults' = faults + 1 /\ faults \in Nat /\ alone' = alone /\ clock \in Nat /\ clock' = clock
      BY <2>2, FinishEnds DEF Fail, AccessTyped, AccessTables, RowsTyped, accessVars
    <3> QED BY <2>2, <3>1, IdleRow DEF Ends, OthersKeep, LimitsStill, LimitOps
  <2> QED BY <1>2, <2>0, <2>1, <2>2, AccessLeavesLimits, WorkLeavesLimits DEF ServicesAnswer, LimitMoves
<1>3. Restart /\ ForgetLimits /\ UNCHANGED accessVars => LimitMoves
  BY DEF LimitMoves, accessVars
<1> QED BY <1>1, <1>2, <1>3, ElsewhereLeavesLimits DEF ServicesNext, LimitMoves

\* In the scenes of clients nobody asks for what is limited.
Unasked == answers = <<>> /\ breaker.errors = 0 /\ breaker.requests = 0 /\ ~breaker.isOpen

ClientLimitInv == IF OfClient THEN Unasked ELSE LimitInv

LEMMA UnaskedSafe ==
    ASSUME Unasked
    PROVE  RefusedAskedOften /\ PassedAreBounded /\ ErrorsAreHalf
BY DEF Unasked, RefusedAskedOften, PassedAreBounded, ErrorsAreHalf

LEMMA ClientLimitsStart ==
    ASSUME ClientInit
    PROVE  ClientLimitInv
<1>1. RequestsInit /\ LimitsInit /\ clock = 0
  BY DEF ClientInit, ServicesInit, AccessInit
<1>2. Unasked
  BY <1>1 DEF LimitsInit, Unasked, Closed
<1> QED BY <1>1, <1>2, LimitsBegin DEF ClientLimitInv

LEMMA ClientLimitsKept ==
    ASSUME AccessInv, ClientWorkInv, ClientLimitInv, ClientNext
    PROVE  ClientLimitInv'
<1>1. AllSteps /\ AccessTyped
  BY AccessTypedKept DEF AccessInv
<1>2. OfClient' = OfClient
  BY <1>1, Steady, OfClientStays
<1>3. ASSUME OfClient PROVE Unasked'
  <2>1. UNCHANGED limitVars
    BY <1>3 DEF ClientNext, ServicesStep, WorkerStep, PosterStep, ReviewerStep, AgentsStep
  <2> QED BY <1>3, <2>1 DEF ClientLimitInv, Unasked, limitVars
<1>4. ASSUME ~OfClient PROVE LimitInv'
  <2>1. ServicesNext
    BY <1>4 DEF ClientNext, ServicesStep, WorkerStep, PosterStep, ReviewerStep, AgentsStep, OfClient
  <2>2. WorkTyped /\ LimitInv /\ LimitRows
    BY <1>4 DEF ClientWorkInv, WorkInv, ClientLimitInv, LimitInv
  <2>3. LimitMoves
    BY <1>1, <2>1, <2>2, LimitServices
  <2> QED BY <1>1, <2>2, <2>3, LimitsKept DEF AccessTyped, RowsTyped
<1> QED BY <1>2, <1>3, <1>4 DEF ClientLimitInv

LEMMA ClientLimitsStill ==
    ASSUME AccessTyped, ClientLimitInv, UNCHANGED allVars
    PROVE  ClientLimitInv'
<1>1. UNCHANGED <<scene, proc, alone, faults, clock, limitVars>> /\ clock \in Nat /\ faults \in Nat
  BY DEF allVars, servicesVars, requestVars, accessVars, AccessTyped, AccessTables, RowsTyped
<1>2. OfClient' = OfClient
  BY <1>1, OfClientStays
<1>3. OfClient => Unasked'
  BY <1>1 DEF ClientLimitInv, Unasked, limitVars
<1>4. ASSUME ~OfClient PROVE LimitInv'
  <2>1. LimitsStill
    BY <1>1 DEF LimitsStill
  <2> QED BY <1>4, <2>1, LimitsKept DEF LimitMoves, ClientLimitInv, AccessTyped, RowsTyped
<1> QED BY <1>2, <1>3, <1>4 DEF ClientLimitInv

\* Counters in Redis and in memory, the breaker and the failures of administrators keep
\* what their answers rest on, whatever requests overlap, fail or are lost in a restart.
THEOREM LimitsInductive == ClientSpec => []ClientLimitInv
<1>1. ClientInit => ClientLimitInv
  BY ClientLimitsStart
<1>2. AccessInv /\ ClientWorkInv /\ ClientLimitInv /\ ClientNext => ClientLimitInv'
  BY ClientLimitsKept
<1>3. AccessInv /\ ClientLimitInv /\ UNCHANGED allVars => ClientLimitInv'
  BY ClientLimitsStill DEF AccessInv
<1> QED BY <1>1, <1>2, <1>3, AccessInductive, WorkInductive, PTL DEF ClientSpec, allVars

\* Whoever overlaps, fails or lapses: sessions are signed for, a human has one account
\* per role, active agents are registered, trials and nonces are counted, a strict gate
\* opens to verified humans alone (services/authService.ts, worldService.ts,
\* authorizationService.ts, agentkitService.ts, worldchainService.ts); who is refused has
\* asked too often, what passes is bounded by the periods that fit in a window, and
\* errors are at most half of the answers (middleware/rateLimit.ts 60-190,
\* services/circuitBreakerService.ts 20-110, routes/admin.ts 17-60).
THEOREM AccessIsKept == ClientSpec => []AccessKept
<1>1. AccessInv => SessionsSigned /\ OneHumanOneRole /\ ActiveIsRegistered /\ IdentityRegistered /\ TrialKept /\ GateVerified
  BY IdRegisters DEF AccessInv, SignedInv, RolesInv, RegInv, TrialInv, GateInv
<1>2. ClientLimitInv => RefusedAskedOften /\ PassedAreBounded /\ ErrorsAreHalf
  BY LimitsSafe, UnaskedSafe DEF ClientLimitInv
<1>3. AccessInv /\ ClientLimitInv => AccessKept
  BY <1>1, <1>2 DEF AccessKept
<1> QED BY <1>3, AccessInductive, LimitsInductive, PTL
=============================================================================
