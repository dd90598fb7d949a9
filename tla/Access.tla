------------------------------- MODULE Access -------------------------------
(***************************************************************************)
(* Who may do what in the broker: challenges that a wallet signs, web      *)
(* sessions, World ID roles, authorizations of agents and their            *)
(* registration, the IdentityGate on World Chain, and the Agent Kit's      *)
(* nonces and free trials.                                                 *)
(*                                                                         *)
(* The fingerprint of an agent hashes its type, its version and the        *)
(* account: it is <<account, agent>> here.  Signatures and proofs are      *)
(* those of external verifiers; a request whose proof fails is no step.    *)
(* The first reads of a route (its session, and in strict mode its role,   *)
(* a row nobody deletes) are its first step.                               *)
(***************************************************************************)
EXTENDS BrokerRequests, Sequences, SequencesExt

CONSTANTS
    Accounts, Agents, Humans, AgentRoles, Permissions, Tokens, Nonces, Endpoints,
    Settings,             \* Settings[s]: configuration (strict, trial, chain), start
                          \* (signedIn, issued, registered), users, agents and keys of scene s
    ChallengeTTL, SessionTTL, TrialUses, None, MaxClock

\* None is nobody and nothing; without a positive setting a trial has three uses; the
\* demo makes a human up of every address.
ASSUME NoneAssumption ==
    /\ None \notin Accounts /\ None \notin Agents /\ None \notin Jobs
    /\ None \notin Humans /\ None \notin Tokens /\ None \notin Nat

ASSUME AccessAssumption ==
    /\ IsFiniteSet(Accounts) /\ IsFiniteSet(Agents) /\ Tokens # {}
    /\ TrialUses \in Nat \ {0} /\ MaxClock \in Nat
    /\ ChallengeTTL \in Nat /\ SessionTTL \in Nat
    /\ Injection(Accounts, Humans) # {}

\* Who is registered at the start is signed in; what was issued by then is a worker's.
ASSUME SettingsAssumption ==
    \A s \in DOMAIN Scenes :
        /\ s \in DOMAIN Settings
        /\ {"strict", "trial", "signedIn", "registered", "issued", "chain", "users", "agents"}
               \subseteq DOMAIN Settings[s]
        /\ Settings[s].agents # {} /\ Settings[s].agents \subseteq Agents
        /\ Settings[s].users \subseteq Accounts
        /\ Settings[s].registered # None => Settings[s].signedIn
        /\ Settings[s].issued \in
               Seq([account : Accounts, job : Jobs,
                    purpose : {"worker_claim", "worker_unclaim", "worker_submit"}])

VARIABLES
    accounts,             \* the rows of accounts
    challenges, sessions, \* the rows of auth_challenges and web_sessions, in order
    roles,                \* the rows of world_verifications
    auths,                \* the rows of agent_authorizations, in order
    identities,           \* agent_identities by fingerprint
    gate,                 \* IdentityGate: account and role
    agentBook,            \* external: the human behind an account, or None
    nonces, uses,         \* agentkit_nonces, agentkit_usage_counters
    grants,               \* history: endpoint, human and nonce of each access
    clock

accountVars == <<accounts, challenges, sessions>>
agentVars == <<auths, identities>>
kitVars == <<agentBook, nonces, uses, grants>>
accessVars == <<accountVars, roles, agentVars, gate, kitVars, clock>>

Setting == Settings[scene]
Fingerprints == Accounts \X Agents
NoIdentity == [role |-> None, token |-> None, scope |-> {}]

Challenge(a, purpose, j, agent) ==
    [account |-> a, purpose |-> purpose, job |-> j, agent |-> agent,
     expires |-> clock + ChallengeTTL, used |-> FALSE]

\* A scene may begin signed in, with the challenges it names issued, or with accounts
\* verified and agents registered in a role: states that requests which are not in
\* the scene lead to.
AccessInit ==
    LET known == IF Setting.signedIn THEN SetToSeq(Accounts) ELSE <<>>
        human == CHOOSE f \in Injection(Accounts, Humans) : TRUE
        agent == CHOOSE g \in Setting.agents : TRUE
        token == CHOOSE t \in Tokens : TRUE
        registered == Setting.registered # None
        Login(a) == [Challenge(a, "web_login", None, None) EXCEPT !.used = TRUE]
    IN
    /\ clock = 0
    /\ accounts = ToSet(known)
    /\ challenges = [i \in DOMAIN known |-> Login(known[i])] \o
                    [i \in DOMAIN Setting.issued |->
                        Challenge(Setting.issued[i].account, Setting.issued[i].purpose,
                                  Setting.issued[i].job, agent)]
    /\ sessions = [i \in DOMAIN known |->
                      [account |-> known[i], expires |-> SessionTTL, revoked |-> FALSE, from |-> i]]
    /\ roles = IF registered
               THEN {[account |-> a, role |-> Setting.registered, human |-> human[a]] : a \in Accounts}
               ELSE {}
    /\ auths = IF registered
               THEN [i \in DOMAIN known |->
                       [account |-> known[i], agent |-> agent, role |-> Setting.registered,
                        scope |-> UNION Permissions, active |-> TRUE, token |-> token]]
               ELSE <<>>
    /\ identities = [f \in Fingerprints |->
                        IF registered /\ f[2] = agent
                        THEN [role |-> Setting.registered, token |-> token, scope |-> UNION Permissions]
                        ELSE NoIdentity]
    /\ gate = {}
    /\ agentBook = [a \in Accounts |-> None]
    /\ nonces = {} /\ uses = [e \in Endpoints |-> [h \in Humans |-> 0]] /\ grants = {}

Tick ==
    /\ clock < MaxClock
    /\ clock' = clock + 1
    /\ UNCHANGED <<requestVars, accountVars, roles, agentVars, gate, kitVars>>

-----------------------------------------------------------------------------
(* Challenges and sessions *)

\* ensureAccount reads the account and inserts it later.
ChallengeCall(p, a, purpose, j, agent) ==
    /\ purpose # "web_login" => j # None /\ agent # None
    /\ Start(p, [op |-> "challenge", step |-> IF a \in accounts THEN "issue" ELSE "account",
                 account |-> a, purpose |-> purpose, job |-> j, agent |-> agent])
    /\ UNCHANGED accessVars

AccountInsert(p) ==
    /\ At(p, "challenge", "account")
    /\ IF proc[p].account \in accounts THEN Finish(p) /\ UNCHANGED accounts
       ELSE Goto(p, "issue") /\ accounts' = accounts \cup {proc[p].account}
    /\ UNCHANGED <<job, syncs, challenges, sessions, roles, agentVars, gate, kitVars, clock>> /\ Quiet

ChallengeInsert(p) ==
    /\ At(p, "challenge", "issue")
    /\ challenges' = Append(challenges,
                            Challenge(proc[p].account, proc[p].purpose, proc[p].job, proc[p].agent))
    /\ Finish(p)
    /\ UNCHANGED <<job, syncs, accounts, sessions, roles, agentVars, gate, kitVars, clock>> /\ Quiet

\* getActiveChallenge and the checks of consumeChallenge, for a valid signature.
Active(c, a, purpose, j, agent) ==
    /\ c \in DOMAIN challenges
    /\ ~challenges[c].used /\ challenges[c].expires >= clock
    /\ challenges[c].purpose = purpose /\ challenges[c].account = a
    /\ j # None => challenges[c].job = j
    /\ agent # None => challenges[c].agent = agent

LoginCall(p, c, a) ==
    /\ Active(c, a, "web_login", None, None)
    /\ Start(p, [op |-> "login", step |-> "use", account |-> a, challenge |-> c])
    /\ UNCHANGED accessVars

\* The update asks no more whether the challenge is unused.
ChallengeUse(p) ==
    /\ proc[p].step = "use"
    /\ challenges' = [challenges EXCEPT ![proc[p].challenge].used = TRUE]
    /\ Goto(p, IF proc[p].op = "login" THEN "session" ELSE "permission")
    /\ UNCHANGED <<job, syncs, accounts, sessions, roles, agentVars, gate, kitVars, clock>> /\ Quiet

SessionInsert(p) ==
    /\ At(p, "login", "session")
    /\ sessions' = Append(sessions, [account |-> proc[p].account, expires |-> clock + SessionTTL,
                                     revoked |-> FALSE, from |-> proc[p].challenge])
    /\ Finish(p)
    /\ UNCHANGED <<job, syncs, accounts, challenges, roles, agentVars, gate, kitVars, clock>> /\ Quiet

\* POST /auth/logout is one statement, for whatever session the cookie names.
RevokeSession(p, s) ==
    /\ s \in DOMAIN sessions /\ ~sessions[s].revoked
    /\ Start(p, [op |-> "idle"])
    /\ sessions' = [sessions EXCEPT ![s].revoked = TRUE]
    /\ UNCHANGED <<accounts, challenges, roles, agentVars, gate, kitVars, clock>>

SignedIn(a) ==
    \E s \in DOMAIN sessions : /\ sessions[s].account = a
                               /\ ~sessions[s].revoked /\ sessions[s].expires > clock

HasRole(a, role) == \E r \in roles : r.account = a /\ r.role = role

RoleIfStrict(a, role) == Setting.strict => HasRole(a, role)

-----------------------------------------------------------------------------
(* POST /world/verify *)

\* The session, then the nullifier's row, if it is another account's.
WorldCall(p, a, role, h) ==
    /\ SignedIn(a)
    /\ \A r \in roles : r.human = h => r.account = a
    /\ Start(p, [op |-> "world", step |-> "row", account |-> a, role |-> role, human |-> h])
    /\ UNCHANGED accessVars

\* After the provider has verified the proof.
RoleRead(p) ==
    /\ At(p, "world", "row")
    /\ proc' = [proc EXCEPT ![p].valid = HasRole(proc[p].account, proc[p].role), ![p].step = "write"]
    /\ UNCHANGED <<job, syncs, accessVars>> /\ Quiet

RoleRow(p) == [account |-> proc[p].account, role |-> proc[p].role, human |-> proc[p].human]

\* A slip: the table has no index on the nullifier.
WriteUnindexed(p) ==
    /\ At(p, "world", "write")
    /\ roles' = {r \in roles : r.account # proc[p].account \/ r.role # proc[p].role} \cup {RoleRow(p)}
    /\ Finish(p)
    /\ UNCHANGED <<job, syncs, accountVars, agentVars, gate, kitVars, clock>> /\ Quiet

\* Updates the row it has found or inserts one; the indexes on (account, role) and
\* on the nullifier make a statement fail that would repeat either.
RoleWrite(p) ==
    LET mine == {r \in roles : r.account = proc[p].account /\ r.role = proc[p].role}
        rest == IF proc[p].valid THEN roles \ mine ELSE roles
        taken == (~proc[p].valid /\ mine # {}) \/ \E r \in rest : r.human = proc[p].human
    IN
    /\ At(p, "world", "write")
    /\ roles' = IF taken THEN roles ELSE rest \cup {RoleRow(p)}
    /\ Finish(p)
    /\ UNCHANGED <<job, syncs, accountVars, agentVars, gate, kitVars, clock>> /\ Quiet

-----------------------------------------------------------------------------
(* Authorizations of agents *)

Matching(a, agent, role) ==
    {i \in DOMAIN auths : auths[i].account = a /\ auths[i].agent = agent /\ auths[i].role = role}

\* createOrUpdateAgentAuthorization: the first of the rows it matches, or none
AuthorizeCall(p, a, agent, role, scope) ==
    LET rows == Matching(a, agent, role) IN
    /\ SignedIn(a) /\ RoleIfStrict(a, role)
    /\ \E i \in IF rows = {} THEN {0} ELSE rows :
          Start(p, [op |-> "authorize", step |-> "write", account |-> a, agent |-> agent,
                    role |-> role, scope |-> scope, auth |-> i,
                    token |-> IF i = 0 THEN None ELSE auths[i].token])
    /\ UNCHANGED accessVars

\* The status is computed from the token that was read.
AuthorizationWrite(p) ==
    LET r == proc[p] IN
    /\ At(p, "authorize", "write")
    /\ auths' = IF r.auth = 0
                THEN Append(auths, [account |-> r.account, agent |-> r.agent, role |-> r.role,
                                    scope |-> r.scope, active |-> FALSE, token |-> None])
                ELSE [auths EXCEPT ![r.auth].scope = r.scope, ![r.auth].active = (r.token # None)]
    /\ Finish(p)
    /\ UNCHANGED <<job, syncs, accountVars, roles, identities, gate, kitVars, clock>> /\ Quiet

\* syncAgentRegistration, by the account of the row; the transaction and the token
\* are what the client says.  recordChainSync looks for the row it would insert.
RegisterCall(p, a, i, x, token) ==
    /\ SignedIn(a)
    /\ i \in DOMAIN auths /\ auths[i].account = a
    /\ Start(p, [op |-> "register", account |-> a, agent |-> auths[i].agent, role |-> auths[i].role,
                 scope |-> auths[i].scope, auth |-> i, token |-> token,
                 tx |-> x, event |-> "agent_registered",
                 step |-> IF [tx |-> x, event |-> "agent_registered"] \in syncs
                          THEN "activate" ELSE "registration"])
    /\ UNCHANGED accessVars

RecordRegistration(p) ==
    /\ At(p, "register", "registration")
    /\ IF Row(p) \in syncs THEN Finish(p) ELSE Goto(p, "activate")
    /\ syncs' = syncs \cup {Row(p)}
    /\ UNCHANGED <<job, accessVars>> /\ Quiet

Activate(p) ==
    /\ At(p, "register", "activate")
    /\ auths' = [auths EXCEPT ![proc[p].auth].active = TRUE, ![proc[p].auth].token = proc[p].token]
    /\ Goto(p, "identity")
    /\ UNCHANGED <<job, syncs, accountVars, roles, identities, gate, kitVars, clock>> /\ Quiet

IdentityRead(p) ==
    /\ At(p, "register", "identity")
    /\ proc' = [proc EXCEPT ![p].step = "publish",
                            ![p].valid = identities[<<proc[p].account, proc[p].agent>>] # NoIdentity]
    /\ UNCHANGED <<job, syncs, accessVars>> /\ Quiet

\* Updates the identity, or inserts it; its key is the fingerprint alone, so that an
\* insert fails if another request has inserted it and two roles share one row.
IdentityWrite(p) ==
    LET f == <<proc[p].account, proc[p].agent>> IN
    /\ At(p, "register", "publish")
    /\ identities' = IF ~proc[p].valid /\ identities[f] # NoIdentity THEN identities
                     ELSE [identities EXCEPT ![f] = [role |-> proc[p].role, token |-> proc[p].token,
                                                     scope |-> proc[p].scope]]
    /\ Finish(p)
    /\ UNCHANGED <<job, syncs, accountVars, roles, auths, gate, kitVars, clock>> /\ Quiet

\* POST /agents/worldchain/sync-role: setVerified, and the receipt is waited for
SyncRoleCall(p, a, role) ==
    /\ SignedIn(a) /\ RoleIfStrict(a, role)
    /\ Start(p, [op |-> "syncRole", step |-> "send", account |-> a, role |-> role])
    /\ UNCHANGED accessVars

SetVerified(p) ==
    /\ At(p, "syncRole", "send")
    /\ gate' = gate \cup {<<proc[p].account, proc[p].role>>}
    /\ Finish(p)
    /\ UNCHANGED <<job, syncs, accountVars, roles, agentVars, kitVars, clock>> /\ Quiet

\* requireAgentAuthorization looks at the first of the active rows it matches.
MayFind(a, agent, role, permission, answer) ==
    LET rows == {i \in Matching(a, agent, role) : auths[i].active} IN
    IF rows = {} THEN ~answer
    ELSE \E i \in rows : answer = (permission \in auths[i].scope)

-----------------------------------------------------------------------------
(* The Agent Kit *)

\* POST /agentkit/register-agentbook, by the command-line tool it runs
RegisterAgentBook(p, a, h) ==
    /\ SignedIn(a) /\ agentBook[a] = None
    /\ Start(p, [op |-> "idle"])
    /\ agentBook' = [agentBook EXCEPT ![a] = h]
    /\ UNCHANGED <<accountVars, roles, agentVars, gate, nonces, uses, grants, clock>>

\* requireAgentKitAccess, once the header and its signature are valid
KitCall(p, a, endpoint, n) ==
    /\ Start(p, [op |-> "kit", step |-> "nonce", account |-> a, endpoint |-> endpoint, nonce |-> n])
    /\ UNCHANGED accessVars

ClaimNonce(p) ==
    /\ At(p, "kit", "nonce")
    /\ IF proc[p].nonce \in nonces THEN Finish(p) ELSE Goto(p, "human")
    /\ nonces' = nonces \cup {proc[p].nonce}
    /\ UNCHANGED <<job, syncs, accountVars, roles, agentVars, gate, agentBook, uses, grants, clock>> /\ Quiet

Grant(p, h) == grants' = grants \cup {[endpoint |-> proc[p].endpoint, human |-> h, nonce |-> proc[p].nonce]}

\* A nonce is spent, whether or not AgentBook knows the wallet.
LookupHuman(p) ==
    LET h == agentBook[proc[p].account] IN
    /\ At(p, "kit", "human")
    /\ IF h # None /\ Setting.trial
       THEN proc' = [proc EXCEPT ![p] = With(proc[p], [human |-> h, step |-> "count"])] /\ UNCHANGED grants
       ELSE Finish(p) /\ IF h = None THEN UNCHANGED grants ELSE Grant(p, h)
    /\ UNCHANGED <<job, syncs, accountVars, roles, agentVars, gate, agentBook, nonces, uses, clock>> /\ Quiet

\* tryIncrementUsage: the first use is not compared with the limit.
TryIncrementUsage(p) ==
    LET e == proc[p].endpoint
        h == proc[p].human
    IN
    /\ At(p, "kit", "count")
    /\ IF uses[e][h] = 0 \/ uses[e][h] < TrialUses
       THEN uses' = [uses EXCEPT ![e][h] = @ + 1] /\ Grant(p, h)
       ELSE UNCHANGED <<uses, grants>>
    /\ Finish(p)
    /\ UNCHANGED <<job, syncs, accountVars, roles, agentVars, gate, agentBook, nonces, clock>> /\ Quiet

-----------------------------------------------------------------------------
AccessCall(p) ==
    \/ Serves("challenge") /\ \E a \in Accounts : ChallengeCall(p, a, "web_login", None, None)
    \/ Serves("login") /\ \E a \in Accounts, c \in DOMAIN challenges : LoginCall(p, c, a)
    \/ Serves("world") /\ \E a \in Accounts, role \in AgentRoles, h \in Humans : WorldCall(p, a, role, h)
    \/ Serves("authorize") /\ \E a \in Accounts, g \in Setting.agents, role \in AgentRoles, s \in Permissions :
          AuthorizeCall(p, a, g, role, s)
    \/ Serves("register") /\ \E a \in Accounts, i \in DOMAIN auths, x \in Txs, t \in Tokens :
          RegisterCall(p, a, i, x, t)
    \/ Serves("syncRole") /\ \E a \in Accounts, role \in AgentRoles : SyncRoleCall(p, a, role)
    \/ Serves("kit") /\ \E a \in Accounts :
          \/ \E h \in Humans : RegisterAgentBook(p, a, h)
          \/ \E e \in Endpoints, n \in Nonces : KitCall(p, a, e, n)
    \/ Serves("logout") /\ \E s \in DOMAIN sessions : RevokeSession(p, s)

AccessStep(p) ==
    \/ ChallengeUse(p)
    \/ /\ proc[p].op \in {"challenge", "login", "world", "authorize", "register", "syncRole", "kit"}
       /\ \/ AccountInsert(p) \/ ChallengeInsert(p) \/ SessionInsert(p)
          \/ RoleRead(p) \/ RoleWrite(p)
          \/ AuthorizationWrite(p) \/ RecordRegistration(p) \/ Activate(p)
          \/ IdentityRead(p) \/ IdentityWrite(p) \/ SetVerified(p)
          \/ ClaimNonce(p) \/ LookupHuman(p) \/ TryIncrementUsage(p)

-----------------------------------------------------------------------------
(* Properties *)

AccessTypeOK ==
    /\ accounts \subseteq Accounts /\ clock \in 0..MaxClock
    /\ \A c \in DOMAIN challenges : challenges[c].account \in Accounts /\ challenges[c].used \in BOOLEAN
    /\ \A s \in DOMAIN sessions : sessions[s].from \in DOMAIN challenges
    /\ roles \subseteq [account : Accounts, role : AgentRoles \cup {Setting.registered}, human : Humans]
    /\ \A i \in DOMAIN auths : auths[i].account \in Accounts /\ auths[i].token \in Tokens \cup {None}
    /\ gate \subseteq Accounts \X AgentRoles
    /\ nonces \subseteq Nonces
    /\ \A e \in Endpoints, h \in Humans : uses[e][h] \in Nat

\* A session is that of the account that signed in, by a challenge that is used up;
\* until two requests overlap no challenge yields two (authService.ts 94-156).
SessionsSigned ==
    /\ \A s \in DOMAIN sessions :
          LET c == challenges[sessions[s].from] IN
          /\ c.used /\ c.purpose = "web_login" /\ c.account = sessions[s].account
          /\ c.account \in accounts
    /\ alone => \A s, t \in DOMAIN sessions : sessions[s].from = sessions[t].from => s = t

\* A human stands behind one account at a time, in one role, however verifications
\* race (worldService.ts 48-97).
OneHumanOneRole ==
    \A r, q \in roles : r.human = q.human \/ (r.account = q.account /\ r.role = q.role) => r = q

\* Only a registered agent is active; while requests do not overlap a registered one
\* stays active and has one row per role (authorizationService.ts 17-155).
ActiveIsRegistered ==
    /\ \A i \in DOMAIN auths : auths[i].active => auths[i].token # None
    /\ alone => /\ \A i \in DOMAIN auths : auths[i].token # None => auths[i].active
                /\ \A i, k \in DOMAIN auths :
                      auths[i].account = auths[k].account /\ auths[i].agent = auths[k].agent
                      /\ auths[i].role = auths[k].role => i = k

\* An identity was registered by one of its account's authorizations; and where
\* nothing overlapped or failed, every active agent has one, with a token of theirs.
IdentityRegistered ==
    \A f \in Fingerprints :
        LET rows == {i \in DOMAIN auths : /\ <<auths[i].account, auths[i].agent>> = f
                                          /\ auths[i].token # None}
        IN  /\ identities[f] # NoIdentity =>
                  \E i \in rows : auths[i].role = identities[f].role
            /\ alone /\ faults = 0 /\ (\A p \in Requests : proc[p] = Idle) =>
                  /\ rows # {} => identities[f] # NoIdentity
                  /\ identities[f] # NoIdentity =>
                        identities[f].token \in {auths[i].token : i \in rows}

\* A nonce opens one door once; a human has at most its trial at each endpoint,
\* however many of its wallets ask at a time (agentkitService.ts 48-132).
TrialKept ==
    /\ \A g, h \in grants : g.nonce = h.nonce => g = h
    /\ Setting.trial => \A e \in Endpoints, h \in Humans :
          /\ Cardinality({g \in grants : g.endpoint = e /\ g.human = h}) = uses[e][h]
          /\ uses[e][h] <= TrialUses

\* In strict mode the gate on World Chain knows verified accounts only.
GateVerified == Setting.strict => \A x \in gate : HasRole(x[1], x[2])

=============================================================================
