----------------------------- MODULE AgentPage -----------------------------
(***************************************************************************)
(* The page on which a worker sets an agent up: sign-in, World ID, the     *)
(* authorization, the IdentityGate, AgentBook and the token that the       *)
(* AgentIdentityRegistry mints (web pages/AgentsPage.tsx, hooks, api.ts).  *)
(*                                                                         *)
(* A handler goes on with what its render knew, also when its page has     *)
(* been left.  The routes it calls are taken whole (Access has their       *)
(* steps); what the page shows of the account's rows is fresh.             *)
(***************************************************************************)
EXTENDS Access

VARIABLES
    setups,      \* setups[a]: the profile drafted, whether the World ID widget is open,
                 \* and as history the agent that the last setup reported set up
    registry     \* AgentIdentityRegistry: fingerprint to token, or None

agentPageVars == <<setups, registry>>

AgentPageInit ==
    /\ \E g \in Setting.agents :
          setups = [a \in Accounts |-> [draft |-> g, widget |-> FALSE, done |-> None]]
    /\ registry = [f \in Fingerprints |-> identities[f].token]

Working == {p \in Requests : proc[p].op = "agent"}

\* The handlers of the page that is open; a page that was left has none.
Busy(a) == {proc[p] : p \in {q \in Working : proc[q].page = a /\ proc[q].live}}
Runs(a, kind) == \E r \in Busy(a) : r.kind = kind
SigningIn(a) == \E r \in Busy(a) : r.step = "login"

WorkerVerified(a) == SignedIn(a) /\ HasRole(a, "worker")
RoleSynced(a) == <<a, "worker">> \in gate

\* workerAuthorization: one that matches the profile, else an active one, else any.
Authorization(a) ==
    LET mine == {i \in DOMAIN auths : auths[i].account = a /\ auths[i].role = "worker"}
        matching == Matching(a, setups[a].draft, "worker")
        live == {i \in mine : auths[i].active}
    IN IF ~SignedIn(a) THEN {} ELSE IF matching # {} THEN matching ELSE IF live # {} THEN live ELSE mine

Agent(i) == <<auths[i].account, auths[i].agent>>

\* The badges of the page and the rows of its status
SetupReady(a) == WorkerVerified(a) /\ Authorization(a) # {} /\ RoleSynced(a)
ProfileReady(a) == Matching(a, setups[a].draft, "worker") # {}
RegistryRegistered(a) ==
    \E i \in Authorization(a) : auths[i].token # None \/ identities[Agent(i)].token # None

-----------------------------------------------------------------------------
(* What the worker does *)

Handle(p, a, kind, step, change) ==
    /\ Start(p, With(change, [op |-> "agent", kind |-> kind, step |-> step, page |-> a, live |-> TRUE]))
    /\ UNCHANGED <<accessVars, registry>>

ByWorker == UNCHANGED <<requestVars, accessVars, registry>>

\* The two inputs of the profile are never disabled.
EditDraft(a, g) ==
    /\ g # setups[a].draft
    /\ setups' = [setups EXCEPT ![a].draft = g]
    /\ ByWorker

CloseWidget(a) ==
    /\ setups[a].widget
    /\ setups' = [setups EXCEPT ![a].widget = FALSE]
    /\ ByWorker

SignInFirst(p, a) ==
    /\ ~SignedIn(a) /\ ~SigningIn(a)
    /\ Handle(p, a, "login", "login", <<>>)
    /\ UNCHANGED setups

\* What the rest of a setup uses of the render that began it.
Rendered(a) == [agent |-> setups[a].draft, verified |-> WorkerVerified(a), synced |-> RoleSynced(a)]

\* A strict broker wants the proof of World ID's widget, another takes one made up of
\* the address.
Prove(p) == IF proc[p].verified THEN "authorize" ELSE IF Setting.strict THEN "widget" ELSE "verify"

\* handleSetupClick
HandleSetupClick(p, a) ==
    /\ ~SigningIn(a) /\ ~Runs(a, "setup")
    /\ Handle(p, a, "setup", IF SignedIn(a) THEN "prove" ELSE "login", Rendered(a))
    /\ setups' = [setups EXCEPT ![a].done = None]

\* completeWorkerSetup, by the widget's onSuccess
Proven(p, a, h) ==
    /\ setups[a].widget
    /\ Handle(p, a, "setup", IF WorkerVerified(a) THEN "authorize" ELSE "verify",
              With(Rendered(a), [human |-> h]))
    /\ setups' = [setups EXCEPT ![a].widget = FALSE, ![a].done = None]

HandleRegisterAgentBook(p, a) ==
    /\ SignedIn(a) /\ agentBook[a] = None /\ ~Runs(a, "book")
    /\ Handle(p, a, "book", "book", <<>>)
    /\ UNCHANGED setups

\* handleRegisterOnChain, for the authorization shown
HandleRegisterOnChain(p, a) ==
    /\ Setting.chain /\ agentBook[a] # None /\ ~Runs(a, "mint")
    /\ \E i \in Authorization(a) :
          Handle(p, a, "mint", IF RoleSynced(a) THEN "send" ELSE "gate", [auth |-> i])
    /\ UNCHANGED setups

-----------------------------------------------------------------------------
(* The handlers *)

On(p, step) == proc[p].op = "agent" /\ proc[p].step = step
Page(p) == proc[p].page
RowsKept == UNCHANGED <<job, challenges, nonces, uses, grants, clock>> /\ Quiet

\* useSession's signIn; the handler of the setup goes on with what it knew.
AgentSignIn(p) ==
    LET a == Page(p) IN
    /\ On(p, "login")
    /\ accounts' = accounts \cup {a}
    /\ challenges' = Append(challenges, [Challenge(a, "web_login", None, None) EXCEPT !.used = TRUE])
    /\ sessions' = Append(sessions, [account |-> a, expires |-> clock + SessionTTL, revoked |-> FALSE,
                                     from |-> Len(challenges) + 1])
    /\ IF proc[p].kind = "setup" THEN Goto(p, "prove") ELSE Finish(p)
    /\ UNCHANGED <<job, syncs, roles, agentVars, gate, kitVars, clock, agentPageVars>> /\ Quiet

OpenWidget(p) ==
    /\ On(p, "prove") /\ Prove(p) = "widget"
    /\ setups' = IF proc[p].live THEN [setups EXCEPT ![Page(p)].widget = TRUE] ELSE setups
    /\ Finish(p)
    /\ UNCHANGED <<syncs, accounts, sessions, roles, agentVars, gate, agentBook, registry>> /\ RowsKept

\* The demo's proof has the nullifier of the address.
ProveInDemo(p) ==
    LET human == CHOOSE f \in Injection(Accounts, Humans) : TRUE IN
    /\ On(p, "prove") /\ Prove(p) # "widget"
    /\ proc' = [proc EXCEPT ![p] = With(proc[p], [step |-> Prove(p), human |-> human[Page(p)]])]
    /\ UNCHANGED <<syncs, accounts, sessions, roles, agentVars, gate, agentBook, agentPageVars>> /\ RowsKept

\* POST /world/verify for the role worker: it replaces the account's row.
VerifyRole(p) ==
    LET a == Page(p)
        h == proc[p].human
        others == {r \in roles : r.account # a \/ r.role # "worker"}
    IN
    /\ On(p, "verify") /\ SignedIn(a) /\ \A r \in others : r.human # h
    /\ roles' = others \cup {[account |-> a, role |-> "worker", human |-> h]}
    /\ Goto(p, "authorize")
    /\ UNCHANGED <<syncs, accounts, sessions, agentVars, gate, agentBook, agentPageVars>> /\ RowsKept

\* POST /agents/authorizations, with the two permissions of a worker
Authorize(p) ==
    LET a == Page(p)
        rows == Matching(a, proc[p].agent, "worker")
        scope == {"claim_jobs", "submit_results"}
    IN
    /\ On(p, "authorize") /\ SignedIn(a) /\ RoleIfStrict(a, "worker")
    /\ auths' = IF rows = {}
                THEN Append(auths, [account |-> a, agent |-> proc[p].agent, role |-> "worker",
                                    scope |-> scope, active |-> FALSE, token |-> None])
                ELSE [i \in DOMAIN auths |->
                        IF i \in rows THEN [auths[i] EXCEPT !.scope = scope, !.active = (auths[i].token # None)]
                        ELSE auths[i]]
    /\ Goto(p, "keep")
    /\ UNCHANGED <<syncs, accounts, sessions, roles, identities, gate, agentBook, agentPageVars>> /\ RowsKept

Done(p) == [setups EXCEPT ![Page(p)].done = proc[p].agent]

\* The page takes the agent that was authorized for its profile, over what was typed.
KeepDraft(p) ==
    LET kept == IF proc[p].live THEN [setups EXCEPT ![Page(p)].draft = proc[p].agent] ELSE setups IN
    /\ On(p, "keep")
    /\ IF Setting.chain /\ ~proc[p].synced THEN Goto(p, "gate") /\ setups' = kept
       ELSE Finish(p) /\ setups' = [kept EXCEPT ![Page(p)].done = proc[p].agent]
    /\ UNCHANGED <<syncs, accounts, sessions, roles, agentVars, gate, agentBook, registry>> /\ RowsKept

\* POST /agents/worldchain/sync-role
SyncRole(p) ==
    LET a == Page(p) IN
    /\ On(p, "gate") /\ SignedIn(a) /\ RoleIfStrict(a, "worker")
    /\ gate' = gate \cup {<<a, "worker">>}
    /\ IF proc[p].kind = "mint" THEN Goto(p, "send") /\ UNCHANGED setups
       ELSE Finish(p) /\ setups' = Done(p)
    /\ UNCHANGED <<syncs, accounts, sessions, roles, agentVars, agentBook, registry>> /\ RowsKept

\* POST /agentkit/register-agentbook: the tool it runs may register nobody.
RegisterBook(p) ==
    LET a == Page(p) IN
    /\ On(p, "book") /\ SignedIn(a)
    /\ \E h \in Humans \cup {None} :
          agentBook' = IF agentBook[a] = None THEN [agentBook EXCEPT ![a] = h] ELSE agentBook
    /\ Finish(p)
    /\ UNCHANGED <<syncs, accounts, sessions, roles, agentVars, gate, agentPageVars>> /\ RowsKept

\* registerAgent asks for the gate's role and for a fingerprint that has no token: the
\* wallet simulates it before it sends, and the contract runs it when it is mined.
Registrable(i) == registry[Agent(i)] = None /\ <<auths[i].account, "worker">> \in gate

SendRegistration(p) ==
    /\ On(p, "send")
    /\ IF Registrable(proc[p].auth) THEN Goto(p, "mined") ELSE Finish(p)
    /\ UNCHANGED <<syncs, accounts, sessions, roles, agentVars, gate, agentBook, agentPageVars>> /\ RowsKept

NextToken == 1 + Cardinality(Range(registry) \ {None})
Minted(p) == [registry EXCEPT ![Agent(proc[p].auth)] = NextToken]

\* The receipt of one that reverted has no event: an error.
RegisterAgent(p) ==
    /\ On(p, "mined")
    /\ IF Registrable(proc[p].auth)
       THEN /\ registry' = Minted(p)
            /\ proc' = [proc EXCEPT ![p] = With(proc[p], [step |-> "record", token |-> NextToken])]
       ELSE Finish(p) /\ UNCHANGED registry
    /\ UNCHANGED <<syncs, accounts, sessions, roles, agentVars, gate, agentBook, setups>> /\ RowsKept

\* A slip: the authorization that the page shows by now.
RecordedAsShown(p) == Authorization(Page(p))

\* The authorization that a registration is recorded for: that of the transaction.
Recorded(p) == {proc[p].auth}

\* POST .../sync-registration, with the fingerprint and token of the event: the broker
\* compares the fingerprint with the authorization's.
SyncRegistration(p) ==
    LET a == Page(p)
        i == CHOOSE k \in Recorded(p) : TRUE
    IN
    /\ On(p, "record") /\ SignedIn(a)
    /\ IF Recorded(p) # {} /\ Agent(i) = Agent(proc[p].auth)
       THEN /\ syncs' = syncs \cup {[tx |-> proc[p].token, event |-> "agent_registered"]}
            /\ auths' = [auths EXCEPT ![i].active = TRUE, ![i].token = proc[p].token]
            /\ identities' = [identities EXCEPT ![Agent(i)] =
                                [role |-> "worker", token |-> proc[p].token, scope |-> auths[i].scope]]
       ELSE UNCHANGED <<syncs, auths, identities>>
    /\ Finish(p)
    /\ UNCHANGED <<accounts, sessions, roles, gate, agentBook, agentPageVars>> /\ RowsKept

\* The broker refuses who is signed out, not verified, or another's human.
SetupRefused(p) ==
    LET a == Page(p) IN
    /\ \/ proc[p].step \in {"verify", "authorize", "gate", "book", "record"} /\ ~SignedIn(a)
       \/ proc[p].step \in {"authorize", "gate"} /\ ~RoleIfStrict(a, "worker")
       \/ proc[p].step = "verify" /\ \E r \in roles : r.human = proc[p].human
                                          /\ (r.account # a \/ r.role # "worker")
    /\ Finish(p)
    /\ UNCHANGED <<syncs, accounts, sessions, roles, agentVars, gate, agentBook, agentPageVars>> /\ RowsKept

\* A request, an answer or the wallet fails; a bound: a transaction that nobody waits for
\* any more is mined at once or never.
SetupFails(p) ==
    /\ Fail(p)
    /\ \/ UNCHANGED registry
       \/ On(p, "mined") /\ Registrable(proc[p].auth) /\ registry' = Minted(p)
    /\ UNCHANGED <<accessVars, setups>>

\* Another page of the application: what was begun goes on, its page is a new one.
LeaveAgents(a) ==
    /\ faults < Scenes[scene].faults /\ faults' = faults + 1
    /\ Busy(a) # {}
    /\ proc' = [p \in Requests |->
                  IF p \in Working /\ Page(p) = a THEN With(proc[p], [live |-> FALSE]) ELSE proc[p]]
    /\ setups' = [setups EXCEPT ![a].widget = FALSE]
    /\ UNCHANGED <<scene, job, syncs, starts, applied, again, alone, accessVars, registry>>

\* The navigation bar's signOut
SignOut(a) ==
    /\ faults < Scenes[scene].faults /\ faults' = faults + 1
    /\ SignedIn(a)
    /\ sessions' = [s \in DOMAIN sessions |->
                      IF sessions[s].account = a THEN [sessions[s] EXCEPT !.revoked = TRUE] ELSE sessions[s]]
    /\ setups' = [setups EXCEPT ![a].done = None]
    /\ UNCHANGED <<scene, job, syncs, proc, starts, applied, again, alone, accounts, challenges, roles,
                   agentVars, gate, kitVars, clock, registry>>

SettingUp == Serves("agents")

AgentArrives(p) ==
    /\ MayStart(p)
    /\ \E a \in Setting.users :
          \/ SignInFirst(p, a) \/ HandleSetupClick(p, a) \/ \E h \in Humans : Proven(p, a, h)
          \/ HandleRegisterAgentBook(p, a) \/ HandleRegisterOnChain(p, a)

AgentStep(p) ==
    /\ p \in Working
    /\ \/ AgentSignIn(p) \/ OpenWidget(p) \/ ProveInDemo(p) \/ VerifyRole(p) \/ Authorize(p)
       \/ KeepDraft(p) \/ SyncRole(p) \/ RegisterBook(p) \/ SendRegistration(p)
       \/ RegisterAgent(p) \/ SyncRegistration(p) \/ SetupRefused(p) \/ SetupFails(p)

AgentMoves ==
    \E a \in Setting.users :
        \/ \E g \in Setting.agents : EditDraft(a, g)
        \/ CloseWidget(a) \/ LeaveAgents(a) \/ SignOut(a)

-----------------------------------------------------------------------------
(* Properties *)

AgentPageTypeOK ==
    /\ \A a \in Accounts : setups[a].draft \in Agents /\ setups[a].done \in Agents \cup {None}
    /\ registry \in [Fingerprints -> Tokens \cup {None}]

\* The broker knows an agent by the token the registry minted for that agent, whichever
\* profile the page shows by the time the transaction is mined; it learns of every token
\* unless something failed in between, after which the page can record it no more
\* (AgentsPage.tsx 258-318).
TokensRecorded ==
    /\ \A i \in DOMAIN auths : auths[i].token # None => auths[i].token = registry[Agent(i)]
    /\ \A f \in Fingerprints :
          faults = 0 /\ registry[f] # None =>
              \/ \E i \in DOMAIN auths : Agent(i) = f /\ auths[i].token = registry[f]
              \/ \E p \in Working : On(p, "record") /\ Agent(proc[p].auth) = f

\* Where the page shows every step ready, the broker lets the agent that it shows claim,
\* however often the setup is repeated (AgentsPage.tsx 120-133, accessService.ts 58-87).
ReadyMayClaim ==
    \A a \in Accounts :
        SetupReady(a) /\ ProfileReady(a) /\ RegistryRegistered(a) =>
            MayFind(a, setups[a].draft, "worker", "claim_jobs", TRUE)

\* A setup that ends without an error has set up the agent it was begun for, although it
\* goes on with what its first render knew (AgentsPage.tsx 163-256).
SetupIsComplete ==
    \A a \in Accounts :
        LET g == setups[a].done IN
        g # None => /\ HasRole(a, "worker") /\ Matching(a, g, "worker") # {}
                    /\ Setting.chain => RoleSynced(a)

AgentPageKept ==
    SettingUp =>
        /\ AgentPageTypeOK /\ TokensRecorded /\ ReadyMayClaim /\ SetupIsComplete
=============================================================================
