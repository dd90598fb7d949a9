------------------------ MODULE BrokerAccess_proofs -------------------------
(***************************************************************************)
(* Lemmas about BrokerServices, for all accounts, agents, humans, keys,    *)
(* jobs, requests, scenes and settings: requests may overlap, fail or be   *)
(* lost in a restart, and every page and command of a client may act.      *)
(*                                                                         *)
(* AccessTyped says what a request, a page and a table of access hold.     *)
(* Here it is shown to be kept, and with it that sessions are signed for   *)
(* (SignedInv), that roles follow the page of posters (RolesInv) and that  *)
(* active agents are registered (RegInv).  A step of another service or    *)
(* page is shown once to leave alone what these speak of (AllSteps,        *)
(* OtherOps).                                                              *)
(***************************************************************************)
EXTENDS BrokerServices, BrokerMoney_proofs

-----------------------------------------------------------------------------
(* What the tables of access and the rows of its requests contain             *)

RoleNames == AgentRoles \cup {"worker", "poster"} \cup {Settings[s].registered : s \in DOMAIN Scenes}
PermissionNames == (UNION Permissions) \cup {"claim_jobs", "submit_results"}
TokenIds == Tokens \cup Nat \cup {None}
PurposeNames == {"web_login", "worker_claim", "worker_unclaim", "worker_submit"}

ChallengeType == [account : Accounts, purpose : PurposeNames, job : Jobs \cup {None},
                  agent : Agents \cup {None}, expires : Int, used : BOOLEAN]
SessionType == [account : Accounts, expires : Int, revoked : BOOLEAN, from : Nat]
RoleType == [account : Accounts, role : RoleNames, human : Humans]
AuthType == [account : Accounts, agent : Agents, role : RoleNames, scope : SUBSET PermissionNames,
             active : BOOLEAN, token : TokenIds]
IdentityType == [role : RoleNames \cup {None}, token : TokenIds, scope : SUBSET PermissionNames]
GrantType == [endpoint : Endpoints, human : Humans, nonce : Nonces]
SetupType == [draft : Agents, widget : BOOLEAN, done : Agents \cup {None}]

AccessTables ==
    /\ clock \in Nat
    /\ accounts \subseteq Accounts
    /\ challenges \in Seq(ChallengeType)
    /\ sessions \in Seq(SessionType)
    /\ roles \subseteq RoleType
    /\ auths \in Seq(AuthType)
    /\ identities \in [Fingerprints -> IdentityType]
    /\ agentBook \in [Accounts -> Humans \cup {None}]
    /\ uses \in [Endpoints -> [Humans -> Nat]]
    /\ grants \subseteq GrantType /\ IsFiniteSet(grants)

AgentTables ==
    /\ setups \in [Accounts -> SetupType]
    /\ registry \in [Fingerprints -> TokenIds]

ChallengeRow(r) ==
    /\ {"account", "purpose", "job", "agent"} \subseteq DOMAIN r
    /\ r.step \in {"account", "issue"} /\ r.account \in Accounts
    /\ r.purpose = "web_login" /\ r.job = None /\ r.agent = None

LoginRow(r) ==
    /\ {"account", "challenge"} \subseteq DOMAIN r
    /\ r.step \in {"use", "session"} /\ r.account \in Accounts /\ r.challenge \in Nat

WorldRow(r) ==
    /\ {"account", "role", "human", "valid"} \subseteq DOMAIN r
    /\ r.step \in {"row", "write"}
    /\ r.account \in Accounts /\ r.role \in AgentRoles /\ r.human \in Humans

AuthorizeRow(r) ==
    /\ {"account", "agent", "role", "scope", "auth", "token"} \subseteq DOMAIN r
    /\ r.step = "write" /\ r.account \in Accounts /\ r.agent \in Agents /\ r.role \in AgentRoles
    /\ r.scope \in Permissions /\ r.auth \in Nat /\ r.token \in TokenIds

RegisterRow(r) ==
    /\ {"account", "agent", "role", "scope", "auth", "token", "tx", "event", "valid"} \subseteq DOMAIN r
    /\ r.step \in {"registration", "activate", "identity", "publish"}
    /\ r.account \in Accounts /\ r.agent \in Agents /\ r.role \in RoleNames
    /\ r.scope \in SUBSET PermissionNames /\ r.auth \in Nat /\ r.token \in Tokens

SyncRoleRow(r) ==
    /\ {"account", "role"} \subseteq DOMAIN r
    /\ r.step = "send" /\ r.account \in Accounts /\ r.role \in AgentRoles

KitRow(r) ==
    /\ {"account", "endpoint", "nonce"} \subseteq DOMAIN r
    /\ r.step \in {"nonce", "human", "count"}
    /\ r.account \in Accounts /\ r.endpoint \in Endpoints /\ r.nonce \in Nonces
    /\ r.step = "count" => "human" \in DOMAIN r /\ r.human \in Humans

PostRow(r) == "page" \in DOMAIN r /\ r.page \in Accounts

AgentRow(r) ==
    /\ {"page", "kind", "live"} \subseteq DOMAIN r /\ r.page \in Accounts
    /\ r.kind \in {"login", "setup", "book", "mint"}
    /\ r.step \in {"login", "prove", "verify", "authorize", "keep", "gate", "book", "send", "mined", "record"}
    /\ r.kind = "login" => r.step = "login"
    /\ r.kind = "book" => r.step = "book"
    /\ r.kind = "setup" => /\ {"agent", "verified", "synced"} \subseteq DOMAIN r /\ r.agent \in Agents
                           /\ r.step \in {"login", "prove", "verify", "authorize", "keep", "gate"}
                           /\ r.step = "verify" => "human" \in DOMAIN r /\ r.human \in Humans
    /\ r.kind = "mint" => /\ "auth" \in DOMAIN r /\ r.auth \in Nat
                          /\ r.step \in {"send", "gate", "mined", "record"}
                          /\ r.step = "record" => "token" \in DOMAIN r /\ r.token \in Nat

AccessRow(r) ==
    /\ r.op = "challenge" => ChallengeRow(r)
    /\ r.op = "login" => LoginRow(r)
    /\ r.op = "world" => WorldRow(r)
    /\ r.op = "authorize" => AuthorizeRow(r)
    /\ r.op = "register" => RegisterRow(r)
    /\ r.op = "syncRole" => SyncRoleRow(r)
    /\ r.op = "kit" => KitRow(r)
    /\ r.op = "post" => PostRow(r)
    /\ r.op = "agent" => AgentRow(r)


RowsTyped ==
    /\ scene \in DOMAIN Scenes /\ faults \in Nat
    /\ Rows /\ Lonely
    /\ \A p \in Requests : AccessRow(proc[p])

\* The authorization that a request is about exists, and is that of its agent.
SameAgent(x, r) == x.account = r.account /\ x.agent = r.agent /\ x.role = r.role

Referring ==
    \A p \in Requests :
        LET r == proc[p] IN
        /\ r.op = "authorize" /\ r.auth # 0 =>
              /\ r.auth \in DOMAIN auths /\ SameAgent(auths[r.auth], r)
              /\ r.token # None => auths[r.auth].token # None
        /\ r.op = "register" =>
              /\ r.auth \in DOMAIN auths /\ SameAgent(auths[r.auth], r)
              /\ r.step \in {"identity", "publish"} => auths[r.auth].token # None
        /\ r.op = "agent" /\ r.kind = "mint" => r.auth \in DOMAIN auths /\ auths[r.auth].role = "worker"

AccessTyped == RowsTyped /\ AccessTables /\ AgentTables /\ Referring

-----------------------------------------------------------------------------
(* Steps that leave who may do what alone                                     *)

OtherOps == {"idle", "claim", "unclaim", "submit", "accepting", "rejecting", "spend",
             "create", "plan", "board", "limited", "limitAccept", "page", "cli", "review"}

\* The requests that move are others, or end because something failed.
Aside ==
    /\ scene' = scene /\ faults' \in Nat /\ (faults' = 0 => faults = 0)
    /\ alone' => alone
    /\ DOMAIN proc' = Requests
    /\ \A q \in Requests :
          \/ proc'[q] = proc[q]
          \/ /\ proc[q].op \in OtherOps \/ (faults' # 0 /\ proc'[q] = Idle)
             /\ proc'[q].op \in OtherOps /\ {"op", "step"} \subseteq DOMAIN proc'[q]
    /\ \/ \A q \in Requests : proc'[q] # Idle => proc[q] # Idle
       \/ \E p \in Requests : alone' => \A q \in Requests \ {p} : proc'[q] = Idle

LEMMA SettingFacts ==
    ASSUME scene \in DOMAIN Scenes
    PROVE  /\ Setting.agents # {} /\ Setting.agents \subseteq Agents /\ Setting.users \subseteq Accounts
           /\ Setting.registered \in RoleNames
           /\ Setting.registered # None => Setting.signedIn
           /\ Setting.issued \in Seq([account : Accounts, job : Jobs,
                    purpose : {"worker_claim", "worker_unclaim", "worker_submit"}])
BY SettingsAssumption DEF Setting, RoleNames

LEMMA AsideTyped ==
    ASSUME RowsTyped, Aside
    PROVE  RowsTyped'
<1>1. Rows'
  BY DEF RowsTyped, Rows, Aside
<1>2. Lonely'
  BY DEF RowsTyped, Lonely, Aside
<1>3. \A p \in Requests : AccessRow(proc'[p])
  <2> TAKE p \in Requests
  <2>1. CASE proc'[p] = proc[p]
    BY <2>1 DEF RowsTyped
  <2>2. CASE proc'[p].op \in OtherOps
    BY <2>2 DEF AccessRow, OtherOps
  <2> QED BY <2>1, <2>2 DEF Aside
<1> QED BY <1>1, <1>2, <1>3 DEF RowsTyped, Aside

LEMMA OneAside ==
    ASSUME RowsTyped, NEW p \in Requests, proc[p].op \in OtherOps, proc[p] # Idle,
           OthersKeep(p), proc'[p].op \in OtherOps, {"op", "step"} \subseteq DOMAIN proc'[p],
           scene' = scene, alone' = alone, faults' \in Nat, faults' = 0 => faults = 0
    PROVE  Aside
BY DEF Aside, OthersKeep, RowsTyped

LEMMA GoesAside ==
    ASSUME RowsTyped, NEW p \in Requests, NEW s, proc[p].op \in OtherOps, proc[p] # Idle,
           Goto(p, s), Calm
    PROVE  Aside
<1>1. GoesTo(p, s)
  BY GotoGoes DEF RowsTyped
<1>2. {"op", "step"} \subseteq DOMAIN proc[p] /\ proc'[p].op = proc[p].op
  BY <1>1 DEF GoesTo, RowsTyped, Rows
<1> QED BY <1>1, <1>2, OneAside DEF GoesTo, Calm, RowsTyped

LEMMA EndsAside ==
    ASSUME RowsTyped, NEW p \in Requests, proc[p].op \in OtherOps, proc[p] # Idle,
           Finish(p), Calm
    PROVE  Aside
<1>1. Ends(p)
  BY FinishEnds DEF RowsTyped
<1> QED BY <1>1, OneAside, IdleRow DEF Ends, Calm, RowsTyped, OtherOps

LEMMA LearnsAside ==
    ASSUME RowsTyped, NEW p \in Requests, NEW change, proc[p].op \in OtherOps, proc[p] # Idle,
           proc' = [proc EXCEPT ![p] = With(proc[p], change)], "op" \notin DOMAIN change, Calm
    PROVE  Aside
<1>1. Learns(p, change)
  BY WithLearns DEF RowsTyped
<1>2. {"op", "step"} \subseteq DOMAIN proc[p] /\ proc'[p].op = proc[p].op
  BY <1>1 DEF Learns, RowsTyped, Rows
<1> QED BY <1>1, <1>2, OneAside DEF Learns, Calm, RowsTyped

LEMMA BeginsAside ==
    ASSUME RowsTyped, NEW p \in Requests, NEW r, Start(p, r), "op" \in DOMAIN r, r.op \in OtherOps
    PROVE  Aside
<1>1. Begins(p, r)
  BY StartBegins DEF RowsTyped
<1>2. {"op", "step"} \subseteq DOMAIN proc'[p] /\ proc'[p].op \in OtherOps
  BY <1>1 DEF Begins, With, Idle
<1>3. proc[p].op \in OtherOps
  BY <1>1, IdleRow DEF Begins, OtherOps
<1> QED BY <1>1, <1>2, <1>3 DEF Begins, Aside, OthersKeep, RowsTyped

LEMMA StillAside ==
    ASSUME RowsTyped, proc' = proc, scene' = scene, alone' = alone, faults' \in Nat, faults' = 0 => faults = 0
    PROVE  Aside
BY DEF Aside, RowsTyped, Rows

LEMMA FailAside ==
    ASSUME RowsTyped, NEW p \in Requests, Fail(p)
    PROVE  Aside
<1>1. Ends(p)
  BY FinishEnds DEF RowsTyped, Fail
<1> QED BY <1>1, IdleRow DEF Ends, Aside, OthersKeep, RowsTyped, OtherOps, Fail

LEMMA RestartAside ==
    ASSUME RowsTyped, Restart
    PROVE  Aside
<1>1. DOMAIN proc' = Requests /\ \A p \in Requests : proc'[p] = Idle
  BY RestartEnds DEF RowsTyped
<1> QED BY <1>1, IdleRow DEF Aside, RowsTyped, OtherOps, Restart

-----------------------------------------------------------------------------
(* The services around access                                                 *)

LEMMA WalletCallAside ==
    ASSUME RowsTyped, NEW p \in Requests, WalletCall(p)
    PROVE  Aside /\ UNCHANGED accessVars
<1>1. ASSUME NEW name, NEW e, AdminRoute(p, name, e) PROVE Aside /\ UNCHANGED accessVars
  BY <1>1, BeginsAside DEF AdminRoute, OtherOps
<1> QED BY <1>1 DEF WalletCall, SubmitScores, DistributeEpoch, ExecuteBuyback, UpdateMintCap,
                   EvaluateTier, MintCredential

LEMMA WalletStepAside ==
    ASSUME RowsTyped, WalletStep
    PROVE  Aside /\ UNCHANGED accessVars
<1>1. ASSUME NEW j, FundTask(j) \/ LeaveEscrow(j) PROVE Aside /\ UNCHANGED accessVars
  BY <1>1, StillAside DEF FundTask, LeaveEscrow, requestVars, RowsTyped
<1>2. ASSUME NEW s, PrepareCall(s) \/ SendCall(s) \/ MarkSettledOnChain(s) PROVE Aside /\ UNCHANGED accessVars
  BY <1>2, StillAside DEF PrepareCall, SendCall, MarkSettledOnChain, requestVars, RowsTyped
<1>3. ASSUME NEW s, CallFails(s) PROVE Aside /\ UNCHANGED accessVars
  BY <1>3, StillAside DEF CallFails, RowsTyped
<1>4. CASE Mine
  BY <1>4, StillAside DEF Mine, requestVars, RowsTyped
<1> QED BY <1>1, <1>2, <1>3, <1>4 DEF WalletStep

LEMMA WorkArrivesAside ==
    ASSUME RowsTyped, NEW p \in Requests, WorkArrives(p)
    PROVE  Aside /\ UNCHANGED accessVars
<1>1. ASSUME NEW op \in {"claim", "submit", "unclaim"}, NEW j, NEW a, NEW g, NEW key, WorkCall(p, op, j, a, g, key)
      PROVE Aside /\ UNCHANGED accessVars
  BY <1>1, BeginsAside DEF WorkCall, OtherOps
<1>2. ASSUME NEW j, NEW a, NEW g, NEW key,
             ClaimRoute(p, j, a, g, key) \/ SubmitRoute(p, j, a, g, key) \/ UnclaimRoute(p, j, a, g)
      PROVE Aside /\ UNCHANGED accessVars
  BY <1>1, <1>2 DEF ClaimRoute, SubmitRoute, UnclaimRoute
<1>3. ASSUME NEW j, NEW a, AcceptWork(p, j, a) \/ RejectWork(p, j)
      PROVE Aside /\ UNCHANGED accessVars
  BY <1>3, BeginsAside DEF AcceptWork, RejectWork, OtherOps
<1>4. ASSUME NEW j, NEW a, SpendCall(p, j, a) \/ OpenDispute(p, j, a)
      PROVE Aside /\ UNCHANGED accessVars
  BY <1>4, BeginsAside DEF SpendCall, OpenDispute, OtherOps
<1> QED BY <1>2, <1>3, <1>4 DEF WorkArrives

LEMMA WorkStepAside ==
    ASSUME RowsTyped, NEW p \in Requests, proc[p] # Idle, WorkStep(p)
    PROVE  Aside /\ UNCHANGED accessVars
<1>0. proc[p].op \in OtherOps
  BY DEF WorkStep, OtherOps
<1>1. CASE CheckPermission(p) \/ CheckWorkerStake(p)
  BY <1>0, <1>1, GoesAside, EndsAside DEF CheckPermission, CheckWorkerStake, Quiet
<1>2. CASE RowRead(p)
  BY <1>0, <1>2, EndsAside, LearnsAside DEF RowRead, Quiet
<1>3. CASE RowWrite(p)
  BY <1>0, <1>3, GoesAside DEF RowWrite, Quiet
<1>4. CASE Answer(p)
  BY <1>0, <1>4, EndsAside DEF Answer, Quiet
<1>5. CASE JobAccepted(p) \/ JobRejected(p)
  BY <1>0, <1>5, GoesAside, EndsAside DEF JobAccepted, JobRejected, Quiet
<1>6. CASE SettleOnChain(p)
  BY <1>0, <1>6, EndsAside DEF SettleOnChain, Quiet
<1>7. CASE SpendInsert(p)
  BY <1>0, <1>7, EndsAside DEF SpendInsert, Quiet
<1> QED BY <1>1, <1>2, <1>3, <1>4, <1>5, <1>6, <1>7 DEF WorkStep

LEMMA LapseAside ==
    ASSUME RowsTyped, NEW j, Lapse(j)
    PROVE  Aside /\ UNCHANGED accessVars
BY StillAside DEF Lapse, RowsTyped

LEMMA PlanAside ==
    ASSUME RowsTyped, NEW p \in Requests
    PROVE  /\ PlanArrives(p) => Aside /\ UNCHANGED accessVars
           /\ proc[p] # Idle /\ PlanStep(p) => Aside /\ UNCHANGED accessVars
<1>1. ASSUME PlanArrives(p) PROVE Aside /\ UNCHANGED accessVars
  <2>1. ASSUME NEW a, NEW b, CreateCall(p, a, b) PROVE Aside /\ UNCHANGED accessVars
    BY <2>1, BeginsAside DEF CreateCall, OtherOps
  <2>2. ASSUME NEW a, NEW i, PlanCall(p, i, a) PROVE Aside /\ UNCHANGED accessVars
    BY <2>2, BeginsAside DEF PlanCall, OtherOps
  <2>3. ASSUME NEW status, BoardCall(p, status) PROVE Aside /\ UNCHANGED accessVars
    BY <2>3, BeginsAside DEF BoardCall, OtherOps
  <2> QED BY <1>1, <2>1, <2>2, <2>3 DEF PlanArrives
<1>2. ASSUME proc[p] # Idle, PlanStep(p) PROVE Aside /\ UNCHANGED accessVars
  <2>0. proc[p].op \in OtherOps
    BY <1>2 DEF PlanStep, OtherOps
  <2>1. CASE CreateIdea(p) \/ RecordReservation(p) \/ QueueJobs(p) \/ BuildGroupedJobBoard(p)
    BY <1>2, <2>0, <2>1, GoesAside, EndsAside DEF CreateIdea, RecordReservation, QueueJobs, BuildGroupedJobBoard, Quiet
  <2>2. CASE InsertBrief(p) \/ FindReservation(p)
    BY <1>2, <2>0, <2>2, EndsAside, LearnsAside DEF InsertBrief, FindReservation, Quiet
  <2>3. CASE InsertJob(p)
    <3>1. CASE Finish(p) \/ Goto(p, "reserve")
      BY <1>2, <2>0, <2>3, <3>1, GoesAside, EndsAside DEF InsertJob, Quiet
    <3>2. CASE proc' = [proc EXCEPT ![p].amount = @ + 1]
      <4>1. OthersKeep(p) /\ DOMAIN proc'[p] = DOMAIN proc[p] /\ proc'[p].op = proc[p].op
        BY <3>2 DEF OthersKeep, RowsTyped, Rows
      <4> QED BY <1>2, <2>0, <2>3, <4>1, OneAside DEF InsertJob, Quiet, Calm, RowsTyped, Rows
    <3> QED BY <2>3, <3>1, <3>2 DEF InsertJob, Quiet
  <2> QED BY <1>2, <2>1, <2>2, <2>3 DEF PlanStep
<1> QED BY <1>1, <1>2

LEMMA PlanMovesAside ==
    ASSUME RowsTyped, PlanMoves
    PROVE  Aside /\ UNCHANGED accessVars
BY StillAside DEF PlanMoves, FundOrCancel, TakeJob, requestVars, RowsTyped

LEMMA LimitAside ==
    ASSUME RowsTyped, NEW p \in Requests
    PROVE  /\ LimitArrives(p) => Aside /\ UNCHANGED accessVars
           /\ proc[p] # Idle /\ LimitStep(p) => Aside /\ UNCHANGED accessVars
<1>1. ASSUME LimitArrives(p) PROVE Aside /\ UNCHANGED accessVars
  <2>1. ASSUME NEW kind, NEW c, LimitedCall(p, kind, c) PROVE Aside /\ UNCHANGED accessVars
    BY <2>1, BeginsAside DEF LimitedCall, OtherOps
  <2>2. ASSUME NEW c, AdminRefused(p, c) \/ GetBreakerStatus(p, c) \/ ResetBreaker(p, c)
        PROVE Aside /\ UNCHANGED accessVars
    BY <2>2, BeginsAside DEF AdminRefused, GetBreakerStatus, ResetBreaker, OtherOps
  <2>3. ASSUME RecordAccept(p) PROVE Aside /\ UNCHANGED accessVars
    <3>1. PICK r : Start(p, r) /\ r \in {[op |-> "limitAccept", step |-> "handle", seen |-> NextGeneration], [op |-> "idle"]}
      BY <2>3 DEF RecordAccept
    <3>2. "op" \in DOMAIN r /\ r.op \in OtherOps
      BY <3>1 DEF OtherOps
    <3> QED BY <2>3, <3>1, <3>2, BeginsAside DEF RecordAccept
  <2> QED BY <1>1, <2>1, <2>2, <2>3 DEF LimitArrives, WalletLimitedCall
<1>2. ASSUME proc[p] # Idle, LimitStep(p) PROVE Aside /\ UNCHANGED accessVars
  <2>0. proc[p].op \in OtherOps
    BY <1>2 DEF LimitStep, OtherOps
  <2>1. CASE Incr(p) \/ Expire(p) \/ CountInMemory(p)
    BY <1>2, <2>0, <2>1, GoesAside, EndsAside DEF Incr, Expire, CountInMemory, Decide, Quiet
  <2>2. CASE RedisFails(p)
    <3>1. GoesTo(p, "memory")
      BY <2>2, GotoGoes DEF RedisFails, RowsTyped
    <3>2. {"op", "step"} \subseteq DOMAIN proc[p] /\ proc'[p].op = proc[p].op
      BY <3>1 DEF GoesTo, RowsTyped, Rows
    <3> QED BY <1>2, <2>0, <2>2, <3>1, <3>2, OneAside DEF GoesTo, RedisFails, RowsTyped
  <2>3. CASE AcceptAnswers(p) \/ \E is5xx \in BOOLEAN : RecordError(p, is5xx)
    BY <1>2, <2>0, <2>3, EndsAside, Zenon DEF AcceptAnswers, RecordError, Quiet
  <2> QED BY <1>2, <2>1, <2>2, <2>3 DEF LimitStep
<1> QED BY <1>1, <1>2

-----------------------------------------------------------------------------
(* The pages of workers and reviewers                                         *)

LEMMA BoardAside ==
    ASSUME RowsTyped, WorkerStep
    PROVE  Aside /\ UNCHANGED accessVars
<1>1. ASSUME BoardMoves PROVE Aside /\ UNCHANGED accessVars
  <2>1. ASSUME NEW a, CloseDialog(a) PROVE Aside /\ UNCHANGED accessVars
    BY <2>1, StillAside DEF CloseDialog, ServedByBroker, requestVars, RowsTyped
  <2>2. ASSUME NEW a, NEW g, NEW j, NEW kind, OpenDialog(a, g, j, kind) PROVE Aside /\ UNCHANGED accessVars
    BY <2>2, StillAside DEF OpenDialog, ServedByBroker, requestVars, RowsTyped
  <2>3. ASSUME NEW j, LeaseLapses(j) PROVE Aside /\ UNCHANGED accessVars
    BY <2>3, StillAside DEF LeaseLapses, ServedByBroker, RowsTyped
  <2> QED BY <1>1, <2>1, <2>2, <2>3 DEF BoardMoves
<1>2. ASSUME NEW p \in Requests, BoardArrives(p) PROVE Aside /\ UNCHANGED accessVars
  <2>1. ASSUME NEW a, NEW g, Press(p, a, g) PROVE Aside /\ UNCHANGED accessVars
    BY <2>1, BeginsAside DEF Press, ServedByBroker, OtherOps
  <2>2. ASSUME NEW a, NEW g, NEW j, HandleDemoClaim(p, a, g, j) PROVE Aside /\ UNCHANGED accessVars
    BY <2>2, BeginsAside DEF HandleDemoClaim, ServedByBroker, OtherOps
  <2>3. ASSUME NEW a, NEW g, NEW j, NEW kind, NEW n, Command(p, a, g, j, kind, n) PROVE Aside /\ UNCHANGED accessVars
    BY <2>3, BeginsAside DEF Command, ServedByBroker, OtherOps
  <2> QED BY <1>2, <2>1, <2>2, <2>3 DEF BoardArrives
<1>3. ASSUME NEW p \in Requests, BoardStep(p) PROVE Aside /\ UNCHANGED accessVars
  <2>0. proc[p].op \in OtherOps /\ proc[p] # Idle
    BY <1>3, IdleRow DEF BoardStep, IsWorker, OtherOps
  <2>1. CASE SignAction(p) \/ UnclaimJob(p) \/ SubmitProof(p)
    BY <2>0, <2>1, GoesAside DEF SignAction, UnclaimJob, SubmitProof, Quiet, ServedByBroker
  <2>2. CASE Refused(p) \/ Answered(p)
    BY <2>0, <2>2, EndsAside DEF Refused, Answered, Quiet, ServedByBroker
  <2>3. CASE ClaimJob(p)
    <3> DEFINE change == [step |-> "answer", claim |-> Len(claims) + 1]
    <3>1. proc' = [proc EXCEPT ![p] = With(proc[p], change)] /\ Calm /\ UNCHANGED accessVars /\ "op" \notin DOMAIN change
      BY <2>3 DEF ClaimJob, Quiet, ServedByBroker
    <3> HIDE DEF change
    <3> QED BY <2>0, <3>1, LearnsAside
  <2>4. CASE PageFails(p)
    BY <2>4, FailAside DEF PageFails, ServedByBroker
  <2> QED BY <1>3, <2>1, <2>2, <2>3, <2>4 DEF BoardStep
<1> QED BY <1>1, <1>2, <1>3 DEF WorkerStep

LEMMA ReviewAside ==
    ASSUME RowsTyped, ReviewerStep
    PROVE  Aside /\ UNCHANGED accessVars
<1>1. ASSUME ReviewMoves PROVE Aside /\ UNCHANGED accessVars
  <2>1. ASSUME NEW a, Refetch(a) \/ ToggleForm(a) \/ Proceed(a) PROVE Aside /\ UNCHANGED accessVars
    BY <2>1, StillAside DEF Refetch, ToggleForm, Proceed, ReviewServed, requestVars, RowsTyped
  <2>2. ASSUME NEW a, OpenReview(a) PROVE Aside /\ UNCHANGED accessVars
    BY <2>2, StillAside DEF OpenReview, ReviewServed, RowsTyped
  <2>3. ASSUME NEW j, NEW w, Resubmit(j, w) PROVE Aside /\ UNCHANGED accessVars
    BY <2>3, StillAside DEF Resubmit, Submit, ReviewServed, RowsTyped
  <2> QED BY <1>1, <2>1, <2>2, <2>3 DEF ReviewMoves
<1>2. ASSUME NEW p \in Requests, ReviewArrives(p) PROVE Aside /\ UNCHANGED accessVars
  <2>1. ASSUME NEW a, NEW control, NEW kind, NEW step, NEW tx, Ask(p, a, control, kind, step, tx)
        PROVE Aside /\ UNCHANGED accessVars
    BY <2>1, BeginsAside DEF Ask, ReviewServed, OtherOps
  <2> QED BY <1>2, <2>1 DEF ReviewArrives, AskAccept, AskReject, AskRecord, AskRelease, AskSync
<1>3. ASSUME NEW p \in Requests, ReviewStep(p) PROVE Aside /\ UNCHANGED accessVars
  <2>0. proc[p].op \in OtherOps /\ proc[p] # Idle
    BY <1>3, IdleRow DEF ReviewStep, OtherOps
  <2>1. CASE AcceptRoute(p)
    <3> DEFINE row == [reviewer |-> Reviewer(proc[p].page), worker |-> holder[proc[p].job]]
               change == [step |-> "answer", attestation |-> row]
    <3>1. proc' = [proc EXCEPT ![p] = With(proc[p], change)] /\ Calm /\ UNCHANGED accessVars /\ "op" \notin DOMAIN change
      BY <2>1 DEF AcceptRoute, Quiet, ReviewServed
    <3> HIDE DEF change
    <3> QED BY <2>0, <3>1, LearnsAside
  <2>2. CASE AcceptHalf(p)
    <3>1. Ends(p)
      BY <2>2, FinishEnds DEF AcceptHalf, RowsTyped
    <3> QED BY <2>0, <2>2, <3>1, OneAside, IdleRow DEF Ends, AcceptHalf, ReviewServed, RowsTyped, OtherOps
  <2>3. CASE RejectRoute(p) \/ AttestRoute(p)
    BY <2>0, <2>3, GoesAside DEF RejectRoute, AttestRoute, Quiet, ReviewServed
  <2>4. CASE ReleaseRoute(p)
    BY <2>0, <2>4, GoesAside, EndsAside DEF ReleaseRoute, Quiet, ReviewServed
  <2>5. ASSUME NEW h, RecordOnChain(p, h) PROVE Aside /\ UNCHANGED accessVars
    <3> DEFINE change == [step |-> "call", tx |-> h]
    <3>1. proc' = [proc EXCEPT ![p] = With(proc[p], change)] /\ Calm /\ UNCHANGED accessVars /\ "op" \notin DOMAIN change
      BY <2>5 DEF RecordOnChain, Quiet, ReviewServed
    <3> HIDE DEF change
    <3> QED BY <2>0, <3>1, LearnsAside
  <2>6. CASE ReviewAnswered(p) \/ ReviewRefused(p)
    BY <2>0, <2>6, EndsAside DEF ReviewAnswered, ReviewRefused, Quiet, ReviewServed
  <2>7. CASE ReviewFails(p)
    BY <2>7, FailAside DEF ReviewFails, ReviewServed
  <2> QED BY <1>3, <2>1, <2>2, <2>3, <2>4, <2>5, <2>6, <2>7 DEF ReviewStep
<1> QED BY <1>1, <1>2, <1>3 DEF ReviewerStep

LEMMA AccessCases ==
    ASSUME RowsTyped, ClientNext
    PROVE  \/ Aside /\ UNCHANGED <<accessVars, agentPageVars, ideaPageVars>>
           \/ /\ ~OfClient /\ UNCHANGED clientVars
              /\ \/ Tick
                 \/ \E p \in Requests : AccessCall(p)
                 \/ \E p \in Requests : proc[p] # Idle /\ AccessStep(p)
           \/ PosterStep
           \/ AgentsStep
<1>1. CASE ServicesStep
  <2>1. ASSUME NEW p \in Requests, ServicesArrive(p)
        PROVE  (Aside /\ UNCHANGED accessVars) \/ AccessCall(p)
    BY <2>1, WalletCallAside, WorkArrivesAside, PlanAside, LimitAside DEF ServicesArrive
  <2>2. ASSUME NEW p \in Requests, ServicesAnswer(p)
        PROVE  (Aside /\ UNCHANGED accessVars) \/ (proc[p] # Idle /\ AccessStep(p))
    BY <2>2, WorkStepAside, PlanAside, LimitAside, FailAside DEF ServicesAnswer
  <2>3. ASSUME Elsewhere PROVE (Aside /\ UNCHANGED accessVars) \/ Tick
    BY <2>3, WalletStepAside, LapseAside, PlanMovesAside DEF Elsewhere
  <2>5. ASSUME Restart, UNCHANGED accessVars PROVE Aside /\ UNCHANGED accessVars
    BY <2>5, RestartAside
  <2>6. UNCHANGED <<agentPageVars, ideaPageVars>> /\ ~OfClient /\ UNCHANGED clientVars
    BY <1>1 DEF ServicesStep, clientVars
  <2> QED BY <1>1, <2>1, <2>2, <2>3, <2>5, <2>6 DEF ServicesStep, ServicesNext
<1>2. CASE WorkerStep
  BY <1>2, BoardAside DEF WorkerStep
<1>3. CASE ReviewerStep
  BY <1>3, ReviewAside DEF ReviewerStep
<1> QED BY <1>1, <1>2, <1>3 DEF ClientNext

-----------------------------------------------------------------------------
(* Sequences that are tables                                                  *)

LEMMA SeqUpdate ==
    ASSUME NEW S, NEW s \in Seq(S), NEW i, NEW e, i \in DOMAIN s => e \in S
    PROVE  /\ [s EXCEPT ![i] = e] \in Seq(S)
           /\ DOMAIN [s EXCEPT ![i] = e] = DOMAIN s
           /\ \A k \in DOMAIN s : [s EXCEPT ![i] = e][k] = IF k = i THEN e ELSE s[k]
<1> DEFINE t == [s EXCEPT ![i] = e]
<1>1. s \in [1..Len(s) -> S] /\ DOMAIN s = 1..Len(s) /\ Len(s) \in Nat
  OBVIOUS
<1>2. t = [k \in 1..Len(s) |-> IF k = i THEN e ELSE s[k]]
  BY <1>1
<1>3. t \in [1..Len(s) -> S]
  BY <1>1, <1>2
<1> QED BY <1>1, <1>2, <1>3, SeqDef

LEMMA SeqAppend ==
    ASSUME NEW S, NEW s \in Seq(S), NEW e \in S
    PROVE  /\ Append(s, e) \in Seq(S)
           /\ DOMAIN Append(s, e) = DOMAIN s \cup {Len(s) + 1} /\ Len(s) + 1 \notin DOMAIN s
           /\ \A k \in DOMAIN s : Append(s, e)[k] = s[k]
           /\ Append(s, e)[Len(s) + 1] = e
           /\ DOMAIN s = 1..Len(s) /\ Len(s) \in Nat
OBVIOUS

LEMMA TypedOne ==
    ASSUME RowsTyped, NEW p \in Requests, OthersKeep(p),
           {"op", "step"} \subseteq DOMAIN proc'[p], AccessRow(proc'[p]),
           scene' = scene, faults' \in Nat,
           \/ proc[p] # Idle /\ alone' = alone
           \/ alone' => alone /\ \A q \in Requests : proc[q] = Idle
    PROVE  RowsTyped'
<1>1. Rows' /\ \A q \in Requests : AccessRow(proc'[q])
  BY DEF RowsTyped, Rows, OthersKeep
<1>2. Lonely'
  BY DEF RowsTyped, Lonely, OthersKeep
<1> QED BY <1>1, <1>2 DEF RowsTyped

LEMMA BeginsTyped ==
    ASSUME RowsTyped, NEW p \in Requests, NEW r, Start(p, r), "op" \in DOMAIN r, AccessRow(With(Idle, r))
    PROVE  RowsTyped'
<1>1. Begins(p, r)
  BY StartBegins DEF RowsTyped
<1>2. {"op", "step"} \subseteq DOMAIN proc'[p]
  BY <1>1 DEF Begins, With, Idle
<1> QED BY <1>1, <1>2, TypedOne DEF Begins, RowsTyped

LEMMA EndsTyped ==
    ASSUME RowsTyped, NEW p \in Requests, proc[p] # Idle, Finish(p), Calm
    PROVE  RowsTyped'
<1>1. Ends(p)
  BY FinishEnds DEF RowsTyped
<1>2. AccessRow(Idle)
  BY IdleRow DEF AccessRow
<1> QED BY <1>1, <1>2, TypedOne, IdleRow DEF Ends, RowsTyped, Calm

\* A row that goes on keeps its fields.
LEMMA GoesTyped ==
    ASSUME RowsTyped, NEW p \in Requests, proc[p] # Idle, NEW s, Goto(p, s), Calm,
           NEW r, r = proc'[p], 
           r.op = proc[p].op /\ r.step = s /\ DOMAIN r = DOMAIN proc[p]
             /\ (\A f \in DOMAIN proc[p] \ {"step"} : r[f] = proc[p][f]) => AccessRow(r)
    PROVE  RowsTyped'
<1>1. GoesTo(p, s)
  BY GotoGoes DEF RowsTyped
<1>2. {"op", "step"} \subseteq DOMAIN proc[p] /\ proc'[p].op = proc[p].op
  BY <1>1 DEF GoesTo, RowsTyped, Rows
<1> QED BY <1>1, <1>2, TypedOne DEF GoesTo, RowsTyped, Calm

LEMMA StillTyped ==
    ASSUME RowsTyped, proc' = proc, scene' = scene, alone' = alone, faults' \in Nat
    PROVE  RowsTyped'
BY DEF RowsTyped, Rows, Lonely

LEMMA TableRows ==
    ASSUME AccessTables
    PROVE  /\ \A i \in DOMAIN auths : auths[i] \in AuthType /\ i \in Nat \ {0}
           /\ \A c \in DOMAIN challenges : challenges[c] \in ChallengeType /\ c \in Nat \ {0}
           /\ \A s \in DOMAIN sessions : sessions[s] \in SessionType /\ s \in Nat \ {0}
<1>1. ASSUME NEW S, NEW t \in Seq(S), NEW i \in DOMAIN t PROVE t[i] \in S /\ i \in Nat \ {0}
  OBVIOUS
<1> QED BY <1>1 DEF AccessTables

LEMMA CallTyped ==
    ASSUME AccessTyped, NEW p \in Requests, AccessCall(p)
    PROVE  RowsTyped' /\ AccessTables'
<1> USE DEF AccessTyped
<1>0. Setting.agents \subseteq Agents
  BY SettingFacts DEF RowsTyped
<1>1. ASSUME NEW a \in Accounts, ChallengeCall(p, a, "web_login", None, None) PROVE RowsTyped' /\ AccessTables'
  <2>1. RowsTyped'
    BY <1>1, BeginsTyped DEF ChallengeCall, AccessRow, ChallengeRow, With, Idle
  <2> QED BY <1>1, <2>1 DEF ChallengeCall, AccessTables, accessVars, accountVars, agentVars, kitVars
<1>2. ASSUME NEW a \in Accounts, NEW c \in DOMAIN challenges, LoginCall(p, c, a) PROVE RowsTyped' /\ AccessTables'
  <2>0. c \in Nat
    BY <1>2 DEF AccessTables
  <2>1. RowsTyped'
    BY <1>2, <2>0, BeginsTyped DEF LoginCall, AccessRow, LoginRow, With, Idle
  <2> QED BY <1>2, <2>1 DEF LoginCall, AccessTables, accessVars, accountVars, agentVars, kitVars
<1>3. ASSUME NEW a \in Accounts, NEW role \in AgentRoles, NEW h \in Humans, WorldCall(p, a, role, h)
      PROVE RowsTyped' /\ AccessTables'
  <2>1. RowsTyped'
    BY <1>3, BeginsTyped DEF WorldCall, AccessRow, WorldRow, With, Idle
  <2> QED BY <1>3, <2>1 DEF WorldCall, AccessTables, accessVars, accountVars, agentVars, kitVars
<1>4. ASSUME NEW a \in Accounts, NEW g \in Setting.agents, NEW role \in AgentRoles, NEW s \in Permissions,
             AuthorizeCall(p, a, g, role, s)
      PROVE RowsTyped' /\ AccessTables'
  <2>1. PICK i \in Nat :
           /\ i = 0 \/ i \in DOMAIN auths
           /\ Start(p, [op |-> "authorize", step |-> "write", account |-> a, agent |-> g,
                    role |-> role, scope |-> s, auth |-> i,
                    token |-> IF i = 0 THEN None ELSE auths[i].token])
    BY <1>4 DEF AuthorizeCall, Matching, AccessTables
  <2>2. (IF i = 0 THEN None ELSE auths[i].token) \in TokenIds
    BY <2>1, TableRows DEF AuthType, TokenIds
  <2>3. RowsTyped'
    BY <1>0, <1>4, <2>1, <2>2, BeginsTyped DEF AccessRow, AuthorizeRow, With, Idle
  <2> QED BY <1>4, <2>3 DEF AuthorizeCall, AccessTables, accessVars, accountVars, agentVars, kitVars
<1>5. ASSUME NEW a \in Accounts, NEW i \in DOMAIN auths, NEW x \in Txs, NEW t \in Tokens, RegisterCall(p, a, i, x, t)
      PROVE RowsTyped' /\ AccessTables'
  <2>1. auths[i] \in AuthType /\ i \in Nat
    BY DEF AccessTables
  <2>3. RowsTyped'
    BY <1>5, <2>1, BeginsTyped DEF RegisterCall, AccessRow, RegisterRow, With, Idle, AuthType
  <2> QED BY <1>5, <2>3 DEF RegisterCall, AccessTables, accessVars, accountVars, agentVars, kitVars
<1>6. ASSUME NEW a \in Accounts, NEW role \in AgentRoles, SyncRoleCall(p, a, role) PROVE RowsTyped' /\ AccessTables'
  <2>1. RowsTyped'
    BY <1>6, BeginsTyped DEF SyncRoleCall, AccessRow, SyncRoleRow, With, Idle
  <2> QED BY <1>6, <2>1 DEF SyncRoleCall, AccessTables, accessVars, accountVars, agentVars, kitVars
<1>7. ASSUME NEW a \in Accounts, NEW h \in Humans, RegisterAgentBook(p, a, h) PROVE RowsTyped' /\ AccessTables'
  <2>1. RowsTyped'
    BY <1>7, BeginsTyped DEF RegisterAgentBook, AccessRow, With, Idle
  <2>2. agentBook' \in [Accounts -> Humans \cup {None}]
    BY <1>7 DEF RegisterAgentBook, AccessTables
  <2> QED BY <1>7, <2>1, <2>2 DEF RegisterAgentBook, AccessTables, accountVars, agentVars
<1>8. ASSUME NEW a \in Accounts, NEW e \in Endpoints, NEW n \in Nonces, KitCall(p, a, e, n) PROVE RowsTyped' /\ AccessTables'
  <2>1. RowsTyped'
    BY <1>8, BeginsTyped DEF KitCall, AccessRow, KitRow, With, Idle
  <2> QED BY <1>8, <2>1 DEF KitCall, AccessTables, accessVars, accountVars, agentVars, kitVars
<1>9. ASSUME NEW s \in DOMAIN sessions, RevokeSession(p, s) PROVE RowsTyped' /\ AccessTables'
  <2>1. RowsTyped'
    BY <1>9, BeginsTyped DEF RevokeSession, AccessRow, With, Idle
  <2>2. sessions[s] \in SessionType /\ [sessions[s] EXCEPT !.revoked = TRUE] \in SessionType
    BY <1>9, TableRows DEF SessionType
  <2>3. sessions' = [sessions EXCEPT ![s] = [sessions[s] EXCEPT !.revoked = TRUE]]
    BY <1>9 DEF RevokeSession
  <2>4. sessions' \in Seq(SessionType)
    BY <2>2, <2>3, SeqUpdate DEF AccessTables
  <2> QED BY <1>9, <2>1, <2>4 DEF RevokeSession, AccessTables, accountVars, agentVars, kitVars
<1> QED BY <1>1, <1>2, <1>3, <1>4, <1>5, <1>6, <1>7, <1>8, <1>9 DEF AccessCall

LEMMA AccessStepTyped ==
    ASSUME AccessTyped, NEW p \in Requests, proc[p] # Idle, AccessStep(p)
    PROVE  RowsTyped' /\ AccessTables'
<1> USE DEF AccessTyped
<1>0. {"op", "step"} \subseteq DOMAIN proc[p] /\ AccessRow(proc[p])
  BY DEF RowsTyped, Rows
<1>1. CASE ChallengeUse(p)
  <2> DEFINE to == IF proc[p].op = "login" THEN "session" ELSE "permission"
             c == proc[p].challenge
  <2>1. GoesTo(p, to) /\ Calm
    BY <1>1, GotoGoes DEF ChallengeUse, Quiet, RowsTyped
  <2>2. proc'[p].op = proc[p].op /\ {"op", "step"} \subseteq DOMAIN proc'[p]
    BY <1>0, <2>1, SMTT(30) DEF GoesTo
  <2>3. AccessRow(proc'[p])
    <3>1. CASE proc[p].op = "login"
      BY <1>0, <2>1, <2>2, <3>1 DEF GoesTo, AccessRow, LoginRow
    <3>2. CASE proc[p].op \in OtherOps
      BY <2>2, <3>2 DEF AccessRow, OtherOps
    <3>3. CASE proc[p].op = "post"
      BY <1>0, <2>1, <2>2, <3>3 DEF GoesTo, AccessRow, PostRow
    <3>4. proc[p].step = "use"
      BY <1>1 DEF ChallengeUse
    <3>5. CASE proc[p].op \notin {"login", "post", "challenge", "world", "authorize", "register", "syncRole", "kit", "agent"}
      BY <2>2, <3>5 DEF AccessRow
    <3> QED BY <1>0, <3>1, <3>3, <3>4, <3>5
            DEF AccessRow, ChallengeRow, WorldRow, AuthorizeRow, RegisterRow, SyncRoleRow, KitRow, AgentRow
  <2>4. RowsTyped'
    BY <2>1, <2>2, <2>3, TypedOne DEF GoesTo, Calm, RowsTyped
  <2>5. c \in DOMAIN challenges => [challenges[c] EXCEPT !.used = TRUE] \in ChallengeType
    BY TableRows DEF ChallengeType
  <2>6. challenges' = [challenges EXCEPT ![c] = [challenges[c] EXCEPT !.used = TRUE]]
    BY <1>1 DEF ChallengeUse
  <2>7. challenges' \in Seq(ChallengeType)
    <3> HIDE DEF c
    <3> QED BY <2>5, <2>6, SeqUpdate DEF AccessTables
  <2> QED BY <1>1, <2>4, <2>7 DEF ChallengeUse, AccessTables, agentVars, kitVars
<1>2. CASE AccountInsert(p)
  <2>1. ChallengeRow(proc[p])
    BY <1>0, <1>2 DEF AccountInsert, At, AccessRow
  <2>2. RowsTyped'
    <3>1. CASE Finish(p)
      BY <1>2, <3>1, EndsTyped DEF AccountInsert, Quiet
    <3>2. CASE Goto(p, "issue")
      BY <1>0, <1>2, <2>1, <3>2, GoesTyped DEF AccountInsert, At, Quiet, AccessRow, ChallengeRow
    <3> QED BY <1>2, <3>1, <3>2 DEF AccountInsert
  <2> QED BY <1>2, <2>1, <2>2 DEF AccountInsert, ChallengeRow, AccessTables, agentVars, kitVars
<1>3. CASE ChallengeInsert(p)
  <2>1. ChallengeRow(proc[p])
    BY <1>0, <1>3 DEF ChallengeInsert, At, AccessRow
  <2>2. RowsTyped'
    BY <1>3, EndsTyped DEF ChallengeInsert, Quiet
  <2> DEFINE new == Challenge(proc[p].account, proc[p].purpose, proc[p].job, proc[p].agent)
  <2>3. new \in ChallengeType
    BY <2>1, AccessAssumption DEF ChallengeRow, Challenge, ChallengeType, PurposeNames, AccessTables
  <2>4. challenges' \in Seq(ChallengeType)
    <3>1. challenges' = Append(challenges, new)
      BY <1>3 DEF ChallengeInsert
    <3> HIDE DEF new
    <3> QED BY <2>3, <3>1 DEF AccessTables
  <2> QED BY <1>3, <2>2, <2>4 DEF ChallengeInsert, AccessTables, agentVars, kitVars
<1>4. CASE SessionInsert(p)
  <2>1. LoginRow(proc[p])
    BY <1>0, <1>4 DEF SessionInsert, At, AccessRow
  <2>2. RowsTyped'
    BY <1>4, EndsTyped DEF SessionInsert, Quiet
  <2> DEFINE new == [account |-> proc[p].account, expires |-> clock + SessionTTL,
                     revoked |-> FALSE, from |-> proc[p].challenge]
  <2>3. new \in SessionType
    BY <2>1, AccessAssumption DEF LoginRow, SessionType, AccessTables
  <2>4. sessions' \in Seq(SessionType)
    <3>1. sessions' = Append(sessions, new)
      BY <1>4 DEF SessionInsert
    <3> HIDE DEF new
    <3> QED BY <2>3, <3>1 DEF AccessTables
  <2> QED BY <1>4, <2>2, <2>4 DEF SessionInsert, AccessTables, agentVars, kitVars
<1>5. CASE RoleRead(p)
  <2>1. WorldRow(proc[p])
    BY <1>0, <1>5 DEF RoleRead, At, AccessRow
  <2>2. /\ OthersKeep(p) /\ DOMAIN proc'[p] = DOMAIN proc[p]
        /\ proc'[p].op = proc[p].op /\ proc'[p].step = "write"
        /\ proc'[p].account = proc[p].account /\ proc'[p].role = proc[p].role /\ proc'[p].human = proc[p].human
    BY <1>0, <1>5, <2>1 DEF RoleRead, OthersKeep, RowsTyped, Rows, WorldRow
  <2>3. AccessRow(proc'[p])
    BY <1>5, <2>1, <2>2 DEF AccessRow, WorldRow, RoleRead, At
  <2> QED BY <1>0, <1>5, <2>2, <2>3, TypedOne
          DEF RoleRead, Quiet, Calm, RowsTyped, AccessTables, accessVars, accountVars, agentVars, kitVars
<1>6. CASE RoleWrite(p)
  <2>1. WorldRow(proc[p])
    BY <1>0, <1>6 DEF RoleWrite, At, AccessRow
  <2>2. RowsTyped'
    BY <1>6, EndsTyped DEF RoleWrite, Quiet
  <2>3. RoleRow(p) \in RoleType
    BY <2>1 DEF RoleRow, RoleType, WorldRow, RoleNames
  <2>4. roles' \subseteq roles \cup {RoleRow(p)}
    BY <1>6 DEF RoleWrite
  <2> QED BY <1>6, <2>2, <2>3, <2>4 DEF RoleWrite, AccessTables, accountVars, agentVars, kitVars
<1>7. CASE AuthorizationWrite(p)
  <2> DEFINE r == proc[p]
             new == [account |-> r.account, agent |-> r.agent, role |-> r.role,
                     scope |-> r.scope, active |-> FALSE, token |-> None]
             changed == [auths[r.auth] EXCEPT !.scope = r.scope, !.active = (r.token # None)]
  <2>1. AuthorizeRow(proc[p])
    BY <1>0, <1>7 DEF AuthorizationWrite, At, AccessRow
  <2>2. RowsTyped'
    BY <1>7, EndsTyped DEF AuthorizationWrite, Quiet
  <2>3. new \in AuthType
    BY <2>1 DEF AuthorizeRow, AuthType, RoleNames, PermissionNames, TokenIds
  <2>4. r.auth \in DOMAIN auths => changed \in AuthType
    <3>1. r.scope \in SUBSET PermissionNames
      BY <2>1 DEF AuthorizeRow, PermissionNames
    <3>2. (r.token # None) \in BOOLEAN
      OBVIOUS
    <3> QED BY <3>1, <3>2, TableRows, ZenonT(40) DEF AuthType
  <2>5. auths' = IF r.auth = 0 THEN Append(auths, new) ELSE [auths EXCEPT ![r.auth] = changed]
    BY <1>7 DEF AuthorizationWrite
  <2>6. auths' \in Seq(AuthType)
    <3> HIDE DEF new, changed, r
    <3> QED BY <2>3, <2>4, <2>5, SeqUpdate, SeqAppend DEF AccessTables
  <2> QED BY <1>7, <2>2, <2>6 DEF AuthorizationWrite, AccessTables, accountVars, kitVars
<1>8. CASE RecordRegistration(p)
  <2>1. RegisterRow(proc[p])
    BY <1>0, <1>8 DEF RecordRegistration, At, AccessRow
  <2>2. RowsTyped'
    <3>1. CASE Finish(p)
      BY <1>8, <3>1, EndsTyped DEF RecordRegistration, Quiet
    <3>2. CASE Goto(p, "activate")
      BY <1>0, <1>8, <2>1, <3>2, GoesTyped DEF RecordRegistration, At, Quiet, AccessRow, RegisterRow
    <3> QED BY <1>8, <3>1, <3>2 DEF RecordRegistration
  <2> QED BY <1>8, <2>2 DEF RecordRegistration, AccessTables, accessVars, accountVars, agentVars, kitVars
<1>9. CASE Activate(p)
  <2> DEFINE r == proc[p]
             changed == [auths[r.auth] EXCEPT !.active = TRUE, !.token = r.token]
  <2>1. RegisterRow(proc[p])
    BY <1>0, <1>9 DEF Activate, At, AccessRow
  <2>2. RowsTyped'
    BY <1>0, <1>9, <2>1, GoesTyped DEF Activate, At, Quiet, AccessRow, RegisterRow
  <2>4. r.auth \in DOMAIN auths => changed \in AuthType
    <3>1. r.token \in TokenIds
      BY <2>1 DEF RegisterRow, TokenIds
    <3> QED BY <3>1, TableRows DEF AuthType
  <2>5. auths' = [auths EXCEPT ![r.auth] = changed]
    BY <1>9 DEF Activate
  <2>6. auths' \in Seq(AuthType)
    <3> HIDE DEF changed, r
    <3> QED BY <2>4, <2>5, SeqUpdate DEF AccessTables
  <2> QED BY <1>9, <2>2, <2>6 DEF Activate, AccessTables, accountVars, kitVars
<1>10. CASE IdentityRead(p)
  <2>1. RegisterRow(proc[p])
    BY <1>0, <1>10 DEF IdentityRead, At, AccessRow
  <2> DEFINE r == proc[p]
             t == proc'[p]
  <2>2. /\ OthersKeep(p) /\ DOMAIN t = DOMAIN r
        /\ t.op = r.op /\ t.step = "publish"
        /\ \A f \in DOMAIN r \ {"step", "valid"} : t[f] = r[f]
    BY <1>0, <1>10, <2>1 DEF IdentityRead, OthersKeep, RowsTyped, Rows, RegisterRow
  <2>3. AccessRow(t)
    <3> HIDE DEF t, r
    <3>1. RegisterRow(r) /\ r.op = "register"
      BY <1>10, <2>1 DEF r, IdentityRead, At
    <3> QED BY <2>2, <3>1 DEF AccessRow, RegisterRow
  <2> QED BY <1>0, <1>10, <2>2, <2>3, TypedOne
          DEF IdentityRead, Quiet, Calm, RowsTyped, AccessTables, accessVars, accountVars, agentVars, kitVars
<1>11. CASE IdentityWrite(p)
  <2>1. RegisterRow(proc[p])
    BY <1>0, <1>11 DEF IdentityWrite, At, AccessRow
  <2>2. RowsTyped'
    BY <1>11, EndsTyped DEF IdentityWrite, Quiet
  <2> DEFINE new == [role |-> proc[p].role, token |-> proc[p].token, scope |-> proc[p].scope]
             f == <<proc[p].account, proc[p].agent>>
  <2>3. new \in IdentityType /\ f \in Fingerprints
    BY <2>1 DEF RegisterRow, IdentityType, TokenIds, Fingerprints
  <2>4. identities' = identities \/ identities' = [identities EXCEPT ![f] = new]
    BY <1>11 DEF IdentityWrite
  <2>5. identities' \in [Fingerprints -> IdentityType]
    <3> HIDE DEF new, f
    <3> QED BY <2>3, <2>4 DEF AccessTables
  <2> QED BY <1>11, <2>2, <2>5 DEF IdentityWrite, AccessTables, accountVars, kitVars
<1>12. CASE SetVerified(p)
  BY <1>12, EndsTyped DEF SetVerified, Quiet, AccessTables, accountVars, agentVars, kitVars
<1>13. CASE ClaimNonce(p)
  <2>1. KitRow(proc[p])
    BY <1>0, <1>13 DEF ClaimNonce, At, AccessRow
  <2>2. RowsTyped'
    <3>1. CASE Finish(p)
      BY <1>13, <3>1, EndsTyped DEF ClaimNonce, Quiet
    <3>2. CASE Goto(p, "human")
      BY <1>0, <1>13, <2>1, <3>2, GoesTyped DEF ClaimNonce, At, Quiet, AccessRow, KitRow
    <3> QED BY <1>13, <3>1, <3>2 DEF ClaimNonce
  <2> QED BY <1>13, <2>2 DEF ClaimNonce, AccessTables, accountVars, agentVars
<1>14. ASSUME NEW h \in Humans, KitRow(proc[p]), Grant(p, h) PROVE grants' \subseteq GrantType /\ IsFiniteSet(grants')
  <2>1. [endpoint |-> proc[p].endpoint, human |-> h, nonce |-> proc[p].nonce] \in GrantType
    BY <1>14 DEF KitRow, GrantType
  <2> QED BY <1>14, <2>1, FS_AddElement DEF Grant, AccessTables
<1>15. CASE LookupHuman(p)
  <2> DEFINE h == agentBook[proc[p].account]
  <2>1. KitRow(proc[p])
    BY <1>0, <1>15 DEF LookupHuman, At, AccessRow
  <2>0. h \in Humans \cup {None}
    BY <2>1 DEF KitRow, AccessTables
  <2>2. RowsTyped' /\ grants' \subseteq GrantType /\ IsFiniteSet(grants')
    <3>1. CASE h # None /\ Setting.trial
      <4> DEFINE change == [human |-> h, step |-> "count"]
                 t == proc'[p]
      <4>1. proc' = [proc EXCEPT ![p] = With(proc[p], change)] /\ UNCHANGED grants
        BY <1>15, <3>1 DEF LookupHuman
      <4>2. Learns(p, change)
        <5> HIDE DEF change
        <5> QED BY <4>1, WithLearns DEF RowsTyped
      <4>3. /\ DOMAIN t = DOMAIN proc[p] \cup {"human"} /\ t.human = h /\ t.step = "count" /\ t.op = "kit"
            /\ t.account = proc[p].account /\ t.endpoint = proc[p].endpoint /\ t.nonce = proc[p].nonce
        BY <1>0, <1>15, <2>1, <4>2 DEF Learns, KitRow, LookupHuman, At
      <4>4. AccessRow(t)
        BY <2>0, <2>1, <3>1, <4>3 DEF AccessRow, KitRow
      <4> QED BY <1>0, <1>15, <4>1, <4>2, <4>3, <4>4, TypedOne DEF Learns, LookupHuman, Quiet, Calm, RowsTyped, AccessTables
    <3>2. CASE ~(h # None /\ Setting.trial)
      <4>1. RowsTyped'
        BY <1>15, <3>2, EndsTyped DEF LookupHuman, Quiet
      <4> QED BY <1>14, <1>15, <2>0, <2>1, <3>2, <4>1 DEF LookupHuman, AccessTables
    <3> QED BY <3>1, <3>2
  <2> QED BY <1>15, <2>2 DEF LookupHuman, AccessTables, accountVars, agentVars
<1>16. CASE TryIncrementUsage(p)
  <2>1. KitRow(proc[p]) /\ proc[p].step = "count"
    BY <1>0, <1>16 DEF TryIncrementUsage, At, AccessRow
  <2>2. RowsTyped'
    BY <1>16, EndsTyped DEF TryIncrementUsage, Quiet
  <2> DEFINE e == proc[p].endpoint
             h == proc[p].human
  <2>3. e \in Endpoints /\ h \in Humans
    BY <2>1 DEF KitRow
  <2>4. grants' \subseteq GrantType /\ IsFiniteSet(grants')
    BY <1>14, <1>16, <2>1, <2>3 DEF TryIncrementUsage, AccessTables
  <2>5. uses' = uses \/ uses' = [uses EXCEPT ![e] = [uses[e] EXCEPT ![h] = uses[e][h] + 1]]
    BY <1>16 DEF TryIncrementUsage
  <2>6. uses' \in [Endpoints -> [Humans -> Nat]]
    <3> HIDE DEF e, h
    <3>1. uses \in [Endpoints -> [Humans -> Nat]]
      BY DEF AccessTables
    <3>2. uses[e] \in [Humans -> Nat]
      BY <2>3, <3>1
    <3> DEFINE row == [uses[e] EXCEPT ![h] = uses[e][h] + 1]
    <3>3. row \in [Humans -> Nat]
      BY <2>3, <3>2
    <3>4. uses' = uses \/ uses' = [uses EXCEPT ![e] = row]
      BY <2>5
    <3> HIDE DEF row
    <3> QED BY <2>3, <3>1, <3>3, <3>4
  <2> QED BY <1>16, <2>2, <2>4, <2>6, SMTT(30) DEF TryIncrementUsage, AccessTables, accountVars, agentVars
<1> QED BY <1>1, <1>2, <1>3, <1>4, <1>5, <1>6, <1>7, <1>8, <1>9, <1>10, <1>11, <1>12, <1>13, <1>15, <1>16
        DEF AccessStep

\* Only rows of these kinds move, but for those that a failure ends.
Within(ops) ==
    /\ scene' = scene /\ faults' \in Nat /\ (faults' = 0 => faults = 0)
    /\ alone' => alone
    /\ DOMAIN proc' = Requests
    /\ \A q \in Requests :
          \/ proc'[q] = proc[q]
          \/ /\ proc[q].op \in ops \/ (faults' # 0 /\ proc'[q] = Idle)
             /\ proc'[q].op \in ops

LEMMA AsideWithin == ASSUME Aside PROVE Within(OtherOps)
BY DEF Aside, Within

Post == {"idle", "post"}

LEMMA PostOne ==
    ASSUME RowsTyped, NEW p \in Requests, proc[p].op = "post",
           OthersKeep(p), {"op", "step"} \subseteq DOMAIN proc'[p],
           proc'[p].op = "idle" \/ (proc'[p].op = "post" /\ PostRow(proc'[p])),
           scene' = scene, alone' = alone, faults' \in Nat, faults' = 0 => faults = 0
    PROVE  RowsTyped' /\ Within(Post)
<1>1. AccessRow(proc'[p])
  BY DEF AccessRow
<1>2. proc[p] # Idle
  BY IdleRow
<1> QED BY <1>1, <1>2, TypedOne DEF Within, OthersKeep, Post

LEMMA PostGoes ==
    ASSUME RowsTyped, NEW p \in Requests, NEW s, proc[p].op = "post", Goto(p, s), Calm
    PROVE  RowsTyped' /\ Within(Post)
<1>1. GoesTo(p, s)
  BY GotoGoes DEF RowsTyped
<1>2. {"op", "step"} \subseteq DOMAIN proc[p] /\ PostRow(proc[p])
  BY DEF RowsTyped, Rows, AccessRow
<1>3. proc'[p].op = "post" /\ PostRow(proc'[p]) /\ {"op", "step"} \subseteq DOMAIN proc'[p]
  BY <1>1, <1>2 DEF GoesTo, PostRow
<1> QED BY <1>1, <1>3, PostOne DEF GoesTo, Calm, RowsTyped

LEMMA PostEnds ==
    ASSUME RowsTyped, NEW p \in Requests, proc[p].op = "post", Finish(p),
           scene' = scene, alone' = alone, faults' \in Nat, faults' = 0 => faults = 0
    PROVE  RowsTyped' /\ Within(Post)
<1>1. Ends(p)
  BY FinishEnds DEF RowsTyped
<1>2. AccessRow(Idle) /\ Idle.op = "idle" /\ {"op", "step"} \subseteq DOMAIN Idle /\ proc[p] # Idle
  BY IdleRow DEF AccessRow
<1>3. RowsTyped'
  BY <1>1, <1>2, TypedOne DEF Ends
<1>4. Within(Post)
  BY <1>1, <1>2 DEF Ends, Within, OthersKeep, Post, RowsTyped
<1> QED BY <1>3, <1>4

LEMMA PostLearns ==
    ASSUME RowsTyped, NEW p \in Requests, NEW change, proc[p].op = "post",
           proc' = [proc EXCEPT ![p] = With(proc[p], change)],
           "op" \notin DOMAIN change, "page" \notin DOMAIN change, Calm
    PROVE  RowsTyped' /\ Within(Post)
<1>1. Learns(p, change)
  BY WithLearns DEF RowsTyped
<1>2. {"op", "step"} \subseteq DOMAIN proc[p] /\ PostRow(proc[p])
  BY DEF RowsTyped, Rows, AccessRow
<1>3. proc'[p].op = "post" /\ PostRow(proc'[p]) /\ {"op", "step"} \subseteq DOMAIN proc'[p]
  BY <1>1, <1>2 DEF Learns, PostRow
<1> QED BY <1>1, <1>3, PostOne DEF Learns, Calm, RowsTyped

LEMMA PostBegins ==
    ASSUME RowsTyped, NEW p \in Requests, NEW r, Start(p, r),
           {"op", "page"} \subseteq DOMAIN r, r.op = "post", r.page \in Accounts
    PROVE  RowsTyped' /\ Within(Post)
<1>1. Begins(p, r)
  BY StartBegins DEF RowsTyped
<1>2. {"op", "step", "page"} \subseteq DOMAIN With(Idle, r) /\ With(Idle, r).op = "post" /\ With(Idle, r).page = r.page
  BY DEF With, Idle
<1>3. AccessRow(With(Idle, r))
  BY <1>2 DEF AccessRow, PostRow
<1>4. RowsTyped'
  BY <1>3, BeginsTyped
<1>5. Within(Post)
  BY <1>1, <1>2, IdleRow DEF Begins, Within, OthersKeep, Post, RowsTyped
<1> QED BY <1>4, <1>5

LEMMA StillWithin ==
    ASSUME RowsTyped, NEW ops, proc' = proc, scene' = scene, alone' = alone, faults' \in Nat, faults' = 0 => faults = 0
    PROVE  RowsTyped' /\ Within(ops)
BY StillTyped DEF Within, RowsTyped, Rows

-----------------------------------------------------------------------------
(* The page of posters                                                        *)

\* Signing in on a page: all at once.
PageSigns(p) ==
    LET a == proc[p].page IN
    /\ a \in Accounts
    /\ accounts' = accounts \cup {a}
    /\ challenges' = Append(challenges, [Challenge(a, "web_login", None, None) EXCEPT !.used = TRUE])
    /\ sessions' = Append(sessions, [account |-> a, expires |-> clock + SessionTTL, revoked |-> FALSE,
                                     from |-> Len(challenges) + 1])
    /\ UNCHANGED <<roles, agentVars, gate, kitVars, clock, agentPageVars>>

LEMMA PosterCases ==
    ASSUME RowsTyped, PosterStep
    PROVE  /\ RowsTyped' /\ Within(Post)
           /\ \/ UNCHANGED <<accessVars, agentPageVars>>
              \/ \E p \in Requests : proc[p].op = "post" /\ PageSigns(p) /\ UNCHANGED ideaPageVars
              \/ \E p \in Requests, h \in Humans :
                    proc[p].op = "post" /\ PageVerify(p, h)
                    /\ UNCHANGED <<accountVars, agentVars, gate, kitVars, clock, agentPageVars>>
<1>1. ASSUME NEW p \in Requests, PostArrives(p)
      PROVE  RowsTyped' /\ Within(Post) /\ UNCHANGED accessVars
  <2>0. Setting.users \subseteq Accounts
    BY SettingFacts DEF RowsTyped
  <2>1. ASSUME NEW a \in Accounts, NEW control, NEW step, NEW change, Click(p, a, control, step, change)
        PROVE RowsTyped' /\ Within(Post) /\ UNCHANGED accessVars
    BY <2>1, PostBegins DEF Click
  <2>2. ASSUME NEW a \in Accounts, NEW h, HandleSyncReservation(p, a, h)
        PROVE RowsTyped' /\ Within(Post) /\ UNCHANGED accessVars
    BY <2>2, PostBegins DEF HandleSyncReservation
  <2> QED BY <1>1, <2>0, <2>1, <2>2 DEF PostArrives, HandleSignIn, HandleWorldVerify, HandleCreateAndFund,
             HandleWalletFundEscrow, HandlePlan
<1>2. ASSUME PosterMoves
      PROVE  RowsTyped' /\ Within(Post) /\ UNCHANGED accessVars
  <2>1. ASSUME NEW a, Connect(a) \/ HandleFormSubmit(a) \/ UseDemoTxHash(a) \/ ToggleDemoPosterMode(a)
                      \/ HandleSkipReservation(a) \/ TryAgain(a) \/ SubmitAnother(a)
        PROVE RowsTyped' /\ Within(Post) /\ UNCHANGED accessVars
    BY <2>1, StillWithin DEF Connect, HandleFormSubmit, UseDemoTxHash, ToggleDemoPosterMode,
             HandleSkipReservation, TryAgain, SubmitAnother, ByHand, requestVars, RowsTyped
  <2>2. ASSUME NEW a, NEW h, TypeHash(a, h) \/ PaymentMined(h)
        PROVE RowsTyped' /\ Within(Post) /\ UNCHANGED accessVars
    BY <2>2, StillWithin DEF TypeHash, ByHand, PaymentMined, requestVars, RowsTyped
  <2>3. ASSUME NEW a, LeavePage(a)
        PROVE RowsTyped' /\ Within(Post) /\ UNCHANGED accessVars
    BY <2>3, StillWithin DEF LeavePage, RowsTyped
  <2> QED BY <1>2, <2>1, <2>2, <2>3 DEF PosterMoves
<1>3. ASSUME NEW p \in Requests, PostStep(p)
      PROVE  /\ RowsTyped' /\ Within(Post)
             /\ \/ UNCHANGED accessVars
                \/ PageSigns(p) /\ UNCHANGED ideaPageVars
                \/ \E h \in Humans : PageVerify(p, h) /\ UNCHANGED <<accountVars, agentVars, gate, kitVars, clock>>
  <2>0. proc[p].op = "post" /\ proc[p].page \in Accounts
    BY <1>3 DEF PostStep, RowsTyped, AccessRow, PostRow
  <2> USE DEF Quiet, Served, accessVars, accountVars, agentVars, kitVars
  <2>1. CASE PageSignIn(p)
    BY <1>3, <2>0, <2>1, PostEnds DEF PageSignIn, PageSigns, PostStep, PosterStep, Calm, RowsTyped
  <2>2. ASSUME NEW h \in Humans, PageVerify(p, h)
        PROVE RowsTyped' /\ Within(Post) /\ UNCHANGED <<accountVars, agentVars, gate, kitVars, clock>>
    BY <2>0, <2>2, PostEnds DEF PageVerify, Calm, RowsTyped
  <2>3. ASSUME NEW h, WriteContract(p, h) PROVE RowsTyped' /\ Within(Post) /\ UNCHANGED accessVars
    <3> DEFINE change == [step |-> "confirm", tx |-> h]
    <3>1. proc' = [proc EXCEPT ![p] = With(proc[p], change)] /\ "op" \notin DOMAIN change /\ "page" \notin DOMAIN change
      BY <2>3 DEF WriteContract
    <3> HIDE DEF change
    <3>2. RowsTyped' /\ Within(Post)
      BY <2>0, <2>3, <3>1, PostLearns DEF WriteContract
    <3> QED BY <2>3, <3>2 DEF WriteContract
  <2>4. CASE Confirmed(p)
    BY <2>0, <2>4, PostEnds, PostGoes DEF Confirmed, Calm, RowsTyped
  <2>5. CASE PostIdea(p)
    <3> DEFINE change == [step |-> "created", idea |-> Len(ideas) + 1]
    <3>1. proc' = [proc EXCEPT ![p] = With(proc[p], change)] /\ "op" \notin DOMAIN change /\ "page" \notin DOMAIN change
      BY <2>5 DEF PostIdea
    <3> HIDE DEF change
    <3>2. RowsTyped' /\ Within(Post)
      BY <2>0, <2>5, <3>1, PostLearns DEF PostIdea
    <3> QED BY <2>5, <3>2 DEF PostIdea
  <2>6. CASE IdeaCreated(p) \/ FundRoute(p) \/ PlanRoute(p) \/ ReserveRoute(p)
    BY <2>0, <2>6, PostGoes DEF IdeaCreated, FundRoute, PlanRoute, ReserveRoute
  <2>7. CASE Funded(p) \/ Planned(p) \/ Reserved(p) \/ PostRefused(p)
    BY <2>0, <2>7, PostEnds DEF Funded, Planned, Reserved, PostRefused, Calm, RowsTyped
  <2>8. CASE PostFails(p)
    BY <2>0, <2>8, PostEnds DEF PostFails, Fail, RowsTyped
  <2> QED BY <1>3, <2>1, <2>2, <2>3, <2>4, <2>5, <2>6, <2>7, <2>8 DEF PostStep
<1>4. UNCHANGED agentPageVars
  BY DEF PosterStep
<1>5. \A p \in Requests : PostStep(p) => proc[p].op = "post"
  BY DEF PostStep
<1> QED BY <1>1, <1>2, <1>3, <1>4, <1>5 DEF PosterStep

-----------------------------------------------------------------------------
(* The page of agents                                                         *)

Agentic == {"idle", "agent"}

LEMMA AgentOne ==
    ASSUME RowsTyped, NEW p \in Requests, proc[p].op = "agent", NEW r, r = proc'[p],
           OthersKeep(p), {"op", "step"} \subseteq DOMAIN r,
           r.op = "agent", AgentRow(r), Calm
    PROVE  RowsTyped' /\ Within(Agentic)
<1>1. AccessRow(r)
  BY DEF AccessRow
<1>2. proc[p] # Idle
  BY IdleRow
<1>3. RowsTyped'
  BY <1>1, <1>2, TypedOne DEF Calm, RowsTyped
<1> QED BY <1>3 DEF Within, OthersKeep, Agentic, Calm, RowsTyped

LEMMA AgentEnds ==
    ASSUME RowsTyped, NEW p \in Requests, proc[p].op = "agent", Finish(p),
           scene' = scene, alone' = alone, faults' \in Nat, faults' = 0 => faults = 0
    PROVE  RowsTyped' /\ Within(Agentic)
<1>1. Ends(p)
  BY FinishEnds DEF RowsTyped
<1>2. AccessRow(Idle) /\ Idle.op = "idle" /\ {"op", "step"} \subseteq DOMAIN Idle /\ proc[p] # Idle
  BY IdleRow DEF AccessRow
<1>3. RowsTyped'
  BY <1>1, <1>2, TypedOne DEF Ends
<1>4. Within(Agentic)
  BY <1>1, <1>2 DEF Ends, Within, OthersKeep, Agentic, RowsTyped
<1> QED BY <1>3, <1>4

LEMMA AgentGoes ==
    ASSUME RowsTyped, NEW p \in Requests, NEW s, proc[p].op = "agent", Goto(p, s), Calm,
           \/ proc[p].kind = "setup" /\ s \in {"prove", "authorize", "keep", "gate"}
           \/ proc[p].kind = "mint" /\ s \in {"send", "mined"}
    PROVE  RowsTyped' /\ Within(Agentic)
<1>1. GoesTo(p, s)
  BY GotoGoes DEF RowsTyped
<1>2. {"op", "step"} \subseteq DOMAIN proc[p] /\ AgentRow(proc[p])
  BY DEF RowsTyped, Rows, AccessRow
<1> DEFINE r == proc'[p]
<1>3. DOMAIN r = DOMAIN proc[p] /\ r.step = s /\ \A f \in DOMAIN proc[p] \ {"step"} : r[f] = proc[p][f]
  BY <1>1 DEF GoesTo
<1> HIDE DEF r
<1>4. r.op = "agent" /\ AgentRow(r) /\ {"op", "step"} \subseteq DOMAIN r
  BY <1>2, <1>3 DEF AgentRow
<1> QED BY <1>1, <1>4, AgentOne DEF GoesTo, r

\* A handler begins.
HandlerRow(a, kind, s, change) ==
    With(Idle, With(change, [op |-> "agent", kind |-> kind, step |-> s, page |-> a, live |-> TRUE]))

LEMMA HandlerFields ==
    ASSUME NEW a, NEW kind, NEW s, NEW change, NEW r, r = HandlerRow(a, kind, s, change)
    PROVE  /\ {"op", "step", "kind", "page", "live"} \cup DOMAIN change \subseteq DOMAIN r
           /\ r.op = "agent" /\ r.kind = kind /\ r.step = s /\ r.page = a
           /\ \A f \in DOMAIN change \ {"op", "step", "kind", "page", "live"} : r[f] = change[f]
<1> DEFINE hdr == [op |-> "agent", kind |-> kind, step |-> s, page |-> a, live |-> TRUE]
           in == With(change, hdr)
<1>1. DOMAIN hdr = {"op", "step", "kind", "page", "live"} /\ hdr.op = "agent" /\ hdr.kind = kind /\ hdr.step = s /\ hdr.page = a
  OBVIOUS
<1> HIDE DEF hdr
<1>2. /\ DOMAIN in = DOMAIN change \cup DOMAIN hdr
      /\ \A f \in DOMAIN hdr : in[f] = hdr[f]
      /\ \A f \in DOMAIN change \ DOMAIN hdr : in[f] = change[f]
  BY FieldsOfWith
<1> HIDE DEF in
<1>3. r = With(Idle, in)
  BY DEF HandlerRow, in, hdr
<1>4. DOMAIN r = DOMAIN Idle \cup DOMAIN in /\ \A f \in DOMAIN in : r[f] = in[f]
  <2>1. /\ DOMAIN With(Idle, in) = DOMAIN Idle \cup DOMAIN in
        /\ \A f \in DOMAIN in : With(Idle, in)[f] = in[f]
    BY FieldsOfWith
  <2> QED BY <1>3, <2>1
<1> QED BY <1>1, <1>2, <1>4

LEMMA AgentHandles ==
    ASSUME RowsTyped, NEW p \in Requests, NEW a \in Accounts, NEW kind, NEW s, NEW change,
           Handle(p, a, kind, s, change), AgentRow(HandlerRow(a, kind, s, change))
    PROVE  RowsTyped' /\ Within(Agentic)
<1> DEFINE c == With(change, [op |-> "agent", kind |-> kind, step |-> s, page |-> a, live |-> TRUE])
           r == HandlerRow(a, kind, s, change)
<1>1. Start(p, c) /\ With(Idle, c) = r
  BY DEF Handle, HandlerRow
<1>2. r.op = "agent" /\ {"op", "step"} \subseteq DOMAIN r /\ AgentRow(r)
  BY HandlerFields
<1> HIDE DEF c, r
<1>3. Begins(p, c)
  BY <1>1, StartBegins DEF RowsTyped
<1>4. AccessRow(r)
  BY <1>2 DEF AccessRow
<1>5. OthersKeep(p) /\ proc'[p] = r /\ proc[p] = Idle /\ scene' = scene /\ faults' = faults
      /\ (alone' => alone /\ \A q \in Requests : proc[q] = Idle)
  BY <1>1, <1>3 DEF Begins
<1>6. RowsTyped'
  BY <1>2, <1>4, <1>5, TypedOne DEF RowsTyped
<1>7. Within(Agentic)
  BY <1>2, <1>5, IdleRow DEF Within, OthersKeep, Agentic, RowsTyped
<1> QED BY <1>6, <1>7

LEMMA NextTokenNat ==
    ASSUME AgentTables
    PROVE  NextToken \in Nat
<1>1. IsFiniteSet(Fingerprints)
  BY AccessAssumption, FS_Product DEF Fingerprints
<1>2. registry \in Surjection(Fingerprints, Range(registry))
  BY DEF AgentTables, Surjection, Range
<1>3. IsFiniteSet(Range(registry))
  BY <1>1, <1>2, FS_Surjection
<1>4. IsFiniteSet(Range(registry) \ {None})
  BY <1>3, FS_Subset
<1>5. Cardinality(Range(registry) \ {None}) \in Nat
  BY <1>4, FS_CardinalityType
<1> QED BY <1>5 DEF NextToken

\* What is kept of the setups, field by field
LEMMA SetupUpdates ==
    ASSUME AgentTables, NEW a \in Accounts
    PROVE  /\ \A g \in Agents : [setups EXCEPT ![a].draft = g] \in [Accounts -> SetupType]
           /\ \A w \in BOOLEAN : [setups EXCEPT ![a].widget = w] \in [Accounts -> SetupType]
           /\ \A d \in Agents \cup {None} : [setups EXCEPT ![a].done = d] \in [Accounts -> SetupType]
           /\ \A w \in BOOLEAN, d \in Agents \cup {None} :
                 [setups EXCEPT ![a].widget = w, ![a].done = d] \in [Accounts -> SetupType]
           /\ \A g \in Agents, d \in Agents \cup {None} :
                 [[setups EXCEPT ![a].draft = g] EXCEPT ![a].done = d] \in [Accounts -> SetupType]
           /\ setups[a].draft \in Agents
<1>1. ASSUME NEW t \in [Accounts -> SetupType]
      PROVE  /\ \A g \in Agents : [t EXCEPT ![a].draft = g] \in [Accounts -> SetupType]
             /\ \A w \in BOOLEAN : [t EXCEPT ![a].widget = w] \in [Accounts -> SetupType]
             /\ \A d \in Agents \cup {None} : [t EXCEPT ![a].done = d] \in [Accounts -> SetupType]
  <2>1. t[a] \in SetupType
    OBVIOUS
  <2>2. /\ \A g \in Agents : [t[a] EXCEPT !.draft = g] \in SetupType
        /\ \A w \in BOOLEAN : [t[a] EXCEPT !.widget = w] \in SetupType
        /\ \A d \in Agents \cup {None} : [t[a] EXCEPT !.done = d] \in SetupType
    BY <2>1 DEF SetupType
  <2>3. \A e \in SetupType : [t EXCEPT ![a] = e] \in [Accounts -> SetupType]
    OBVIOUS
  <2> QED BY <2>2, <2>3
<1>2. setups \in [Accounts -> SetupType] /\ setups[a] \in SetupType
  BY DEF AgentTables
<1>3. \A w, d : [setups EXCEPT ![a].widget = w, ![a].done = d] = [[setups EXCEPT ![a].widget = w] EXCEPT ![a].done = d]
  BY <1>2
<1> QED BY <1>1, <1>2, <1>3, Zenon DEF SetupType

LEMMA AgentArrivesCases ==
    ASSUME AccessTyped, NEW p \in Requests, AgentArrives(p)
    PROVE  RowsTyped' /\ Within(Agentic) /\ AgentTables' /\ UNCHANGED accessVars
<1> USE DEF AccessTyped
<1>1. PICK a \in Accounts :
          \/ SignInFirst(p, a) \/ HandleSetupClick(p, a) \/ \E h \in Humans : Proven(p, a, h)
          \/ HandleRegisterAgentBook(p, a) \/ HandleRegisterOnChain(p, a)
  BY SettingFacts DEF AgentArrives, RowsTyped
<1>0. setups[a].draft \in Agents /\ registry' = registry /\ UNCHANGED accessVars
  BY <1>1, SetupUpdates, TRUE \in BOOLEAN, Zenon DEF SignInFirst, HandleSetupClick, Proven, HandleRegisterAgentBook,
           HandleRegisterOnChain, Handle, AgentTables, SetupType
<1>2. CASE SignInFirst(p, a)
  <2> DEFINE r == HandlerRow(a, "login", "login", <<>>)
  <2>1. AgentRow(r)
    <3>1. {"op", "step", "kind", "page", "live"} \subseteq DOMAIN r /\ r.kind = "login" /\ r.step = "login" /\ r.page = a
      BY HandlerFields
    <3> HIDE DEF r
    <3> QED BY <3>1 DEF AgentRow
  <2> QED BY <1>0, <1>2, <2>1, AgentHandles DEF SignInFirst, AgentTables
<1>3. CASE HandleSetupClick(p, a)
  <2> DEFINE s == IF SignedIn(a) THEN "prove" ELSE "login"
             r == HandlerRow(a, "setup", s, Rendered(a))
  <2>1. AgentRow(r)
    <3>0. DOMAIN Rendered(a) = {"agent", "verified", "synced"} /\ Rendered(a).agent = setups[a].draft /\ s \in {"prove", "login"}
      BY DEF Rendered
    <3> HIDE DEF s
    <3>1. {"op", "step", "kind", "page", "live"} \cup DOMAIN Rendered(a) \subseteq DOMAIN r
          /\ r.kind = "setup" /\ r.step = s /\ r.page = a
          /\ \A f \in DOMAIN Rendered(a) \ {"op", "step", "kind", "page", "live"} : r[f] = Rendered(a)[f]
      BY HandlerFields
    <3> HIDE DEF r
    <3> QED BY <1>0, <3>0, <3>1 DEF AgentRow
  <2>2. Handle(p, a, "setup", s, Rendered(a)) /\ setups' = [setups EXCEPT ![a].done = None]
    BY <1>3 DEF HandleSetupClick
  <2>3. RowsTyped' /\ Within(Agentic)
    <3> HIDE DEF s
    <3> QED BY <2>1, <2>2, AgentHandles DEF r
  <2>4. setups' \in [Accounts -> SetupType]
    BY <1>0, <2>2, SetupUpdates, TRUE \in BOOLEAN
  <2> QED BY <1>0, <2>3, <2>4 DEF AgentTables
<1>4. ASSUME NEW h \in Humans, Proven(p, a, h) PROVE RowsTyped' /\ Within(Agentic) /\ AgentTables'
  <2> DEFINE s == IF WorkerVerified(a) THEN "authorize" ELSE "verify"
             c == With(Rendered(a), [human |-> h])
             r == HandlerRow(a, "setup", s, c)
  <2>1. AgentRow(r)
    <3>0. /\ DOMAIN c = {"agent", "verified", "synced", "human"} /\ c.agent = setups[a].draft
          /\ c.human = h /\ s \in {"authorize", "verify"}
      BY DEF Rendered, With
    <3> HIDE DEF s, c
    <3>1. {"op", "step", "kind", "page", "live"} \cup DOMAIN c \subseteq DOMAIN r
          /\ r.kind = "setup" /\ r.step = s /\ r.page = a
          /\ \A f \in DOMAIN c \ {"op", "step", "kind", "page", "live"} : r[f] = c[f]
      BY HandlerFields
    <3> HIDE DEF r
    <3> QED BY <1>0, <3>0, <3>1 DEF AgentRow
  <2>2. Handle(p, a, "setup", s, c) /\ setups' = [setups EXCEPT ![a].widget = FALSE, ![a].done = None]
    BY <1>4 DEF Proven
  <2>3. RowsTyped' /\ Within(Agentic)
    <3> HIDE DEF s, c
    <3> QED BY <2>1, <2>2, AgentHandles DEF r
  <2>4. setups' \in [Accounts -> SetupType]
    BY <1>0, <2>2, SetupUpdates, FALSE \in BOOLEAN
  <2> QED BY <1>0, <2>3, <2>4 DEF AgentTables
<1>5. CASE HandleRegisterAgentBook(p, a)
  <2> DEFINE r == HandlerRow(a, "book", "book", <<>>)
  <2>1. AgentRow(r)
    <3>1. {"op", "step", "kind", "page", "live"} \subseteq DOMAIN r /\ r.kind = "book" /\ r.step = "book" /\ r.page = a
      BY HandlerFields
    <3> HIDE DEF r
    <3> QED BY <3>1 DEF AgentRow
  <2> QED BY <1>0, <1>5, <2>1, AgentHandles DEF HandleRegisterAgentBook, AgentTables
<1>6. CASE HandleRegisterOnChain(p, a)
  <2> DEFINE s == IF RoleSynced(a) THEN "send" ELSE "gate"
  <2>1. PICK i \in Authorization(a) : Handle(p, a, "mint", s, [auth |-> i])
    BY <1>6 DEF HandleRegisterOnChain
  <2>2. i \in Nat
    <3>1. i \in DOMAIN auths
      BY <2>1 DEF Authorization, Matching
    <3> QED BY <3>1 DEF AccessTables
  <2> DEFINE c == [auth |-> i]
             r == HandlerRow(a, "mint", s, c)
  <2>3. AgentRow(r)
    <3>0. DOMAIN c = {"auth"} /\ c.auth = i /\ s \in {"send", "gate"}
      OBVIOUS
    <3> HIDE DEF s, c
    <3>1. {"op", "step", "kind", "page", "live"} \cup DOMAIN c \subseteq DOMAIN r
          /\ r.kind = "mint" /\ r.step = s /\ r.page = a
          /\ \A f \in DOMAIN c \ {"op", "step", "kind", "page", "live"} : r[f] = c[f]
      BY HandlerFields
    <3> HIDE DEF r
    <3> QED BY <2>2, <3>0, <3>1 DEF AgentRow
  <2>4. Handle(p, a, "mint", s, c)
    BY <2>1
  <2>5. RowsTyped' /\ Within(Agentic)
    <3> HIDE DEF s, c
    <3> QED BY <2>3, <2>4, AgentHandles DEF r
  <2> QED BY <1>0, <1>6, <2>5 DEF AgentTables, HandleRegisterOnChain
<1> QED BY <1>0, <1>1, <1>2, <1>3, <1>4, <1>5, <1>6

\* A row of access that is a sequence's element is appended, or some are changed.
LEMMA SignsTyped ==
    ASSUME AccessTables, NEW a \in Accounts,
           accounts' = accounts \cup {a},
           challenges' = Append(challenges, [Challenge(a, "web_login", None, None) EXCEPT !.used = TRUE]),
           sessions' = Append(sessions, [account |-> a, expires |-> clock + SessionTTL, revoked |-> FALSE,
                                         from |-> Len(challenges) + 1]),
           UNCHANGED <<roles, agentVars, gate, kitVars, clock>>
    PROVE  AccessTables'
<1> DEFINE c == [Challenge(a, "web_login", None, None) EXCEPT !.used = TRUE]
           s == [account |-> a, expires |-> clock + SessionTTL, revoked |-> FALSE, from |-> Len(challenges) + 1]
<1>1. c \in ChallengeType
  <2> DEFINE c0 == Challenge(a, "web_login", None, None)
  <2>1. c0 \in ChallengeType
    BY AccessAssumption DEF Challenge, ChallengeType, PurposeNames, AccessTables
  <2>2. c = [c0 EXCEPT !.used = TRUE]
    OBVIOUS
  <2> HIDE DEF c0, c
  <2> QED BY <2>1, <2>2 DEF ChallengeType
<1>2. s \in SessionType
  BY AccessAssumption DEF SessionType, AccessTables
<1>3. challenges' = Append(challenges, c) /\ sessions' = Append(sessions, s)
  OBVIOUS
<1> HIDE DEF c, s
<1>4. challenges' \in Seq(ChallengeType) /\ sessions' \in Seq(SessionType)
  BY <1>1, <1>2, <1>3 DEF AccessTables
<1> QED BY <1>4 DEF AccessTables, agentVars, kitVars

LEMMA AgentStepTyped ==
    ASSUME AccessTyped, NEW p \in Requests, AgentStep(p)
    PROVE  RowsTyped' /\ Within(Agentic) /\ AccessTables' /\ AgentTables'
<1> USE DEF AccessTyped
<1> DEFINE a == Page(p)
           r == proc[p]
<1>0. /\ r.op = "agent" /\ AgentRow(r) /\ {"op", "step"} \subseteq DOMAIN r /\ a = r.page
      /\ a \in Accounts /\ proc[p] # Idle
  BY IdleRow DEF AgentStep, Working, RowsTyped, Rows, AccessRow, AgentRow, Page
<1>1. CASE AgentSignIn(p)
  <2>1. RowsTyped' /\ Within(Agentic)
    BY <1>0, <1>1, AgentGoes, AgentEnds DEF AgentSignIn, Quiet, Calm, RowsTyped
  <2>2. AccessTables'
    BY <1>0, <1>1, SignsTyped DEF AgentSignIn
  <2> QED BY <1>1, <2>1, <2>2 DEF AgentSignIn, AgentTables, agentPageVars
<1>2. CASE OpenWidget(p)
  <2>1. RowsTyped' /\ Within(Agentic)
    BY <1>0, <1>2, AgentEnds DEF OpenWidget, RowsKept, Quiet, Calm, RowsTyped
  <2>2. setups' \in [Accounts -> SetupType]
    <3>1. setups' = setups \/ setups' = [setups EXCEPT ![a].widget = TRUE]
      BY <1>2 DEF OpenWidget
    <3> HIDE DEF a
    <3>2. [setups EXCEPT ![a].widget = TRUE] \in [Accounts -> SetupType]
      BY <1>0, SetupUpdates, TRUE \in BOOLEAN, Zenon
    <3> QED BY <3>1, <3>2 DEF AgentTables
  <2> QED BY <1>2, <2>1, <2>2 DEF OpenWidget, RowsKept, AgentTables, AccessTables, agentVars
<1>3. CASE ProveInDemo(p)
  <2> DEFINE human == CHOOSE f \in Injection(Accounts, Humans) : TRUE
             c == [step |-> Prove(p), human |-> human[a]]
             t == proc'[p]
  <2>1. human[a] \in Humans
    <3>1. human \in [Accounts -> Humans]
      BY AccessAssumption DEF Injection
    <3> QED BY <1>0, <3>1
  <2>2. Prove(p) \in {"authorize", "verify"} /\ r.step = "prove"
    BY <1>3 DEF ProveInDemo, Prove, On
  <2>3. proc' = [proc EXCEPT ![p] = With(proc[p], c)]
    BY <1>3 DEF ProveInDemo
  <2>4. DOMAIN c = {"step", "human"} /\ c.step = Prove(p) /\ c.human = human[a]
    OBVIOUS
  <2>5. Learns(p, c)
    <3> HIDE DEF c
    <3> QED BY <2>3, WithLearns DEF RowsTyped
  <2>6. /\ DOMAIN t = DOMAIN r \cup {"step", "human"} /\ t.step = Prove(p) /\ t.human = human[a]
        /\ \A f \in DOMAIN r \ {"step", "human"} : t[f] = r[f]
    <3> HIDE DEF c
    <3> QED BY <2>4, <2>5 DEF Learns
  <2>7. AgentRow(t) /\ t.op = "agent" /\ {"op", "step"} \subseteq DOMAIN t
    <3> HIDE DEF t, r, human, a
    <3> QED BY <1>0, <2>1, <2>2, <2>6 DEF AgentRow
  <2>8. OthersKeep(p)
    BY <2>5 DEF Learns
  <2>9. RowsTyped' /\ Within(Agentic)
    BY <1>0, <1>3, <2>7, <2>8, AgentOne DEF ProveInDemo, RowsKept, Quiet
  <2> QED BY <1>3, <2>9 DEF ProveInDemo, RowsKept, AgentTables, AccessTables, agentPageVars, agentVars
<1>4. CASE VerifyRole(p)
  <2>1. r.step = "verify" /\ r.kind = "setup" /\ r.human \in Humans
    BY <1>0, <1>4 DEF VerifyRole, On, AgentRow
  <2>2. RowsTyped' /\ Within(Agentic)
    BY <1>0, <1>4, <2>1, AgentGoes DEF VerifyRole, RowsKept, Quiet
  <2>3. [account |-> a, role |-> "worker", human |-> r.human] \in RoleType
    BY <1>0, <2>1 DEF RoleType, RoleNames
  <2>4. roles' \subseteq RoleType
    BY <1>4, <2>3 DEF VerifyRole, AccessTables
  <2> QED BY <1>4, <2>2, <2>4 DEF VerifyRole, RowsKept, AgentTables, AccessTables, agentPageVars, agentVars
<1>5. CASE Authorize(p)
  <2>1. r.step = "authorize" /\ r.kind = "setup" /\ r.agent \in Agents
    BY <1>0, <1>5, Zenon DEF Authorize, On, AgentRow
  <2>2. RowsTyped' /\ Within(Agentic)
    BY <1>0, <1>5, <2>1, AgentGoes, Zenon DEF Authorize, RowsKept, Quiet
  <2> DEFINE rows == Matching(a, r.agent, "worker")
             scope == {"claim_jobs", "submit_results"}
             new == [account |-> a, agent |-> r.agent, role |-> "worker",
                     scope |-> scope, active |-> FALSE, token |-> None]
             Changed(i) == [auths[i] EXCEPT !.scope = scope, !.active = (auths[i].token # None)]
             next == [i \in DOMAIN auths |-> IF i \in rows THEN Changed(i) ELSE auths[i]]
  <2>0. scope \in SUBSET PermissionNames
    <3>1. "claim_jobs" \in PermissionNames /\ "submit_results" \in PermissionNames
      BY Zenon DEF PermissionNames
    <3> QED BY <3>1
  <2>3. new \in AuthType
    <3>1. "worker" \in RoleNames /\ None \in TokenIds
      BY Zenon DEF RoleNames, TokenIds
    <3> HIDE DEF scope
    <3> QED BY <1>0, <2>0, <2>1, <3>1 DEF AuthType
  <2>4. \A i \in DOMAIN auths : Changed(i) \in AuthType
    <3> TAKE i \in DOMAIN auths
    <3>1. auths[i] \in AuthType
      BY TableRows, Zenon
    <3>2. (auths[i].token # None) \in BOOLEAN
      OBVIOUS
    <3> HIDE DEF scope
    <3> QED BY <2>0, <3>1, <3>2 DEF AuthType
  <2>5. next \in Seq(AuthType)
    <3>1. auths \in Seq(AuthType) /\ DOMAIN auths = 1..Len(auths) /\ Len(auths) \in Nat
      BY DEF AccessTables
    <3> HIDE DEF Changed, rows
    <3>2. \A i \in DOMAIN auths : auths[i] \in AuthType
      BY TableRows
    <3>3. next \in [1..Len(auths) -> AuthType]
      BY <2>4, <3>1, <3>2
    <3> HIDE DEF next
    <3> QED BY <3>1, <3>3, SeqDef
  <2>6. auths' = IF rows = {} THEN Append(auths, new) ELSE next
    BY <1>5, Zenon DEF Authorize
  <2>7. auths' \in Seq(AuthType)
    <3> HIDE DEF new, next, rows
    <3> QED BY <2>3, <2>5, <2>6 DEF AccessTables
  <2> QED BY <1>5, <2>2, <2>7, Zenon DEF Authorize, RowsKept, AgentTables, AccessTables, agentPageVars
<1>6. CASE KeepDraft(p)
  <2>1. r.step = "keep" /\ r.kind = "setup" /\ r.agent \in Agents
    BY <1>0, <1>6 DEF KeepDraft, On, AgentRow
  <2>2. RowsTyped' /\ Within(Agentic)
    BY <1>0, <1>6, <2>1, AgentGoes, AgentEnds DEF KeepDraft, RowsKept, Quiet, Calm, RowsTyped
  <2>3. setups' \in [Accounts -> SetupType]
    <3>1. \/ setups' = setups \/ setups' = [setups EXCEPT ![a].draft = r.agent]
          \/ setups' = [setups EXCEPT ![a].done = r.agent]
          \/ setups' = [[setups EXCEPT ![a].draft = r.agent] EXCEPT ![a].done = r.agent]
      BY <1>6 DEF KeepDraft
    <3> DEFINE g == r.agent
    <3>0. a \in Accounts
      BY <1>0
    <3> HIDE DEF a
    <3>2. g \in Agents => [setups EXCEPT ![a].draft = g] \in [Accounts -> SetupType]
      BY <3>0, SetupUpdates, Zenon
    <3>3. g \in Agents => [setups EXCEPT ![a].done = g] \in [Accounts -> SetupType]
      BY <3>0, SetupUpdates, Zenon
    <3>4. g \in Agents => [[setups EXCEPT ![a].draft = g] EXCEPT ![a].done = g] \in [Accounts -> SetupType]
      BY <3>0, SetupUpdates, Zenon
    <3> QED BY <2>1, <3>1, <3>2, <3>3, <3>4 DEF AgentTables
  <2> QED BY <1>6, <2>2, <2>3 DEF KeepDraft, RowsKept, AgentTables, AccessTables, agentVars
<1>7. CASE SyncRole(p)
  <2>1. r.kind = "mint" \/ (r.kind = "setup" /\ r.agent \in Agents)
    <3>1. r.step = "gate"
      BY <1>7 DEF SyncRole, On
    <3> HIDE DEF r
    <3> QED BY <1>0, <3>1 DEF AgentRow
  <2>2. RowsTyped' /\ Within(Agentic)
    BY <1>0, <1>7, <2>1, AgentGoes, AgentEnds DEF SyncRole, RowsKept, Quiet, Calm, RowsTyped
  <2>3. setups' \in [Accounts -> SetupType]
    <3>1. \/ setups' = setups
          \/ r.kind # "mint" /\ setups' = [setups EXCEPT ![a].done = r.agent]
      BY <1>7 DEF SyncRole, Done
    <3> DEFINE g == r.agent
    <3>0. a \in Accounts
      BY <1>0
    <3> HIDE DEF a
    <3>2. g \in Agents => [setups EXCEPT ![a].draft = g] \in [Accounts -> SetupType]
      BY <3>0, SetupUpdates, Zenon
    <3>3. g \in Agents => [setups EXCEPT ![a].done = g] \in [Accounts -> SetupType]
      BY <3>0, SetupUpdates, Zenon
    <3>4. g \in Agents => [[setups EXCEPT ![a].draft = g] EXCEPT ![a].done = g] \in [Accounts -> SetupType]
      BY <3>0, SetupUpdates, Zenon
    <3> QED BY <2>1, <3>1, <3>2, <3>3, <3>4 DEF AgentTables
  <2> QED BY <1>7, <2>2, <2>3 DEF SyncRole, RowsKept, AgentTables, AccessTables, agentVars
<1>8. CASE RegisterBook(p)
  <2>2. RowsTyped' /\ Within(Agentic)
    BY <1>0, <1>8, AgentEnds DEF RegisterBook, RowsKept, Quiet, Calm, RowsTyped
  <2>3. agentBook' \in [Accounts -> Humans \cup {None}]
    BY <1>8 DEF RegisterBook, AccessTables
  <2> QED BY <1>8, <2>2, <2>3 DEF RegisterBook, RowsKept, AgentTables, AccessTables, agentVars, agentPageVars
<1>9. CASE SendRegistration(p)
  <2>1. r.kind = "mint"
    BY <1>0, <1>9 DEF SendRegistration, On, AgentRow
  <2>2. RowsTyped' /\ Within(Agentic)
    BY <1>0, <1>9, <2>1, AgentGoes, AgentEnds DEF SendRegistration, RowsKept, Quiet, Calm, RowsTyped
  <2> QED BY <1>9, <2>2 DEF SendRegistration, RowsKept, AgentTables, AccessTables, agentVars, agentPageVars
<1>10. Minted(p) \in [Fingerprints -> TokenIds]
  BY NextTokenNat DEF Minted, AgentTables, TokenIds
<1>11. CASE RegisterAgent(p)
  <2>1. r.kind = "mint" /\ r.step = "mined"
    BY <1>0, <1>11 DEF RegisterAgent, On, AgentRow
  <2>2. RowsTyped' /\ Within(Agentic)
    <3>1. CASE Finish(p)
      BY <1>0, <1>11, <3>1, AgentEnds DEF RegisterAgent, RowsKept, Quiet, Calm, RowsTyped
    <3>2. CASE Registrable(proc[p].auth)
      <4> DEFINE c == [step |-> "record", token |-> NextToken]
                 t == proc'[p]
      <4>3. proc' = [proc EXCEPT ![p] = With(proc[p], c)]
        BY <1>11, <3>2 DEF RegisterAgent
      <4>4. DOMAIN c = {"step", "token"} /\ c.step = "record" /\ c.token = NextToken
        OBVIOUS
      <4>5. Learns(p, c)
        <5> HIDE DEF c
        <5> QED BY <4>3, WithLearns DEF RowsTyped
      <4>6. /\ DOMAIN t = DOMAIN r \cup {"step", "token"} /\ t.step = "record" /\ t.token = NextToken
            /\ \A f \in DOMAIN r \ {"step", "token"} : t[f] = r[f]
        <5> HIDE DEF c
        <5> QED BY <4>4, <4>5 DEF Learns
      <4>7. AgentRow(t) /\ t.op = "agent" /\ {"op", "step"} \subseteq DOMAIN t
        <5> HIDE DEF t, r, a
        <5> QED BY <1>0, <2>1, <4>6, NextTokenNat DEF AgentRow
      <4>8. OthersKeep(p)
        BY <4>5 DEF Learns
      <4> QED BY <1>0, <1>11, <4>7, <4>8, AgentOne DEF RegisterAgent, RowsKept, Quiet
    <3> QED BY <1>11, <3>1, <3>2 DEF RegisterAgent
  <2>3. registry' \in [Fingerprints -> TokenIds]
    BY <1>10, <1>11 DEF RegisterAgent, AgentTables
  <2> QED BY <1>11, <2>2, <2>3 DEF RegisterAgent, RowsKept, AgentTables, AccessTables, agentVars
<1>12. CASE SyncRegistration(p)
  <2> DEFINE i == CHOOSE k \in Recorded(p) : TRUE
             changed == [auths[i] EXCEPT !.active = TRUE, !.token = r.token]
             new == [role |-> "worker", token |-> r.token, scope |-> auths[i].scope]
  <2>0. i = r.auth
    BY DEF Recorded
  <2>1. r.kind = "mint" /\ r.step = "record" /\ r.token \in TokenIds
    BY <1>0, <1>12 DEF SyncRegistration, On, AgentRow, TokenIds
  <2>2. RowsTyped' /\ Within(Agentic)
    BY <1>0, <1>12, AgentEnds DEF SyncRegistration, RowsKept, Quiet, Calm, RowsTyped
  <2>3. i \in DOMAIN auths
    BY <1>0, <2>0, <2>1 DEF Referring
  <2>4. auths[i] \in AuthType /\ changed \in AuthType /\ new \in IdentityType
    <3>1. auths[i] \in AuthType
      BY <2>3, TableRows
    <3>2. "worker" \in RoleNames
      BY Zenon DEF RoleNames
    <3> HIDE DEF i, r
    <3> QED BY <2>1, <3>1, <3>2 DEF AuthType, IdentityType
  <2>5. \/ auths' = auths /\ identities' = identities
        \/ auths' = [auths EXCEPT ![i] = changed] /\ identities' = [identities EXCEPT ![Agent(i)] = new]
    <3> DEFINE did == Recorded(p) # {} /\ Agent(i) = Agent(proc[p].auth)
    <3>1. CASE did
      <4>1. auths' = [auths EXCEPT ![i].active = TRUE, ![i].token = r.token]
            /\ identities' = [identities EXCEPT ![Agent(i)] = new]
        BY <1>12, <3>1 DEF SyncRegistration
      <4>2. auths' = [auths EXCEPT ![i] = changed]
        <5> HIDE DEF i, r
        <5> QED BY <2>3, <4>1 DEF AccessTables
      <4> QED BY <4>1, <4>2
    <3>2. CASE ~did
      BY <1>12, <3>2 DEF SyncRegistration
    <3> QED BY <3>1, <3>2
  <2>6. Agent(i) \in Fingerprints
    <3> HIDE DEF i
    <3> QED BY <2>4 DEF Agent, Fingerprints, AuthType
  <2>7. auths' \in Seq(AuthType) /\ identities' \in [Fingerprints -> IdentityType]
    <3> HIDE DEF i, changed, new, r
    <3>1. CASE auths' = auths /\ identities' = identities
      BY <3>1 DEF AccessTables
    <3>2. CASE auths' = [auths EXCEPT ![i] = changed] /\ identities' = [identities EXCEPT ![Agent(i)] = new]
      <4>1. auths' \in Seq(AuthType)
        BY <2>4, <3>2, SeqUpdate DEF AccessTables
      <4>2. identities' \in [Fingerprints -> IdentityType]
        BY <2>4, <2>6, <3>2 DEF AccessTables
      <4> QED BY <4>1, <4>2
    <3> QED BY <2>5, <3>1, <3>2
  <2> QED BY <1>12, <2>2, <2>7 DEF SyncRegistration, RowsKept, AgentTables, AccessTables, agentPageVars
<1>13. CASE SetupRefused(p)
  <2>2. RowsTyped' /\ Within(Agentic)
    BY <1>0, <1>13, AgentEnds DEF SetupRefused, RowsKept, Quiet, Calm, RowsTyped
  <2> QED BY <1>13, <2>2 DEF SetupRefused, RowsKept, AgentTables, AccessTables, agentVars, agentPageVars
<1>14. CASE SetupFails(p)
  <2>2. RowsTyped' /\ Within(Agentic)
    BY <1>0, <1>14, AgentEnds DEF SetupFails, Fail, RowsTyped
  <2>3. registry' \in [Fingerprints -> TokenIds]
    BY <1>10, <1>14 DEF SetupFails, AgentTables
  <2> QED BY <1>14, <2>2, <2>3 DEF SetupFails, AgentTables, AccessTables, accessVars, accountVars, agentVars, kitVars
<1> QED BY <1>1, <1>2, <1>3, <1>4, <1>5, <1>6, <1>7, <1>8, <1>9, <1>11, <1>12, <1>13, <1>14 DEF AgentStep

LEMMA LeaveTyped ==
    ASSUME AccessTyped, NEW a \in Accounts, LeaveAgents(a)
    PROVE  RowsTyped' /\ Within(Agentic) /\ AgentTables' /\ UNCHANGED accessVars
<1> USE DEF AccessTyped
<1> DEFINE gone(q) == q \in Working /\ Page(q) = a
           left(q) == With(proc[q], [live |-> FALSE])
<1>1. DOMAIN proc' = Requests /\ \A q \in Requests : proc'[q] = IF gone(q) THEN left(q) ELSE proc[q]
  BY DEF LeaveAgents
<1>2. ASSUME NEW q \in Requests, gone(q)
      PROVE  /\ proc[q].op = "agent" /\ proc'[q].op = "agent"
             /\ AgentRow(proc'[q]) /\ {"op", "step"} \subseteq DOMAIN proc'[q]
  <2>1. proc[q].op = "agent" /\ AgentRow(proc[q]) /\ {"op", "step"} \subseteq DOMAIN proc[q]
    BY <1>2 DEF Working, RowsTyped, Rows, AccessRow
  <2> DEFINE c == [live |-> FALSE]
             t == proc'[q]
             r == proc[q]
  <2>2. t = With(r, c) /\ DOMAIN c = {"live"}
    BY <1>1, <1>2
  <2>3. DOMAIN With(r, c) = DOMAIN r \cup {"live"} /\ \A f \in DOMAIN r \ {"live"} : With(r, c)[f] = r[f]
    <3> HIDE DEF c, r
    <3> QED BY <2>2, FieldsOfWith
  <2>4. DOMAIN t = DOMAIN r \cup {"live"} /\ \A f \in DOMAIN r \ {"live"} : t[f] = r[f]
    BY <2>2, <2>3
  <2> HIDE DEF c, t, r
  <2>5. t.op = "agent" /\ AgentRow(t) /\ {"op", "step"} \subseteq DOMAIN t
    BY <2>1, <2>4 DEF AgentRow, r
  <2> QED BY <2>1, <2>5 DEF t
<1> HIDE DEF left
<1>3. \A q \in Requests : proc'[q] = proc[q] \/ gone(q)
  BY <1>1
<1> HIDE DEF gone
<1>4. Rows'
  BY <1>1, <1>2, <1>3 DEF Rows, RowsTyped
<1>5. \A q \in Requests : AccessRow(proc'[q])
  BY <1>2, <1>3 DEF AccessRow, RowsTyped
<1>6. scene' = scene /\ faults' \in Nat /\ faults' # 0 /\ alone' = alone
  BY DEF LeaveAgents, RowsTyped
<1>7. Lonely'
  BY <1>2, <1>3, <1>6, IdleRow DEF Lonely, RowsTyped
<1>8. RowsTyped'
  BY <1>4, <1>5, <1>6, <1>7 DEF RowsTyped
<1>9. Within(Agentic)
  BY <1>1, <1>2, <1>3, <1>6 DEF Within, Agentic
<1>10. setups' \in [Accounts -> SetupType]
  <2>1. [setups EXCEPT ![a].widget = FALSE] \in [Accounts -> SetupType]
    BY SetupUpdates, FALSE \in BOOLEAN, Zenon
  <2> QED BY <2>1 DEF LeaveAgents
<1> QED BY <1>8, <1>9, <1>10 DEF LeaveAgents, AgentTables

LEMMA SignOutTyped ==
    ASSUME AccessTyped, NEW a \in Accounts, SignOut(a)
    PROVE  RowsTyped' /\ Within(Agentic) /\ AccessTables' /\ AgentTables'
<1> USE DEF AccessTyped
<1>1. RowsTyped' /\ Within(Agentic)
  <2>1. proc' = proc /\ scene' = scene /\ alone' = alone /\ faults' \in Nat /\ (faults' = 0 => faults = 0)
    BY DEF SignOut, RowsTyped
  <2> QED BY <2>1, StillWithin
<1>2. setups' \in [Accounts -> SetupType]
  <2>1. [setups EXCEPT ![a].done = None] \in [Accounts -> SetupType]
    BY SetupUpdates, None \in Agents \cup {None}, Zenon
  <2> QED BY <2>1 DEF SignOut
<1> DEFINE Out(s) == IF sessions[s].account = a THEN [sessions[s] EXCEPT !.revoked = TRUE] ELSE sessions[s]
<1>3. \A s \in DOMAIN sessions : Out(s) \in SessionType
  <2> TAKE s \in DOMAIN sessions
  <2>1. sessions[s] \in SessionType
    BY TableRows
  <2> QED BY <2>1 DEF SessionType
<1>4. sessions' = [s \in DOMAIN sessions |-> Out(s)]
  BY DEF SignOut
<1>5. sessions' \in Seq(SessionType)
  <2> HIDE DEF Out
  <2>1. DOMAIN sessions = 1..Len(sessions) /\ Len(sessions) \in Nat
    BY DEF AccessTables
  <2>2. sessions' \in [1..Len(sessions) -> SessionType]
    BY <1>3, <1>4, <2>1
  <2> QED BY <2>1, <2>2, SeqDef
<1> QED BY <1>1, <1>2, <1>5 DEF SignOut, AccessTables, AgentTables, agentVars, kitVars

LEMMA AgentMovesTyped ==
    ASSUME AccessTyped, AgentMoves
    PROVE  /\ RowsTyped' /\ Within(Agentic) /\ AccessTables' /\ AgentTables'
           /\ UNCHANGED accessVars \/ \E a \in Accounts : SignOut(a)
<1> USE DEF AccessTyped
<1>1. PICK a \in Accounts :
        \/ \E g \in Setting.agents : EditDraft(a, g)
        \/ CloseWidget(a) \/ LeaveAgents(a) \/ SignOut(a)
  BY SettingFacts DEF AgentMoves, RowsTyped
<1>2. ASSUME ByWorker, NEW t, setups' = t, t \in [Accounts -> SetupType]
      PROVE  RowsTyped' /\ Within(Agentic) /\ AccessTables' /\ AgentTables' /\ UNCHANGED accessVars
  <2>1. proc' = proc /\ scene' = scene /\ alone' = alone /\ faults' \in Nat /\ (faults' = 0 => faults = 0)
    BY <1>2 DEF ByWorker, requestVars, RowsTyped
  <2>2. RowsTyped' /\ Within(Agentic)
    BY <2>1, StillWithin
  <2> QED BY <1>2, <2>2 DEF ByWorker, AgentTables, AccessTables, accessVars, accountVars, agentVars, kitVars
<1>3. ASSUME NEW g \in Setting.agents, EditDraft(a, g)
      PROVE  RowsTyped' /\ Within(Agentic) /\ AccessTables' /\ AgentTables' /\ UNCHANGED accessVars
  <2>1. g \in Agents
    BY SettingFacts DEF RowsTyped
  <2>2. [setups EXCEPT ![a].draft = g] \in [Accounts -> SetupType]
    BY <2>1, SetupUpdates, Zenon
  <2> QED BY <1>2, <1>3, <2>2 DEF EditDraft
<1>4. ASSUME CloseWidget(a)
      PROVE  RowsTyped' /\ Within(Agentic) /\ AccessTables' /\ AgentTables' /\ UNCHANGED accessVars
  <2>2. [setups EXCEPT ![a].widget = FALSE] \in [Accounts -> SetupType]
    BY FALSE \in BOOLEAN, SetupUpdates, Zenon
  <2> QED BY <1>2, <1>4, <2>2 DEF CloseWidget
<1>5. ASSUME LeaveAgents(a)
      PROVE  RowsTyped' /\ Within(Agentic) /\ AccessTables' /\ AgentTables' /\ UNCHANGED accessVars
  BY <1>5, LeaveTyped DEF AccessTables, accessVars, accountVars, agentVars, kitVars
<1> QED BY <1>1, <1>3, <1>4, <1>5, SignOutTyped

\* Every step of the system, by what it does to access
AllSteps ==
    \/ Aside /\ UNCHANGED <<accessVars, agentPageVars, ideaPageVars>>
    \/ /\ ~OfClient /\ UNCHANGED clientVars
       /\ \/ Tick
          \/ \E p \in Requests : AccessCall(p)
          \/ \E p \in Requests : proc[p] # Idle /\ AccessStep(p)
    \/ /\ PosterStep /\ Within(Post)
       /\ \/ UNCHANGED <<accessVars, agentPageVars>>
          \/ \E p \in Requests : proc[p].op = "post" /\ PageSigns(p) /\ UNCHANGED ideaPageVars
          \/ \E p \in Requests, h \in Humans :
                proc[p].op = "post" /\ PageVerify(p, h)
                /\ UNCHANGED <<accountVars, agentVars, gate, kitVars, clock, agentPageVars>>
    \/ /\ AgentsStep /\ Within(Agentic) /\ UNCHANGED ideaPageVars
       /\ \/ UNCHANGED accessVars
          \/ \E p \in Requests : AgentStep(p)
          \/ \E a \in Accounts : SignOut(a)

LEMMA AllTyped ==
    ASSUME AccessTyped, ClientNext
    PROVE  RowsTyped' /\ AccessTables' /\ AgentTables' /\ AllSteps
<1> USE DEF AccessTyped
<1>1. ASSUME Aside, UNCHANGED <<accessVars, agentPageVars, ideaPageVars>>
      PROVE  RowsTyped' /\ AccessTables' /\ AgentTables'
  BY <1>1, AsideTyped DEF AccessTables, AgentTables, accessVars, accountVars, agentVars, kitVars, agentPageVars
<1>2. ASSUME Tick PROVE RowsTyped' /\ AccessTables'
  <2>1. RowsTyped'
    BY <1>2, StillTyped DEF Tick, requestVars, RowsTyped
  <2> QED BY <1>2, <2>1 DEF Tick, AccessTables, accountVars, agentVars, kitVars
<1>3. UNCHANGED clientVars => (AgentTables' /\ UNCHANGED <<agentPageVars, ideaPageVars>>)
  BY DEF clientVars, AgentTables, agentPageVars
<1>4. ASSUME PosterStep PROVE RowsTyped' /\ AccessTables' /\ AgentTables' /\ AllSteps
  <2>1. UNCHANGED <<accessVars, agentPageVars>> => (AccessTables' /\ AgentTables')
    BY DEF AccessTables, AgentTables, accessVars, accountVars, agentVars, kitVars, agentPageVars
  <2>2. ASSUME NEW p \in Requests, PageSigns(p) PROVE AccessTables' /\ AgentTables'
    BY <2>2, SignsTyped DEF PageSigns, AgentTables, agentPageVars
  <2>3. ASSUME NEW p \in Requests, NEW h \in Humans, proc[p].op = "post", PageVerify(p, h),
               UNCHANGED <<accountVars, agentVars, gate, kitVars, clock, agentPageVars>>
        PROVE  AccessTables' /\ AgentTables'
    <3>1. proc[p].page \in Accounts
      BY <2>3 DEF RowsTyped, AccessRow, PostRow
    <3>2. [account |-> proc[p].page, role |-> "poster", human |-> h] \in RoleType
      BY <3>1 DEF RoleType, RoleNames
    <3>3. roles' \subseteq RoleType
      BY <2>3, <3>2 DEF PageVerify, AccessTables
    <3> QED BY <2>3, <3>3 DEF AccessTables, AgentTables, accountVars, agentVars, kitVars, agentPageVars
  <2> QED BY <1>4, <2>1, <2>2, <2>3, PosterCases DEF PosterStep, AllSteps
<1>5. ASSUME AgentsStep PROVE RowsTyped' /\ AccessTables' /\ AgentTables' /\ AllSteps
  <2>1. ASSUME NEW p \in Requests, AgentArrives(p) PROVE AccessTables'
    BY <2>1, AgentArrivesCases DEF AccessTables, accessVars, accountVars, agentVars, kitVars
  <2> QED BY <1>5, <2>1, AgentArrivesCases, AgentStepTyped, AgentMovesTyped DEF AgentsStep, AllSteps
<1> QED BY <1>1, <1>2, <1>3, <1>4, <1>5, AccessCases, CallTyped, AccessStepTyped DEF AllSteps

-----------------------------------------------------------------------------
(* Who changes which table                                                    *)

LEMMA AuthsMove ==
    ASSUME AllSteps
    PROVE  \/ auths' = auths
           \/ \E p \in Requests : AuthorizationWrite(p) \/ Activate(p)
           \/ \E p \in Requests : AgentStep(p) /\ (Authorize(p) \/ SyncRegistration(p))
<1>1. ASSUME NEW p \in Requests, AccessCall(p) PROVE auths' = auths
  BY <1>1 DEF AccessCall, ChallengeCall, LoginCall, WorldCall, AuthorizeCall, RegisterCall, SyncRoleCall,
          RegisterAgentBook, KitCall, RevokeSession, accessVars, agentVars
<1>2. ASSUME NEW p \in Requests, AccessStep(p)
      PROVE  auths' = auths \/ AuthorizationWrite(p) \/ Activate(p)
  BY <1>2 DEF AccessStep, ChallengeUse, AccountInsert, ChallengeInsert, SessionInsert, RoleRead, RoleWrite,
          RecordRegistration, IdentityRead, IdentityWrite, SetVerified, ClaimNonce, LookupHuman,
          TryIncrementUsage, accessVars, agentVars
<1>3. ASSUME NEW p \in Requests, AgentStep(p)
      PROVE  auths' = auths \/ Authorize(p) \/ SyncRegistration(p)
  BY <1>3 DEF AgentStep, AgentSignIn, OpenWidget, ProveInDemo, VerifyRole, KeepDraft, SyncRole, RegisterBook,
          SendRegistration, RegisterAgent, SetupRefused, SetupFails, accessVars, agentVars
<1> QED BY <1>1, <1>2, <1>3 DEF AllSteps, Tick, PageSigns, SignOut, accessVars, agentVars

LEMMA AuthsKept ==
    ASSUME AccessTyped, AllSteps
    PROVE  /\ DOMAIN auths \subseteq DOMAIN auths'
           /\ \A i \in DOMAIN auths :
                 /\ SameAgent(auths'[i], auths[i])
                 /\ auths[i].token # None => auths'[i].token # None
           /\ \A i \in DOMAIN auths' \ DOMAIN auths :
                 auths'[i].token = None /\ auths'[i].active = FALSE /\ i = Len(auths) + 1
<1> USE DEF AccessTyped
<1>0. /\ \A i \in DOMAIN auths : auths[i] \in AuthType
      /\ auths \in Seq(AuthType) /\ DOMAIN auths = 1..Len(auths) /\ Len(auths) \in Nat
  BY TableRows DEF AccessTables
<1>1. CASE auths' = auths
  BY <1>1 DEF SameAgent
<1>2. ASSUME NEW k, NEW e, auths' = [auths EXCEPT ![k] = e],
             k \in DOMAIN auths => SameAgent(e, auths[k]) /\ (auths[k].token # None => e.token # None)
      PROVE  /\ DOMAIN auths \subseteq DOMAIN auths' /\ DOMAIN auths' \subseteq DOMAIN auths
             /\ \A i \in DOMAIN auths :
                   /\ SameAgent(auths'[i], auths[i])
                   /\ auths[i].token # None => auths'[i].token # None
  BY <1>0, <1>2 DEF SameAgent
<1>3. ASSUME NEW e, auths' = Append(auths, e), e.token = None, e.active = FALSE
      PROVE  /\ DOMAIN auths \subseteq DOMAIN auths'
             /\ \A i \in DOMAIN auths :
                   /\ SameAgent(auths'[i], auths[i])
                   /\ auths[i].token # None => auths'[i].token # None
             /\ \A i \in DOMAIN auths' \ DOMAIN auths :
                   auths'[i].token = None /\ auths'[i].active = FALSE /\ i = Len(auths) + 1
  <2>1. DOMAIN auths' = DOMAIN auths \cup {Len(auths) + 1} /\ Len(auths) + 1 \notin DOMAIN auths
        /\ (\A i \in DOMAIN auths : auths'[i] = auths[i]) /\ auths'[Len(auths) + 1] = e
    BY <1>0, <1>3
  <2> QED BY <1>3, <2>1 DEF SameAgent
<1>4. ASSUME NEW p \in Requests, AuthorizationWrite(p)
      PROVE  \/ \E e : auths' = Append(auths, e) /\ e.token = None /\ e.active = FALSE
             \/ \E k, e : /\ auths' = [auths EXCEPT ![k] = e]
                          /\ k \in DOMAIN auths => SameAgent(e, auths[k]) /\ (auths[k].token # None => e.token # None)
  <2> DEFINE r == proc[p]
             new == [account |-> r.account, agent |-> r.agent, role |-> r.role,
                     scope |-> r.scope, active |-> FALSE, token |-> None]
             changed == [auths[r.auth] EXCEPT !.scope = r.scope, !.active = (r.token # None)]
  <2>1. CASE r.auth = 0
    <3>1. auths' = Append(auths, new) /\ new.token = None /\ new.active = FALSE
      BY <1>4, <2>1 DEF AuthorizationWrite
    <3> QED BY <3>1
  <2>2. CASE r.auth # 0
    <3>1. auths' = [auths EXCEPT ![r.auth] = changed]
      BY <1>4, <2>2 DEF AuthorizationWrite
    <3>2. r.auth \in DOMAIN auths => SameAgent(changed, auths[r.auth]) /\ changed.token = auths[r.auth].token
      <4> HIDE DEF r
      <4> QED BY <1>0 DEF SameAgent, AuthType
    <3> QED BY <3>1, <3>2
  <2> QED BY <2>1, <2>2
<1>5. ASSUME NEW p \in Requests, Activate(p)
      PROVE  \E k, e : /\ auths' = [auths EXCEPT ![k] = e]
                       /\ k \in DOMAIN auths => SameAgent(e, auths[k]) /\ (auths[k].token # None => e.token # None)
  <2> DEFINE r == proc[p]
             changed == [auths[r.auth] EXCEPT !.active = TRUE, !.token = r.token]
  <2>1. auths' = [auths EXCEPT ![r.auth] = changed]
    BY <1>5 DEF Activate
  <2>2. r.token # None
    BY <1>5, NoneAssumption DEF Activate, At, RowsTyped, AccessRow, RegisterRow
  <2>3. r.auth \in DOMAIN auths => SameAgent(changed, auths[r.auth]) /\ changed.token = r.token
    <3> HIDE DEF r
    <3> QED BY <1>0 DEF SameAgent, AuthType
  <2> QED BY <2>1, <2>2, <2>3
<1>6. ASSUME NEW p \in Requests, SyncRegistration(p), AgentStep(p)
      PROVE  auths' = auths \/ \E k, e : 
                       /\ auths' = [auths EXCEPT ![k] = e]
                       /\ k \in DOMAIN auths => SameAgent(e, auths[k]) /\ (auths[k].token # None => e.token # None)
  <2> DEFINE r == proc[p]
             i == CHOOSE k \in Recorded(p) : TRUE
             changed == [auths[i] EXCEPT !.active = TRUE, !.token = r.token]
  <2>1. auths' = auths \/ auths' = [auths EXCEPT ![i] = changed]
    BY <1>6 DEF SyncRegistration
  <2>2. r.token # None
    <3>1. AgentRow(r) /\ r.step = "record" /\ r.op = "agent"
      BY <1>6 DEF SyncRegistration, On, RowsTyped, AccessRow
    <3> HIDE DEF r
    <3> QED BY <3>1, NoneAssumption DEF AgentRow
  <2>3. i \in DOMAIN auths => SameAgent(changed, auths[i]) /\ changed.token = r.token
    <3> HIDE DEF r, i
    <3> QED BY <1>0 DEF SameAgent, AuthType
  <2> QED BY <2>1, <2>2, <2>3
<1>7. ASSUME NEW p \in Requests, Authorize(p)
      PROVE  /\ DOMAIN auths \subseteq DOMAIN auths'
             /\ \A i \in DOMAIN auths :
                   /\ SameAgent(auths'[i], auths[i])
                   /\ auths[i].token # None => auths'[i].token # None
             /\ \A i \in DOMAIN auths' \ DOMAIN auths :
                   auths'[i].token = None /\ auths'[i].active = FALSE /\ i = Len(auths) + 1
  <2> DEFINE rows == Matching(Page(p), proc[p].agent, "worker")
             scope == {"claim_jobs", "submit_results"}
             new == [account |-> Page(p), agent |-> proc[p].agent, role |-> "worker",
                     scope |-> scope, active |-> FALSE, token |-> None]
             Changed(i) == [auths[i] EXCEPT !.scope = scope, !.active = (auths[i].token # None)]
             next == [i \in DOMAIN auths |-> IF i \in rows THEN Changed(i) ELSE auths[i]]
  <2>1. CASE rows = {}
    <3>1. auths' = Append(auths, new) /\ new.token = None /\ new.active = FALSE
      BY <1>7, <2>1 DEF Authorize
    <3> HIDE DEF new, rows
    <3> QED BY <1>3, <3>1
  <2>2. CASE rows # {}
    <3>1. auths' = next
      BY <1>7, <2>2, Zenon DEF Authorize
    <3>2. \A i \in DOMAIN auths : SameAgent(Changed(i), auths[i]) /\ Changed(i).token = auths[i].token
      <4> HIDE DEF scope
      <4> QED BY <1>0 DEF SameAgent, AuthType
    <3> HIDE DEF Changed, rows
    <3> QED BY <3>1, <3>2 DEF SameAgent
  <2> QED BY <2>1, <2>2
<1> QED BY <1>1, <1>2, <1>3, <1>4, <1>5, <1>6, <1>7, AuthsMove

-----------------------------------------------------------------------------
(* Who changes which row                                                      *)

LEMMA AccessCalls ==
    ASSUME AccessTyped, NEW p \in Requests, AccessCall(p)
    PROVE  /\ OthersKeep(p) /\ proc[p] = Idle /\ faults' = faults /\ job' = job
           /\ alone' => alone /\ \A q \in Requests : proc[q] = Idle
           /\ \/ proc'[p].op = "challenge" /\ \E a \in Accounts : ChallengeCall(p, a, "web_login", None, None)
              \/ proc'[p].op = "login" /\ \E a \in Accounts, c \in DOMAIN challenges : LoginCall(p, c, a)
              \/ proc'[p].op = "world" /\ \E a \in Accounts, role \in AgentRoles, h \in Humans : WorldCall(p, a, role, h)
              \/ /\ proc'[p].op = "authorize"
                 /\ \E a \in Accounts, g \in Setting.agents, role \in AgentRoles, s \in Permissions :
                       AuthorizeCall(p, a, g, role, s)
              \/ /\ proc'[p].op = "register"
                 /\ \E a \in Accounts, i \in DOMAIN auths, x \in Txs, t \in Tokens : RegisterCall(p, a, i, x, t)
              \/ proc'[p].op = "syncRole" /\ \E a \in Accounts, role \in AgentRoles : SyncRoleCall(p, a, role)
              \/ proc'[p].op = "kit" /\ \E a \in Accounts, e \in Endpoints, n \in Nonces : KitCall(p, a, e, n)
              \/ proc'[p].op = "idle" /\ \E a \in Accounts, h \in Humans : RegisterAgentBook(p, a, h)
              \/ proc'[p].op = "idle" /\ \E s \in DOMAIN sessions : RevokeSession(p, s)
<1>1. ASSUME NEW r, Start(p, r), "op" \in DOMAIN r
      PROVE  /\ OthersKeep(p) /\ proc[p] = Idle /\ faults' = faults /\ job' = job
             /\ alone' => alone /\ \A q \in Requests : proc[q] = Idle
             /\ proc'[p].op = r.op
  <2>1. Begins(p, r)
    BY <1>1, StartBegins DEF AccessTyped, RowsTyped
  <2> QED BY <1>1, <2>1 DEF Begins, With
<1>2. ASSUME NEW a \in Accounts, ChallengeCall(p, a, "web_login", None, None)
      PROVE  OthersKeep(p) /\ proc[p] = Idle /\ faults' = faults /\ job' = job /\ (alone' => alone /\ \A q \in Requests : proc[q] = Idle)
             /\ proc'[p].op = "challenge"
  BY <1>1, <1>2 DEF ChallengeCall
<1>3. ASSUME NEW a \in Accounts, NEW c \in DOMAIN challenges, LoginCall(p, c, a)
      PROVE  OthersKeep(p) /\ proc[p] = Idle /\ faults' = faults /\ job' = job /\ (alone' => alone /\ \A q \in Requests : proc[q] = Idle)
             /\ proc'[p].op = "login"
  BY <1>1, <1>3 DEF LoginCall
<1>4. ASSUME NEW a \in Accounts, NEW role \in AgentRoles, NEW h \in Humans, WorldCall(p, a, role, h)
      PROVE  OthersKeep(p) /\ proc[p] = Idle /\ faults' = faults /\ job' = job /\ (alone' => alone /\ \A q \in Requests : proc[q] = Idle)
             /\ proc'[p].op = "world"
  BY <1>1, <1>4 DEF WorldCall
<1>5. ASSUME NEW a \in Accounts, NEW g \in Setting.agents, NEW role \in AgentRoles, NEW s \in Permissions,
             AuthorizeCall(p, a, g, role, s)
      PROVE  OthersKeep(p) /\ proc[p] = Idle /\ faults' = faults /\ job' = job /\ (alone' => alone /\ \A q \in Requests : proc[q] = Idle)
             /\ proc'[p].op = "authorize"
  BY <1>1, <1>5 DEF AuthorizeCall
<1>6. ASSUME NEW a \in Accounts, NEW i \in DOMAIN auths, NEW x \in Txs, NEW t \in Tokens, RegisterCall(p, a, i, x, t)
      PROVE  OthersKeep(p) /\ proc[p] = Idle /\ faults' = faults /\ job' = job /\ (alone' => alone /\ \A q \in Requests : proc[q] = Idle)
             /\ proc'[p].op = "register"
  BY <1>1, <1>6 DEF RegisterCall
<1>7. ASSUME NEW a \in Accounts, NEW role \in AgentRoles, SyncRoleCall(p, a, role)
      PROVE  OthersKeep(p) /\ proc[p] = Idle /\ faults' = faults /\ job' = job /\ (alone' => alone /\ \A q \in Requests : proc[q] = Idle)
             /\ proc'[p].op = "syncRole"
  BY <1>1, <1>7 DEF SyncRoleCall
<1>8. ASSUME NEW a \in Accounts, NEW e \in Endpoints, NEW n \in Nonces, KitCall(p, a, e, n)
      PROVE  OthersKeep(p) /\ proc[p] = Idle /\ faults' = faults /\ job' = job /\ (alone' => alone /\ \A q \in Requests : proc[q] = Idle)
             /\ proc'[p].op = "kit"
  BY <1>1, <1>8 DEF KitCall
<1>9. ASSUME NEW a \in Accounts, NEW h \in Humans, RegisterAgentBook(p, a, h)
      PROVE  OthersKeep(p) /\ proc[p] = Idle /\ faults' = faults /\ job' = job /\ (alone' => alone /\ \A q \in Requests : proc[q] = Idle)
             /\ proc'[p].op = "idle"
  BY <1>1, <1>9 DEF RegisterAgentBook
<1>10. ASSUME NEW s \in DOMAIN sessions, RevokeSession(p, s)
      PROVE  OthersKeep(p) /\ proc[p] = Idle /\ faults' = faults /\ job' = job /\ (alone' => alone /\ \A q \in Requests : proc[q] = Idle)
             /\ proc'[p].op = "idle"
  BY <1>1, <1>10 DEF RevokeSession
<1> QED BY <1>2, <1>3, <1>4, <1>5, <1>6, <1>7, <1>8, <1>9, <1>10 DEF AccessCall

LEMMA AccessSteps ==
    ASSUME AccessTyped, NEW p \in Requests, AccessStep(p)
    PROVE  /\ OthersKeep(p) /\ Calm
           /\ \/ proc'[p] = Idle
              \/ proc'[p].op = proc[p].op /\ proc'[p].step # proc[p].step
<1>0. Rows
  BY DEF AccessTyped, RowsTyped
<1>1. ASSUME NEW s, Goto(p, s), s # proc[p].step
      PROVE  OthersKeep(p) /\ proc'[p].op = proc[p].op /\ proc'[p].step # proc[p].step
  <2>1. GoesTo(p, s)
    BY <1>0, <1>1, GotoGoes
  <2> QED BY <1>0, <1>1, <2>1 DEF GoesTo, Rows
<1>2. ASSUME Finish(p) PROVE OthersKeep(p) /\ proc'[p] = Idle
  <2>1. Ends(p)
    BY <1>0, <1>2, FinishEnds
  <2> QED BY <2>1 DEF Ends
<1>3. ASSUME ChallengeUse(p) PROVE OthersKeep(p) /\ Calm /\ proc'[p].op = proc[p].op /\ proc'[p].step # proc[p].step
  BY <1>1, <1>3 DEF ChallengeUse, Quiet
<1>4. ASSUME AccountInsert(p) \/ RecordRegistration(p) \/ ClaimNonce(p) \/ Activate(p)
      PROVE  OthersKeep(p) /\ Calm /\ (proc'[p] = Idle \/ (proc'[p].op = proc[p].op /\ proc'[p].step # proc[p].step))
  BY <1>1, <1>2, <1>4, SMTT(30) DEF AccountInsert, RecordRegistration, ClaimNonce, Activate, Quiet, At
<1>5. ASSUME ChallengeInsert(p) \/ SessionInsert(p) \/ RoleWrite(p) \/ AuthorizationWrite(p) \/ IdentityWrite(p)
             \/ SetVerified(p) \/ TryIncrementUsage(p)
      PROVE  OthersKeep(p) /\ Calm /\ proc'[p] = Idle
  BY <1>2, <1>5 DEF ChallengeInsert, SessionInsert, RoleWrite, AuthorizationWrite, IdentityWrite, SetVerified,
          TryIncrementUsage, Quiet
<1>6. ASSUME RoleRead(p) \/ IdentityRead(p)
      PROVE  OthersKeep(p) /\ Calm /\ proc'[p].op = proc[p].op /\ proc'[p].step # proc[p].step
  <2>1. {"op", "step"} \subseteq DOMAIN proc[p] /\ DOMAIN proc = Requests
    BY <1>0 DEF Rows
  <2>2. CASE RoleRead(p)
    BY <2>1, <2>2 DEF RoleRead, Quiet, OthersKeep, At
  <2>3. CASE IdentityRead(p)
    <3> DEFINE v == identities[<<proc[p].account, proc[p].agent>>] # NoIdentity
    <3>1. proc' = [proc EXCEPT ![p].step = "publish", ![p].valid = v] /\ Calm /\ proc[p].step = "identity"
      BY <2>3 DEF IdentityRead, Quiet, At
    <3> HIDE DEF v
    <3> QED BY <2>1, <3>1 DEF OthersKeep
  <2> QED BY <1>6, <2>2, <2>3
<1>7. ASSUME LookupHuman(p)
      PROVE  OthersKeep(p) /\ Calm /\ (proc'[p] = Idle \/ (proc'[p].op = proc[p].op /\ proc'[p].step # proc[p].step))
  <2> DEFINE h == agentBook[proc[p].account]
             c == [human |-> h, step |-> "count"]
  <2>1. CASE Finish(p)
    BY <1>2, <1>7, <2>1 DEF LookupHuman, Quiet
  <2>2. CASE proc' = [proc EXCEPT ![p] = With(proc[p], c)]
    <3>1. DOMAIN c = {"human", "step"} /\ c.step = "count" /\ proc[p].step = "human" /\ Calm
      BY <1>7 DEF LookupHuman, At, Quiet
    <3> HIDE DEF c
    <3>2. Learns(p, c)
      BY <1>0, <2>2, WithLearns
    <3> QED BY <1>0, <3>1, <3>2 DEF Learns, Rows
  <2> QED BY <1>7, <2>1, <2>2 DEF LookupHuman
<1> QED BY <1>3, <1>4, <1>5, <1>6, <1>7 DEF AccessStep

LEMMA RequestMoves ==
    ASSUME AccessTyped, AllSteps, NEW q \in Requests
    PROVE  \/ proc'[q] = proc[q]
           \/ proc'[q].op \in OtherOps \cup {"post", "agent"}
           \/ AccessCall(q) \/ (proc[q] # Idle /\ AccessStep(q))
<1>1. ASSUME NEW p \in Requests, AccessCall(p) \/ AccessStep(p)
      PROVE  OthersKeep(p)
  BY <1>1, AccessCalls, AccessSteps
<1>2. Tick => proc' = proc
  BY DEF Tick, requestVars
<1> QED BY <1>1, <1>2 DEF AllSteps, Aside, Within, OthersKeep, Post, Agentic, OtherOps

LEMMA RegisterRows ==
    ASSUME AccessTyped, AllSteps, NEW q \in Requests, proc'[q].op = "register"
    PROVE  \/ proc'[q] = proc[q]
           \/ \E a \in Accounts, i \in DOMAIN auths, x \in Txs, t \in Tokens : RegisterCall(q, a, i, x, t)
           \/ RecordRegistration(q) /\ GoesTo(q, "activate")
           \/ Activate(q) /\ GoesTo(q, "identity")
           \/ IdentityRead(q)
<1>1. CASE AccessCall(q)
  BY <1>1, AccessCalls
<1>2. CASE proc[q] # Idle /\ AccessStep(q)
  <2>1. proc[q].op = "register" /\ proc'[q] # Idle
    BY <1>2, AccessSteps, IdleRow
  <2>2. RegisterRow(proc[q]) /\ Rows /\ DOMAIN proc = Requests
    BY <2>1 DEF AccessTyped, RowsTyped, AccessRow, Rows
  <2>3. RecordRegistration(q) \/ Activate(q) \/ IdentityRead(q) \/ IdentityWrite(q)
    BY <1>2, <2>1, <2>2 DEF AccessStep, ChallengeUse, RegisterRow, AccountInsert, ChallengeInsert, SessionInsert,
       RoleRead, RoleWrite, AuthorizationWrite, SetVerified, ClaimNonce, LookupHuman, TryIncrementUsage, At
  <2>4. ~Finish(q)
    BY <2>1, <2>2 DEF Finish
  <2> QED BY <2>2, <2>3, <2>4, GotoGoes DEF RecordRegistration, Activate, IdentityWrite
<1> QED BY <1>1, <1>2, RequestMoves DEF OtherOps

LEMMA AuthorizeRows ==
    ASSUME AccessTyped, AllSteps, NEW q \in Requests, proc'[q].op = "authorize"
    PROVE  \/ proc'[q] = proc[q]
           \/ \E a \in Accounts, g \in Setting.agents, role \in AgentRoles, s \in Permissions :
                       AuthorizeCall(q, a, g, role, s)
<1>1. CASE AccessCall(q)
  BY <1>1, AccessCalls
<1>2. CASE proc[q] # Idle /\ AccessStep(q)
  <2>1. proc[q].op = "authorize" /\ proc'[q] # Idle
    BY <1>2, AccessSteps, IdleRow
  <2>2. AuthorizeRow(proc[q]) /\ Rows /\ DOMAIN proc = Requests
    BY <2>1 DEF AccessTyped, RowsTyped, AccessRow, Rows
  <2>3. AuthorizationWrite(q)
    BY <1>2, <2>1, <2>2 DEF AccessStep, ChallengeUse, AuthorizeRow, AccountInsert, ChallengeInsert, SessionInsert,
       RoleRead, RoleWrite, RecordRegistration, Activate, IdentityRead, IdentityWrite, SetVerified, ClaimNonce, LookupHuman, TryIncrementUsage, At
  <2>4. ~Finish(q)
    BY <2>1, <2>2 DEF Finish
  <2> QED BY <2>3, <2>4 DEF AuthorizationWrite
<1> QED BY <1>1, <1>2, RequestMoves DEF OtherOps

LEMMA MintRows ==
    ASSUME AccessTyped, AgentsStep, NEW q \in Requests, proc'[q].op = "agent", proc'[q].kind = "mint"
    PROVE  \/ proc[q].op = "agent" /\ proc[q].kind = "mint" /\ proc'[q].auth = proc[q].auth
           \/ proc'[q].auth \in DOMAIN auths /\ auths[proc'[q].auth].role = "worker"
<1> USE DEF AccessTyped
<1> DEFINE Good == \/ proc[q].op = "agent" /\ proc[q].kind = "mint" /\ proc'[q].auth = proc[q].auth
                   \/ proc'[q].auth \in DOMAIN auths /\ auths[proc'[q].auth].role = "worker"
<1>0. Rows /\ \A p \in Requests : AccessRow(proc[p])
  BY DEF RowsTyped
<1>1. ASSUME NEW p \in Requests, NEW a \in Accounts, NEW kind, NEW s, NEW change, Handle(p, a, kind, s, change),
             kind = "mint" => \E i \in Authorization(a) : change = [auth |-> i]
      PROVE  Good
  <2> DEFINE c == With(change, [op |-> "agent", kind |-> kind, step |-> s, page |-> a, live |-> TRUE])
             r == HandlerRow(a, kind, s, change)
  <2>1. Start(p, c) /\ With(Idle, c) = r
    BY <1>1 DEF Handle, HandlerRow
  <2>2. r.kind = kind /\ \A f \in DOMAIN change \ {"op", "step", "kind", "page", "live"} : r[f] = change[f]
    BY HandlerFields
  <2> HIDE DEF c, r
  <2>3. Begins(p, c)
    BY <1>0, <2>1, StartBegins
  <2>4. proc'[p] = r /\ \A x \in Requests \ {p} : proc'[x] = proc[x]
    BY <2>1, <2>3 DEF Begins, OthersKeep
  <2>5. CASE q = p
    <3>1. PICK i \in Authorization(a) : change = [auth |-> i]
      BY <1>1, <2>2, <2>4, <2>5
    <3>2. DOMAIN change = {"auth"} /\ change.auth = i
      BY <3>1
    <3>3. proc'[q].auth = i
      BY <2>2, <2>4, <2>5, <3>2
    <3>4. i \in DOMAIN auths /\ auths[i].role = "worker"
      BY <3>1 DEF Authorization, Matching
    <3> QED BY <3>3, <3>4
  <2>6. CASE q # p
    BY <2>4, <2>6
  <2> QED BY <2>5, <2>6
<1>2. ASSUME NEW p \in Requests, AgentArrives(p) PROVE Good
  <2>1. PICK a \in Accounts :
          \/ SignInFirst(p, a) \/ HandleSetupClick(p, a) \/ \E h \in Humans : Proven(p, a, h)
          \/ HandleRegisterAgentBook(p, a) \/ HandleRegisterOnChain(p, a)
    BY <1>2, SettingFacts DEF AgentArrives, RowsTyped
  <2> HIDE DEF Good
  <2>2. CASE SignInFirst(p, a)
    BY <1>1, <2>2 DEF SignInFirst
  <2>3. CASE HandleSetupClick(p, a)
    <3>1. Handle(p, a, "setup", IF SignedIn(a) THEN "prove" ELSE "login", Rendered(a))
      BY <2>3 DEF HandleSetupClick
    <3> QED BY <1>1, <3>1
  <2>4. ASSUME NEW h \in Humans, Proven(p, a, h) PROVE Good
    <3>1. Handle(p, a, "setup", IF WorkerVerified(a) THEN "authorize" ELSE "verify",
              With(Rendered(a), [human |-> h]))
      BY <2>4 DEF Proven
    <3> QED BY <1>1, <3>1
  <2>5. CASE HandleRegisterAgentBook(p, a)
    BY <1>1, <2>5 DEF HandleRegisterAgentBook
  <2>6. CASE HandleRegisterOnChain(p, a)
    <3>1. PICK i \in Authorization(a) : Handle(p, a, "mint", IF RoleSynced(a) THEN "send" ELSE "gate", [auth |-> i])
      BY <2>6 DEF HandleRegisterOnChain
    <3>2. \E k \in Authorization(a) : [auth |-> i] = [auth |-> k]
      BY SMTT(30)
    <3> QED BY <1>1, <3>1, <3>2
  <2> QED BY <2>1, <2>2, <2>3, <2>4, <2>5, <2>6
<1>3. ASSUME NEW p \in Requests, AgentStep(p) PROVE Good
  <2>0. proc[p].op = "agent" /\ AgentRow(proc[p])
    BY <1>0, <1>3 DEF AgentStep, Working, AccessRow
  <2>1. ASSUME NEW s, Goto(p, s) PROVE Good
    <3>1. GoesTo(p, s)
      BY <1>0, <2>1, GotoGoes
    <3> QED BY <2>0, <3>1 DEF GoesTo, OthersKeep, AgentRow
  <2>2. ASSUME Finish(p) PROVE Good
    <3>1. Ends(p)
      BY <1>0, <2>2, FinishEnds
    <3> QED BY <3>1, IdleRow DEF Ends, OthersKeep
  <2>3. ASSUME NEW c, proc' = [proc EXCEPT ![p] = With(proc[p], c)], "kind" \notin DOMAIN c, "auth" \notin DOMAIN c
        PROVE Good
    <3>1. Learns(p, c)
      BY <1>0, <2>3, WithLearns
    <3> QED BY <2>0, <2>3, <3>1 DEF Learns, OthersKeep, AgentRow
  <2>4. CASE ProveInDemo(p)
    <3> DEFINE human == CHOOSE f \in Injection(Accounts, Humans) : TRUE
               c == [step |-> Prove(p), human |-> human[Page(p)]]
    <3>1. proc' = [proc EXCEPT ![p] = With(proc[p], c)] /\ "kind" \notin DOMAIN c /\ "auth" \notin DOMAIN c
      BY <2>4 DEF ProveInDemo
    <3> HIDE DEF c, Good
    <3> QED BY <2>3, <3>1
  <2>5. CASE RegisterAgent(p)
    <3> DEFINE c == [step |-> "record", token |-> NextToken]
    <3>1. \/ proc' = [proc EXCEPT ![p] = With(proc[p], c)] /\ "kind" \notin DOMAIN c /\ "auth" \notin DOMAIN c
          \/ Finish(p)
      BY <2>5 DEF RegisterAgent
    <3> HIDE DEF c, Good
    <3> QED BY <2>2, <2>3, <3>1
  <2> HIDE DEF Good
  <2> QED BY <1>3, <2>1, <2>2, <2>4, <2>5, Zenon DEF AgentStep, AgentSignIn, OpenWidget, VerifyRole, Authorize, KeepDraft,
          SyncRole, RegisterBook, SendRegistration, SyncRegistration, SetupRefused, SetupFails, Fail
<1>4. ASSUME AgentMoves PROVE Good
  <2>1. PICK a \in Accounts :
          \/ \E g \in Setting.agents : EditDraft(a, g)
          \/ CloseWidget(a) \/ LeaveAgents(a) \/ SignOut(a)
    BY <1>4, SettingFacts DEF AgentMoves, RowsTyped
  <2>2. CASE LeaveAgents(a)
    <3>1. proc'[q] = proc[q] \/ (proc'[q] = With(proc[q], [live |-> FALSE]) /\ proc[q].op = "agent")
      BY <2>2 DEF LeaveAgents, Working
    <3>2. ASSUME proc'[q] = With(proc[q], [live |-> FALSE]), proc[q].op = "agent" PROVE Good
      <4> DEFINE c == [live |-> FALSE]
      <4>1. DOMAIN c = {"live"} /\ proc'[q] = With(proc[q], c)
        BY <3>2
      <4> HIDE DEF c
      <4>2. \A f \in DOMAIN proc[q] \ DOMAIN c : proc'[q][f] = proc[q][f]
        <5>1. \A f \in DOMAIN proc[q] \ DOMAIN c : With(proc[q], c)[f] = proc[q][f]
          BY FieldsOfWith
        <5> QED BY <4>1, <5>1
      <4>3. AgentRow(proc[q])
        BY <1>0, <3>2 DEF AccessRow
      <4> QED BY <3>2, <4>1, <4>2, <4>3 DEF AgentRow
    <3> QED BY <3>1, <3>2
  <2> QED BY <2>1, <2>2 DEF EditDraft, CloseWidget, SignOut, ByWorker, requestVars
<1> QED BY <1>2, <1>3, <1>4 DEF AgentsStep

LEMMA ReferringKept ==
    ASSUME AccessTyped, AllSteps
    PROVE  Referring'
<1> USE DEF AccessTyped
<1> SUFFICES ASSUME NEW q \in Requests
             PROVE  LET r == proc'[q] IN
                /\ r.op = "authorize" /\ r.auth # 0 =>
                      /\ r.auth \in DOMAIN auths' /\ SameAgent(auths'[r.auth], r)
                      /\ r.token # None => auths'[r.auth].token # None
                /\ r.op = "register" =>
                      /\ r.auth \in DOMAIN auths' /\ SameAgent(auths'[r.auth], r)
                      /\ r.step \in {"identity", "publish"} => auths'[r.auth].token # None
                /\ r.op = "agent" /\ r.kind = "mint" => r.auth \in DOMAIN auths' /\ auths'[r.auth].role = "worker"
  BY DEF Referring
<1> DEFINE r == proc'[q]
<1>0. \A i \in DOMAIN auths : i \in DOMAIN auths' /\ SameAgent(auths'[i], auths[i])
          /\ (auths[i].token # None => auths'[i].token # None)
  BY AuthsKept
<1>1. ASSUME r.op = "authorize", r.auth # 0
      PROVE  /\ r.auth \in DOMAIN auths /\ SameAgent(auths[r.auth], r)
             /\ r.token # None => auths[r.auth].token # None
  <2>1. CASE proc'[q] = proc[q]
    BY <1>1, <2>1 DEF Referring
  <2>2. ASSUME NEW a \in Accounts, NEW g \in Setting.agents, NEW role \in AgentRoles, NEW s \in Permissions,
               AuthorizeCall(q, a, g, role, s)
        PROVE  /\ r.auth \in DOMAIN auths /\ SameAgent(auths[r.auth], r)
               /\ r.token # None => auths[r.auth].token # None
    <3>1. PICK i : /\ i = 0 \/ i \in Matching(a, g, role)
                   /\ Start(q, [op |-> "authorize", step |-> "write", account |-> a, agent |-> g,
                          role |-> role, scope |-> s, auth |-> i,
                          token |-> IF i = 0 THEN None ELSE auths[i].token])
      BY <2>2 DEF AuthorizeCall
    <3> DEFINE c == [op |-> "authorize", step |-> "write", account |-> a, agent |-> g,
                          role |-> role, scope |-> s, auth |-> i,
                          token |-> IF i = 0 THEN None ELSE auths[i].token]
    <3>2. Begins(q, c)
      BY <3>1, StartBegins DEF RowsTyped
    <3>3. r.auth = i /\ r.account = a /\ r.agent = g /\ r.role = role /\ (i # 0 => r.token = auths[i].token)
      BY <3>2 DEF Begins, With
    <3> QED BY <1>1, <3>1, <3>3 DEF Matching, SameAgent
  <2> QED BY <1>1, <2>1, <2>2, AuthorizeRows
<1>2. ASSUME r.op = "register"
      PROVE  /\ r.auth \in DOMAIN auths /\ SameAgent(auths[r.auth], r)
             /\ r.step \in {"identity", "publish"} => auths'[r.auth].token # None
  <2>0. ASSUME proc[q].op = "register", r.account = proc[q].account, r.agent = proc[q].agent, r.role = proc[q].role,
               r.auth = proc[q].auth
        PROVE  r.auth \in DOMAIN auths /\ SameAgent(auths[r.auth], r)
    BY <2>0 DEF Referring, SameAgent
  <2>1. CASE proc'[q] = proc[q]
    BY <1>0, <1>2, <2>1 DEF Referring
  <2>2. ASSUME NEW a \in Accounts, NEW i \in DOMAIN auths, NEW x \in Txs, NEW t \in Tokens, RegisterCall(q, a, i, x, t)
        PROVE  /\ r.auth \in DOMAIN auths /\ SameAgent(auths[r.auth], r)
               /\ r.step \notin {"identity", "publish"}
    <3> DEFINE s == IF [tx |-> x, event |-> "agent_registered"] \in syncs THEN "activate" ELSE "registration"
               c == [op |-> "register", account |-> a, agent |-> auths[i].agent, role |-> auths[i].role,
                     scope |-> auths[i].scope, auth |-> i, token |-> t,
                     tx |-> x, event |-> "agent_registered", step |-> s]
    <3>1. Start(q, c) /\ auths[i].account = a
      BY <2>2 DEF RegisterCall
    <3>2. Begins(q, c)
      BY <3>1, StartBegins DEF RowsTyped
    <3>3. r.auth = i /\ r.account = a /\ r.agent = auths[i].agent /\ r.role = auths[i].role /\ r.step = s
      <4> HIDE DEF s
      <4> QED BY <3>2 DEF Begins, With
    <3> QED BY <3>1, <3>3 DEF SameAgent
  <2>3. ASSUME NEW s, GoesTo(q, s), proc[q].op = "register"
        PROVE  r.auth \in DOMAIN auths /\ SameAgent(auths[r.auth], r) /\ r.step = s /\ r.token = proc[q].token
    <3>1. RegisterRow(proc[q])
      BY <2>3 DEF RowsTyped, AccessRow
    <3>2. r.account = proc[q].account /\ r.agent = proc[q].agent /\ r.role = proc[q].role
               /\ r.auth = proc[q].auth /\ r.step = s /\ r.token = proc[q].token
      BY <2>3, <3>1 DEF GoesTo, RegisterRow
    <3> QED BY <2>0, <2>3, <3>2
  <2>4. CASE RecordRegistration(q) /\ GoesTo(q, "activate")
    BY <2>3, <2>4 DEF RecordRegistration, At
  <2>5. CASE Activate(q) /\ GoesTo(q, "identity")
    <3>1. proc[q].op = "register" /\ RegisterRow(proc[q]) /\ auths' = [auths EXCEPT ![proc[q].auth].active = TRUE, ![proc[q].auth].token = proc[q].token]
      BY <2>5 DEF Activate, At, RowsTyped, AccessRow
    <3>2. proc[q].token # None /\ proc[q].auth \in DOMAIN auths
      BY <3>1, NoneAssumption DEF RegisterRow, Referring
    <3>3. auths[proc[q].auth] \in AuthType
      BY <3>2, TableRows
    <3>4. auths'[proc[q].auth].token = proc[q].token
      BY <3>1, <3>2, <3>3 DEF AuthType
    <3>5. r.auth = proc[q].auth
      BY <2>5, <3>1 DEF GoesTo, RegisterRow
    <3> QED BY <2>3, <2>5, <3>1, <3>2, <3>4, <3>5
  <2>6. CASE IdentityRead(q)
    <3>1. proc[q].op = "register" /\ proc[q].step = "identity" /\ RegisterRow(proc[q])
      BY <2>6 DEF IdentityRead, At, RowsTyped, AccessRow
    <3> DEFINE v == identities[<<proc[q].account, proc[q].agent>>] # NoIdentity
    <3>2. proc' = [proc EXCEPT ![q].step = "publish", ![q].valid = v]
      BY <2>6 DEF IdentityRead
    <3>3. r.account = proc[q].account /\ r.agent = proc[q].agent /\ r.role = proc[q].role /\ r.auth = proc[q].auth
      <4> HIDE DEF v
      <4> QED BY <3>1, <3>2 DEF RowsTyped, Rows, RegisterRow
    <3>4. proc[q].auth \in DOMAIN auths /\ auths[proc[q].auth].token # None
      BY <3>1 DEF Referring
    <3> QED BY <1>0, <2>0, <3>1, <3>3, <3>4
  <2> QED BY <1>2, <2>1, <2>2, <2>4, <2>5, <2>6, RegisterRows
<1>3. ASSUME r.op = "agent", r.kind = "mint"
      PROVE  r.auth \in DOMAIN auths /\ auths[r.auth].role = "worker"
  <2>1. CASE proc'[q] = proc[q]
    BY <1>3, <2>1 DEF Referring
  <2>2. CASE proc'[q] # proc[q]
    <3>1. AgentsStep
      <4>1. ASSUME NEW p \in Requests, AccessCall(p) \/ (proc[p] # Idle /\ AccessStep(p)) PROVE FALSE
        <5>1. ~(proc'[q].op = "agent") \/ (proc[q].op = "agent" /\ AccessStep(q) /\ p = q)
          BY <1>3, <2>2, <4>1, AccessCalls, AccessSteps, IdleRow DEF OthersKeep
        <5>2. AgentRow(proc[q]) \/ proc[q].op # "agent"
          BY DEF RowsTyped, AccessRow
        <5> QED BY <1>3, <5>1, <5>2 DEF AccessStep, ChallengeUse, AgentRow
      <4>2. ~Tick
        BY <2>2 DEF Tick, requestVars
      <4> QED BY <1>3, <2>2, <4>1, <4>2 DEF AllSteps, Aside, Within, Post, OtherOps
    <3> QED BY <1>3, <3>1, MintRows DEF Referring
  <2> QED BY <2>1, <2>2
<1>4. \A i \in DOMAIN auths : SameAgent(auths[i], r) => SameAgent(auths'[i], r)
  BY <1>0 DEF SameAgent
<1>5. \A i \in DOMAIN auths : auths[i].role = "worker" => auths'[i].role = "worker"
  BY <1>0 DEF SameAgent
<1> HIDE DEF r
<1> QED BY <1>0, <1>1, <1>2, <1>3, <1>4, <1>5 DEF r

-----------------------------------------------------------------------------
(* The start                                                                  *)

LEMMA SetToSeqLists ==
    ASSUME NEW S, IsFiniteSet(S)
    PROVE  /\ SetToSeq(S) \in Seq(S)
           /\ \A i, k \in DOMAIN SetToSeq(S) : SetToSeq(S)[i] = SetToSeq(S)[k] => i = k
           /\ \A x \in S : \E i \in DOMAIN SetToSeq(S) : SetToSeq(S)[i] = x
<1> DEFINE n == Cardinality(S)
           t == SetToSeq(S)
<1>1. n \in Nat /\ \E f \in [1..n -> S] : IsInjective(f)
  BY FS_CardinalityType DEF ExistsBijection, Bijection, Injection
<1>2. t \in [1..n -> S] /\ IsInjective(t)
  BY <1>1 DEF SetToSeq
<1>3. t \in Injection(1..n, S) /\ Cardinality(1..n) = n
  BY <1>1, <1>2, FS_Interval DEF Injection
<1>4. t \in Surjection(1..n, S)
  BY <1>3, FS_Injection
<1>5. t \in Seq(S) /\ DOMAIN t = 1..n
  BY <1>1, <1>2, SeqDef
<1>6. \A x \in S : \E i \in DOMAIN t : t[i] = x
  BY <1>4, <1>5 DEF Surjection
<1> HIDE DEF t
<1> QED BY <1>2, <1>5, <1>6 DEF IsInjective, t

KnownAtStart == IF Setting.signedIn THEN SetToSeq(Accounts) ELSE <<>>
AgentAtStart == CHOOSE g \in Setting.agents : TRUE
TokenAtStart == CHOOSE t \in Tokens : TRUE
HumanAtStart == CHOOSE f \in Injection(Accounts, Humans) : TRUE
SomeRegistered == Setting.registered # None
Opens(a) == [Challenge(a, "web_login", None, None) EXCEPT !.used = TRUE]
Asks(i) == Challenge(Setting.issued[i].account, Setting.issued[i].purpose, Setting.issued[i].job, AgentAtStart)

LEMMA StartFacts ==
    ASSUME scene \in DOMAIN Scenes, AccessInit
    PROVE  /\ KnownAtStart \in Seq(Accounts) /\ Len(KnownAtStart) \in Nat
           /\ DOMAIN KnownAtStart = 1..Len(KnownAtStart)
           /\ \A i, k \in DOMAIN KnownAtStart : KnownAtStart[i] = KnownAtStart[k] => i = k
           /\ SomeRegistered => \A a \in Accounts : \E i \in DOMAIN KnownAtStart : KnownAtStart[i] = a
           /\ AgentAtStart \in Setting.agents /\ AgentAtStart \in Agents
           /\ TokenAtStart \in Tokens /\ TokenAtStart # None
           /\ HumanAtStart \in [Accounts -> Humans] /\ \A a, b \in Accounts : HumanAtStart[a] = HumanAtStart[b] => a = b
           /\ clock = 0
           /\ accounts = {KnownAtStart[i] : i \in DOMAIN KnownAtStart}
           /\ challenges = [i \in DOMAIN KnownAtStart |-> Opens(KnownAtStart[i])] \o
                           [i \in DOMAIN Setting.issued |-> Asks(i)]
           /\ sessions = [i \in DOMAIN KnownAtStart |->
                            [account |-> KnownAtStart[i], expires |-> SessionTTL, revoked |-> FALSE, from |-> i]]
           /\ roles = IF SomeRegistered
                      THEN {[account |-> a, role |-> Setting.registered, human |-> HumanAtStart[a]] : a \in Accounts}
                      ELSE {}
           /\ auths = IF SomeRegistered
                      THEN [i \in DOMAIN KnownAtStart |->
                              [account |-> KnownAtStart[i], agent |-> AgentAtStart, role |-> Setting.registered,
                               scope |-> UNION Permissions, active |-> TRUE, token |-> TokenAtStart]]
                      ELSE <<>>
           /\ identities = [f \in Fingerprints |->
                              IF SomeRegistered /\ f[2] = AgentAtStart
                              THEN [role |-> Setting.registered, token |-> TokenAtStart, scope |-> UNION Permissions]
                              ELSE NoIdentity]
           /\ gate = {} /\ agentBook = [a \in Accounts |-> None]
           /\ nonces = {} /\ uses = [e \in Endpoints |-> [h \in Humans |-> 0]] /\ grants = {}
<1>1. /\ KnownAtStart \in Seq(Accounts) /\ \A i, k \in DOMAIN KnownAtStart : KnownAtStart[i] = KnownAtStart[k] => i = k
      /\ SomeRegistered => \A a \in Accounts : \E i \in DOMAIN KnownAtStart : KnownAtStart[i] = a
  <2>1. CASE Setting.signedIn
    <3> DEFINE t == SetToSeq(Accounts)
    <3>1. KnownAtStart = t
      BY <2>1 DEF KnownAtStart
    <3>2. /\ t \in Seq(Accounts) /\ \A i, k \in DOMAIN t : t[i] = t[k] => i = k
          /\ \A x \in Accounts : \E i \in DOMAIN t : t[i] = x
      BY SetToSeqLists, AccessAssumption
    <3> HIDE DEF t
    <3> QED BY <3>1, <3>2
  <2>2. CASE ~Setting.signedIn
    <3>1. KnownAtStart = <<>> /\ ~SomeRegistered
      BY <2>2, SettingFacts DEF KnownAtStart, SomeRegistered
    <3> QED BY <3>1
  <2> QED BY <2>1, <2>2
<1>2. AgentAtStart \in Setting.agents /\ AgentAtStart \in Agents
  BY SettingFacts DEF AgentAtStart
<1>3. TokenAtStart \in Tokens /\ TokenAtStart # None
  BY AccessAssumption, NoneAssumption DEF TokenAtStart
<1>4. HumanAtStart \in [Accounts -> Humans] /\ \A a, b \in Accounts : HumanAtStart[a] = HumanAtStart[b] => a = b
  <2>1. HumanAtStart \in Injection(Accounts, Humans)
    BY AccessAssumption DEF HumanAtStart
  <2> QED BY <2>1 DEF Injection, IsInjective
<1>5. Len(KnownAtStart) \in Nat /\ DOMAIN KnownAtStart = 1..Len(KnownAtStart)
  BY <1>1
<1>6. accounts = {KnownAtStart[i] : i \in DOMAIN KnownAtStart}
  BY DEF AccessInit, KnownAtStart, ToSet
<1>7. challenges = [i \in DOMAIN KnownAtStart |-> Opens(KnownAtStart[i])] \o
                           [i \in DOMAIN Setting.issued |-> Asks(i)]
  BY DEF AccessInit, KnownAtStart, Opens, Asks, AgentAtStart
<1>8. sessions = [i \in DOMAIN KnownAtStart |->
                            [account |-> KnownAtStart[i], expires |-> SessionTTL, revoked |-> FALSE, from |-> i]]
  BY DEF AccessInit, KnownAtStart
<1>9. roles = IF SomeRegistered
              THEN {[account |-> a, role |-> Setting.registered, human |-> HumanAtStart[a]] : a \in Accounts}
              ELSE {}
  BY DEF AccessInit, SomeRegistered, HumanAtStart
<1>10. auths = IF SomeRegistered
                      THEN [i \in DOMAIN KnownAtStart |->
                              [account |-> KnownAtStart[i], agent |-> AgentAtStart, role |-> Setting.registered,
                               scope |-> UNION Permissions, active |-> TRUE, token |-> TokenAtStart]]
                      ELSE <<>>
  BY DEF AccessInit, KnownAtStart, SomeRegistered, AgentAtStart, TokenAtStart
<1>11. identities = [f \in Fingerprints |->
                              IF SomeRegistered /\ f[2] = AgentAtStart
                              THEN [role |-> Setting.registered, token |-> TokenAtStart, scope |-> UNION Permissions]
                              ELSE NoIdentity]
  BY DEF AccessInit, SomeRegistered, AgentAtStart, TokenAtStart
<1>12. clock = 0 /\ gate = {} /\ agentBook = [a \in Accounts |-> None]
           /\ nonces = {} /\ uses = [e \in Endpoints |-> [h \in Humans |-> 0]] /\ grants = {}
  BY DEF AccessInit
<1> QED BY <1>1, <1>2, <1>3, <1>4, <1>5, <1>6, <1>7, <1>8, <1>9, <1>10, <1>11, <1>12

\* What is issued at the start is a list of challenges.
LEMMA ChallengesAtStart ==
    ASSUME scene \in DOMAIN Scenes, AccessInit
    PROVE  /\ challenges \in Seq(ChallengeType)
           /\ DOMAIN KnownAtStart \subseteq DOMAIN challenges
           /\ \A i \in DOMAIN KnownAtStart :
                 /\ challenges[i].used /\ challenges[i].purpose = "web_login"
                 /\ challenges[i].account = KnownAtStart[i]
           /\ \A c \in DOMAIN challenges \ DOMAIN KnownAtStart : challenges[c].purpose # "web_login"
<1> DEFINE first == [i \in DOMAIN KnownAtStart |-> Opens(KnownAtStart[i])]
           second == [i \in DOMAIN Setting.issued |-> Asks(i)]
           n == Len(KnownAtStart)
           m == Len(Setting.issued)
<1>0. KnownAtStart \in Seq(Accounts) /\ n \in Nat /\ DOMAIN KnownAtStart = 1..n
      /\ challenges = first \o second /\ AgentAtStart \in Agents /\ clock = 0
  BY StartFacts
<1>1. /\ Setting.issued \in Seq([account : Accounts, job : Jobs,
                purpose : {"worker_claim", "worker_unclaim", "worker_submit"}])
      /\ m \in Nat /\ DOMAIN Setting.issued = 1..m
  BY SettingFacts
<1>2. ASSUME NEW a \in Accounts
      PROVE  Opens(a) \in ChallengeType /\ Opens(a).used /\ Opens(a).purpose = "web_login" /\ Opens(a).account = a
  <2> DEFINE c0 == Challenge(a, "web_login", None, None)
  <2>1. c0 \in ChallengeType /\ c0.purpose = "web_login" /\ c0.account = a
    BY <1>0, AccessAssumption DEF Challenge, ChallengeType, PurposeNames
  <2>2. Opens(a) = [c0 EXCEPT !.used = TRUE]
    BY DEF Opens
  <2> HIDE DEF c0
  <2> QED BY <2>1, <2>2 DEF ChallengeType
<1>3. ASSUME NEW i \in 1..m PROVE Asks(i) \in ChallengeType /\ Asks(i).purpose # "web_login"
  <2>1. Setting.issued[i] \in [account : Accounts, job : Jobs, purpose : {"worker_claim", "worker_unclaim", "worker_submit"}]
    <3>1. ASSUME NEW S, NEW t \in Seq(S), NEW k \in 1..Len(t) PROVE t[k] \in S
      OBVIOUS
    <3> QED BY <1>1, <3>1
  <2> DEFINE e == Setting.issued[i]
  <2>2. Asks(i) = Challenge(e.account, e.purpose, e.job, AgentAtStart)
    BY DEF Asks
  <2> HIDE DEF e
  <2> QED BY <1>0, <2>1, <2>2, AccessAssumption DEF e, Challenge, ChallengeType, PurposeNames
<1>4. \A i \in 1..n : KnownAtStart[i] \in Accounts
  BY <1>0
<1>5. first \in [1..n -> ChallengeType] /\ second \in [1..m -> ChallengeType]
  BY <1>0, <1>1, <1>2, <1>3, <1>4
<1>6. first \in Seq(ChallengeType) /\ second \in Seq(ChallengeType) /\ Len(first) = n /\ Len(second) = m
  BY <1>0, <1>1, <1>5, SeqDef
<1>7. /\ \A i \in 1..n : first[i] = Opens(KnownAtStart[i])
      /\ \A i \in 1..m : second[i] = Asks(i)
  BY <1>0, <1>1
<1> HIDE DEF first, second
<1>8. challenges \in Seq(ChallengeType) /\ DOMAIN challenges = 1..(n + m)
      /\ \A i \in 1..(n + m) : challenges[i] = IF i <= n THEN first[i] ELSE second[i - n]
  <2>1. /\ first \o second \in Seq(ChallengeType)
        /\ Len(first \o second) = n + m
        /\ \A i \in 1 .. n + m : (first \o second)[i] = IF i <= n THEN first[i] ELSE second[i - n]
    <3>1. ASSUME NEW S, NEW s1 \in Seq(S), NEW s2 \in Seq(S)
          PROVE  /\ s1 \o s2 \in Seq(S)
                 /\ Len(s1 \o s2) = Len(s1) + Len(s2)
                 /\ \A i \in 1 .. Len(s1) + Len(s2) : (s1 \o s2)[i] = IF i <= Len(s1) THEN s1[i] ELSE s2[i - Len(s1)]
      BY ConcatProperties
    <3> HIDE DEF n, m
    <3>2. /\ first \o second \in Seq(ChallengeType)
          /\ Len(first \o second) = Len(first) + Len(second)
          /\ \A i \in 1 .. Len(first) + Len(second) :
                (first \o second)[i] = IF i <= Len(first) THEN first[i] ELSE second[i - Len(first)]
      BY <1>6, <3>1
    <3> QED BY <1>6, <3>2
  <2> QED BY <1>0, <2>1
<1>9. 1..n \subseteq 1..(n + m)
  BY <1>0, <1>1
<1>10. \A i \in 1..n : challenges[i] = Opens(KnownAtStart[i])
  BY <1>0, <1>1, <1>7, <1>8, <1>9
<1>11. \A c \in DOMAIN challenges \ DOMAIN KnownAtStart : c - n \in 1..m /\ challenges[c] = Asks(c - n)
  <2> TAKE c \in DOMAIN challenges \ DOMAIN KnownAtStart
  <2>1. c \in 1..(n + m) /\ c \notin 1..n
    BY <1>0, <1>8
  <2>2. c - n \in 1..m /\ ~(c <= n)
    BY <1>0, <1>1, <2>1
  <2>3. challenges[c] = second[c - n]
    BY <1>8, <2>1, <2>2
  <2> QED BY <1>7, <2>2, <2>3
<1> QED BY <1>0, <1>2, <1>3, <1>4, <1>8, <1>9, <1>10, <1>11, SMTT(30)

LEMMA AccessStart ==
    ASSUME ClientInit
    PROVE  AccessTyped
<1> USE DEF ClientInit, ServicesInit
<1>1. RowsTyped
  BY IdleRow DEF RequestsInit, RowsTyped, Rows, Lonely, AccessRow
<1>0. scene \in DOMAIN Scenes
  BY <1>1 DEF RowsTyped
<1>2. challenges \in Seq(ChallengeType)
  BY <1>0, ChallengesAtStart
<1>3. KnownAtStart \in Seq(Accounts) /\ Len(KnownAtStart) \in Nat /\ DOMAIN KnownAtStart = 1..Len(KnownAtStart)
  BY <1>0, StartFacts
<1>4. \A i \in 1..Len(KnownAtStart) : KnownAtStart[i] \in Accounts
  BY <1>3
<1>5. sessions \in Seq(SessionType)
  <2> DEFINE Of(i) == [account |-> KnownAtStart[i], expires |-> SessionTTL, revoked |-> FALSE, from |-> i]
  <2>0. \A i \in 1..Len(KnownAtStart) : Of(i) \in SessionType
    BY <1>3, <1>4, AccessAssumption DEF SessionType
  <2>2. sessions = [i \in 1..Len(KnownAtStart) |-> Of(i)]
    BY <1>0, <1>3, StartFacts
  <2>1. sessions \in [1..Len(KnownAtStart) -> SessionType]
    <3> HIDE DEF Of
    <3> QED BY <2>0, <2>2
  <2> QED BY <1>3, <2>1, SeqDef
<1>6. Setting.registered \in RoleNames /\ UNION Permissions \subseteq PermissionNames /\ TokenAtStart \in TokenIds
      /\ AgentAtStart \in Agents /\ HumanAtStart \in [Accounts -> Humans] /\ None \in TokenIds
  BY <1>0, StartFacts, SettingFacts DEF TokenIds, PermissionNames
<1>7. auths \in Seq(AuthType)
  <2>1. CASE SomeRegistered
    <3> DEFINE Of(i) == [account |-> KnownAtStart[i], agent |-> AgentAtStart, role |-> Setting.registered,
                         scope |-> UNION Permissions, active |-> TRUE, token |-> TokenAtStart]
    <3>0. \A i \in 1..Len(KnownAtStart) : Of(i) \in AuthType
      BY <1>4, <1>6 DEF AuthType
    <3>2. auths = [i \in 1..Len(KnownAtStart) |-> Of(i)]
      BY <1>0, <1>3, <2>1, StartFacts
    <3>1. auths \in [1..Len(KnownAtStart) -> AuthType]
      <4> HIDE DEF Of
      <4> QED BY <3>0, <3>2
    <3> QED BY <1>3, <3>1, SeqDef
  <2>2. CASE ~SomeRegistered
    BY <1>0, <2>2, StartFacts
  <2> QED BY <2>1, <2>2
<1>8. identities \in [Fingerprints -> IdentityType]
  BY <1>0, <1>6, StartFacts DEF IdentityType, NoIdentity
<1>9. roles \subseteq RoleType /\ accounts \subseteq Accounts
  BY <1>0, <1>3, <1>4, <1>6, StartFacts DEF RoleType
<1>10. clock \in Nat /\ agentBook \in [Accounts -> Humans \cup {None}]
       /\ uses \in [Endpoints -> [Humans -> Nat]] /\ grants = {}
  BY <1>0, StartFacts
<1>11. IsFiniteSet({})
  BY FS_EmptySet
<1>12. AgentTables
  <2>1. PICK g \in Setting.agents : setups = [a \in Accounts |-> [draft |-> g, widget |-> FALSE, done |-> None]]
    BY DEF AgentPageInit
  <2>2. g \in Agents
    BY <1>0, SettingFacts
  <2>3. registry = [f \in Fingerprints |-> identities[f].token]
    BY DEF AgentPageInit
  <2> QED BY <1>8, <2>1, <2>2, <2>3 DEF AgentTables, SetupType, IdentityType
<1>13. Referring
  BY IdleRow DEF RequestsInit, Referring
<1> QED BY <1>1, <1>2, <1>5, <1>7, <1>8, <1>9, <1>10, <1>11, <1>12, <1>13 DEF AccessTyped, AccessTables

allVars == <<servicesVars, clientVars>>

LEMMA AccessTypedKept ==
    ASSUME AccessTyped, ClientNext
    PROVE  AccessTyped' /\ AllSteps
BY AllTyped, ReferringKept DEF AccessTyped

LEMMA AccessTypedStill ==
    ASSUME AccessTyped, UNCHANGED allVars
    PROVE  AccessTyped'
<1>1. UNCHANGED <<requestVars, accountVars, roles, agentVars, agentBook, uses, grants, clock, agentPageVars>>
  BY DEF allVars, servicesVars, clientVars, accessVars, kitVars
<1>2. RowsTyped'
  BY <1>1 DEF AccessTyped, RowsTyped, Rows, Lonely, requestVars
<1>3. AccessTables' /\ AgentTables'
  BY <1>1 DEF AccessTyped, AccessTables, AgentTables, accountVars, agentVars, agentPageVars
<1>4. Referring'
  BY <1>1 DEF AccessTyped, Referring, requestVars, agentVars
<1> QED BY <1>2, <1>3, <1>4 DEF AccessTyped

\* What a request, a page and a table of access hold is of its kind: a row carries the
\* fields its step reads, and whatever names a challenge, session or agent names one
\* that the tables have (db/migrate.ts, services/authService.ts, worldService.ts,
\* agentkitService.ts).
THEOREM TypesKept == ClientSpec => []AccessTyped
<1>1. ClientInit => AccessTyped
  BY AccessStart
<1>2. AccessTyped /\ [ClientNext]_allVars => AccessTyped'
  BY AccessTypedKept, AccessTypedStill
<1> QED BY <1>1, <1>2, PTL DEF ClientSpec, allVars

LEMMA Steady ==
    ASSUME AccessTyped, AllSteps
    PROVE  scene' = scene /\ (alone' => alone) /\ faults' \in Nat /\ (faults' = 0 => faults = 0)
<1>0. faults \in Nat
  BY DEF AccessTyped, RowsTyped
<1>1. ASSUME NEW p \in Requests, AccessCall(p) PROVE scene' = scene /\ (alone' => alone) /\ faults' = faults
  <2>1. \A r : Start(p, r) => scene' = scene /\ (alone' => alone) /\ faults' = faults
    BY DEF Start, Begin
  <2> QED BY <1>1, <2>1, ZenonT(40) DEF AccessCall, ChallengeCall, LoginCall, WorldCall, AuthorizeCall, RegisterCall, SyncRoleCall,
          RegisterAgentBook, KitCall, RevokeSession
<1>2. ASSUME NEW p \in Requests, AccessStep(p) PROVE scene' = scene /\ (alone' => alone) /\ faults' = faults
  BY <1>2, AccessSteps DEF Calm
<1> QED BY <1>0, <1>1, <1>2 DEF AllSteps, Aside, Within, Tick, requestVars

-----------------------------------------------------------------------------
(* Who changes challenges and sessions                                        *)

\* Somebody signs in on a page.
SignsIn(a) ==
    /\ accounts' = accounts \cup {a}
    /\ challenges' = Append(challenges, [Challenge(a, "web_login", None, None) EXCEPT !.used = TRUE])
    /\ sessions' = Append(sessions, [account |-> a, expires |-> clock + SessionTTL, revoked |-> FALSE,
                                     from |-> Len(challenges) + 1])

LEMMA SignMoves ==
    ASSUME AccessTyped, AllSteps
    PROVE  \/ UNCHANGED accountVars
           \/ \E p \in Requests : /\ proc[p] # Idle
                                  /\ AccountInsert(p) \/ ChallengeInsert(p) \/ ChallengeUse(p) \/ SessionInsert(p)
           \/ \E p \in Requests : \E s \in DOMAIN sessions : RevokeSession(p, s)
           \/ \E a \in Accounts : SignsIn(a)
           \/ \E a \in Accounts : SignOut(a)
<1>1. ASSUME NEW p \in Requests, AccessCall(p)
      PROVE  UNCHANGED accountVars \/ \E s \in DOMAIN sessions : RevokeSession(p, s)
  BY <1>1 DEF AccessCall, ChallengeCall, LoginCall, WorldCall, AuthorizeCall, RegisterCall, SyncRoleCall,
          RegisterAgentBook, KitCall, accessVars
<1>2. ASSUME NEW p \in Requests, AccessStep(p)
      PROVE  UNCHANGED accountVars \/ AccountInsert(p) \/ ChallengeInsert(p) \/ ChallengeUse(p) \/ SessionInsert(p)
  BY <1>2 DEF AccessStep, RoleRead, RoleWrite, AuthorizationWrite, Activate, SetVerified,
          RecordRegistration, IdentityRead, IdentityWrite, ClaimNonce, LookupHuman,
          TryIncrementUsage, accessVars
<1>3. ASSUME NEW p \in Requests, AgentStep(p)
      PROVE  UNCHANGED accountVars \/ \E a \in Accounts : SignsIn(a)
  <2>1. proc[p].page \in Accounts
    BY <1>3 DEF AgentStep, Working, AccessTyped, RowsTyped, AccessRow, AgentRow
  <2>2. AgentSignIn(p) => SignsIn(proc[p].page)
    BY SMTT(30) DEF AgentSignIn, SignsIn, Page
  <2>3. AgentSignIn(p) \/ UNCHANGED accountVars
    BY <1>3, Zenon DEF AgentStep, OpenWidget, ProveInDemo, VerifyRole, Authorize, KeepDraft, SyncRole, RegisterBook,
          SendRegistration, RegisterAgent, SyncRegistration, SetupRefused, SetupFails, accessVars, accountVars, RowsKept
  <2> QED BY <2>1, <2>2, <2>3
<1>4. ASSUME NEW p \in Requests, PageSigns(p) PROVE \E a \in Accounts : SignsIn(a)
  BY <1>4 DEF PageSigns, SignsIn
<1> QED BY <1>1, <1>2, <1>3, <1>4 DEF AllSteps, Tick, accessVars

SameChallenge(c, d) ==
    /\ c.account = d.account /\ c.purpose = d.purpose /\ c.job = d.job /\ c.agent = d.agent
    /\ c.expires = d.expires

\* A challenge stays what it is, and stays used.
LEMMA ChallengesKept ==
    ASSUME AccessTyped, AllSteps
    PROVE  /\ accounts \subseteq accounts'
           /\ \A c \in DOMAIN challenges :
                 /\ c \in DOMAIN challenges' /\ SameChallenge(challenges'[c], challenges[c])
                 /\ challenges[c].used => challenges'[c].used
           /\ \A c \in DOMAIN challenges' \ DOMAIN challenges :
                 /\ c = Len(challenges) + 1
                 /\ \/ \E p \in Requests : ChallengeInsert(p) /\ challenges'[c].account = proc[p].account
                    \/ \E a \in Accounts : SignsIn(a) /\ challenges'[c].account = a
<1>0. /\ \A c \in DOMAIN challenges : challenges[c] \in ChallengeType
      /\ challenges \in Seq(ChallengeType) /\ DOMAIN challenges = 1..Len(challenges) /\ Len(challenges) \in Nat
  BY TableRows DEF AccessTyped, AccessTables
<1>1. CASE challenges' = challenges /\ accounts \subseteq accounts'
  BY <1>1 DEF SameChallenge
<1>2. ASSUME NEW e, challenges' = Append(challenges, e)
      PROVE  /\ DOMAIN challenges' = DOMAIN challenges \cup {Len(challenges) + 1}
             /\ \A c \in DOMAIN challenges : challenges'[c] = challenges[c]
             /\ challenges'[Len(challenges) + 1] = e
  BY <1>0, <1>2
<1>3. ASSUME NEW p \in Requests, ChallengeInsert(p)
      PROVE  accounts' = accounts /\ \E e : challenges' = Append(challenges, e) /\ e.account = proc[p].account
  BY <1>3 DEF ChallengeInsert, Challenge
<1>4. ASSUME NEW a \in Accounts, SignsIn(a)
      PROVE  accounts \subseteq accounts' /\ \E e : challenges' = Append(challenges, e) /\ e.account = a
  <2> DEFINE c0 == Challenge(a, "web_login", None, None)
             e == [c0 EXCEPT !.used = TRUE]
  <2>1. challenges' = Append(challenges, e)
    BY <1>4 DEF SignsIn
  <2>2. c0.account = a /\ "account" \in DOMAIN c0
    BY DEF Challenge
  <2>3. e.account = a
    <3> HIDE DEF c0
    <3> QED BY <2>2
  <2> QED BY <1>4, <2>1, <2>3 DEF SignsIn
<1>5. ASSUME NEW p \in Requests, ChallengeUse(p)
      PROVE  /\ accounts' = accounts /\ DOMAIN challenges' = DOMAIN challenges
             /\ \A c \in DOMAIN challenges : /\ SameChallenge(challenges'[c], challenges[c])
                                             /\ challenges[c].used => challenges'[c].used
  <2>1. challenges' = [challenges EXCEPT ![proc[p].challenge].used = TRUE] /\ accounts' = accounts
    BY <1>5 DEF ChallengeUse
  <2> DEFINE k == proc[p].challenge
             e == [challenges[k] EXCEPT !.used = TRUE]
  <2>2. challenges' = [challenges EXCEPT ![k] = e]
    BY <2>1
  <2>3. k \in DOMAIN challenges => SameChallenge(e, challenges[k]) /\ e.used
    <3> HIDE DEF k
    <3> QED BY <1>0 DEF ChallengeType, SameChallenge
  <2> HIDE DEF k, e
  <2> QED BY <2>1, <2>2, <2>3 DEF SameChallenge
<1>6. \A p : AccountInsert(p) => challenges' = challenges /\ accounts \subseteq accounts'
  BY DEF AccountInsert
<1>7. \A p : SessionInsert(p) => challenges' = challenges /\ accounts \subseteq accounts'
  BY DEF SessionInsert
<1>8. \A p, s : RevokeSession(p, s) => challenges' = challenges /\ accounts \subseteq accounts'
  BY DEF RevokeSession
<1>9. \A a : SignOut(a) => challenges' = challenges /\ accounts \subseteq accounts'
  BY DEF SignOut
<1>10. UNCHANGED accountVars => challenges' = challenges /\ accounts \subseteq accounts'
  BY DEF accountVars
<1>11. ASSUME NEW e, challenges' = Append(challenges, e), accounts \subseteq accounts',
              \/ \E p \in Requests : ChallengeInsert(p) /\ e.account = proc[p].account
              \/ \E a \in Accounts : SignsIn(a) /\ e.account = a
       PROVE  /\ accounts \subseteq accounts'
              /\ \A c \in DOMAIN challenges :
                 /\ c \in DOMAIN challenges' /\ SameChallenge(challenges'[c], challenges[c])
                 /\ challenges[c].used => challenges'[c].used
              /\ \A c \in DOMAIN challenges' \ DOMAIN challenges :
                 /\ c = Len(challenges) + 1
                 /\ \/ \E p \in Requests : ChallengeInsert(p) /\ challenges'[c].account = proc[p].account
                    \/ \E a \in Accounts : SignsIn(a) /\ challenges'[c].account = a
  BY <1>2, <1>11 DEF SameChallenge
<1>12. CASE \E p \in Requests : ChallengeInsert(p)
  <2>1. PICK p \in Requests : ChallengeInsert(p)
    BY <1>12
  <2> QED BY <2>1, <1>3, <1>11
<1>13. CASE \E a \in Accounts : SignsIn(a)
  <2>1. PICK a \in Accounts : SignsIn(a)
    BY <1>13
  <2> QED BY <2>1, <1>4, <1>11
<1>14. CASE \E p \in Requests : ChallengeUse(p)
  BY <1>5, <1>14
<1> QED BY <1>1, <1>6, <1>7, <1>8, <1>9, <1>10, <1>12, <1>13, <1>14, SignMoves

\* A session stays that of its account and challenge.
LEMMA SessionsKept ==
    ASSUME AccessTyped, AllSteps
    PROVE  /\ \A s \in DOMAIN sessions :
                 /\ s \in DOMAIN sessions' /\ sessions'[s].account = sessions[s].account
                 /\ sessions'[s].from = sessions[s].from
           /\ \A s \in DOMAIN sessions' \ DOMAIN sessions :
                 /\ s = Len(sessions) + 1
                 /\ \/ \E p \in Requests : /\ SessionInsert(p) /\ proc[p] # Idle
                                           /\ sessions'[s].account = proc[p].account
                                           /\ sessions'[s].from = proc[p].challenge
                    \/ \E a \in Accounts : /\ SignsIn(a) /\ sessions'[s].account = a
                                           /\ sessions'[s].from = Len(challenges) + 1
<1>0. /\ \A s \in DOMAIN sessions : sessions[s] \in SessionType
      /\ sessions \in Seq(SessionType) /\ DOMAIN sessions = 1..Len(sessions) /\ Len(sessions) \in Nat
  BY TableRows DEF AccessTyped, AccessTables
<1>2. ASSUME NEW e, sessions' = Append(sessions, e)
      PROVE  /\ DOMAIN sessions' = DOMAIN sessions \cup {Len(sessions) + 1}
             /\ \A c \in DOMAIN sessions : sessions'[c] = sessions[c]
             /\ sessions'[Len(sessions) + 1] = e
  BY <1>0, <1>2
<1>3. ASSUME NEW p \in Requests, SessionInsert(p)
      PROVE  \E e : sessions' = Append(sessions, e) /\ e.account = proc[p].account /\ e.from = proc[p].challenge
  BY <1>3 DEF SessionInsert
<1>4. ASSUME NEW a \in Accounts, SignsIn(a)
      PROVE  \E e : sessions' = Append(sessions, e) /\ e.account = a /\ e.from = Len(challenges) + 1
  BY <1>4 DEF SignsIn
<1>5. ASSUME NEW p \in Requests, NEW s \in DOMAIN sessions, RevokeSession(p, s)
      PROVE  /\ DOMAIN sessions' = DOMAIN sessions
             /\ \A k \in DOMAIN sessions : sessions'[k].account = sessions[k].account /\ sessions'[k].from = sessions[k].from
  <2> DEFINE e == [sessions[s] EXCEPT !.revoked = TRUE]
  <2>1. sessions' = [sessions EXCEPT ![s] = e]
    BY <1>5 DEF RevokeSession
  <2>2. e.account = sessions[s].account /\ e.from = sessions[s].from
    BY <1>0 DEF SessionType
  <2> HIDE DEF e
  <2> QED BY <2>1, <2>2
<1>6. ASSUME NEW a \in Accounts, SignOut(a)
      PROVE  /\ DOMAIN sessions' = DOMAIN sessions
             /\ \A k \in DOMAIN sessions : sessions'[k].account = sessions[k].account /\ sessions'[k].from = sessions[k].from
  <2> DEFINE Out(s) == [sessions[s] EXCEPT !.revoked = TRUE]
  <2>1. sessions' = [s \in DOMAIN sessions |-> IF sessions[s].account = a THEN Out(s) ELSE sessions[s]]
    BY <1>6 DEF SignOut
  <2>2. \A k \in DOMAIN sessions : Out(k).account = sessions[k].account /\ Out(k).from = sessions[k].from
    BY <1>0 DEF SessionType
  <2> HIDE DEF Out
  <2> QED BY <2>1, <2>2
<1>7. \A p : AccountInsert(p) \/ ChallengeInsert(p) \/ ChallengeUse(p) => sessions' = sessions
  BY DEF AccountInsert, ChallengeInsert, ChallengeUse
<1>8. CASE sessions' = sessions
  BY <1>8
<1>9. CASE \E p \in Requests : SessionInsert(p) /\ proc[p] # Idle
  <2>1. PICK p \in Requests : SessionInsert(p) /\ proc[p] # Idle
    BY <1>9
  <2> QED BY <2>1, <1>2, <1>3
<1>10. CASE \E a \in Accounts : SignsIn(a)
  <2>1. PICK a \in Accounts : SignsIn(a)
    BY <1>10
  <2> QED BY <2>1, <1>2, <1>4
<1>11. CASE \E p \in Requests : \E s \in DOMAIN sessions : RevokeSession(p, s)
  BY <1>5, <1>11
<1>12. CASE \E a \in Accounts : SignOut(a)
  BY <1>6, <1>12
<1> QED BY <1>7, <1>8, <1>9, <1>10, <1>11, <1>12, SignMoves DEF accountVars

LEMMA ChallengeRows ==
    ASSUME AccessTyped, AllSteps, NEW q \in Requests, proc'[q].op = "challenge"
    PROVE  \/ proc'[q] = proc[q]
           \/ \E a \in Accounts : ChallengeCall(q, a, "web_login", None, None)
           \/ AccountInsert(q) /\ GoesTo(q, "issue")
<1>1. CASE AccessCall(q)
  BY <1>1, AccessCalls
<1>2. CASE proc[q] # Idle /\ AccessStep(q)
  <2>1. proc[q].op = "challenge" /\ proc'[q] # Idle
    BY <1>2, AccessSteps, IdleRow
  <2>2. ChallengeRow(proc[q]) /\ Rows /\ DOMAIN proc = Requests
    BY <2>1 DEF AccessTyped, RowsTyped, AccessRow, Rows
  <2>3. AccountInsert(q) \/ ChallengeInsert(q)
    BY <1>2, <2>1, <2>2 DEF AccessStep, ChallengeUse, ChallengeRow, SessionInsert, AuthorizationWrite,
       RoleRead, RoleWrite, RecordRegistration, Activate, IdentityRead, IdentityWrite, SetVerified, ClaimNonce,
       LookupHuman, TryIncrementUsage, At
  <2>4. ~Finish(q)
    BY <2>1, <2>2 DEF Finish
  <2> QED BY <2>2, <2>3, <2>4, GotoGoes DEF AccountInsert, ChallengeInsert
<1> QED BY <1>1, <1>2, RequestMoves DEF OtherOps

LEMMA LoginRows ==
    ASSUME AccessTyped, AllSteps, NEW q \in Requests, proc'[q].op = "login"
    PROVE  \/ proc'[q] = proc[q]
           \/ \E a \in Accounts, c \in DOMAIN challenges : LoginCall(q, c, a)
           \/ proc[q].op = "login" /\ ChallengeUse(q) /\ GoesTo(q, "session")
<1>1. CASE AccessCall(q)
  BY <1>1, AccessCalls
<1>2. CASE proc[q] # Idle /\ AccessStep(q)
  <2>1. proc[q].op = "login" /\ proc'[q] # Idle
    BY <1>2, AccessSteps, IdleRow
  <2>2. LoginRow(proc[q]) /\ Rows /\ DOMAIN proc = Requests
    BY <2>1 DEF AccessTyped, RowsTyped, AccessRow, Rows
  <2>3. ChallengeUse(q) \/ SessionInsert(q)
    BY <1>2, <2>1, <2>2 DEF AccessStep, LoginRow, AccountInsert, ChallengeInsert, AuthorizationWrite,
       RoleRead, RoleWrite, RecordRegistration, Activate, IdentityRead, IdentityWrite, SetVerified, ClaimNonce,
       LookupHuman, TryIncrementUsage, At
  <2>4. ~Finish(q)
    BY <2>1, <2>2 DEF Finish
  <2> QED BY <2>1, <2>2, <2>3, <2>4, GotoGoes DEF ChallengeUse, SessionInsert
<1> QED BY <1>1, <1>2, RequestMoves DEF OtherOps

-----------------------------------------------------------------------------
(* Sessions are signed for                                                    *)

SignedRow(p) ==
    LET r == proc[p] IN
    /\ r.op = "challenge" /\ r.step = "issue" => r.account \in accounts
    /\ r.op = "login" =>
          /\ r.challenge \in DOMAIN challenges
          /\ challenges[r.challenge].purpose = "web_login" /\ challenges[r.challenge].account = r.account
          /\ r.step = "session" => challenges[r.challenge].used
          /\ alone => \A s \in DOMAIN sessions : sessions[s].from # r.challenge

SignedInv ==
    /\ SessionsSigned
    /\ \A s \in DOMAIN sessions : sessions[s].from \in DOMAIN challenges
    /\ \A c \in DOMAIN challenges : challenges[c].purpose = "web_login" => challenges[c].account \in accounts
    /\ \A p \in Requests : SignedRow(p)

LEMMA SignedChallenges ==
    ASSUME AccessTyped, AllSteps, SignedInv
    PROVE  \A c \in DOMAIN challenges' : challenges'[c].purpose = "web_login" => challenges'[c].account \in accounts'
<1> TAKE c \in DOMAIN challenges'
<1>1. CASE c \in DOMAIN challenges
  BY <1>1, ChallengesKept DEF SignedInv, SameChallenge
<1>2. ASSUME NEW p \in Requests, ChallengeInsert(p) PROVE proc[p].account \in accounts'
  BY <1>2, ChallengesKept DEF ChallengeInsert, At, SignedInv, SignedRow
<1>3. ASSUME NEW a \in Accounts, SignsIn(a) PROVE a \in accounts'
  BY <1>3 DEF SignsIn
<1> QED BY <1>1, <1>2, <1>3, ChallengesKept

LEMMA SignedRows ==
    ASSUME AccessTyped, AllSteps, SignedInv, NEW q \in Requests
    PROVE  SignedRow(q)'
<1>0. /\ accounts \subseteq accounts'
      /\ \A c \in DOMAIN challenges : /\ c \in DOMAIN challenges' /\ SameChallenge(challenges'[c], challenges[c])
                                      /\ challenges[c].used => challenges'[c].used
  BY ChallengesKept
<1> DEFINE r == proc'[q]
<1>1. ASSUME r.op = "challenge", r.step = "issue" PROVE r.account \in accounts'
  <2>1. CASE proc'[q] = proc[q]
    BY <1>0, <1>1, <2>1 DEF SignedInv, SignedRow
  <2>2. ASSUME NEW a \in Accounts, ChallengeCall(q, a, "web_login", None, None) PROVE r.account \in accounts'
    <3> DEFINE s == IF a \in accounts THEN "issue" ELSE "account"
               c == [op |-> "challenge", step |-> s, account |-> a, purpose |-> "web_login", job |-> None, agent |-> None]
    <3>1. Start(q, c)
      BY <2>2 DEF ChallengeCall
    <3>2. Begins(q, c)
      BY <3>1, StartBegins DEF AccessTyped, RowsTyped
    <3>3. r.account = a /\ r.step = s
      <4> HIDE DEF s
      <4> QED BY <3>2 DEF Begins, With
    <3> QED BY <1>0, <1>1, <3>3
  <2>3. CASE AccountInsert(q) /\ GoesTo(q, "issue")
    <3>1. ChallengeRow(proc[q])
      BY <2>3 DEF AccessTyped, RowsTyped, AccessRow, AccountInsert, At
    <3>2. r.account = proc[q].account
      BY <2>3, <3>1 DEF GoesTo, ChallengeRow
    <3> QED BY <1>0, <2>3, <3>2 DEF AccountInsert
  <2> QED BY <1>1, <2>1, <2>2, <2>3, ChallengeRows
<1>2. ASSUME r.op = "login"
      PROVE  /\ r.challenge \in DOMAIN challenges
             /\ challenges[r.challenge].purpose = "web_login" /\ challenges[r.challenge].account = r.account
             /\ r.step = "session" => challenges'[r.challenge].used
             /\ alone' => \A s \in DOMAIN sessions : sessions[s].from # r.challenge
             /\ alone' => ~(\E p \in Requests : proc[p] # Idle /\ SessionInsert(p))
  <2>0. ASSUME alone', proc[q] # Idle, NEW p \in Requests, proc[p] # Idle, SessionInsert(p) PROVE FALSE
    <3>1. p = q /\ Finish(p)
      BY <2>0, Steady DEF AccessTyped, RowsTyped, Lonely, SessionInsert
    <3>2. Ends(p)
      BY <3>1, FinishEnds DEF AccessTyped, RowsTyped
    <3> QED BY <1>2, <3>1, <3>2, IdleRow DEF Ends
  <2>1. CASE proc'[q] = proc[q]
    BY <1>0, <1>2, <2>0, <2>1, Steady, IdleRow DEF SignedInv, SignedRow
  <2>2. ASSUME NEW a \in Accounts, NEW c \in DOMAIN challenges, LoginCall(q, c, a)
        PROVE  /\ r.challenge = c /\ r.account = a /\ r.step = "use"
               /\ challenges[c].purpose = "web_login" /\ challenges[c].account = a /\ ~challenges[c].used
               /\ UNCHANGED sessions /\ (alone' => \A p \in Requests : proc[p] = Idle)
    <3> DEFINE x == [op |-> "login", step |-> "use", account |-> a, challenge |-> c]
    <3>1. Begins(q, x)
      BY <2>2, StartBegins DEF LoginCall, AccessTyped, RowsTyped
    <3>2. r.challenge = c /\ r.account = a /\ r.step = "use"
      BY <3>1 DEF Begins, With
    <3> QED BY <2>2, <3>1, <3>2 DEF LoginCall, Active, Begins, accessVars, accountVars
  <2>3. CASE \E a \in Accounts, c \in DOMAIN challenges : LoginCall(q, c, a)
    <3>1. PICK a \in Accounts, c \in DOMAIN challenges : LoginCall(q, c, a)
      BY <2>3
    <3>2. \A s \in DOMAIN sessions : challenges[sessions[s].from].used
      BY DEF SignedInv, SessionsSigned
    <3> QED BY <2>2, <3>1, <3>2
  <2>4. CASE proc[q].op = "login" /\ ChallengeUse(q) /\ GoesTo(q, "session")
    <3>1. LoginRow(proc[q]) /\ proc[q] # Idle
      BY <2>4, IdleRow DEF AccessTyped, RowsTyped, AccessRow
    <3>2. r.account = proc[q].account /\ r.challenge = proc[q].challenge
      BY <2>4, <3>1 DEF GoesTo, LoginRow
    <3>3. proc[q].challenge \in DOMAIN challenges /\ challenges[proc[q].challenge] \in ChallengeType
      BY <2>4, TableRows DEF SignedInv, SignedRow, AccessTyped
    <3>4. challenges'[proc[q].challenge].used
      BY <2>4, <3>3 DEF ChallengeUse, ChallengeType
    <3> QED BY <2>0, <2>4, <3>1, <3>2, <3>4, Steady DEF SignedInv, SignedRow
  <2> QED BY <1>2, <2>1, <2>3, <2>4, LoginRows
<1>3. ASSUME r.op = "login", alone', NEW s \in DOMAIN sessions' PROVE sessions'[s].from # r.challenge
  <2>1. CASE s \in DOMAIN sessions
    BY <1>2, <1>3, <2>1, SessionsKept
  <2>2. CASE s \notin DOMAIN sessions
    <3>1. sessions'[s].from = Len(challenges) + 1
      BY <1>2, <1>3, <2>2, SessionsKept
    <3>2. r.challenge \in 1..Len(challenges) /\ Len(challenges) \in Nat
      BY <1>2, <1>3 DEF AccessTyped, AccessTables
    <3> QED BY <3>1, <3>2
  <2> QED BY <2>1, <2>2
<1> HIDE DEF r
<1>4. r.op = "login" => SameChallenge(challenges'[r.challenge], challenges[r.challenge]) /\ r.challenge \in DOMAIN challenges'
  BY <1>0, <1>2
<1> QED BY <1>1, <1>2, <1>3, <1>4 DEF SignedRow, SameChallenge, r

LEMMA SignedKept ==
    ASSUME AccessTyped, AllSteps, SignedInv
    PROVE  SignedInv'
<1>0. /\ accounts \subseteq accounts'
      /\ \A c \in DOMAIN challenges : /\ c \in DOMAIN challenges' /\ SameChallenge(challenges'[c], challenges[c])
                                      /\ challenges[c].used => challenges'[c].used
  BY ChallengesKept
<1>1. ASSUME NEW s \in DOMAIN sessions'
      PROVE  /\ sessions'[s].from \in DOMAIN challenges'
             /\ challenges'[sessions'[s].from].used /\ challenges'[sessions'[s].from].purpose = "web_login"
             /\ challenges'[sessions'[s].from].account = sessions'[s].account
  <2>1. CASE s \in DOMAIN sessions
    BY <1>0, <2>1, SessionsKept DEF SignedInv, SessionsSigned, SameChallenge
  <2>2. ASSUME NEW p \in Requests, SessionInsert(p), sessions'[s].account = proc[p].account,
               sessions'[s].from = proc[p].challenge
        PROVE  /\ sessions'[s].from \in DOMAIN challenges'
               /\ challenges'[sessions'[s].from].used /\ challenges'[sessions'[s].from].purpose = "web_login"
               /\ challenges'[sessions'[s].from].account = sessions'[s].account
    BY <1>0, <2>2 DEF SessionInsert, At, SignedInv, SignedRow, SameChallenge
  <2>3. ASSUME NEW a \in Accounts, SignsIn(a), sessions'[s].account = a, sessions'[s].from = Len(challenges) + 1
        PROVE  /\ sessions'[s].from \in DOMAIN challenges'
               /\ challenges'[sessions'[s].from].used /\ challenges'[sessions'[s].from].purpose = "web_login"
               /\ challenges'[sessions'[s].from].account = sessions'[s].account
    <3> DEFINE c0 == Challenge(a, "web_login", None, None)
               e == [c0 EXCEPT !.used = TRUE]
    <3>1. challenges' = Append(challenges, e)
      BY <2>3 DEF SignsIn
    <3>2. c0.account = a /\ c0.purpose = "web_login" /\ DOMAIN c0 = {"account", "purpose", "job", "agent", "expires", "used"}
      BY DEF Challenge
    <3>3. e.account = a /\ e.used /\ e.purpose = "web_login"
      <4> HIDE DEF c0
      <4> QED BY <3>2
    <3> HIDE DEF e
    <3>4. challenges \in Seq(ChallengeType)
      BY DEF AccessTyped, AccessTables
    <3>5. Len(challenges) + 1 \in DOMAIN challenges' /\ challenges'[Len(challenges) + 1] = e
      BY <3>1, <3>4
    <3> QED BY <2>3, <3>3, <3>5
  <2> QED BY <2>1, <2>2, <2>3, SessionsKept
<1>2. ASSUME alone', NEW s \in DOMAIN sessions', NEW t \in DOMAIN sessions', sessions'[s].from = sessions'[t].from
      PROVE  s = t
  <2>0. alone
    BY <1>2, Steady
  <2>1. ASSUME NEW k \in DOMAIN sessions' \ DOMAIN sessions, NEW m \in DOMAIN sessions
        PROVE  sessions'[k].from # sessions[m].from
    <3>1. sessions[m].from \in 1..Len(challenges) /\ Len(challenges) \in Nat
      BY DEF SignedInv, AccessTyped, AccessTables
    <3>2. ASSUME NEW p \in Requests, SessionInsert(p) PROVE sessions[m].from # proc[p].challenge
      BY <2>0, <3>2 DEF SessionInsert, At, SignedInv, SignedRow
    <3> QED BY <3>1, <3>2, SessionsKept
  <2>2. CASE s \in DOMAIN sessions /\ t \in DOMAIN sessions
    BY <1>2, <2>0, <2>2, SessionsKept DEF SignedInv, SessionsSigned
  <2> QED BY <1>2, <2>1, <2>2, SessionsKept
<1>3. \A c \in DOMAIN challenges' : challenges'[c].purpose = "web_login" => challenges'[c].account \in accounts'
  BY SignedChallenges
<1>4. SessionsSigned'
  BY <1>1, <1>2, <1>3 DEF SessionsSigned
<1> QED BY <1>1, <1>3, <1>4, SignedRows DEF SignedInv

LEMMA SignedStart ==
    ASSUME ClientInit
    PROVE  SignedInv
<1>0. scene \in DOMAIN Scenes /\ AccessInit
  BY DEF ClientInit, ServicesInit, RequestsInit
<1>1. \A p \in Requests : SignedRow(p)
  BY IdleRow DEF ClientInit, ServicesInit, RequestsInit, SignedRow
<1>2. DOMAIN sessions = DOMAIN KnownAtStart
      /\ \A s \in DOMAIN sessions : sessions[s].account = KnownAtStart[s] /\ sessions[s].from = s
  BY <1>0, StartFacts
<1>3. \A i \in DOMAIN KnownAtStart : KnownAtStart[i] \in accounts
  BY <1>0, StartFacts
<1>4. /\ DOMAIN KnownAtStart \subseteq DOMAIN challenges
      /\ \A i \in DOMAIN KnownAtStart :
            /\ challenges[i].used /\ challenges[i].purpose = "web_login"
            /\ challenges[i].account = KnownAtStart[i]
      /\ \A c \in DOMAIN challenges \ DOMAIN KnownAtStart : challenges[c].purpose # "web_login"
  BY <1>0, ChallengesAtStart
<1>5. SessionsSigned
  BY <1>2, <1>3, <1>4 DEF SessionsSigned
<1> QED BY <1>1, <1>2, <1>3, <1>4, <1>5 DEF SignedInv

-----------------------------------------------------------------------------
(* Who changes roles                                                          *)

LEMMA RolesMove ==
    ASSUME AllSteps
    PROVE  \/ roles' = roles
           \/ \E p \in Requests : RoleWrite(p) /\ ~OfClient
           \/ \E p \in Requests, h \in Humans : PosterStep /\ proc[p].op = "post" /\ PageVerify(p, h)
           \/ \E p \in Requests : VerifyRole(p) /\ AgentsStep
<1>1. ASSUME NEW p \in Requests, AccessCall(p) PROVE roles' = roles
  BY <1>1, ZenonT(40) DEF AccessCall, ChallengeCall, LoginCall, WorldCall, AuthorizeCall, RegisterCall, SyncRoleCall,
          RegisterAgentBook, KitCall, RevokeSession, accessVars
<1>2. ASSUME NEW p \in Requests, AccessStep(p)
      PROVE  roles' = roles \/ RoleWrite(p)
  BY <1>2, SMTT(30) DEF AccessStep, ChallengeUse, AccountInsert, ChallengeInsert, SessionInsert, RoleRead, AuthorizationWrite,
          RecordRegistration, Activate, IdentityRead, IdentityWrite, SetVerified, ClaimNonce, LookupHuman,
          TryIncrementUsage, accessVars
<1>3. ASSUME NEW p \in Requests, AgentStep(p)
      PROVE  roles' = roles \/ VerifyRole(p)
  BY <1>3, Zenon DEF AgentStep, AgentSignIn, OpenWidget, ProveInDemo, Authorize, KeepDraft, SyncRole, RegisterBook,
          SendRegistration, RegisterAgent, SyncRegistration, SetupRefused, SetupFails, accessVars
<1> QED BY <1>1, <1>2, <1>3, ZenonT(40) DEF AllSteps, Tick, PageSigns, SignOut, accessVars

\* Nobody loses a role.
LEMMA RolesStay ==
    ASSUME AllSteps, NEW a, NEW role, HasRole(a, role)
    PROVE  HasRole(a, role)'
<1>1. PICK x \in roles : x.account = a /\ x.role = role
  BY DEF HasRole
<1>2. CASE roles' = roles
  BY <1>2 DEF HasRole
<1>3. ASSUME NEW p \in Requests, RoleWrite(p) PROVE HasRole(a, role)'
  <2> DEFINE mine == {r \in roles : r.account = proc[p].account /\ r.role = proc[p].role}
             rest == IF proc[p].valid THEN roles \ mine ELSE roles
  <2>1. roles' = roles \/ roles' = rest \cup {RoleRow(p)}
    BY <1>3 DEF RoleWrite
  <2>2. RoleRow(p).account = proc[p].account /\ RoleRow(p).role = proc[p].role
    BY DEF RoleRow
  <2>3. x \in rest \/ (x.account = proc[p].account /\ x.role = proc[p].role)
    OBVIOUS
  <2> HIDE DEF rest
  <2> QED BY <1>1, <2>1, <2>2, <2>3 DEF HasRole
<1>4. ASSUME NEW p \in Requests, NEW h \in Humans, PageVerify(p, h) PROVE HasRole(a, role)'
  BY <1>1, <1>4 DEF PageVerify, HasRole
<1>5. ASSUME NEW p \in Requests, VerifyRole(p) PROVE HasRole(a, role)'
  <2> DEFINE others == {r \in roles : r.account # Page(p) \/ r.role # "worker"}
             new == [account |-> Page(p), role |-> "worker", human |-> proc[p].human]
  <2>1. roles' = others \cup {new}
    BY <1>5 DEF VerifyRole
  <2>2. new.account = Page(p) /\ new.role = "worker"
    OBVIOUS
  <2>3. x \in others \/ (x.account = Page(p) /\ x.role = "worker")
    OBVIOUS
  <2> HIDE DEF others, new
  <2> QED BY <1>1, <2>1, <2>2, <2>3 DEF HasRole
<1> QED BY <1>2, <1>3, <1>4, <1>5, RolesMove

-----------------------------------------------------------------------------
(* What the page of posters offers                                            *)

\* A verification is under way, or offered, only where none was made.
PostPages ==
    /\ \A p \in Requests : proc[p].op = "post" => Posting
    /\ \A p, q \in Requests :
          proc[p].op = "post" /\ proc[q].op = "post" /\ proc[p].page = proc[q].page => p = q
    /\ \A p \in Requests : proc[p].op = "post" /\ proc[p].step = "verify" => ~HasRole(proc[p].page, "poster")

Pages ==
    /\ DOMAIN drafts = Accounts
    /\ \A a \in Accounts : {"step", "retry"} \subseteq DOMAIN drafts[a] /\ drafts[a].retry \in {"fund", "plan"}
    /\ Posting => \A a \in Accounts : drafts[a].step = "world-verify" => ~HasRole(a, "poster")

RolesInv == OneHumanOneRole /\ PostPages /\ Pages

\* Controls of a page that works on something are none that begin.
LEMMA IdleControls ==
    ASSUME NEW a, NEW control \in Controls(a), control \in {"login", "verify", "pay", "fund", "plan", "reserve"}
    PROVE  ~IsWorking(a) /\ (control = "verify" => Screen(a) = "world-verify")
<1>1. ASSUME NEW c, NEW S, control \in If(c, S) PROVE control \in S /\ c
  BY <1>1 DEF If
<1>2. ASSUME NEW S, control \in WhenIdle(a, S) PROVE ~IsWorking(a) /\ control \in S
  BY <1>2 DEF WhenIdle
<1>3. control \notin DemoBanner(a)
  BY <1>1 DEF DemoBanner
<1>4. control \notin ConnectPanel(a) /\ control \notin FormPanel(a) /\ control \notin DonePanel /\ control \notin ErrorPanel
  BY DEF ConnectPanel, FormPanel, DonePanel, ErrorPanel
<1>5. control \in SignInPanel(a) \/ control \in VerifyPanel(a) => ~IsWorking(a)
  BY <1>2 DEF SignInPanel, VerifyPanel
<1>6. control \in FundPanel(a) => ~IsWorking(a) /\ control # "verify"
  <2> SUFFICES ASSUME control \in FundPanel(a) PROVE ~IsWorking(a) /\ control # "verify"
    OBVIOUS
  <2> DEFINE S1 == If(WalletFundingAvailable(a), {"pay"})
             S2 == If(drafts[a].hash # None, {"fund"})
             S3 == If(DemoAvailable, {"demoHash"})
             S == {"type"} \cup S1 \cup S2
  <2>1. FundPanel(a) = WhenIdle(a, S) \cup S3
    BY DEF FundPanel
  <2>2. (control \in S1 => control = "pay") /\ (control \in S2 => control = "fund") /\ control \notin S3
    BY <1>1
  <2> HIDE DEF S1, S2, S3
  <2> QED BY <1>2, <2>1, <2>2
<1>7. control \in PlanPanel(a) \/ control \in ReservePanel(a) => ~IsWorking(a) /\ control # "verify"
  BY <1>1, <1>2 DEF PlanPanel, ReservePanel
<1>8. control \in SignInPanel(a) => control # "verify"
  BY <1>2 DEF SignInPanel
<1> QED BY <1>3, <1>4, <1>5, <1>6, <1>7, <1>8 DEF Controls

LEMMA UnverifiedScreen ==
    ASSUME NEW a \in Accounts, Posting, Pages, Screen(a) = "world-verify"
    PROVE  ~HasRole(a, "poster")
<1>1. EffectiveStep(a) = "world-verify"
  BY DEF Screen
<1>2. CASE Demo(a)
  BY <1>1, <1>2 DEF EffectiveStep, Gates
<1>3. CASE ~Demo(a)
  BY <1>1, <1>3 DEF EffectiveStep, IsPosterVerified, Pages
<1> QED BY <1>2, <1>3

LEMMA DraftKept ==
    ASSUME Pages, NEW a, NEW change, DraftBecomes(a, change), scene' = scene,
           "retry" \in DOMAIN change => change.retry \in {"fund", "plan"},
           "step" \in DOMAIN change => (change.step = "world-verify" => ~HasRole(a, "poster")'),
           \A b : HasRole(b, "poster")' => HasRole(b, "poster") \/ (b = a /\ "step" \in DOMAIN change)
    PROVE  Pages'
<1> DEFINE d == With(drafts[a], change)
<1>1. drafts' = [drafts EXCEPT ![a] = d]
  BY DEF DraftBecomes
<1>2. /\ DOMAIN d = DOMAIN drafts[a] \cup DOMAIN change
      /\ \A f \in DOMAIN change : d[f] = change[f]
      /\ \A f \in DOMAIN drafts[a] \ DOMAIN change : d[f] = drafts[a][f]
  BY FieldsOfWith
<1> HIDE DEF d
<1>3. DOMAIN drafts' = Accounts
  BY <1>1 DEF Pages
<1>4. \A b \in Accounts : {"step", "retry"} \subseteq DOMAIN drafts'[b] /\ drafts'[b].retry \in {"fund", "plan"}
  BY <1>1, <1>2 DEF Pages
<1>5. ASSUME Posting, NEW b \in Accounts, drafts'[b].step = "world-verify" PROVE ~HasRole(b, "poster")'
  <2>1. CASE b # a
    BY <1>1, <1>5, <2>1 DEF Pages
  <2>2. CASE b = a
    <3>1. drafts'[b] = d
      BY <1>1, <2>2 DEF Pages
    <3> QED BY <1>2, <1>5, <2>2, <3>1 DEF Pages
  <2> QED BY <2>1, <2>2
<1>6. Posting' = Posting
  BY DEF Posting, Serves
<1> QED BY <1>3, <1>4, <1>5, <1>6 DEF Pages

\* Pages do not change, nor posters.
LEMMA PagesStill ==
    ASSUME Pages, scene' = scene, drafts' = drafts, \A b : HasRole(b, "poster")' => (HasRole(b, "poster") \/ ~Posting)
    PROVE  Pages'
<1>1. Posting' = Posting
  BY DEF Posting, Serves
<1> QED BY <1>1 DEF Pages

LEMMA NoNewPosters ==
    ASSUME roles' = roles
    PROVE  \A b : HasRole(b, "poster")' => HasRole(b, "poster")
BY DEF HasRole

\* What a poster's click begins, and what it does to the page
LEMMA ClickKept ==
    ASSUME AccessTyped, Posting, Pages, NEW p \in Requests, PostArrives(p)
    PROVE  /\ Pages' /\ roles' = roles /\ OthersKeep(p)
           /\ \E a \in Accounts : /\ ~IsWorking(a) /\ proc'[p].page = a
                                  /\ proc'[p].step = "verify" => Screen(a) = "world-verify"
<1>0. Setting.users \subseteq Accounts /\ Rows
  BY SettingFacts DEF AccessTyped, RowsTyped
<1>1. ASSUME NEW a \in Accounts, NEW control, NEW step, NEW change, Click(p, a, control, step, change),
             control \in {"login", "verify", "pay", "fund", "plan", "reserve"},
             step = "verify" => control = "verify",
             "retry" \in DOMAIN change => change.retry \in {"fund", "plan"},
             "step" \in DOMAIN change => change.step # "world-verify"
      PROVE  /\ Pages' /\ roles' = roles /\ OthersKeep(p)
             /\ \E b \in Accounts : /\ ~IsWorking(b) /\ proc'[p].page = b
                                    /\ proc'[p].step = "verify" => Screen(b) = "world-verify"
  <2> DEFINE c == [op |-> "post", kind |-> control, step |-> step, page |-> a, idea |-> drafts[a].idea,
                   tx |-> drafts[a].hash, demo |-> drafts[a].demo]
  <2>1. Start(p, c) /\ DraftBecomes(a, change) /\ roles' = roles /\ control \in Controls(a)
    BY <1>1 DEF Click, accessVars
  <2>2. Begins(p, c)
    BY <1>0, <2>1, StartBegins
  <2>3. proc'[p].page = a /\ proc'[p].step = step /\ OthersKeep(p) /\ scene' = scene
    BY <2>2 DEF Begins, With
  <2> HIDE DEF c
  <2>4. Pages'
    BY <1>1, <2>1, <2>3, DraftKept, NoNewPosters
  <2>5. ~IsWorking(a) /\ (control = "verify" => Screen(a) = "world-verify")
    BY <1>1, <2>1, IdleControls
  <2> QED BY <1>1, <2>1, <2>3, <2>4, <2>5
<1>2. ASSUME NEW a \in Accounts, NEW h, HandleSyncReservation(p, a, h)
      PROVE  /\ Pages' /\ roles' = roles /\ OthersKeep(p)
             /\ \E b \in Accounts : /\ ~IsWorking(b) /\ proc'[p].page = b
                                    /\ proc'[p].step = "verify" => Screen(b) = "world-verify"
  <2>1. PICK orders : Start(p, [op |-> "post", kind |-> "reserve", step |-> "reserve", page |-> a,
                    idea |-> drafts[a].idea, tx |-> h, orders |-> orders])
    BY <1>2 DEF HandleSyncReservation
  <2> DEFINE c == [op |-> "post", kind |-> "reserve", step |-> "reserve", page |-> a,
                    idea |-> drafts[a].idea, tx |-> h, orders |-> orders]
  <2>2. Begins(p, c)
    BY <1>0, <2>1, StartBegins
  <2>3. proc'[p].page = a /\ proc'[p].step = "reserve" /\ OthersKeep(p) /\ scene' = scene
    BY <2>2 DEF Begins, With
  <2> HIDE DEF c
  <2>4. roles' = roles /\ drafts' = drafts /\ "reserve" \in Controls(a)
    BY <1>2 DEF HandleSyncReservation, accessVars, ideaPageVars
  <2>5. ~IsWorking(a)
    BY <2>4, IdleControls
  <2>6. Pages'
    BY <2>3, <2>4, PagesStill, NoNewPosters
  <2> QED BY <2>3, <2>4, <2>5, <2>6
<1>3. DOMAIN <<>> = {}
  OBVIOUS
<1>4. PICK a \in Accounts :
          \/ HandleSignIn(p, a) \/ HandleWorldVerify(p, a) \/ HandleCreateAndFund(p, a)
          \/ HandleWalletFundEscrow(p, a) \/ HandlePlan(p, a)
          \/ \E h \in Payments : HandleSyncReservation(p, a, h)
  BY <1>0 DEF PostArrives
<1>5. CASE HandleSignIn(p, a) \/ HandleWorldVerify(p, a)
  BY <1>1, <1>3, <1>5 DEF HandleSignIn, HandleWorldVerify
<1>6. CASE HandleCreateAndFund(p, a)
  <2> DEFINE s == CreateOrFund(drafts[a].idea)
             change == [step |-> "funding", retry |-> "fund"]
  <2>1. s \in {"create", "fund"}
    BY DEF CreateOrFund
  <2>2. Click(p, a, "fund", s, change)
    BY <1>6 DEF HandleCreateAndFund, Funding
  <2>3. change.retry = "fund" /\ change.step = "funding"
    OBVIOUS
  <2> HIDE DEF s, change
  <2> QED BY <1>1, <2>1, <2>2, <2>3
<1>7. CASE HandleWalletFundEscrow(p, a)
  <2> DEFINE change == [retry |-> "fund"]
  <2>1. Click(p, a, "pay", "send", change) /\ change.retry = "fund" /\ "step" \notin DOMAIN change
    BY <1>7 DEF HandleWalletFundEscrow
  <2> HIDE DEF change
  <2> QED BY <1>1, <2>1
<1>8. CASE HandlePlan(p, a)
  <2> DEFINE change == [step |-> "planning", retry |-> "plan"]
  <2>1. Click(p, a, "plan", "plan", change) /\ change.retry = "plan" /\ change.step = "planning"
    BY <1>8 DEF HandlePlan
  <2> HIDE DEF change
  <2> QED BY <1>1, <2>1
<1> QED BY <1>2, <1>4, <1>5, <1>6, <1>7, <1>8

LEMMA ByHandKept ==
    ASSUME AccessTyped, Posting, Pages, PosterMoves
    PROVE  Pages' /\ roles' = roles
<1>0. Setting.users \subseteq Accounts
  BY SettingFacts DEF AccessTyped, RowsTyped
<1>1. ASSUME NEW a \in Accounts, NEW change, DraftBecomes(a, change), scene' = scene, roles' = roles,
             "retry" \in DOMAIN change => change.retry \in {"fund", "plan"},
             "step" \in DOMAIN change => (change.step = "world-verify" => ~HasRole(a, "poster"))
      PROVE  Pages' /\ roles' = roles
  <2>1. HasRole(a, "poster")' = HasRole(a, "poster")
    BY <1>1 DEF HasRole
  <2> QED BY <1>1, <2>1, DraftKept, NoNewPosters
<1>2. \A a, control : ByHand(a, control) => scene' = scene /\ roles' = roles
  BY DEF ByHand, requestVars, accessVars
<1>3. ASSUME NEW a \in Accounts, Connect(a) PROVE Pages' /\ roles' = roles
  <2> DEFINE change == [connected |-> TRUE]
  <2>1. DraftBecomes(a, change) /\ "step" \notin DOMAIN change /\ "retry" \notin DOMAIN change
    BY <1>3 DEF Connect
  <2> HIDE DEF change
  <2> QED BY <1>1, <1>2, <1>3, <2>1 DEF Connect
<1>4. ASSUME NEW a \in Accounts, NEW s, NEW control, ByHand(a, control), DraftBecomes(a, [step |-> s]), s # "world-verify"
      PROVE Pages' /\ roles' = roles
  <2> DEFINE change == [step |-> s]
  <2>1. DraftBecomes(a, change) /\ change.step = s /\ "retry" \notin DOMAIN change
    BY <1>4
  <2> HIDE DEF change
  <2> QED BY <1>1, <1>2, <1>4, <2>1
<1>5. ASSUME NEW a \in Accounts, NEW h, NEW control, ByHand(a, control), DraftBecomes(a, [hash |-> h])
      PROVE Pages' /\ roles' = roles
  <2> DEFINE change == [hash |-> h]
  <2>1. DraftBecomes(a, change) /\ "step" \notin DOMAIN change /\ "retry" \notin DOMAIN change
    BY <1>5
  <2> HIDE DEF change
  <2> QED BY <1>1, <1>2, <1>5, <2>1
<1>6. ASSUME NEW a \in Accounts, ToggleDemoPosterMode(a) PROVE Pages' /\ roles' = roles
  <2> DEFINE s == IF ~drafts[a].demo THEN "form"
                            ELSE CASE ~drafts[a].connected -> "connect-wallet"
                                   [] drafts[a].connected /\ ~SignedIn(a) -> "sign-in"
                                   [] drafts[a].connected /\ SignedIn(a) /\ ~IsPosterVerified(a) -> "world-verify"
                                   [] OTHER -> "form"
             change == [demo |-> ~drafts[a].demo, step |-> s]
  <2>1. DraftBecomes(a, change) /\ change.step = s /\ "retry" \notin DOMAIN change
    BY <1>6 DEF ToggleDemoPosterMode
  <2>2. s = "world-verify" => SignedIn(a) /\ ~IsPosterVerified(a)
    OBVIOUS
  <2> HIDE DEF change, s
  <2> QED BY <1>1, <1>2, <1>6, <2>1, <2>2 DEF ToggleDemoPosterMode, IsPosterVerified
<1>7. ASSUME NEW a \in Accounts, HandleSkipReservation(a) PROVE Pages' /\ roles' = roles
  <2> DEFINE change == [reserved |-> FALSE, step |-> "done"]
  <2>1. DraftBecomes(a, change) /\ change.step = "done" /\ "retry" \notin DOMAIN change
    BY <1>7 DEF HandleSkipReservation
  <2> HIDE DEF change
  <2> QED BY <1>1, <1>2, <1>7, <2>1 DEF HandleSkipReservation
<1>8. ASSUME NEW a \in Accounts, SubmitAnother(a) PROVE Pages' /\ roles' = roles
  <2> DEFINE change == [step |-> "form", idea |-> 0, hash |-> None, reserved |-> FALSE, retry |-> "fund",
                   told |-> None, paid |-> {}]
  <2>1. DraftBecomes(a, change) /\ change.step = "form" /\ change.retry = "fund"
    BY <1>8 DEF SubmitAnother
  <2> HIDE DEF change
  <2> QED BY <1>1, <1>2, <1>8, <2>1 DEF SubmitAnother
<1>9. ASSUME NEW a \in Accounts, LeavePage(a) PROVE Pages' /\ roles' = roles
  <2> DEFINE d == [Blank EXCEPT !.step = "sign-in", !.connected = TRUE]
  <2>1. drafts' = [drafts EXCEPT ![a] = d] /\ roles' = roles /\ scene' = scene
    BY <1>9 DEF LeavePage, accessVars
  <2>2. d.step = "sign-in" /\ d.retry = "fund" /\ {"step", "retry"} \subseteq DOMAIN d
    BY DEF Blank
  <2> HIDE DEF d
  <2>3. Posting' = Posting /\ \A b : HasRole(b, "poster")' = HasRole(b, "poster")
    BY <2>1 DEF Posting, Serves, HasRole
  <2> QED BY <2>1, <2>2, <2>3 DEF Pages
<1>10. ASSUME NEW h, PaymentMined(h) PROVE Pages' /\ roles' = roles
  <2>1. drafts' = drafts /\ scene' = scene /\ roles' = roles
    BY <1>10 DEF PaymentMined, requestVars, accessVars
  <2> QED BY <2>1, PagesStill, NoNewPosters
<1>11. \A a \in Accounts : drafts[a].retry # "world-verify"
  BY DEF Pages
<1> QED BY <1>0, <1>3, <1>4, <1>5, <1>6, <1>7, <1>8, <1>9, <1>10, <1>11
        DEF PosterMoves, HandleFormSubmit, TypeHash, UseDemoTxHash, TryAgain

LEMMA PostRowSteps ==
    ASSUME AccessTyped, NEW p \in Requests, PostStep(p)
    PROVE  /\ OthersKeep(p) /\ scene' = scene
           /\ \/ proc'[p] = Idle
              \/ proc'[p].op = "post" /\ proc'[p].page = proc[p].page /\ proc'[p].step # "verify"
<1> DEFINE Good == /\ OthersKeep(p) /\ scene' = scene
                   /\ \/ proc'[p] = Idle
                      \/ proc'[p].op = "post" /\ proc'[p].page = proc[p].page /\ proc'[p].step # "verify"
<1>0. Rows /\ PostRow(proc[p]) /\ proc[p].op = "post" /\ {"op", "step"} \subseteq DOMAIN proc[p]
  BY DEF AccessTyped, RowsTyped, Rows, AccessRow, PostStep
<1>1. ASSUME NEW s, Goto(p, s), s # "verify", scene' = scene PROVE Good
  <2>1. GoesTo(p, s)
    BY <1>0, <1>1, GotoGoes
  <2> QED BY <1>0, <1>1, <2>1 DEF GoesTo, PostRow
<1>2. ASSUME Finish(p), scene' = scene PROVE Good
  BY <1>0, <1>2, FinishEnds DEF Ends
<1>3. ASSUME NEW c, proc' = [proc EXCEPT ![p] = With(proc[p], c)], DOMAIN c \cap {"op", "page"} = {},
             "step" \in DOMAIN c, c.step # "verify", scene' = scene
      PROVE  Good
  <2>1. Learns(p, c)
    BY <1>0, <1>3, WithLearns
  <2> QED BY <1>0, <1>3, <2>1 DEF Learns, PostRow
<1> HIDE DEF Good
<1> USE DEF Quiet, Calm, Served
<1>4. ASSUME NEW h, WriteContract(p, h) PROVE Good
  <2> DEFINE c == [step |-> "confirm", tx |-> h]
  <2>1. /\ proc' = [proc EXCEPT ![p] = With(proc[p], c)] /\ DOMAIN c \cap {"op", "page"} = {}
        /\ "step" \in DOMAIN c /\ c.step = "confirm" /\ scene' = scene
    BY <1>4 DEF WriteContract
  <2> HIDE DEF c
  <2> QED BY <1>3, <2>1
<1>5. ASSUME PostIdea(p) PROVE Good
  <2> DEFINE c == [step |-> "created", idea |-> Len(ideas) + 1]
  <2>1. /\ proc' = [proc EXCEPT ![p] = With(proc[p], c)] /\ DOMAIN c \cap {"op", "page"} = {}
        /\ "step" \in DOMAIN c /\ c.step = "created" /\ scene' = scene
    BY <1>5 DEF PostIdea
  <2> HIDE DEF c
  <2> QED BY <1>3, <2>1
<1>6. ASSUME PageSignIn(p) \/ (\E h \in Humans : PageVerify(p, h)) \/ Funded(p) \/ Planned(p) \/ Reserved(p) \/ PostRefused(p)
      PROVE  Good
  BY <1>2, <1>6 DEF PageSignIn, PageVerify, Funded, Planned, Reserved, PostRefused
<1>7. ASSUME Confirmed(p) \/ IdeaCreated(p) \/ FundRoute(p) \/ PlanRoute(p) \/ ReserveRoute(p) PROVE Good
  BY <1>1, <1>2, <1>7 DEF Confirmed, IdeaCreated, FundRoute, PlanRoute, ReserveRoute, CreateOrFund
<1>8. ASSUME PostFails(p) PROVE Good
  BY <1>2, <1>8 DEF PostFails, Fail
<1>9. Good
  BY <1>4, <1>5, <1>6, <1>7, <1>8 DEF PostStep
<1> QED BY <1>9 DEF Good

\* A page goes on: nobody becomes a poster but by the verification that a page has made.
LEMMA PostStepPages ==
    ASSUME AccessTyped, Pages, NEW p \in Requests, PostStep(p)
    PROVE  Pages'
<1> DEFINE a == proc[p].page
<1>0. scene' = scene
  BY PostRowSteps
<1>1. ASSUME NEW change, DraftBecomes(a, change), roles' = roles,
             "retry" \in DOMAIN change => change.retry \in {"fund", "plan"},
             "step" \in DOMAIN change => change.step # "world-verify"
      PROVE  Pages'
  BY <1>0, <1>1, DraftKept, NoNewPosters
<1>2. ASSUME drafts' = drafts, roles' = roles PROVE Pages'
  BY <1>0, <1>2, PagesStill, NoNewPosters
<1>3. ASSUME NEW s, DraftBecomes(a, [step |-> s]), roles' = roles, s # "world-verify" PROVE Pages'
  <2> DEFINE c == [step |-> s]
  <2>1. DraftBecomes(a, c) /\ c.step = s /\ "retry" \notin DOMAIN c
    BY <1>3
  <2> HIDE DEF c
  <2> QED BY <1>1, <1>3, <2>1
<1>4. ASSUME NEW h \in Humans, PageVerify(p, h) PROVE Pages'
  <2> DEFINE c == [step |-> "form"]
             new == [account |-> a, role |-> "poster", human |-> h]
  <2>1. DraftBecomes(a, c) /\ c.step = "form" /\ "retry" \notin DOMAIN c /\ "step" \in DOMAIN c
    BY <1>4 DEF PageVerify
  <2>2. roles' = roles \cup {new} /\ new.account = a
    BY <1>4 DEF PageVerify
  <2> HIDE DEF c, new
  <2>3. \A b : HasRole(b, "poster")' => HasRole(b, "poster") \/ (b = a /\ "step" \in DOMAIN c)
    BY <2>1, <2>2 DEF HasRole
  <2> QED BY <1>0, <2>1, <2>3, DraftKept
<1>5. ASSUME NEW h, WriteContract(p, h) PROVE Pages'
  <2> DEFINE c == [hash |-> h, paid |-> drafts[a].paid \cup {h}]
  <2>1. DraftBecomes(a, c) /\ "step" \notin DOMAIN c /\ "retry" \notin DOMAIN c /\ roles' = roles
    BY <1>5 DEF WriteContract
  <2> HIDE DEF c
  <2> QED BY <1>1, <2>1
<1>6. ASSUME Confirmed(p) PROVE Pages'
  <2> DEFINE c == [step |-> "funding", retry |-> "fund"]
  <2>1. /\ DraftBecomes(a, c) \/ drafts' = drafts
        /\ c.step = "funding" /\ c.retry = "fund" /\ roles' = roles
    BY <1>6 DEF Confirmed, Funding
  <2> HIDE DEF c
  <2> QED BY <1>1, <1>2, <2>1
<1>7. ASSUME IdeaCreated(p) PROVE Pages'
  <2> DEFINE c == [idea |-> proc[p].idea]
  <2>1. DraftBecomes(a, c) /\ "step" \notin DOMAIN c /\ "retry" \notin DOMAIN c /\ roles' = roles
    BY <1>7 DEF IdeaCreated
  <2> HIDE DEF c
  <2> QED BY <1>1, <2>1
<1>8. ASSUME Funded(p) PROVE Pages'
  <2> DEFINE c == [step |-> "plan", told |-> proc[p].tx]
  <2>1. DraftBecomes(a, c) /\ c.step = "plan" /\ "retry" \notin DOMAIN c /\ roles' = roles
    BY <1>8 DEF Funded
  <2> HIDE DEF c
  <2> QED BY <1>1, <2>1
<1>9. ASSUME NEW v, DraftBecomes(a, [reserved |-> v, step |-> "done"]), roles' = roles PROVE Pages'
  <2> DEFINE c == [reserved |-> v, step |-> "done"]
  <2>1. DraftBecomes(a, c) /\ c.step = "done" /\ "retry" \notin DOMAIN c
    BY <1>9
  <2> HIDE DEF c
  <2> QED BY <1>1, <1>9, <2>1
<1>10. ASSUME Planned(p) PROVE Pages'
  <2>1. DraftBecomes(a, [reserved |-> TRUE, step |-> "done"]) \/ DraftBecomes(a, [step |-> "reserve"])
    BY <1>10 DEF Planned
  <2>2. roles' = roles
    BY <1>10 DEF Planned
  <2> QED BY <1>3, <1>9, <2>1, <2>2
<1>11. ASSUME Reserved(p) PROVE Pages'
  BY <1>9, <1>11 DEF Reserved
<1>12. ASSUME AfterError(p), roles' = roles PROVE Pages'
  BY <1>2, <1>3, <1>12 DEF AfterError
<1>13. ASSUME PostRefused(p) \/ PostFails(p) PROVE Pages'
  BY <1>12, <1>13 DEF PostRefused, PostFails, accessVars
<1>14. ASSUME PageSignIn(p) \/ PostIdea(p) \/ FundRoute(p) \/ PlanRoute(p) \/ ReserveRoute(p) PROVE Pages'
  BY <1>2, <1>14 DEF PageSignIn, PostIdea, FundRoute, PlanRoute, ReserveRoute, ideaPageVars
<1> QED BY <1>4, <1>5, <1>6, <1>7, <1>8, <1>10, <1>11, <1>13, <1>14 DEF PostStep

LEMMA OnlyPostersPost ==
    ASSUME AccessTyped, AllSteps, PostPages, ~PosterStep
    PROVE  \A q \in Requests : proc'[q].op = "post" => proc'[q] = proc[q]
<1> SUFFICES ASSUME NEW q \in Requests, proc'[q].op = "post" PROVE proc'[q] = proc[q]
  OBVIOUS
<1>1. ASSUME NEW p \in Requests, AccessCall(p) \/ (proc[p] # Idle /\ AccessStep(p)), ~OfClient
      PROVE  proc'[q] = proc[q]
  <2>1. CASE q # p
    BY <1>1, <2>1, AccessCalls, AccessSteps DEF OthersKeep
  <2>2. CASE q = p /\ AccessCall(p)
    BY <2>2, AccessCalls
  <2>3. CASE q = p /\ AccessStep(p)
    <3>1. proc[p].op = "post"
      BY <2>3, AccessSteps, IdleRow
    <3> QED BY <1>1, <3>1 DEF PostPages, OfClient
  <2> QED BY <1>1, <2>1, <2>2, <2>3
<1> QED BY <1>1 DEF AllSteps, Aside, OtherOps, Within, Agentic, Tick, requestVars

LEMMA RolesKept ==
    ASSUME AccessTyped, AllSteps, RolesInv
    PROVE  RolesInv'
<1>0. scene' = scene /\ Posting' = Posting
  BY Steady DEF Posting, Serves
<1>1. CASE PosterStep
  <2>0. Posting
    BY <1>1 DEF PosterStep
  <2>1. CASE PosterMoves
    <3>1. Pages' /\ roles' = roles
      BY <2>0, <2>1, ByHandKept DEF RolesInv
    <3>2. proc' = proc
      BY <2>1 DEF PosterMoves, Connect, HandleFormSubmit, UseDemoTxHash, ToggleDemoPosterMode,
         HandleSkipReservation, TryAgain, SubmitAnother, LeavePage, TypeHash, PaymentMined, ByHand, requestVars
    <3>3. PostPages'
      BY <1>0, <3>1, <3>2 DEF RolesInv, PostPages, HasRole
    <3> QED BY <3>1, <3>3 DEF RolesInv, OneHumanOneRole
  <2>2. ASSUME NEW p \in Requests, PostArrives(p) PROVE RolesInv'
    <3>1. /\ Pages' /\ roles' = roles /\ OthersKeep(p)
          /\ \E a \in Accounts : /\ ~IsWorking(a) /\ proc'[p].page = a
                                 /\ proc'[p].step = "verify" => Screen(a) = "world-verify"
      BY <2>0, <2>2, ClickKept DEF RolesInv
    <3>2. PICK a \in Accounts : /\ ~IsWorking(a) /\ proc'[p].page = a
                                /\ proc'[p].step = "verify" => Screen(a) = "world-verify"
      BY <3>1
    <3>3. proc'[p].step = "verify" => ~HasRole(a, "poster")
      BY <2>0, <3>2, UnverifiedScreen DEF RolesInv
    <3>4. HasRole(a, "poster")' = HasRole(a, "poster") /\ \A b : HasRole(b, "poster")' = HasRole(b, "poster")
      BY <3>1 DEF HasRole
    <3>5. \A q \in Requests : proc[q].op = "post" => proc[q].page # a
      BY <3>2 DEF IsWorking
    <3>6. PostPages'
      BY <1>0, <2>0, <3>1, <3>2, <3>3, <3>4, <3>5 DEF RolesInv, PostPages, OthersKeep
    <3> QED BY <3>1, <3>6 DEF RolesInv, OneHumanOneRole
  <2>3. ASSUME NEW p \in Requests, PostStep(p) PROVE RolesInv'
    <3>0. proc[p].op = "post"
      BY <2>3 DEF PostStep
    <3>1. Pages' /\ OthersKeep(p)
           /\ \/ proc'[p] = Idle
              \/ proc'[p].op = "post" /\ proc'[p].page = proc[p].page /\ proc'[p].step # "verify"
      BY <2>3, PostRowSteps, PostStepPages, SMTT(30) DEF RolesInv
    <3>2. \/ roles' = roles
          \/ \E h \in Humans : PageVerify(p, h)
      BY <2>3 DEF PostStep, PageSignIn, WriteContract, Confirmed, PostIdea, IdeaCreated, FundRoute, Funded,
         PlanRoute, Planned, ReserveRoute, Reserved, PostRefused, PostFails, accessVars
    <3>3. OneHumanOneRole' /\ \A b : HasRole(b, "poster")' => HasRole(b, "poster") \/ b = proc[p].page
      <4>1. CASE roles' = roles
        BY <4>1 DEF RolesInv, OneHumanOneRole, HasRole
      <4>2. ASSUME NEW h \in Humans, PageVerify(p, h)
            PROVE  OneHumanOneRole' /\ \A b : HasRole(b, "poster")' => HasRole(b, "poster") \/ b = proc[p].page
        <5> DEFINE new == [account |-> proc[p].page, role |-> "poster", human |-> h]
        <5>1. /\ roles' = roles \cup {new} /\ proc[p].step = "verify" /\ \A r \in roles : r.human # h
              /\ new.account = proc[p].page /\ new.role = "poster" /\ new.human = h
          BY <4>2 DEF PageVerify, Doing
        <5>2. ~HasRole(proc[p].page, "poster")
          BY <3>0, <5>1 DEF RolesInv, PostPages
        <5> HIDE DEF new
        <5>3. \A r \in roles : r.human # new.human /\ ~(r.account = new.account /\ r.role = new.role)
          BY <5>1, <5>2 DEF HasRole
        <5>4. OneHumanOneRole'
          BY <5>1, <5>3 DEF RolesInv, OneHumanOneRole
        <5>5. \A b : HasRole(b, "poster")' => HasRole(b, "poster") \/ b = proc[p].page
          BY <5>1 DEF HasRole
        <5> QED BY <5>4, <5>5
      <4> QED BY <3>2, <4>1, <4>2
    <3>4. PostPages'
      BY <1>0, <2>0, <3>0, <3>1, <3>3, IdleRow DEF RolesInv, PostPages, OthersKeep
    <3> QED BY <3>1, <3>3, <3>4 DEF RolesInv
  <2> QED BY <1>1, <2>1, <2>2, <2>3 DEF PosterStep
<1>2. CASE ~PosterStep
  <2>1. \A q \in Requests : proc'[q].op = "post" => proc'[q] = proc[q]
    BY <1>2, OnlyPostersPost DEF RolesInv
  <2>2. drafts' = drafts
    BY <1>2 DEF AllSteps, clientVars, ideaPageVars
  <2>3. /\ OneHumanOneRole'
        /\ \A b : HasRole(b, "poster")' => (HasRole(b, "poster") \/ ~Posting)
    <3>1. CASE roles' = roles
      BY <3>1 DEF RolesInv, OneHumanOneRole, HasRole
    <3>2. ASSUME NEW p \in Requests, RoleWrite(p), ~OfClient PROVE OneHumanOneRole' /\ ~Posting
      <4> DEFINE new == RoleRow(p)
                 mine == {r \in roles : r.account = proc[p].account /\ r.role = proc[p].role}
                 rest == IF proc[p].valid THEN roles \ mine ELSE roles
                 taken == (~proc[p].valid /\ mine # {}) \/ \E r \in rest : r.human = proc[p].human
      <4>1. roles' = IF taken THEN roles ELSE rest \cup {new}
        BY <3>2 DEF RoleWrite
      <4>2. new.account = proc[p].account /\ new.role = proc[p].role /\ new.human = proc[p].human
        BY DEF RoleRow
      <4>3. ~taken => \A r \in rest : r.human # new.human /\ ~(r.account = new.account /\ r.role = new.role)
        BY <4>2
      <4>4. rest \subseteq roles
        OBVIOUS
      <4> HIDE DEF new, rest, taken
      <4>5. OneHumanOneRole'
        BY <4>1, <4>3, <4>4 DEF RolesInv, OneHumanOneRole
      <4> QED BY <3>2, <4>5 DEF OfClient
    <3>3. ASSUME NEW p \in Requests, VerifyRole(p)
          PROVE  OneHumanOneRole' /\ \A b : HasRole(b, "poster")' => HasRole(b, "poster")
      <4> DEFINE others == {r \in roles : r.account # Page(p) \/ r.role # "worker"}
                 new == [account |-> Page(p), role |-> "worker", human |-> proc[p].human]
      <4>1. roles' = others \cup {new} /\ \A r \in others : r.human # new.human
        BY <3>3 DEF VerifyRole
      <4>2. new.account = Page(p) /\ new.role = "worker"
        OBVIOUS
      <4>3. \A r \in others : ~(r.account = new.account /\ r.role = new.role)
        OBVIOUS
      <4>4. others \subseteq roles
        OBVIOUS
      <4> HIDE DEF others, new
      <4>5. OneHumanOneRole'
        BY <4>1, <4>3, <4>4 DEF RolesInv, OneHumanOneRole
      <4>6. \A b : HasRole(b, "poster")' => HasRole(b, "poster")
        BY <4>1, <4>2, <4>4 DEF HasRole
      <4> QED BY <4>5, <4>6
    <3> QED BY <1>2, <3>1, <3>2, <3>3, RolesMove
  <2>4. Pages'
    BY <1>0, <2>2, <2>3, PagesStill DEF RolesInv
  <2>5. PostPages'
    BY <1>0, <2>1, <2>3 DEF RolesInv, PostPages
  <2> QED BY <2>3, <2>4, <2>5 DEF RolesInv
<1> QED BY <1>1, <1>2

LEMMA RolesStart ==
    ASSUME ClientInit
    PROVE  RolesInv
<1>0. scene \in DOMAIN Scenes /\ AccessInit /\ IdeaPageInit /\ \A p \in Requests : proc[p] = Idle
  BY DEF ClientInit, ServicesInit, RequestsInit
<1>1. PostPages
  BY <1>0, IdleRow DEF PostPages
<1>2. Pages
  <2>1. PICK step \in {"connect-wallet", "sign-in"} \cup If(Setting.registered = "poster", {"form"}) :
          drafts = [a \in Accounts |-> [Blank EXCEPT !.step = step, !.connected = (step # "connect-wallet")]]
    BY <1>0, Zenon DEF IdeaPageInit
  <2>2. step \in {"connect-wallet", "sign-in", "form"}
    BY <2>1 DEF If
  <2>3. \A a \in Accounts : {"step", "retry"} \subseteq DOMAIN drafts[a] /\ drafts[a].retry = "fund" /\ drafts[a].step = step
    BY <2>1 DEF Blank
  <2> QED BY <2>1, <2>2, <2>3 DEF Pages
<1>3. OneHumanOneRole
  <2> DEFINE Of(a) == [account |-> a, role |-> Setting.registered, human |-> HumanAtStart[a]]
  <2>1. roles = {} \/ roles = {Of(a) : a \in Accounts}
    BY <1>0, StartFacts
  <2>2. \A a, b \in Accounts : HumanAtStart[a] = HumanAtStart[b] => a = b
    BY <1>0, StartFacts
  <2>3. \A a \in Accounts : Of(a).account = a /\ Of(a).human = HumanAtStart[a]
    OBVIOUS
  <2> HIDE DEF Of
  <2> QED BY <2>1, <2>2, <2>3 DEF OneHumanOneRole
<1> QED BY <1>1, <1>2, <1>3 DEF RolesInv

-----------------------------------------------------------------------------
(* Active agents are registered                                               *)

\* While nothing overlaps an authorization is written for the row that was found.
Fits(r) ==
    IF r.auth = 0 THEN Matching(r.account, r.agent, r.role) = {} ELSE r.token = auths[r.auth].token

RegRow(p) == alone /\ proc[p].op = "authorize" => Fits(proc[p])

RegInv == ActiveIsRegistered /\ \A p \in Requests : RegRow(p)

\* One row is written, or a new one added.
LEMMA OneWritten ==
    ASSUME AccessTyped, AllSteps, RegInv, NEW k, NEW e, auths' = [auths EXCEPT ![k] = e],
           k \in DOMAIN auths => SameAgent(e, auths[k]) /\ (e.active => e.token # None)
                                 /\ (alone => (e.token # None => e.active))
    PROVE  ActiveIsRegistered'
<1>1. DOMAIN auths' = DOMAIN auths /\ \A i \in DOMAIN auths : auths'[i] = IF i = k THEN e ELSE auths[i]
  OBVIOUS
<1>2. alone' => alone
  BY Steady
<1>3. \A i \in DOMAIN auths' : auths'[i].active => auths'[i].token # None
  BY <1>1 DEF RegInv, ActiveIsRegistered
<1>4. alone' => \A i \in DOMAIN auths' : auths'[i].token # None => auths'[i].active
  BY <1>1, <1>2 DEF RegInv, ActiveIsRegistered
<1>5. \A i \in DOMAIN auths : SameAgent(auths'[i], auths[i])
  BY <1>1 DEF SameAgent
<1>6. alone' => \A i, j \in DOMAIN auths' :
                      auths'[i].account = auths'[j].account /\ auths'[i].agent = auths'[j].agent
                      /\ auths'[i].role = auths'[j].role => i = j
  BY <1>1, <1>2, <1>5 DEF RegInv, ActiveIsRegistered, SameAgent
<1> QED BY <1>3, <1>4, <1>6 DEF ActiveIsRegistered

LEMMA OneAdded ==
    ASSUME AccessTyped, AllSteps, RegInv, NEW e, auths' = Append(auths, e), e.token = None, e.active = FALSE,
           alone => Matching(e.account, e.agent, e.role) = {}
    PROVE  ActiveIsRegistered'
<1>0. auths \in Seq(AuthType)
  BY DEF AccessTyped, AccessTables
<1>1. /\ DOMAIN auths' = DOMAIN auths \cup {Len(auths) + 1}
      /\ \A i \in DOMAIN auths : auths'[i] = auths[i]
      /\ auths'[Len(auths) + 1] = e
  BY <1>0
<1>2. alone' => alone
  BY Steady
<1>3. \A i \in DOMAIN auths' : auths'[i].active => auths'[i].token # None
  BY <1>1 DEF RegInv, ActiveIsRegistered
<1>4. alone' => \A i \in DOMAIN auths' : auths'[i].token # None => auths'[i].active
  BY <1>1, <1>2 DEF RegInv, ActiveIsRegistered
<1>6. alone' => \A i, j \in DOMAIN auths' :
                      auths'[i].account = auths'[j].account /\ auths'[i].agent = auths'[j].agent
                      /\ auths'[i].role = auths'[j].role => i = j
  BY <1>1, <1>2 DEF RegInv, ActiveIsRegistered, Matching
<1> QED BY <1>3, <1>4, <1>6 DEF ActiveIsRegistered

LEMMA ActiveKept ==
    ASSUME AccessTyped, AllSteps, RegInv
    PROVE  ActiveIsRegistered'
<1>0. /\ \A i \in DOMAIN auths : auths[i] \in AuthType
      /\ auths \in Seq(AuthType) /\ DOMAIN auths = 1..Len(auths) /\ Len(auths) \in Nat
      /\ alone' => alone
  BY TableRows, Steady DEF AccessTyped, AccessTables
<1>1. CASE auths' = auths
  BY <1>0, <1>1 DEF RegInv, ActiveIsRegistered
<1>2. ASSUME NEW p \in Requests, AuthorizationWrite(p) PROVE ActiveIsRegistered'
  <2> DEFINE r == proc[p]
             new == [account |-> r.account, agent |-> r.agent, role |-> r.role,
                     scope |-> r.scope, active |-> FALSE, token |-> None]
             changed == [auths[r.auth] EXCEPT !.scope = r.scope, !.active = (r.token # None)]
  <2>0. r.op = "authorize"
    BY <1>2 DEF AuthorizationWrite, At
  <2>1. CASE r.auth = 0
    <3>1. auths' = Append(auths, new) /\ new.token = None /\ new.active = FALSE
          /\ new.account = r.account /\ new.agent = r.agent /\ new.role = r.role
      BY <1>2, <2>1 DEF AuthorizationWrite
    <3>2. alone => Matching(r.account, r.agent, r.role) = {}
      BY <2>0, <2>1 DEF RegInv, RegRow, Fits
    <3> HIDE DEF new, r
    <3> QED BY <3>1, <3>2, OneAdded
  <2>2. CASE r.auth # 0
    <3>1. auths' = [auths EXCEPT ![r.auth] = changed]
      BY <1>2, <2>2 DEF AuthorizationWrite
    <3>2. r.auth \in DOMAIN auths /\ (r.token # None => auths[r.auth].token # None)
          /\ (alone => r.token = auths[r.auth].token)
      BY <2>0, <2>2 DEF RegInv, RegRow, Fits, AccessTyped, Referring
    <3>3. SameAgent(changed, auths[r.auth]) /\ changed.token = auths[r.auth].token /\ changed.active = (r.token # None)
      <4>1. auths[r.auth] \in AuthType
        BY <1>0, <3>2
      <4> HIDE DEF r
      <4> QED BY <4>1 DEF SameAgent, AuthType
    <3> HIDE DEF changed, r
    <3> QED BY <3>1, <3>2, <3>3, OneWritten
  <2> QED BY <2>1, <2>2
<1>3. ASSUME NEW p \in Requests, Activate(p) PROVE ActiveIsRegistered'
  <2> DEFINE r == proc[p]
             changed == [auths[r.auth] EXCEPT !.active = TRUE, !.token = r.token]
  <2>1. auths' = [auths EXCEPT ![r.auth] = changed]
    BY <1>3 DEF Activate
  <2>2. r.token # None /\ r.auth \in DOMAIN auths
    BY <1>3, NoneAssumption DEF Activate, At, AccessTyped, RowsTyped, AccessRow, RegisterRow, Referring
  <2>3. SameAgent(changed, auths[r.auth]) /\ changed.token = r.token /\ changed.active
    <3>1. auths[r.auth] \in AuthType
      BY <1>0, <2>2
    <3> HIDE DEF r
    <3> QED BY <3>1 DEF SameAgent, AuthType
  <2> HIDE DEF changed, r
  <2> QED BY <2>1, <2>2, <2>3, OneWritten
<1>4. ASSUME NEW p \in Requests, SyncRegistration(p), AgentStep(p) PROVE ActiveIsRegistered'
  <2> DEFINE r == proc[p]
             i == CHOOSE k \in Recorded(p) : TRUE
             changed == [auths[i] EXCEPT !.active = TRUE, !.token = r.token]
  <2>1. auths' = auths \/ auths' = [auths EXCEPT ![i] = changed]
    BY <1>4 DEF SyncRegistration
  <2>2. r.token # None
    <3>1. AgentRow(r) /\ r.step = "record" /\ r.op = "agent"
      BY <1>4 DEF SyncRegistration, On, AccessTyped, RowsTyped, AccessRow
    <3> HIDE DEF r
    <3> QED BY <3>1, NoneAssumption DEF AgentRow
  <2>3. i \in DOMAIN auths => SameAgent(changed, auths[i]) /\ changed.token = r.token /\ changed.active
    <3> HIDE DEF r, i
    <3> QED BY <1>0 DEF SameAgent, AuthType
  <2> HIDE DEF changed, r, i
  <2> QED BY <1>1, <2>1, <2>2, <2>3, OneWritten
<1>5. ASSUME NEW p \in Requests, Authorize(p) PROVE ActiveIsRegistered'
  <2> DEFINE rows == Matching(Page(p), proc[p].agent, "worker")
             scope == {"claim_jobs", "submit_results"}
             new == [account |-> Page(p), agent |-> proc[p].agent, role |-> "worker",
                     scope |-> scope, active |-> FALSE, token |-> None]
             Changed(i) == [auths[i] EXCEPT !.scope = scope, !.active = (auths[i].token # None)]
             next == [i \in DOMAIN auths |-> IF i \in rows THEN Changed(i) ELSE auths[i]]
  <2>1. CASE rows = {}
    <3>1. auths' = Append(auths, new) /\ new.token = None /\ new.active = FALSE
          /\ new.account = Page(p) /\ new.agent = proc[p].agent /\ new.role = "worker"
      BY <1>5, <2>1 DEF Authorize
    <3> HIDE DEF new
    <3> QED BY <2>1, <3>1, OneAdded
  <2>2. CASE rows # {}
    <3>1. auths' = next
      BY <1>5, <2>2, Zenon DEF Authorize
    <3>2. \A i \in DOMAIN auths : SameAgent(Changed(i), auths[i]) /\ Changed(i).token = auths[i].token
             /\ Changed(i).active = (auths[i].token # None)
      <4> HIDE DEF scope
      <4> QED BY <1>0 DEF SameAgent, AuthType
    <3> HIDE DEF Changed, rows
    <3>3. DOMAIN auths' = DOMAIN auths /\ \A i \in DOMAIN auths : auths'[i] = Changed(i) \/ auths'[i] = auths[i]
      BY <3>1
    <3>4. \A i \in DOMAIN auths : SameAgent(auths'[i], auths[i])
      BY <3>2, <3>3 DEF SameAgent
    <3>5. \A i \in DOMAIN auths' : auths'[i].active => auths'[i].token # None
      BY <3>2, <3>3, ZenonT(40) DEF RegInv, ActiveIsRegistered
    <3>6. alone' => \A i \in DOMAIN auths' : auths'[i].token # None => auths'[i].active
      BY <1>0, <3>2, <3>3 DEF RegInv, ActiveIsRegistered
    <3>7. alone' => \A i, j \in DOMAIN auths' :
                      auths'[i].account = auths'[j].account /\ auths'[i].agent = auths'[j].agent
                      /\ auths'[i].role = auths'[j].role => i = j
      BY <1>0, <3>3, <3>4 DEF RegInv, ActiveIsRegistered, SameAgent
    <3> QED BY <3>5, <3>6, <3>7 DEF ActiveIsRegistered
  <2> QED BY <2>1, <2>2
<1> QED BY <1>1, <1>2, <1>3, <1>4, <1>5, AuthsMove

\* Who writes while another request is served ends being alone.
LEMMA AloneWrites ==
    ASSUME AccessTyped, AllSteps, alone', NEW q \in Requests, proc[q] # Idle,
           proc[q].op \notin {"agent", "post"}, proc'[q] = proc[q]
    PROVE  /\ auths' = auths /\ roles' = roles /\ identities' = identities
           /\ UNCHANGED <<gate, nonces, uses, grants>>
<1>0. alone /\ \A p \in Requests : proc[p] # Idle => p = q
  BY Steady DEF AccessTyped, RowsTyped, Lonely
<1>1. ASSUME NEW p \in Requests, AccessCall(p) PROVE FALSE
  BY <1>1, AccessCalls
<1>2. ASSUME NEW p \in Requests, proc[p] # Idle, AccessStep(p) PROVE FALSE
  <2>1. proc'[p] = Idle \/ proc'[p].step # proc[p].step
    BY <1>2, AccessSteps
  <2> QED BY <1>0, <1>2, <2>1
<1>3. ASSUME NEW p \in Requests, proc[p].op = "agent" \/ proc[p].op = "post" PROVE FALSE
  BY <1>0, <1>3, IdleRow
<1>4. \A p : AgentStep(p) => p \in Requests /\ proc[p].op = "agent"
  BY DEF AgentStep, Working
<1>5. CASE UNCHANGED accessVars
  BY <1>5 DEF accessVars, accountVars, agentVars, kitVars
<1> QED BY <1>1, <1>2, <1>3, <1>4, <1>5 DEF AllSteps, Tick, SignOut, accountVars, agentVars, kitVars

LEMMA RegRows ==
    ASSUME AccessTyped, AllSteps, RegInv, NEW q \in Requests
    PROVE  RegRow(q)'
<1> SUFFICES ASSUME alone', NEW r, r = proc'[q], r.op = "authorize"
             PROVE  Fits(r)'
  BY DEF RegRow
<1>0. alone
  BY Steady
<1>1. CASE proc'[q] = proc[q]
  <2>1. auths' = auths
    BY <1>1, AloneWrites, IdleRow
  <2> QED BY <1>0, <1>1, <2>1 DEF RegInv, RegRow, Fits, Matching
<1>2. ASSUME NEW a \in Accounts, NEW g \in Setting.agents, NEW role \in AgentRoles, NEW s \in Permissions,
             AuthorizeCall(q, a, g, role, s)
      PROVE  Fits(r)'
  <2> DEFINE rows == Matching(a, g, role)
  <2>1. PICK i \in IF rows = {} THEN {0} ELSE rows :
           Start(q, [op |-> "authorize", step |-> "write", account |-> a, agent |-> g,
                    role |-> role, scope |-> s, auth |-> i,
                    token |-> IF i = 0 THEN None ELSE auths[i].token])
    BY <1>2 DEF AuthorizeCall
  <2> DEFINE t == IF i = 0 THEN None ELSE auths[i].token
             c == [op |-> "authorize", step |-> "write", account |-> a, agent |-> g,
                    role |-> role, scope |-> s, auth |-> i, token |-> t]
  <2>2. Start(q, c)
    BY <2>1
  <2> HIDE DEF t, rows
  <2>3. Begins(q, c)
    BY <2>2, StartBegins DEF AccessTyped, RowsTyped
  <2>4. r.auth = i /\ r.account = a /\ r.agent = g /\ r.role = role /\ r.token = t
    BY <2>3 DEF Begins, With
  <2>5. auths' = auths
    BY <1>2 DEF AuthorizeCall, accessVars, agentVars
  <2>6. i = 0 => rows = {}
    <3>1. 0 \notin DOMAIN auths
      BY DEF AccessTyped, AccessTables
    <3> QED BY <2>1, <3>1 DEF rows, Matching
  <2> QED BY <2>4, <2>5, <2>6 DEF rows, t, Fits, Matching
<1> QED BY <1>1, <1>2, AuthorizeRows

LEMMA RegStart ==
    ASSUME ClientInit
    PROVE  RegInv
<1>0. scene \in DOMAIN Scenes /\ AccessInit /\ \A p \in Requests : proc[p] = Idle
  BY DEF ClientInit, ServicesInit, RequestsInit
<1>1. \A p \in Requests : RegRow(p)
  BY <1>0, IdleRow DEF RegRow
<1>2. CASE SomeRegistered
  <2>1. DOMAIN auths = DOMAIN KnownAtStart
        /\ \A i \in DOMAIN auths : auths[i].account = KnownAtStart[i] /\ auths[i].active /\ auths[i].token = TokenAtStart
    BY <1>0, <1>2, StartFacts
  <2>2. TokenAtStart # None
        /\ \A i, k \in DOMAIN KnownAtStart : KnownAtStart[i] = KnownAtStart[k] => i = k
    BY <1>0, StartFacts
  <2> QED BY <1>1, <2>1, <2>2 DEF RegInv, ActiveIsRegistered
<1>3. CASE ~SomeRegistered
  <2>1. auths = <<>>
    BY <1>0, <1>3, StartFacts
  <2> QED BY <1>1, <2>1 DEF RegInv, ActiveIsRegistered
<1> QED BY <1>2, <1>3
=============================================================================
