-------------------------- MODULE BrokerServices ---------------------------
(***************************************************************************)
(* The services of the broker around credits and chain events together:    *)
(* who may ask, how often, for which work, what of it reaches the          *)
(* contracts, and what is planned; and the clients that people use.        *)
(*                                                                         *)
(* A scene serves some kinds of requests, from a start that other requests *)
(* lead to; its setting says how the broker is configured.  It is one of   *)
(* the services, with requests that arrive at any time, or one of a client,*)
(* with the requests that its pages and commands make.                     *)
(***************************************************************************)
EXTENDS WorkRoutes, Planning, Limits, BoardPage, IdeaPage, ReviewPage, AgentPage

servicesVars == <<requestVars, accessVars, walletVars, workVars, planVars, limitVars>>

ServicesInit == RequestsInit /\ AccessInit /\ WalletInit /\ WorkInit /\ PlanInit /\ LimitsInit

ServicesArrive(p) ==
    /\ MayStart(p)
    /\ \/ AccessCall(p) /\ UNCHANGED <<walletVars, workVars, planVars, limitVars>>
       \/ WalletCall(p) /\ UNCHANGED <<workVars, planVars, limitVars>>
       \/ WorkArrives(p) /\ UNCHANGED <<planVars, limitVars>>
       \/ PlanArrives(p) /\ UNCHANGED <<walletVars, workVars, limitVars>>
       \/ LimitArrives(p) /\ UNCHANGED <<walletVars, workVars, planVars>>

ServicesAnswer(p) ==
    /\ proc[p] # Idle
    /\ \/ AccessStep(p) /\ UNCHANGED <<walletVars, workVars, planVars, limitVars>>
       \/ WorkStep(p) /\ UNCHANGED <<planVars, limitVars>>
       \/ PlanStep(p) /\ UNCHANGED <<walletVars, workVars, limitVars>>
       \/ LimitStep(p) /\ UNCHANGED <<walletVars, workVars, planVars>>
       \/ Fail(p) /\ UNCHANGED <<accessVars, walletVars, workVars, planVars, limitVars>>

\* What goes on without a request: time, the broker's calls to contracts, leases, and
\* what becomes of ideas and jobs.
Elsewhere ==
    \/ Serves("time") /\ Tick /\ UNCHANGED <<walletVars, workVars, planVars, limitVars>>
    \/ WalletStep /\ UNCHANGED <<workVars, planVars, limitVars>>
    \/ \E j \in Jobs : Lapse(j) /\ UNCHANGED <<planVars, limitVars>>
    \/ PlanMoves /\ UNCHANGED <<walletVars, workVars, limitVars>>

ServicesNext ==
    \/ \E p \in Requests : ServicesArrive(p) \/ ServicesAnswer(p)
    \/ Elsewhere
    \/ Restart /\ ForgetWork /\ ForgetLimits /\ UNCHANGED <<accessVars, planVars>>

ServicesSpec == ServicesInit /\ [][ServicesNext]_servicesVars

-----------------------------------------------------------------------------
(* The services with the clients *)

clientVars == <<boardVars, ideaPageVars, reviewVars, agentPageVars>>

ClientInit == ServicesInit /\ BoardInit /\ IdeaPageInit /\ ReviewInit /\ AgentPageInit

OfClient == AtWork \/ Posting \/ AtReview \/ SettingUp

ServicesStep == ~OfClient /\ ServicesNext /\ UNCHANGED clientVars

WorkerStep ==
    /\ AtWork
    /\ BoardMoves \/ \E p \in Requests : BoardArrives(p) \/ BoardStep(p)
    /\ UNCHANGED <<planVars, limitVars, ideaPageVars, reviewVars, agentPageVars>>

PosterStep ==
    /\ Posting
    /\ PosterMoves \/ \E p \in Requests : PostArrives(p) \/ PostStep(p)
    /\ UNCHANGED <<walletVars, workVars, limitVars, boardVars, reviewVars, agentPageVars>>

ReviewerStep ==
    /\ AtReview
    /\ ReviewMoves \/ \E p \in Requests : ReviewArrives(p) \/ ReviewStep(p)
    /\ UNCHANGED <<planVars, limitVars, boardVars, ideaPageVars, agentPageVars>>

AgentsStep ==
    /\ SettingUp
    /\ AgentMoves \/ \E p \in Requests : AgentArrives(p) \/ AgentStep(p)
    /\ UNCHANGED <<walletVars, workVars, planVars, limitVars, boardVars, ideaPageVars, reviewVars>>

ClientNext == ServicesStep \/ WorkerStep \/ PosterStep \/ ReviewerStep \/ AgentsStep

ClientSpec == ClientInit /\ [][ClientNext]_<<servicesVars, clientVars>>

-----------------------------------------------------------------------------
(* Properties *)

\* The rows, calls and counters have the types of their tables (db/migrate.ts).
ServicesTypeOK == AccessTypeOK /\ WalletTypeOK /\ PlanTypeOK /\ LimitsTypeOK

\* Who is let in, and how often: sessions are signed for, a human has one account per
\* role, active agents are registered, trials and nonces are counted
\* (services/authService.ts, worldService.ts, authorizationService.ts,
\* agentkitService.ts, worldchainService.ts); limits refuse those who ask too often and
\* nobody else (middleware/rateLimit.ts, services/circuitBreakerService.ts).
AccessKept ==
    /\ SessionsSigned /\ OneHumanOneRole /\ ActiveIsRegistered /\ IdentityRegistered
    /\ TrialKept /\ GateVerified
    /\ RefusedAskedOften /\ PassedAreBounded /\ ErrorsAreHalf

\* Who works is allowed to, once per key, and the contracts are told: escrow, deposits
\* and marks follow the jobs (routes/jobs.ts, services/chainService.ts 507-1012).
WorkKept ==
    /\ KeysAnswer /\ ActsAllowed /\ EscrowFollows
    /\ DepositsMatchSettlements /\ MarkedHasLeft

\* Plans are whole, cost their idea's budget and are offered once reserved
\* (services/jobService.ts 52-111, routes/jobs.ts 129-243).
PlansKept == PlansAreWhole /\ OfferedWereReserved /\ BoardCounts

\* What a client offers the broker takes, and what people began they can finish.
ClientsKept == BoardKept /\ IdeaPageKept /\ ReviewPageKept /\ AgentPageKept
=============================================================================
