------------------------------ MODULE IdeaPage ------------------------------
(***************************************************************************)
(* The page on which a poster describes an idea, pays for it and has it    *)
(* planned (web pages/IdeaSubmission.tsx, hooks/useSession.ts), against    *)
(* the rows of ideas, plans and chain events.                              *)
(*                                                                         *)
(* The page keeps its idea and its transaction hash in memory only.  A     *)
(* handler uses what it was started with; the routes it calls are taken    *)
(* whole (Planning has their steps), and their answers may be lost.        *)
(***************************************************************************)
EXTENDS Planning

CONSTANTS
    Payments,     \* transactions that move the budget to the escrow
    DemoHash,     \* makeDemoTxHash of the title and budget that everybody types
    DemoPoster    \* makeDemoAddress("demo-poster:web"), a guest

VARIABLES
    drafts,       \* drafts[a]: the page in a's browser
    chain         \* chain[h]: what became of payment h

ideaPageVars == <<drafts, chain>>

If(condition, controls) == IF condition THEN controls ELSE {}

Gates == {"connect-wallet", "sign-in", "world-verify"}

Blank == [step |-> "connect-wallet", connected |-> FALSE, idea |-> 0, hash |-> None, reserved |-> FALSE,
          demo |-> FALSE, retry |-> "fund",
          told |-> None, paid |-> {}]    \* history: the hash that /fund took, payments

\* The page opens at the step that its first render knows of; sessions load later, and
\* only a verification moves a poster on from the gates.
IdeaPageInit ==
    /\ \E step \in {"connect-wallet", "sign-in"} \cup If(Setting.registered = "poster", {"form"}) :
          drafts = [a \in Accounts |-> [Blank EXCEPT !.step = step, !.connected = (step # "connect-wallet")]]
    /\ \E already \in IF Serves("post") THEN {{}, {CHOOSE h \in Payments : TRUE}} ELSE {{}} :
          chain = [h \in Payments |-> IF h \in already THEN "success" ELSE "unsent"]

-----------------------------------------------------------------------------
(* What the page shows and offers *)

DemoAvailable == ~Setting.strict
IsPosterVerified(a) == SignedIn(a) /\ HasRole(a, "poster")
Demo(a) == drafts[a].demo /\ DemoAvailable

EffectiveStep(a) ==
    LET d == drafts[a] IN
    CASE Demo(a) -> IF d.step \in Gates THEN "form" ELSE d.step
      [] ~Demo(a) /\ ~d.connected -> "connect-wallet"
      [] ~Demo(a) /\ d.connected /\ ~SignedIn(a) -> "sign-in"
      [] ~Demo(a) /\ d.connected /\ SignedIn(a) /\ ~IsPosterVerified(a) -> "world-verify"
      [] OTHER -> d.step

Screen(a) ==
    IF drafts[a].step = "error" \/ (drafts[a].step = "done" /\ drafts[a].idea # 0) THEN drafts[a].step
    ELSE EffectiveStep(a)

IsWorking(a) == \E p \in Requests : proc[p].op = "post" /\ proc[p].page = a
WhenIdle(a, controls) == IF IsWorking(a) THEN {} ELSE controls
ConnectPanel(a) == {"connect"}
SignInPanel(a) == WhenIdle(a, {"login"})
VerifyPanel(a) == WhenIdle(a, {"verify"})
FormPanel(a) == {"continue"}

\* An Arc deployment pays from the wallet; in demo mode a hash is made up.
WalletFundingAvailable(a) == Setting.chain /\ ~drafts[a].demo

FundPanel(a) ==
    WhenIdle(a, {"type"} \cup If(WalletFundingAvailable(a), {"pay"}) \cup If(drafts[a].hash # None, {"fund"}))
    \cup If(DemoAvailable, {"demoHash"})

PlanPanel(a) == If(drafts[a].idea # 0, WhenIdle(a, {"plan"}))
ReservePanel(a) == If(drafts[a].idea # 0, WhenIdle(a, {"reserve", "skip"}))
DonePanel == {"another"}
ErrorPanel == {"again"}

\* The banner of a broker that is not strict enters and leaves demo mode, also while
\* a handler runs; not where the page shows its end or an error.
DemoBanner(a) == If(DemoAvailable /\ Screen(a) \notin {"done", "error"}, {"demo"})

Controls(a) ==
    DemoBanner(a) \cup
    CASE Screen(a) = "connect-wallet" -> ConnectPanel(a)
      [] Screen(a) = "sign-in" -> SignInPanel(a)
      [] Screen(a) = "world-verify" -> VerifyPanel(a)
      [] Screen(a) = "form" -> FormPanel(a)
      [] Screen(a) = "fund" -> FundPanel(a)
      [] Screen(a) = "plan" -> PlanPanel(a)
      [] Screen(a) = "reserve" -> ReservePanel(a)
      [] Screen(a) = "done" -> DonePanel
      [] Screen(a) = "error" -> ErrorPanel
      [] OTHER -> {}

-----------------------------------------------------------------------------
(* What the poster does *)

\* The page of a draft becomes what change says.
DraftBecomes(a, change) == drafts' = [drafts EXCEPT ![a] = With(@, change)]

ByHand(a, control) ==
    /\ control \in Controls(a)
    /\ UNCHANGED <<requestVars, accessVars, planVars, chain>>

Connect(a) == ByHand(a, "connect") /\ ~drafts[a].connected /\ DraftBecomes(a, [connected |-> TRUE])
HandleFormSubmit(a) == ByHand(a, "continue") /\ DraftBecomes(a, [step |-> "fund"])

\* A hash that was paid elsewhere; a bound: nobody types over a hash.
TypeHash(a, h) ==
    /\ ByHand(a, "type") /\ drafts[a].hash = None /\ chain[h] = "success"
    /\ DraftBecomes(a, [hash |-> h])

\* The button is there whatever the field holds, also while a payment is confirmed.
UseDemoTxHash(a) == ByHand(a, "demoHash") /\ DraftBecomes(a, [hash |-> DemoHash])

ToggleDemoPosterMode(a) ==
    /\ ByHand(a, "demo")
    /\ DraftBecomes(a, [demo |-> ~drafts[a].demo,
                   step |-> IF ~drafts[a].demo THEN "form"
                            ELSE CASE ~drafts[a].connected -> "connect-wallet"
                                   [] drafts[a].connected /\ ~SignedIn(a) -> "sign-in"
                                   [] drafts[a].connected /\ SignedIn(a) /\ ~IsPosterVerified(a) -> "world-verify"
                                   [] OTHER -> "form"])

HandleSkipReservation(a) == ByHand(a, "skip") /\ DraftBecomes(a, [reserved |-> FALSE, step |-> "done"])
TryAgain(a) == ByHand(a, "again") /\ DraftBecomes(a, [step |-> drafts[a].retry])

SubmitAnother(a) ==
    /\ ByHand(a, "another")
    /\ DraftBecomes(a, [step |-> "form", idea |-> 0, hash |-> None, reserved |-> FALSE, retry |-> "fund",
                   told |-> None, paid |-> {}])

Click(p, a, control, step, change) ==
    /\ control \in Controls(a)
    /\ Start(p, [op |-> "post", kind |-> control, step |-> step, page |-> a, idea |-> drafts[a].idea,
                 tx |-> drafts[a].hash, demo |-> drafts[a].demo])
    /\ DraftBecomes(a, change)
    /\ UNCHANGED <<accessVars, planVars, chain>>

\* createAndSyncIdeaFunding begins.
Funding == [step |-> "funding", retry |-> "fund"]
CreateOrFund(i) == IF i = 0 THEN "create" ELSE "fund"

HandleSignIn(p, a) == Click(p, a, "login", "login", <<>>)
HandleWorldVerify(p, a) == Click(p, a, "verify", "verify", <<>>)
HandleCreateAndFund(p, a) == Click(p, a, "fund", CreateOrFund(drafts[a].idea), Funding)
HandleWalletFundEscrow(p, a) == Click(p, a, "pay", "send", [retry |-> "fund"])
HandlePlan(p, a) == Click(p, a, "plan", "plan", [step |-> "planning", retry |-> "plan"])

\* The poster names a transaction and some of the jobs.
HandleSyncReservation(p, a, h) ==
    /\ chain[h] = "success"
    /\ "reserve" \in Controls(a)
    /\ \E orders \in {{1}, Orders} :
          Start(p, [op |-> "post", kind |-> "reserve", step |-> "reserve", page |-> a,
                    idea |-> drafts[a].idea, tx |-> h, orders |-> orders])
    /\ UNCHANGED <<accessVars, planVars, ideaPageVars>>

-----------------------------------------------------------------------------
(* The handlers *)

Doing(p, step) == proc[p].step = step
Served == UNCHANGED <<job, accounts, agentVars, gate, kitVars, clock, board>> /\ Quiet

\* The challenge is signed and verified; the wallet signs for its own account.
PageSignIn(p) ==
    LET a == proc[p].page IN
    /\ Doing(p, "login")
    /\ accounts' = accounts \cup {a}
    /\ challenges' = Append(challenges, [Challenge(a, "web_login", None, None) EXCEPT !.used = TRUE])
    /\ sessions' = Append(sessions, [account |-> a, expires |-> clock + SessionTTL, revoked |-> FALSE,
                                     from |-> Len(challenges) + 1])
    /\ Finish(p)
    /\ UNCHANGED <<job, syncs, roles, agentVars, gate, kitVars, clock, planVars, ideaPageVars>> /\ Quiet

\* The demo's proof is a random human's; the page goes on to the form.
PageVerify(p, h) ==
    LET a == proc[p].page IN
    /\ Doing(p, "verify") /\ \A r \in roles : r.human # h
    /\ roles' = roles \cup {[account |-> a, role |-> "poster", human |-> h]}
    /\ DraftBecomes(a, [step |-> "form"]) /\ Finish(p)
    /\ UNCHANGED <<challenges, sessions, syncs, ideas, briefs, planned, budgets, chain>> /\ Served

\* A slip: the page forgets the hash.
WriteContractForgetful(p, h) ==
    LET a == proc[p].page IN
    /\ Doing(p, "send") /\ chain[h] = "unsent"
    /\ chain' = [chain EXCEPT ![h] = "pending"]
    /\ DraftBecomes(a, [paid |-> drafts[a].paid \cup {h}])
    /\ proc' = [proc EXCEPT ![p] = With(proc[p], [step |-> "confirm", tx |-> h])]
    /\ UNCHANGED <<challenges, sessions, roles, syncs, ideas, briefs, planned, budgets>> /\ Served

\* The wallet sends a transfer: the page keeps its hash.
WriteContract(p, h) ==
    LET a == proc[p].page IN
    /\ Doing(p, "send") /\ chain[h] = "unsent"
    /\ chain' = [chain EXCEPT ![h] = "pending"]
    /\ DraftBecomes(a, [hash |-> h, paid |-> drafts[a].paid \cup {h}])
    /\ proc' = [proc EXCEPT ![p] = With(proc[p], [step |-> "confirm", tx |-> h])]
    /\ UNCHANGED <<challenges, sessions, roles, syncs, ideas, briefs, planned, budgets>> /\ Served

PaymentMined(h) ==
    /\ chain[h] = "pending"
    /\ \E outcome \in {"success", "reverted"} : chain' = [chain EXCEPT ![h] = outcome]
    /\ UNCHANGED <<requestVars, accessVars, planVars, drafts>>

\* waitForTransactionReceipt; a reverted transfer is an error on the panel.
Confirmed(p) ==
    /\ Doing(p, "confirm") /\ chain[proc[p].tx] # "pending"
    /\ IF chain[proc[p].tx] = "success"
       THEN DraftBecomes(proc[p].page, Funding) /\ Goto(p, CreateOrFund(proc[p].idea))
       ELSE UNCHANGED drafts /\ Finish(p)
    /\ UNCHANGED <<challenges, sessions, roles, syncs, ideas, briefs, planned, budgets, chain>> /\ Served

\* The session posts, or in demo mode without one the demo's poster.
Poster(p) == IF SignedIn(proc[p].page) THEN proc[p].page ELSE DemoPoster

PostIdea(p) ==
    /\ Doing(p, "create") /\ RoleIfStrict(proc[p].page, "poster") /\ Len(ideas) < MaxIdeas
    /\ \E b \in IdeaBudgets :
          ideas' = Append(ideas, [poster |-> Poster(p), budget |-> b, status |-> "unfunded", hashes |-> {}])
    /\ proc' = [proc EXCEPT ![p] = With(proc[p], [step |-> "created", idea |-> Len(ideas) + 1])]
    /\ UNCHANGED <<challenges, sessions, roles, syncs, briefs, planned, budgets, ideaPageVars>> /\ Served

\* The answer names the idea: the page keeps it for a retry.
IdeaCreated(p) ==
    /\ Doing(p, "created")
    /\ DraftBecomes(proc[p].page, [idea |-> proc[p].idea]) /\ Goto(p, "fund")
    /\ UNCHANGED <<challenges, sessions, roles, syncs, ideas, briefs, planned, budgets, chain>> /\ Served

\* The account that POST /ideas/:id/fund and /plan act for.
Acting(p) == IF SignedIn(proc[p].page) THEN proc[p].page ELSE ideas[proc[p].idea].poster
Owns(p) == Acting(p) = ideas[proc[p].idea].poster

\* A hash that is already recorded, for whatever idea, is answered alike; of the hashes
\* that funded an idea its row has the last.
FundRoute(p) ==
    LET i == proc[p].idea
        row == [tx |-> proc[p].tx, event |-> "idea_funded"]
    IN
    /\ Doing(p, "fund") /\ Owns(p)
    /\ syncs' = syncs \cup {row}
    /\ ideas' = IF row \in syncs THEN ideas
                ELSE [ideas EXCEPT ![i].status = "funded", ![i].hashes = @ \cup {proc[p].tx}]
    /\ Goto(p, "funded")
    /\ UNCHANGED <<challenges, sessions, roles, briefs, planned, budgets, ideaPageVars>> /\ Served

Funded(p) ==
    /\ Doing(p, "funded")
    /\ DraftBecomes(proc[p].page, [step |-> "plan", told |-> proc[p].tx]) /\ Finish(p)
    /\ UNCHANGED <<challenges, sessions, roles, syncs, ideas, briefs, planned, budgets, chain>> /\ Served

\* generateBrief, and unless the mode is strict the reservation of what it made.
PlanRoute(p) ==
    LET i == proc[p].idea
        new == Len(briefs) + 1
        status == IF Setting.strict THEN "created" ELSE "queued"
    IN
    /\ Doing(p, "plan") /\ Owns(p) /\ ideas[i].status = "funded"
    /\ IF \E b \in DOMAIN briefs : briefs[b] = i
       THEN UNCHANGED <<syncs, briefs, planned, budgets>>
       ELSE /\ briefs' = Append(briefs, i)
            /\ \E m \in MilestoneBudget(ideas[i].budget) : budgets' = Append(budgets, m)
            /\ planned' = planned \cup {[brief |-> new, order |-> n, status |-> status] : n \in Orders}
            /\ syncs' = IF Setting.strict THEN syncs ELSE syncs \cup {Reservation(new)}
    /\ Goto(p, "planned")
    /\ UNCHANGED <<challenges, sessions, roles, ideas, ideaPageVars>> /\ Served

Planned(p) ==
    /\ Doing(p, "planned")
    /\ DraftBecomes(proc[p].page, IF DemoAvailable THEN [reserved |-> TRUE, step |-> "done"] ELSE [step |-> "reserve"])
    /\ Finish(p)
    /\ UNCHANGED <<challenges, sessions, roles, syncs, ideas, briefs, planned, budgets, chain>> /\ Served

\* POST /chain/sync of milestone_reserved, for the jobs that were named.
ReserveRoute(p) ==
    LET row == [tx |-> proc[p].tx, event |-> "milestone_reserved"]
        Named(m) == briefs[m.brief] = proc[p].idea /\ m.order \in proc[p].orders
    IN
    /\ Doing(p, "reserve") /\ Owns(p)
    /\ syncs' = syncs \cup {row}
    /\ planned' = IF row \in syncs THEN planned
                  ELSE {IF Named(m) THEN [m EXCEPT !.status = "queued"] ELSE m : m \in planned}
    /\ Goto(p, "reserved")
    /\ UNCHANGED <<challenges, sessions, roles, ideas, briefs, budgets, ideaPageVars>> /\ Served

Reserved(p) ==
    /\ Doing(p, "reserved")
    /\ DraftBecomes(proc[p].page, [reserved |-> TRUE, step |-> "done"]) /\ Finish(p)
    /\ UNCHANGED <<challenges, sessions, roles, syncs, ideas, briefs, planned, budgets, chain>> /\ Served

\* What an error shows: the error's screen for creating, funding and planning, else
\* a line on the panel.
AfterError(p) ==
    IF proc[p].step \in {"create", "created", "fund", "funded", "plan", "planned"}
    THEN DraftBecomes(proc[p].page, [step |-> "error"]) ELSE UNCHANGED drafts

\* The broker refuses: another's idea, or one that is not funded.
PostRefused(p) ==
    /\ \/ Doing(p, "fund") /\ ~Owns(p)
       \/ Doing(p, "plan") /\ (~Owns(p) \/ ideas[proc[p].idea].status # "funded")
    /\ AfterError(p) /\ Finish(p)
    /\ UNCHANGED <<challenges, sessions, roles, syncs, ideas, briefs, planned, budgets, chain>> /\ Served

\* A request, its answer or the receipt does not arrive.
PostFails(p) ==
    /\ Fail(p) /\ AfterError(p)
    /\ UNCHANGED <<accessVars, planVars, chain>>

\* Going home, or a reload: the page forgets, what it asked for goes on.
LeavePage(a) ==
    /\ faults < Scenes[scene].faults /\ faults' = faults + 1
    /\ drafts[a] # Blank /\ ~IsWorking(a)
    /\ drafts' = [drafts EXCEPT ![a] = [Blank EXCEPT !.step = "sign-in", !.connected = TRUE]]
    /\ UNCHANGED <<scene, job, syncs, proc, starts, applied, again, alone, accessVars, planVars, chain>>

PostArrives(p) ==
    /\ MayStart(p)
    /\ \E a \in Setting.users :
          \/ HandleSignIn(p, a) \/ HandleWorldVerify(p, a) \/ HandleCreateAndFund(p, a)
          \/ HandleWalletFundEscrow(p, a) \/ HandlePlan(p, a)
          \/ \E h \in Payments : HandleSyncReservation(p, a, h)

PostStep(p) ==
    /\ proc[p].op = "post"
    /\ \/ PageSignIn(p) \/ \E h \in Humans : PageVerify(p, h)
       \/ \E h \in Payments : WriteContract(p, h)
       \/ Confirmed(p) \/ PostIdea(p) \/ IdeaCreated(p) \/ FundRoute(p) \/ Funded(p)
       \/ PlanRoute(p) \/ Planned(p) \/ ReserveRoute(p) \/ Reserved(p)
       \/ PostRefused(p) \/ PostFails(p)

PosterMoves ==
    \/ \E a \in Setting.users :
          \/ Connect(a) \/ HandleFormSubmit(a) \/ UseDemoTxHash(a) \/ ToggleDemoPosterMode(a)
          \/ HandleSkipReservation(a) \/ TryAgain(a) \/ SubmitAnother(a) \/ LeavePage(a)
          \/ \E h \in Payments : TypeHash(a, h)
    \/ \E h \in Payments : PaymentMined(h)

Posting == Serves("post")

-----------------------------------------------------------------------------
(* Properties *)

IdeaPageTypeOK ==
    \A a \in Accounts : /\ drafts[a].idea \in 0..Len(ideas)
                        /\ drafts[a].hash \in Payments \cup {None, DemoHash}

\* A page that asks for a plan, or has one, has had its idea funded by the hash it
\* showed, unless that hash had funded another idea: then it says so all the same
\* (IdeaSubmission.tsx 311-359, routes/ideas.ts 143-180).
PlanFollowsFunding ==
    \A a \in Accounts :
        LET d == drafts[a] IN
        d.step \in {"plan", "planning", "reserve", "done"} =>
            /\ d.idea # 0
            /\ ideas[d.idea].hashes # {} \/ \E i \in DOMAIN ideas : i # d.idea /\ d.told \in ideas[i].hashes

\* A transaction funds one idea, and money that a page sent is not forgotten: it was
\* reported, or its hash is still shown, or a later one of the draft is (380-449). Only
\* where the broker is not strict may the demo's hash stand in its place (998-1006).
PaymentsKept ==
    /\ \A i, k \in DOMAIN ideas : ideas[i].hashes \cap ideas[k].hashes # {} => i = k
    /\ \A a \in Accounts : drafts[a].paid # {} =>
          \/ drafts[a].hash \in drafts[a].paid
          \/ drafts[a].told # None
          \/ DemoAvailable /\ drafts[a].hash = DemoHash

\* In strict mode a draft pays again only if something failed: while the first transfer
\* is confirmed and reported no button pays, and after that the page has gone on.
PaidOnce ==
    \A a \in Accounts :
        Setting.strict /\ faults = 0 => Cardinality({h \in drafts[a].paid : chain[h] # "reverted"}) <= 1

\* A retry creates no second idea: an idea of a page in no page's memory had its answer
\* lost, or its page was left or began another (311-345).
IdeasRemembered ==
    faults = 0 => \A i \in DOMAIN ideas :
        \/ \E a \in Accounts : drafts[a].idea = i
        \/ \E p \in Requests : proc[p].op = "post" /\ proc[p].idea = i
        \/ ideas[i].hashes # {}

\* What a page of a broker that is not strict calls reserved was queued; in strict mode
\* nothing is queued that no reported transaction reserved (453-523).
ReservedIsQueued ==
    IF DemoAvailable
    THEN \A a \in Accounts : drafts[a].step = "done" =>
            \A m \in planned : briefs[m.brief] = drafts[a].idea => m.status # "created"
    ELSE (\E m \in planned : m.status # "created") => \E row \in syncs : row.event = "milestone_reserved"

IdeaPageKept ==
    Posting =>
        /\ IdeaPageTypeOK /\ PlanFollowsFunding /\ PaymentsKept /\ PaidOnce
        /\ IdeasRemembered /\ ReservedIsQueued
=============================================================================
