------------------------ MODULE BrokerMoney_proofs ------------------------
(***************************************************************************)
(* Theorems about BrokerMoney, for all jobs, transactions, requests and    *)
(* scenes, any number of which may overlap, fail or be lost in a restart.  *)
(*                                                                         *)
(* RequestsInv says what each request has in its hands, and that no two of *)
(* them apply the same recorded row; MoneyInv, ReputationInv, RegistryInv  *)
(* and AloneInv are inductive with it.                                     *)
(*                                                                         *)
(* The last sections are about the broker's wallet (BrokerWallet), which   *)
(* BrokerServices runs: whatever it is told to do and in whatever order,   *)
(* each step of a script, and each transaction that is mined, keeps what   *)
(* its deposits and marks amount to; and about what limits its requests    *)
(* (Limits), whatever else it serves.                                      *)
(***************************************************************************)
EXTENDS BrokerMoney, BrokerWallet, Limits, SumTheorems, SequenceTheorems

-----------------------------------------------------------------------------
(* The invariants *)

RowType == [stable : Nat \ {0}, minted : Nat \ {0}, reserved : Nat, spent : Nat, fee : Nat,
            status : {"active", "settled"}]

RecordType == [tx : Txs, event : SyncEvents]

Ops == {"idle", "fund", "cancel", "accept", "reject", "sync", "hook"}

Steps == {"-", "record", "apply", "quote", "mint", "write", "accept", "guard", "reserve", "settle",
          "release", "mark", "attest", "rework", "refund", "settled", "count",
          "MilestoneReleased", "DisputeRaised", "DisputeResolved"}

ProcType == [op : Ops, step : Steps, job : Jobs \cup {"-"}, tx : Txs \cup {"-"},
             event : SyncEvents \cup {"-"}, valid : BOOLEAN, amount : Nat, seen : Nat,
             row : SUBSET RowType]

TaskType == [kind : {"reputation", "registry"}, job : Jobs, number : Nat,
             step : {"read", "write"}, seen : Nat]

JobStatuses == {"queued", "submitted", "accepted", "rework", "settled", "disputed", "resolved"}

HookEvents == {"MilestoneReleased", "DisputeRaised", "DisputeResolved"}

RequestsTyped ==
    /\ scene \in DOMAIN Scenes
    /\ job \in [Jobs -> JobStatuses]
    /\ syncs \subseteq RecordType /\ applied \subseteq RecordType /\ IsFiniteSet(applied)
    /\ again \in BOOLEAN /\ alone \in BOOLEAN
    /\ proc \in [Requests -> ProcType]

CreditTyped ==
    /\ account \in [Payees \cup {"poster"} -> Int] /\ \A a \in Payees : account[a] >= 0
    /\ ledger \in [EntryTypes -> Int]
    /\ reserve = {} \/ \E row \in RowType : reserve = {row}
    /\ funding \in {"unfunded", "funded", "cancelled"} /\ posterColumn \in BOOLEAN
    /\ escrowPaid \subseteq Jobs /\ onChainSettled \subseteq Jobs
    /\ submits \in [Jobs -> Nat] /\ settles \in [Jobs -> Nat] /\ lapsed \in Int

SyncTyped ==
    /\ attestations \in [Jobs -> Nat] /\ accepted \in Nat
    /\ tasks \subseteq TaskType /\ IsFiniteSet(tasks)
    /\ nonce \in Nat /\ onChainCount \in Nat
    /\ attested \subseteq Jobs /\ IsFiniteSet(attested) /\ releases \subseteq Jobs
    /\ emitted \subseteq Jobs \X HookEvents

Typed == RequestsTyped /\ CreditTyped /\ SyncTyped

\* What a request has in its hands.
Funds(r) ==
    /\ r.step \in {"record", "apply", "quote", "mint"}
    /\ r.event = "idea_funded" /\ r.tx \in Txs /\ r.amount > 0
    /\ r.step = "mint" => r.seen > 0

Syncing(r) ==
    /\ r.step \in {"record", "apply", "settled", "count"}
    /\ r.event \in SyncEvents /\ r.tx \in Txs
    /\ IF r.event = "idea_funded" THEN r.valid /\ r.step \in {"record", "apply"}
                                  ELSE r.job \in Jobs
    /\ r.step = "settled" => r.event = "milestone_released" /\ r.job \in releases
    /\ r.step = "count" => r.event = "accepted_submission_attested"

Accepting(r) ==
    /\ r.step \in {"accept", "guard", "reserve", "settle", "release", "mark", "attest"}
    /\ r.job \in Jobs /\ r.event = "-"
    /\ r.step \in {"release", "mark"} => settles[r.job] > 0
    /\ r.step = "mark" => r.job \in escrowPaid

Rejecting(r) ==
    /\ r.step \in {"rework", "reserve", "refund"}
    /\ r.job \in Jobs /\ r.event = "-"
    /\ r.step = "refund" => reserve # {}

Hooked(r) ==
    /\ r.step \in HookEvents \cup {"settled"}
    /\ r.job \in Jobs /\ r.event = "-"
    /\ r.step = "settled" => r.job \in releases

Serving(r) ==
    \/ r = Idle
    \/ r.op = "fund" /\ Funds(r)
    \/ r.op = "cancel" /\ r.step = "write" /\ r.event = "-"
    \/ r.op = "accept" /\ Accepting(r)
    \/ r.op = "reject" /\ Rejecting(r)
    \/ r.op = "sync" /\ Syncing(r)
    \/ r.op = "hook" /\ Hooked(r)

ProcOK(p) == Serving(proc[p])

\* p has recorded a row and not applied it yet.
Pending(p) == proc[p].op \in {"fund", "sync"} /\ proc[p].step # "record"

OwnRow(p) ==
    Pending(p) => /\ Row(p) \in syncs \ applied
                  /\ \A q \in Requests \ {p} : Pending(q) => Row(q) # Row(p)

RequestsInv ==
    /\ Typed
    /\ \A p \in Requests : ProcOK(p) /\ OwnRow(p)
    /\ AppliedOnce

\* The records of the same credits; without a row nothing was ever booked.
MoneyInv ==
    /\ AccountsMatchLedger /\ SplitsAddUp /\ MarkedWasPaid /\ MintedForFunding
    /\ reserve = {} => /\ \A t \in EntryTypes : ledger[t] = 0
                       /\ \A j \in Jobs : settles[j] = 0

\* What the agent's count may be: attestations and reports, but for the attestations
\* whose call in the background has not counted yet.  A count that was read may be
\* overwritten by an older one, never by more.
Counting == {t \in tasks : t.kind = "reputation"}
Reported == {r \in applied : r.event = "accepted_submission_attested"}
Earned == Total(attestations) + Cardinality(Reported) - Cardinality(Counting)

ReputationInv ==
    /\ accepted <= Earned
    /\ \A t \in Counting : t.seen <= Earned
    /\ \A p \in Requests : At(p, "sync", "count") => proc[p].seen <= Earned

RegistryInv ==
    /\ RegistryAgrees /\ SettledWasReleased
    /\ \A t \in tasks : attestations[t.job] > 0 /\ (t.kind = "registry" => t.seen <= nonce)

\* While requests are served one at a time, what settlement has read still holds.
HandsAlone(r) ==
    r.op = "accept" =>
        /\ r.step = "accept" => job[r.job] = "submitted"
        /\ r.step \in {"guard", "reserve", "settle"} =>
              job[r.job] = "accepted" /\ settles[r.job] < submits[r.job]
        /\ r.step = "settle" => \A row \in r.row : /\ reserve = {row}
                                                  /\ Gross(row, Budget[r.job]) <= row.reserved + Tolerance

RowFits ==
    \A row \in reserve :
       /\ row.reserved - account["poster"] \in 0..(Tolerance * SettledTimes)
       /\ row.minted = ledger["mint"]
       /\ row.spent = ledger["worker_payout"] /\ row.fee = ledger["protocol_fee"]

JobsFit ==
    \A j \in Jobs : settles[j] <= submits[j] /\ (job[j] = "submitted" => settles[j] < submits[j])

OneBusy == \A p, q \in Requests : proc[p] # Idle /\ proc[q] # Idle => p = q

AloneInv ==
    alone => RowFits /\ JobsFit /\ OneBusy /\ \A p \in Requests : HandsAlone(proc[p])

-----------------------------------------------------------------------------
(* Arithmetic *)

\* Rounding half up is off by half a unit at most.
LEMMA RoundBounds ==
    ASSUME NEW x \in Nat, NEW y \in Nat \ {0}
    PROVE  /\ Round(x, y) \in Nat
           /\ 2 * (y * Round(x, y)) <= 2 * x + y
           /\ 2 * (y * Round(x, y)) > 2 * x - y
<1> DEFINE q == (2 * x + y) \div (2 * y)
<1>1. 2 * y \in Nat \ {0} /\ 2 * x + y \in Nat
  OBVIOUS
<1>2. \A n \in Nat, d \in Nat \ {0} : n \div d \in Nat /\ d * (n \div d) <= n /\ n < d * (n \div d) + d
  OBVIOUS
<1>5. q \in Nat /\ (2 * y) * q <= 2 * x + y /\ 2 * x + y < (2 * y) * q + 2 * y
  BY <1>1, <1>2
<1>3. (2 * y) * q = 2 * (y * q) /\ y * q \in Nat
  BY <1>5
<1> QED BY <1>5, <1>3 DEF Round

\* The curve quotes no negative amount, and a budget costs none.
LEMMA QuotesAreNatural ==
    /\ \A usd \in Nat, supply \in Int : QuoteMint(usd, supply) \in Nat
    /\ \A row \in RowType, usd \in Nat : Gross(row, usd) \in Nat
<1>1. ASSUME NEW usd \in Nat, NEW supply \in Int PROVE QuoteMint(usd, supply) \in Nat
  <2>1. AtLeast0(supply) \in Nat
    BY DEF AtLeast0
  <2>2. AtLeast0(supply) \div 10 \in Nat
    BY <2>1
  <2>3. CurvePrice(supply) \in Nat \ {0}
    BY <2>2 DEF CurvePrice
  <2>4. 100 * usd \in Nat
    OBVIOUS
  <2> QED BY <2>3, <2>4, RoundBounds DEF QuoteMint
<1>2. ASSUME NEW row \in RowType, NEW usd \in Nat PROVE Gross(row, usd) \in Nat
  <2>1. row.minted \in Nat /\ row.stable \in Nat \ {0}
    BY DEF RowType
  <2>2. usd * row.minted \in Nat
    BY <2>1
  <2> QED BY <2>1, <2>2, RoundBounds DEF Gross
<1> QED BY <1>1, <1>2

\* A settlement's parts are never negative, and add up to what is debited but for
\* one unit (splitSettlementIntel).
LEMMA SplitFits ==
    ASSUME NEW gross \in Nat, NEW rebate \in BOOLEAN, NEW referred \in BOOLEAN
    PROVE  LET s == Split(gross, rebate, referred)
               all == s.worker + s.treasury + s.staker_yield_pool + s.lapsed
           IN  /\ s.worker \in Nat /\ s.treasury \in Nat /\ s.staker_yield_pool \in Nat
               /\ s.lapsed \in Nat
               /\ all - gross \in -1..1
<1> DEFINE a == gross * StakerYieldBps
           b == gross * ProtocolFeeBps
           c == gross * (10000 - ProtocolFeeBps - StakerYieldBps)
           ra == Round(a, 10000)
           rb == Round(b, 10000)
           rc == Round(c, 10000)
           re == IF rebate THEN Round(gross, 50) ELSE 0
           bonus == IF referred THEN Round(rc + re, 100) ELSE 0
           fee == AtLeast0(rb - re)
<1>1. /\ StakerYieldBps \in Nat /\ ProtocolFeeBps \in Nat
      /\ ProtocolFeeBps + StakerYieldBps <= 10000 /\ ProtocolFeeBps >= 200
  BY CreditAssumption
<1>2. 10000 - ProtocolFeeBps - StakerYieldBps \in Nat
  BY <1>1
<1>3. a \in Nat /\ b \in Nat /\ c \in Nat
  BY <1>1, <1>2
<1>4. a + b + c = 10000 * gross
  BY <1>1
<1>5. b >= 200 * gross
  BY <1>1, ProductGrows
<1> HIDE DEF a, b, c
<1>6. /\ ra \in Nat /\ 20000 * ra <= 2 * a + 10000 /\ 20000 * ra > 2 * a - 10000
      /\ rb \in Nat /\ 20000 * rb <= 2 * b + 10000 /\ 20000 * rb > 2 * b - 10000
      /\ rc \in Nat /\ 20000 * rc <= 2 * c + 10000 /\ 20000 * rc > 2 * c - 10000
  BY <1>3 DEF Round
<1>7. re \in Nat /\ re <= rb
  BY <1>3, <1>5 DEF Round
<1>8. fee = rb - re /\ fee \in Nat
  BY <1>6, <1>7 DEF AtLeast0
<1>9. bonus \in Nat
  BY <1>6, <1>7 DEF Round
<1>10. AtLeast0(fee - bonus) \in Nat /\ AtLeast0(fee - bonus) <= fee
  BY <1>8, <1>9 DEF AtLeast0
<1>11. Split(gross, rebate, referred) =
         [worker |-> rc + re, treasury |-> AtLeast0(fee - bonus), staker_yield_pool |-> ra,
          lapsed |-> fee - AtLeast0(fee - bonus)]
  BY DEF Split, a, b, c
<1> HIDE DEF ra, rb, rc, re, bonus, fee
<1>12. (rc + re) + fee + ra - gross = ra + rb + rc - gross
  BY <1>6, <1>7, <1>8
<1>13. 20000 * (ra + rb + rc) <= 20000 * gross + 30000 /\ 20000 * (ra + rb + rc) > 20000 * gross - 30000
  BY <1>3, <1>4, <1>6
<1>14. ra + rb + rc - gross <= 1 /\ ra + rb + rc - gross >= -1
  BY <1>6, <1>13
<1> QED BY <1>6, <1>7, <1>8, <1>10, <1>11, <1>12, <1>14

-----------------------------------------------------------------------------
(* Kinds of steps *)

\* What is recorded of jobs and the reserve stays so.
Grows ==
    /\ releases \subseteq releases' /\ escrowPaid \subseteq escrowPaid'
    /\ \A j \in Jobs : settles'[j] >= settles[j]
    /\ reserve # {} => reserve' # {}

\* What a request that does not move has in its hands stays good.
LEMMA HandsKept ==
    ASSUME Typed, Typed', Grows, NEW q \in Requests, ProcOK(q), proc'[q] = proc[q]
    PROVE  ProcOK(q)'
<1> USE DEF ProcOK, Serving, Grows
<1>1. CASE proc[q].op = "accept" /\ Accepting(proc[q])
  BY <1>1 DEF Accepting, Typed, CreditTyped
<1>2. CASE proc[q].op = "reject" /\ Rejecting(proc[q])
  BY <1>2 DEF Rejecting
<1>3. CASE proc[q].op = "sync" /\ Syncing(proc[q])
  BY <1>3 DEF Syncing
<1>4. CASE proc[q].op = "hook" /\ Hooked(proc[q])
  BY <1>4 DEF Hooked
<1>5. CASE proc[q].op = "fund" /\ Funds(proc[q])
  BY <1>5 DEF Funds
<1> QED BY <1>1, <1>2, <1>3, <1>4, <1>5 DEF Idle

\* A step of p that records and applies nothing.
LEMMA QuietStep ==
    ASSUME RequestsInv, Typed', Grows, NEW p \in Requests,
           UNCHANGED <<syncs, applied, again>>,
           \A q \in Requests \ {p} : proc'[q] = proc[q],
           ProcOK(p)',
           Pending(p)' => /\ Pending(p)
                          /\ proc'[p].tx = proc[p].tx /\ proc'[p].event = proc[p].event
    PROVE  RequestsInv'
<1>1. AppliedOnce'
  BY DEF RequestsInv, AppliedOnce
<1>2. \A q \in Requests : ProcOK(q)'
  BY HandsKept DEF RequestsInv
<1>3. \A q \in Requests : Pending(q)' => Pending(q) /\ Row(q)' = Row(q)
  BY DEF Pending, Row
<1>4. \A q \in Requests : OwnRow(q)'
  BY <1>3 DEF RequestsInv, OwnRow
<1> QED BY <1>1, <1>2, <1>4 DEF RequestsInv

\* A step of p that applies the row it has recorded.
LEMMA ApplyStep ==
    ASSUME RequestsInv, Typed', Grows, NEW p \in Requests, Pending(p),
           Apply(p), Finish(p), UNCHANGED syncs
    PROVE  RequestsInv'
<1>1. proc'[p] = Idle /\ \A q \in Requests \ {p} : proc'[q] = proc[q]
  BY DEF Finish, RequestsInv, Typed, RequestsTyped
<1>2. Row(p) \in syncs \ applied /\ \A q \in Requests \ {p} : Pending(q) => Row(q) # Row(p)
  BY DEF RequestsInv, OwnRow
<1>3. AppliedOnce' /\ applied' = applied \cup {Row(p)}
  BY <1>2 DEF RequestsInv, AppliedOnce, Apply
<1>4. ProcOK(p)' /\ ~Pending(p)'
  BY <1>1 DEF ProcOK, Serving, Pending, Idle
<1>5. \A q \in Requests : ProcOK(q)'
  BY <1>1, <1>4, HandsKept DEF RequestsInv
<1>6. \A q \in Requests \ {p} : Row(q)' = Row(q) /\ (Pending(q)' <=> Pending(q))
  BY <1>1 DEF Row, Pending
<1>7. ASSUME NEW q \in Requests PROVE OwnRow(q)'
  BY <1>2, <1>3, <1>4, <1>6 DEF RequestsInv, OwnRow
<1> QED BY <1>3, <1>5, <1>7 DEF RequestsInv

\* What the forms of a request's next step do to the table of requests.
LEMMA ProcMoves ==
    ASSUME RequestsTyped, NEW p \in Requests
    PROVE  /\ \A r \in ProcType : proc' = [proc EXCEPT ![p] = r] =>
                  proc' \in [Requests -> ProcType] /\ proc'[p] = r
                  /\ \A q \in Requests \ {p} : proc'[q] = proc[q]
           /\ \A s \in Steps : Goto(p, s) =>
                  proc' \in [Requests -> ProcType] /\ proc'[p] = [proc[p] EXCEPT !.step = s]
                  /\ \A q \in Requests \ {p} : proc'[q] = proc[q]
           /\ Finish(p) =>
                  proc' \in [Requests -> ProcType] /\ proc'[p] = Idle
                  /\ \A q \in Requests \ {p} : proc'[q] = proc[q]
<1>1. Idle \in ProcType
  <2>1. {} \in SUBSET RowType /\ "idle" \in Ops /\ "-" \in Steps
    BY DEF Ops, Steps
  <2> QED BY <2>1 DEF Idle, ProcType
<1>2. proc[p] \in ProcType
  BY DEF RequestsTyped
<1>3. \A s \in Steps : [proc[p] EXCEPT !.step = s] \in ProcType
  BY <1>2 DEF ProcType
<1> QED BY <1>1, <1>2, <1>3 DEF RequestsTyped, Goto, Finish

\* A step in which requests at most end.
LEMMA StillStep ==
    ASSUME RequestsInv, Typed', Grows, UNCHANGED <<syncs, applied, again>>,
           \A q \in Requests : proc'[q] = proc[q] \/ proc'[q] = Idle
    PROVE  RequestsInv'
<1>1. AppliedOnce'
  BY DEF RequestsInv, AppliedOnce
<1>2. ASSUME NEW q \in Requests PROVE ProcOK(q)'
  <2>1. CASE proc'[q] = proc[q]
    BY <2>1, HandsKept DEF RequestsInv
  <2>2. CASE proc'[q] = Idle
    BY <2>2 DEF ProcOK, Serving
  <2> QED BY <2>1, <2>2
<1>3. \A q \in Requests : Pending(q)' => Pending(q) /\ Row(q)' = Row(q)
  BY DEF Pending, Row, Idle
<1>4. \A q \in Requests : OwnRow(q)'
  BY <1>3 DEF RequestsInv, OwnRow
<1> QED BY <1>1, <1>2, <1>4 DEF RequestsInv

\* The first read of a request.
LEMMA BeginStep ==
    ASSUME RequestsInv, NEW p \in Requests, NEW r \in ProcType, Begin(p, r),
           UNCHANGED <<creditVars, syncVars>>,
           Serving(r), r.op \in {"fund", "sync"} => r.step = "record"
    PROVE  RequestsInv'
<1>1. RequestsTyped /\ proc' = [proc EXCEPT ![p] = r] /\ alone' \in BOOLEAN
      /\ UNCHANGED <<scene, job, syncs, applied, again>>
  BY DEF RequestsInv, Typed, RequestsTyped, Begin
<1>2. /\ proc' \in [Requests -> ProcType] /\ proc'[p] = r
      /\ \A q \in Requests \ {p} : proc'[q] = proc[q]
  BY <1>1, ProcMoves
<1>3. CreditTyped' /\ SyncTyped' /\ Grows
  BY DEF RequestsInv, Typed, CreditTyped, SyncTyped, Grows, creditVars, moneyVars, fundVars,
         escrowVars, settleVars, syncVars, reputationVars, arcVars
<1>4. Typed'
  BY <1>1, <1>2, <1>3 DEF Typed, RequestsTyped
<1>5. ProcOK(p)'
  BY <1>2 DEF ProcOK, Serving, Funds, Syncing, Accepting, Rejecting, Hooked, creditVars, moneyVars,
         escrowVars, settleVars, syncVars
<1>6. ~Pending(p)'
  BY <1>2 DEF Pending
<1> QED BY <1>1, <1>2, <1>3, <1>4, <1>5, <1>6, QuietStep

\* FundRead, CancelRead, AcceptRead, RejectRead: the SELECT of the route.
LEMMA CreditCallStep ==
    ASSUME RequestsInv, NEW p \in Requests, CreditCall(p), UNCHANGED syncVars
    PROVE  RequestsInv'
<1> USE DEF ProcType, Idle, Ops, Steps
<1>1. ASSUME NEW x \in Txs, NEW usd \in Amounts, FundRead(p, x, usd) PROVE RequestsInv'
  <2> DEFINE r == [Idle EXCEPT !.op = "fund", !.step = "record", !.tx = x,
                               !.event = "idea_funded", !.amount = usd]
  <2>1. usd \in Nat /\ usd > 0 /\ "idea_funded" \in SyncEvents
    BY CreditAssumption DEF SyncEvents
  <2>2. r \in ProcType /\ Serving(r) /\ r.step = "record"
    BY <2>1 DEF Serving, Funds
  <2>3. Begin(p, r) /\ UNCHANGED creditVars
    BY <1>1 DEF FundRead
  <2> HIDE DEF r
  <2> QED BY <2>2, <2>3, BeginStep
<1>2. ASSUME CancelRead(p) PROVE RequestsInv'
  <2> DEFINE r == [Idle EXCEPT !.op = "cancel", !.step = "write"]
  <2>1. r \in ProcType /\ Serving(r) /\ r.op = "cancel"
    BY DEF Serving
  <2>2. Begin(p, r) /\ UNCHANGED creditVars
    BY <1>2 DEF CancelRead
  <2> HIDE DEF r
  <2> QED BY <2>1, <2>2, BeginStep
<1>3. ASSUME NEW j \in Jobs, AcceptRead(p, j) PROVE RequestsInv'
  <2> DEFINE r == [Idle EXCEPT !.op = "accept", !.step = "accept", !.job = j]
  <2>1. r \in ProcType /\ Serving(r) /\ r.op = "accept"
    BY DEF Serving, Accepting
  <2>2. Begin(p, r) /\ UNCHANGED creditVars
    BY <1>3 DEF AcceptRead
  <2> HIDE DEF r
  <2> QED BY <2>1, <2>2, BeginStep
<1>4. ASSUME NEW j \in Jobs, RejectRead(p, j) PROVE RequestsInv'
  <2> DEFINE r == [Idle EXCEPT !.op = "reject", !.step = "rework", !.job = j]
  <2>1. r \in ProcType /\ Serving(r) /\ r.op = "reject"
    BY DEF Serving, Rejecting
  <2>2. Begin(p, r) /\ UNCHANGED creditVars
    BY <1>4 DEF RejectRead
  <2> HIDE DEF r
  <2> QED BY <2>1, <2>2, BeginStep
<1> QED BY <1>1, <1>2, <1>3, <1>4 DEF CreditCall

\* SyncRead and Deliver: the SELECT of the sync route and of the webhook.
LEMMA SyncCallStep ==
    ASSUME RequestsInv, NEW p \in Requests, SyncCall(p), UNCHANGED creditVars
    PROVE  RequestsInv'
<1> USE DEF ProcType, Idle, Ops, Steps
<1>1. ASSUME NEW x \in Txs, NEW e \in SyncEvents, NEW j \in Jobs \cup {"-"}, NEW valid \in BOOLEAN,
             IF e = "idea_funded" THEN valid ELSE j \in Jobs, SyncRead(p, x, e, j, valid)
      PROVE  RequestsInv'
  <2> DEFINE r == [Idle EXCEPT !.op = "sync", !.step = "record", !.tx = x, !.event = e,
                               !.job = j, !.valid = valid]
  <2>1. r \in ProcType /\ Serving(r) /\ r.step = "record"
    BY <1>1 DEF Serving, Syncing
  <2>2. Begin(p, r) /\ UNCHANGED syncVars
    BY <1>1 DEF SyncRead
  <2> HIDE DEF r
  <2> QED BY <2>1, <2>2, BeginStep
<1>2. ASSUME NEW d \in emitted, Deliver(p, d[1], d[2]) PROVE RequestsInv'
  <2> DEFINE r == [Idle EXCEPT !.op = "hook", !.step = d[2], !.job = d[1]]
  <2>1. d[1] \in Jobs /\ d[2] \in HookEvents
    BY DEF RequestsInv, Typed, SyncTyped
  <2>2. r \in ProcType /\ Serving(r) /\ r.op = "hook"
    BY <2>1 DEF Serving, Hooked, HookEvents
  <2>3. Begin(p, r) /\ UNCHANGED syncVars
    BY <1>2 DEF Deliver
  <2> HIDE DEF r
  <2> QED BY <2>2, <2>3, BeginStep
<1>3. "idea_funded" \in SyncEvents
  BY DEF SyncEvents
<1> QED BY <1>1, <1>2, <1>3 DEF SyncCall

-----------------------------------------------------------------------------
(* The steps of a request *)

\* A step of p that changes its own place and the status of jobs only.
LEMMA ReadStep ==
    ASSUME RequestsInv, NEW p \in Requests,
           UNCHANGED <<scene, alone, syncs, applied, again>>, UNCHANGED <<creditVars, syncVars>>,
           job' \in [Jobs -> JobStatuses],
           NEW r \in ProcType, proc' = [proc EXCEPT ![p] = r], Serving(r),
           r.op \in {"fund", "sync"} => /\ r.step # "record" => Pending(p)
                                        /\ r.tx = proc[p].tx /\ r.event = proc[p].event
    PROVE  RequestsInv'
<1>1. RequestsTyped
  BY DEF RequestsInv, Typed
<1>2. /\ proc' \in [Requests -> ProcType] /\ proc'[p] = r
      /\ \A q \in Requests \ {p} : proc'[q] = proc[q]
  BY <1>1, ProcMoves
<1>3. CreditTyped' /\ SyncTyped' /\ Grows
  BY DEF RequestsInv, Typed, CreditTyped, SyncTyped, Grows, creditVars, moneyVars, fundVars,
         escrowVars, settleVars, syncVars, reputationVars, arcVars
<1>4. Typed'
  BY <1>1, <1>2, <1>3 DEF Typed, RequestsTyped
<1>5. ProcOK(p)'
  BY <1>2 DEF ProcOK, Serving, Funds, Syncing, Accepting, Rejecting, Hooked, creditVars, moneyVars,
         escrowVars, settleVars, syncVars
<1>6. Pending(p)' => /\ Pending(p)
                     /\ proc'[p].tx = proc[p].tx /\ proc'[p].event = proc[p].event
  BY <1>2 DEF Pending
<1> QED BY <1>2, <1>3, <1>4, <1>5, <1>6, QuietStep

\* What p has in its hands, by what it does.
LEMMA InHand ==
    ASSUME RequestsInv, NEW p \in Requests
    PROVE  /\ proc[p] \in ProcType /\ Serving(proc[p]) /\ RequestsTyped
           /\ proc[p].op = "fund" => Funds(proc[p])
           /\ proc[p].op = "accept" => Accepting(proc[p])
           /\ proc[p].op = "reject" => Rejecting(proc[p])
           /\ proc[p].op = "sync" => Syncing(proc[p])
           /\ proc[p].op = "hook" => Hooked(proc[p])
  BY DEF RequestsInv, Typed, RequestsTyped, ProcOK, Serving, Idle

\* The steps of a request about credits that only read, or write a job.
LEMMA CreditReadStep ==
    ASSUME RequestsInv, NEW p \in Requests, UNCHANGED syncVars,
           \/ FundQuote(p) \/ AcceptJob(p) \/ SettleGuard(p) \/ SettleRead(p)
           \/ RejectJob(p) \/ RefundRead(p)
    PROVE  RequestsInv'
<1> DEFINE me == proc[p]
<1>1. /\ me \in ProcType /\ Serving(me) /\ RequestsTyped
      /\ me.op = "fund" => Funds(me)
      /\ me.op = "accept" => Accepting(me)
      /\ me.op = "reject" => Rejecting(me)
  BY InHand
<1>2. Idle \in ProcType /\ Serving(Idle) /\ Idle.op = "idle"
  <2>1. {} \in SUBSET RowType
    OBVIOUS
  <2> QED BY <2>1 DEF ProcType, Idle, Ops, Steps, Serving
<1>3. ASSUME Finish(p), UNCHANGED <<job, syncs, creditVars>>, Quiet PROVE RequestsInv'
  <2>1. job' \in [Jobs -> JobStatuses]
    BY <1>1, <1>3 DEF RequestsTyped
  <2> QED BY <1>2, <1>3, <2>1, ReadStep DEF Finish, Quiet, Calm
<1>4. ASSUME FundQuote(p) PROVE RequestsInv'
  <2> DEFINE minted == QuoteMint(me.amount, Supply)
             r == [me EXCEPT !.step = "mint", !.seen = minted]
  <2>1. Supply \in Int /\ me.amount \in Nat
    BY <1>1 DEF RequestsInv, Typed, CreditTyped, Supply, Payees, ProcType
  <2>2. minted \in Nat
    BY <2>1, QuotesAreNatural
  <2> HIDE DEF minted
  <2>3. CASE minted = 0
    BY <1>3, <1>4, <2>3 DEF FundQuote, minted
  <2>4. CASE minted # 0
    <3>1. r \in ProcType /\ r.op = "fund" /\ r.step = "mint" /\ r.tx = me.tx /\ r.event = me.event
      BY <1>1, <1>4, <2>2 DEF ProcType, Steps, FundQuote, At
    <3>2. Serving(r) /\ Pending(p)
      BY <1>1, <1>4, <2>2, <2>4 DEF FundQuote, At, Serving, Funds, ProcType, Pending
    <3>3. proc' = [proc EXCEPT ![p] = r] /\ UNCHANGED <<job, syncs, creditVars>> /\ Quiet
      BY <1>1, <1>4, <2>4 DEF FundQuote, minted, RequestsTyped
    <3>4. job' \in [Jobs -> JobStatuses]
      BY <1>1, <3>3 DEF RequestsTyped
    <3> HIDE DEF r, me
    <3> QED BY <3>1, <3>2, <3>3, <3>4, ReadStep DEF Quiet, Calm, me
  <2> QED BY <2>3, <2>4
<1>5. ASSUME NEW s \in Steps, Goto(p, s), Serving([me EXCEPT !.step = s]),
             me.op \in {"accept", "reject"},
             job' \in [Jobs -> JobStatuses], UNCHANGED <<syncs, creditVars>>, Quiet
      PROVE  RequestsInv'
  <2> DEFINE r == [me EXCEPT !.step = s]
  <2>1. r \in ProcType /\ r.op \notin {"fund", "sync"} /\ Serving(r)
    BY <1>1, <1>5 DEF ProcType
  <2>2. proc' = [proc EXCEPT ![p] = r]
    BY <1>1, <1>5 DEF Goto, RequestsTyped
  <2> HIDE DEF r
  <2> QED BY <1>5, <2>1, <2>2, ReadStep DEF Quiet, Calm
<1>6. ASSUME NEW s \in Steps, me.op = "accept", s \in {"guard", "reserve", "attest"}
      PROVE  Serving([me EXCEPT !.step = s])
  BY <1>1, <1>6 DEF Serving, Accepting, ProcType
<1>7. {"guard", "reserve", "attest", "settle", "refund"} \subseteq Steps
  BY DEF Steps
<1>8. job' = job => job' \in [Jobs -> JobStatuses]
  BY <1>1 DEF RequestsTyped
<1>9. ASSUME AcceptJob(p) PROVE RequestsInv'
  <2>1. me.op = "accept" /\ Goto(p, "guard") /\ UNCHANGED <<syncs, creditVars>> /\ Quiet
    BY <1>9 DEF AcceptJob, At
  <2>2. job' \in [Jobs -> JobStatuses]
    BY <1>1, <1>9 DEF AcceptJob, RequestsTyped, JobStatuses
  <2> QED BY <1>5, <1>6, <1>7, <2>1, <2>2
<1>10. ASSUME SettleGuard(p) PROVE RequestsInv'
  <2>1. PICK s \in {"attest", "reserve"} : Goto(p, s)
    BY <1>10 DEF SettleGuard
  <2>2. me.op = "accept" /\ UNCHANGED <<job, syncs, creditVars>> /\ Quiet
    BY <1>10 DEF SettleGuard, At
  <2> QED BY <1>5, <1>6, <1>7, <1>8, <2>1, <2>2
<1>11. ASSUME SettleRead(p) PROVE RequestsInv'
  <2>1. me.op = "accept" /\ UNCHANGED <<job, syncs, creditVars>> /\ Quiet
    BY <1>11 DEF SettleRead, At
  <2>2. CASE Goto(p, "attest")
    BY <1>5, <1>6, <1>7, <1>8, <2>1, <2>2
  <2>3. CASE Finish(p)
    BY <1>3, <2>1, <2>3
  <2>4. ASSUME NEW row \in reserve, proc' = [proc EXCEPT ![p].step = "settle", ![p].row = {row}]
        PROVE  RequestsInv'
    <3> DEFINE r == [me EXCEPT !.step = "settle", !.row = {row}]
    <3>1. row \in RowType
      BY DEF RequestsInv, Typed, CreditTyped
    <3>2. r \in ProcType /\ r.op = "accept" /\ proc' = [proc EXCEPT ![p] = r]
      BY <1>1, <1>7, <2>1, <2>4, <3>1 DEF ProcType, RequestsTyped
    <3>3. Serving(r)
      BY <1>1, <2>1 DEF Serving, Accepting, ProcType
    <3> HIDE DEF r
    <3> QED BY <1>8, <2>1, <3>2, <3>3, ReadStep DEF Quiet, Calm
  <2> QED BY <1>11, <2>2, <2>3, <2>4 DEF SettleRead
<1>12. ASSUME RejectJob(p) PROVE RequestsInv'
  <2>1. me.op = "reject" /\ Goto(p, "reserve") /\ UNCHANGED <<syncs, creditVars>> /\ Quiet
    BY <1>12 DEF RejectJob, At
  <2>2. job' \in [Jobs -> JobStatuses]
    BY <1>1, <1>12 DEF RejectJob, RequestsTyped, JobStatuses
  <2>3. Serving([me EXCEPT !.step = "reserve"])
    BY <1>1, <2>1 DEF Serving, Rejecting, ProcType
  <2> QED BY <1>5, <1>7, <2>1, <2>2, <2>3
<1>13. ASSUME RefundRead(p) PROVE RequestsInv'
  <2>1. me.op = "reject" /\ UNCHANGED <<job, syncs, creditVars>> /\ Quiet
    BY <1>13 DEF RefundRead, At
  <2>2. ASSUME NEW row \in reserve, NEW back, back = Gross(row, Budget[me.job]),
               proc' = [proc EXCEPT ![p].step = "refund", ![p].seen = back]
        PROVE  RequestsInv'
    <3> DEFINE r == [me EXCEPT !.step = "refund", !.seen = back]
    <3>1. row \in RowType
      BY DEF RequestsInv, Typed, CreditTyped
    <3>2. Budget[me.job] \in Nat
      BY <1>1, <2>1, CreditAssumption DEF Rejecting
    <3>3. back \in Nat
      BY <2>2, <3>1, <3>2, QuotesAreNatural
    <3>4. r \in ProcType /\ r.op = "reject" /\ proc' = [proc EXCEPT ![p] = r]
      BY <1>1, <1>7, <2>1, <2>2, <3>3 DEF ProcType, RequestsTyped
    <3>5. Serving(r)
      BY <1>1, <2>1 DEF Serving, Rejecting, ProcType
    <3> HIDE DEF r
    <3> QED BY <1>8, <2>1, <3>4, <3>5, ReadStep DEF Quiet, Calm
  <2> QED BY <1>3, <1>13, <2>1, <2>2 DEF RefundRead
<1> QED BY <1>4, <1>9, <1>10, <1>11, <1>12, <1>13

\* A step of p that writes credits or reports, and records and applies nothing.
LEMMA WriteStep ==
    ASSUME RequestsInv, NEW p \in Requests,
           UNCHANGED <<scene, alone, syncs, applied, again>>,
           job' \in [Jobs -> JobStatuses], CreditTyped', SyncTyped', Grows,
           NEW r \in ProcType, proc' = [proc EXCEPT ![p] = r], ProcOK(p)',
           r.op \in {"fund", "sync"} => /\ r.step # "record" => Pending(p)
                                        /\ r.tx = proc[p].tx /\ r.event = proc[p].event
    PROVE  RequestsInv'
<1>1. RequestsTyped
  BY DEF RequestsInv, Typed
<1>2. /\ proc' \in [Requests -> ProcType] /\ proc'[p] = r
      /\ \A q \in Requests \ {p} : proc'[q] = proc[q]
  BY <1>1, ProcMoves
<1>3. Typed'
  BY <1>1, <1>2 DEF Typed, RequestsTyped
<1>4. Pending(p)' => /\ Pending(p)
                     /\ proc'[p].tx = proc[p].tx /\ proc'[p].event = proc[p].event
  BY <1>2 DEF Pending
<1> QED BY <1>2, <1>3, <1>4, QuietStep

\* The last step of p, which applies the row it has recorded.
LEMMA LastStep ==
    ASSUME RequestsInv, NEW p \in Requests, Pending(p), Apply(p), Finish(p), UNCHANGED syncs,
           job' \in [Jobs -> JobStatuses], CreditTyped', SyncTyped', Grows
    PROVE  RequestsInv'
<1>1. RequestsTyped /\ Row(p) \in syncs
  BY DEF RequestsInv, Typed, OwnRow
<1>2. proc' \in [Requests -> ProcType]
  BY <1>1, ProcMoves
<1>3. applied' \subseteq RecordType /\ IsFiniteSet(applied') /\ again' \in BOOLEAN
      /\ UNCHANGED <<scene, alone>>
  <2>1. applied' = applied \cup {Row(p)} /\ again' = (again \/ Row(p) \in applied) /\ UNCHANGED <<scene, alone>>
    BY DEF Apply, Calm
  <2>2. IsFiniteSet(applied \cup {Row(p)})
    BY <1>1, FS_AddElement DEF RequestsTyped
  <2> QED BY <1>1, <2>1, <2>2 DEF RequestsTyped
<1>4. Typed'
  BY <1>1, <1>2, <1>3 DEF Typed, RequestsTyped
<1> QED BY <1>4, ApplyStep

\* The tables of the chain, or of the credits, when nothing writes them.
LEMMA TablesKept ==
    /\ SyncTyped /\ UNCHANGED syncVars => SyncTyped' /\ releases \subseteq releases'
    /\ CreditTyped /\ UNCHANGED creditVars =>
         /\ CreditTyped' /\ escrowPaid \subseteq escrowPaid'
         /\ \A j \in Jobs : settles'[j] >= settles[j]
         /\ reserve # {} => reserve' # {}
<1>1. CreditTyped => \A j \in Jobs : settles[j] \in Nat
  BY DEF CreditTyped
<1> QED BY <1>1 DEF CreditTyped, SyncTyped, creditVars, moneyVars, fundVars,
         escrowVars, settleVars, syncVars, reputationVars, arcVars

\* A settlement, in numbers: the payees get shares of what is debited, and the row
\* is written back with the purchases made since it was read.
SettlesFrom(p, row, now, gross, split) ==
    /\ row \in proc[p].row /\ now \in reserve /\ gross = Gross(row, Budget[proc[p].job])
    /\ account' = [a \in DOMAIN account |->
                     account[a] + IF a = "poster" THEN -gross ELSE split[a]]
    /\ reserve' = {[Settled(row, gross, split) EXCEPT !.stable = now.stable,
                                                     !.minted = now.minted]}
    /\ ledger' = [ledger EXCEPT !["settlement_debit"] = @ - gross,
                      !["worker_payout"] = @ + split.worker,
                      !["protocol_fee"] = @ + split.treasury,
                      !["staker_yield_pool"] = @ + split.staker_yield_pool]
    /\ lapsed' = lapsed + split.lapsed

\* SettleWrite leaves a row of the table's type.
LEMMA SettleAmounts ==
    ASSUME RequestsInv, NEW p \in Requests, NEW rebate \in BOOLEAN, NEW referred \in BOOLEAN,
           SettleWrite(p, rebate, referred)
    PROVE  \E row \in RowType, now \in RowType, gross \in Nat :
              /\ SettlesFrom(p, row, now, gross, Split(gross, rebate, referred))
              /\ \E new \in RowType : reserve' = {new}
<1>1. At(p, "accept", "settle")
  BY DEF SettleWrite
<1>2. PICK row \in proc[p].row, now \in reserve :
        LET gross == Gross(row, Budget[proc[p].job])
        IN  SettlesFrom(p, row, now, gross, Split(gross, rebate, referred))
  BY Zenon DEF SettleWrite, SettlesFrom
<1>3. row \in RowType /\ now \in RowType /\ proc[p].job \in Jobs
  BY <1>1, InHand DEF At, ProcType, Accepting, RequestsInv, Typed, CreditTyped
<1> DEFINE gross == Gross(row, Budget[proc[p].job])
           split == Split(gross, rebate, referred)
<1>4. gross \in Nat
  <2>1. Budget[proc[p].job] \in Nat
    BY <1>3, CreditAssumption
  <2> QED BY <1>3, <2>1, QuotesAreNatural
<1>5. split.worker \in Nat /\ split.treasury \in Nat
  <2> HIDE DEF gross
  <2> QED BY <1>4, SplitFits
<1>6. [Settled(row, gross, split) EXCEPT !.stable = now.stable, !.minted = now.minted] \in RowType
  <2> DEFINE left == AtLeast0(row.reserved - gross)
             status == IF left = 0 THEN "settled" ELSE "active"
             spent == row.spent + split.worker
             fee == row.fee + split.treasury
  <2>1. Settled(row, gross, split) =
            [stable |-> row.stable, minted |-> row.minted, reserved |-> left,
             spent |-> spent, fee |-> fee, status |-> status]
    BY DEF Settled
  <2> HIDE DEF gross, split
  <2>2. left \in Nat /\ status \in {"active", "settled"}
    BY <1>3, <1>4 DEF RowType, AtLeast0
  <2>3. spent \in Nat /\ fee \in Nat
    BY <1>3, <1>5 DEF RowType
  <2> HIDE DEF left, status, spent, fee
  <2>4. Settled(row, gross, split) \in RowType
    BY <1>3, <2>1, <2>2, <2>3 DEF RowType
  <2>5. \A r \in RowType, x, y \in Nat \ {0} :
          [r EXCEPT !.stable = x, !.minted = y] \in RowType
    BY DEF RowType
  <2>6. now.stable \in Nat \ {0} /\ now.minted \in Nat \ {0}
    BY <1>3 DEF RowType
  <2> QED BY <2>4, <2>5, <2>6, Zenon
<1>7. SettlesFrom(p, row, now, gross, split)
  BY <1>2
<1>8. \E new \in RowType : reserve' = {new}
  <2> HIDE DEF gross, split
  <2> QED BY <1>6, <1>7 DEF SettlesFrom
<1> HIDE DEF gross
<1> QED BY <1>3, <1>4, <1>7, <1>8

\* Purchases and refunds leave a row of the table's type.
LEMMA RowMoves ==
    /\ \A r \in RowType, x, y \in Nat \ {0}, z \in Nat :
          [r EXCEPT !.stable = x, !.minted = y, !.reserved = z, !.status = "active"] \in RowType
    /\ \A r \in RowType, z \in Nat : [r EXCEPT !.reserved = z, !.status = "active"] \in RowType
  BY Zenon DEF RowType

\* MarkFunded, FundMint, CancelWrite: the steps of a funding that write.
LEMMA FundWriteStep ==
    ASSUME RequestsInv, NEW p \in Requests, UNCHANGED syncVars,
           MarkFunded(p) \/ FundMint(p) \/ CancelWrite(p)
    PROVE  RequestsInv'
<1> DEFINE me == proc[p]
<1>1. /\ me \in ProcType /\ Serving(me) /\ RequestsTyped
      /\ me.op = "fund" => Funds(me)
      /\ me.op = "sync" => Syncing(me)
  BY InHand
<1>2. Idle \in ProcType /\ Serving(Idle) /\ Idle.op = "idle"
  <2>1. {} \in SUBSET RowType
    OBVIOUS
  <2> QED BY <2>1 DEF ProcType, Idle, Ops, Steps, Serving
<1>3. CreditTyped /\ SyncTyped /\ SyncTyped' /\ releases \subseteq releases'
  BY TablesKept DEF RequestsInv, Typed
<1>4. job' = job => job' \in [Jobs -> JobStatuses]
  BY <1>1 DEF RequestsTyped
<1>5. \A j \in Jobs : settles[j] \in Nat
  BY <1>3 DEF CreditTyped
<1>6. ASSUME UNCHANGED <<moneyVars, posterColumn, escrowVars, settleVars>>,
             funding' \in {"unfunded", "funded", "cancelled"}
      PROVE  CreditTyped' /\ Grows
  BY <1>3, <1>5, <1>6 DEF CreditTyped, Grows, moneyVars, escrowVars, settleVars
<1>7. ASSUME MarkFunded(p) PROVE RequestsInv'
  <2>1. UNCHANGED <<job, syncs>> /\ CreditTyped' /\ Grows
    BY <1>6, <1>7 DEF MarkFunded
  <2>2. me.op \in {"fund", "sync"} /\ me.step = "apply" /\ me.event = "idea_funded" /\ Pending(p)
    BY <1>1, <1>7 DEF MarkFunded, Serving, Idle, Accepting, Rejecting, Hooked, HookEvents, Pending
  <2>3. CASE me.op = "sync"
    <3>1. Finish(p) /\ Apply(p)
      BY <1>7, <2>3 DEF MarkFunded
    <3> QED BY <1>3, <1>4, <2>1, <2>2, <3>1, LastStep
  <2>4. CASE me.op = "fund"
    <3> DEFINE r == [me EXCEPT !.step = "quote"]
    <3>1. Goto(p, "quote") /\ Quiet
      BY <1>7, <2>4 DEF MarkFunded
    <3>2. r \in ProcType /\ Serving(r) /\ r.op = "fund" /\ r.step = "quote"
          /\ r.tx = me.tx /\ r.event = me.event
      BY <1>1, <2>4, <2>2 DEF ProcType, Steps, Serving, Funds
    <3>3. proc' = [proc EXCEPT ![p] = r]
      BY <1>1, <3>1 DEF Goto, RequestsTyped
    <3>4. ProcOK(p)'
      BY <1>1, <3>2, <3>3 DEF ProcOK, Serving, Funds, RequestsTyped
    <3> HIDE DEF r
    <3>5. UNCHANGED <<scene, alone, syncs, applied, again>>
      BY <2>1, <3>1 DEF Quiet, Calm
    <3> QED BY <1>3, <1>4, <2>1, <2>2, <3>2, <3>3, <3>4, <3>5, WriteStep
  <2> QED BY <2>2, <2>3, <2>4
<1>8. ASSUME FundMint(p) PROVE RequestsInv'
  <2> DEFINE usd == me.amount
             minted == me.seen
  <2>1. me.op = "fund" /\ me.step = "mint" /\ Funds(me)
    BY <1>1, <1>8, Zenon DEF FundMint, At
  <2>2. usd \in Nat \ {0} /\ minted \in Nat \ {0}
    BY <1>1, <2>1 DEF Funds, ProcType
  <2>3. Pending(p) /\ Apply(p) /\ Finish(p)
        /\ UNCHANGED <<job, syncs, fundVars, escrowVars, settleVars>>
    BY <1>8, <2>1, Zenon DEF FundMint, Pending
  <2>4. /\ account' = [account EXCEPT !["poster"] = @ + minted]
        /\ ledger' = [ledger EXCEPT !["mint"] = @ + minted, !["reserve"] = @ - minted]
    BY <1>8, Zenon DEF FundMint
  <2>5. reserve' = IF reserve = NoReserve THEN {NewRow(usd, minted)}
                   ELSE {[r EXCEPT !.stable = @ + usd, !.minted = @ + minted,
                                   !.reserved = @ + minted, !.status = "active"] : r \in reserve}
    BY <1>8, Zenon DEF FundMint
  <2> HIDE DEF usd, minted
  <2>6. account' \in [Payees \cup {"poster"} -> Int] /\ \A a \in Payees : account'[a] >= 0
    BY <1>3, <2>2, <2>4 DEF CreditTyped, Payees
  <2>7. ledger' \in [EntryTypes -> Int]
    BY <1>3, <2>2, <2>4 DEF CreditTyped, EntryTypes
  <2>8. \E row \in RowType : reserve' = {row}
    <3>1. CASE reserve = {}
      <4>1. NewRow(usd, minted) \in RowType
        BY <2>2 DEF NewRow, RowType
      <4> QED BY <2>5, <3>1, <4>1 DEF NoReserve
    <3>2. ASSUME NEW old \in RowType, reserve = {old} PROVE \E row \in RowType : reserve' = {row}
      <4> DEFINE new == [old EXCEPT !.stable = @ + usd, !.minted = @ + minted,
                                    !.reserved = @ + minted, !.status = "active"]
      <4>1. new \in RowType
        <5>1. /\ old.stable + usd \in Nat \ {0} /\ old.minted + minted \in Nat \ {0}
              /\ old.reserved + minted \in Nat
          BY <2>2 DEF RowType
        <5> QED BY <5>1, RowMoves, Zenon
      <4>2. reserve' = {new}
        BY <2>5, <3>2 DEF NoReserve
      <4> HIDE DEF new
      <4> QED BY <4>1, <4>2
    <3> QED BY <1>3, <3>1, <3>2 DEF CreditTyped
  <2>9. CreditTyped'
    BY <1>3, <2>3, <2>6, <2>7, <2>8 DEF CreditTyped, fundVars, escrowVars, settleVars
  <2>10. Grows
    BY <1>3, <1>5, <2>3, <2>8 DEF Grows, escrowVars, settleVars
  <2> QED BY <1>3, <1>4, <2>3, <2>9, <2>10, LastStep
<1>9. ASSUME CancelWrite(p) PROVE RequestsInv'
  <2>1. UNCHANGED <<job, syncs>> /\ Quiet /\ CreditTyped' /\ Grows
        /\ proc' = [proc EXCEPT ![p] = Idle]
    BY <1>6, <1>9 DEF CancelWrite, Finish
  <2>2. ProcOK(p)'
    BY <1>1, <1>2, <2>1 DEF ProcOK, Serving, RequestsTyped
  <2>3. UNCHANGED <<scene, alone, syncs, applied, again>>
    BY <2>1 DEF Quiet, Calm
  <2> QED BY <1>2, <1>3, <1>4, <2>1, <2>2, <2>3, WriteStep
<1> QED BY <1>7, <1>8, <1>9

\* SettleWrite, EscrowRelease, EscrowMark, RefundWrite: the steps that pay or mark.
LEMMA PayStep ==
    ASSUME RequestsInv, NEW p \in Requests, UNCHANGED syncVars,
           \/ \E rebate, referred \in BOOLEAN : SettleWrite(p, rebate, referred)
           \/ EscrowRelease(p) \/ EscrowMark(p) \/ RefundWrite(p)
    PROVE  RequestsInv'
<1> DEFINE me == proc[p]
<1>1. /\ me \in ProcType /\ Serving(me) /\ RequestsTyped
      /\ me.op = "accept" => Accepting(me)
      /\ me.op = "reject" => Rejecting(me)
  BY InHand
<1>2. Idle \in ProcType /\ Idle.op = "idle"
  <2>1. {} \in SUBSET RowType
    OBVIOUS
  <2> QED BY <2>1 DEF ProcType, Idle, Ops, Steps
<1>3. CreditTyped /\ SyncTyped /\ SyncTyped' /\ releases \subseteq releases'
  BY TablesKept DEF RequestsInv, Typed
<1>4. job' = job => job' \in [Jobs -> JobStatuses]
  BY <1>1 DEF RequestsTyped
<1>5. \A j \in Jobs : settles[j] \in Nat
  BY <1>3 DEF CreditTyped
<1>6. ASSUME NEW s \in Steps, Goto(p, s), me.op = "accept"
      PROVE  /\ [me EXCEPT !.step = s] \in ProcType
             /\ proc' = [proc EXCEPT ![p] = [me EXCEPT !.step = s]]
             /\ proc'[p] = [me EXCEPT !.step = s]
             /\ [me EXCEPT !.step = s].op = "accept"
             /\ proc'[p].op = "accept" /\ proc'[p].step = s /\ proc'[p].job = me.job
             /\ proc'[p].event = me.event
  BY <1>1, <1>6 DEF Goto, RequestsTyped, ProcType
<1>7. ASSUME NEW rebate \in BOOLEAN, NEW referred \in BOOLEAN, SettleWrite(p, rebate, referred)
      PROVE  RequestsInv'
  <2>1. PICK row \in RowType, now \in RowType, gross \in Nat :
           /\ SettlesFrom(p, row, now, gross, Split(gross, rebate, referred))
           /\ \E new \in RowType : reserve' = {new}
    BY <1>7, SettleAmounts
  <2> DEFINE split == Split(gross, rebate, referred)
  <2>2. /\ split.worker \in Nat /\ split.treasury \in Nat /\ split.staker_yield_pool \in Nat
        /\ split.lapsed \in Nat
    BY SplitFits
  <2>10. /\ account' = [a \in DOMAIN account |->
                          account[a] + IF a = "poster" THEN -gross ELSE split[a]]
         /\ ledger' = [ledger EXCEPT !["settlement_debit"] = @ - gross,
                           !["worker_payout"] = @ + split.worker,
                           !["protocol_fee"] = @ + split.treasury,
                           !["staker_yield_pool"] = @ + split.staker_yield_pool]
         /\ lapsed' = lapsed + split.lapsed
    BY <2>1 DEF SettlesFrom
  <2> HIDE DEF split
  <2>3. account' \in [Payees \cup {"poster"} -> Int] /\ \A a \in Payees : account'[a] >= 0
    <3>1. DOMAIN account = Payees \cup {"poster"}
      BY <1>3 DEF CreditTyped
    <3>2. \A a \in Payees : split[a] \in Nat /\ a # "poster"
      BY <2>2 DEF Payees
    <3>3. ASSUME NEW a \in Payees \cup {"poster"}
          PROVE  account'[a] \in Int /\ (a \in Payees => account'[a] >= 0)
      BY <1>3, <2>10, <3>1, <3>2 DEF CreditTyped
    <3> QED BY <2>10, <3>1, <3>3
  <2>4. ledger' \in [EntryTypes -> Int] /\ lapsed' \in Int
    BY <1>3, <2>10, <2>2, SMTT(30) DEF CreditTyped, EntryTypes
  <2>5. /\ me.op = "accept" /\ me.job \in Jobs /\ Goto(p, "release")
        /\ settles' = [settles EXCEPT ![me.job] = @ + 1]
        /\ UNCHANGED <<job, syncs, fundVars, escrowVars, submits>> /\ Quiet
    BY <1>1, <1>7, Zenon DEF SettleWrite, At, Accepting
  <2>6. settles' \in [Jobs -> Nat] /\ (\A j \in Jobs : settles'[j] >= settles[j])
        /\ settles'[me.job] > 0
    BY <1>3, <1>5, <2>5 DEF CreditTyped
  <2>7. CreditTyped' /\ Grows
    BY <1>3, <2>1, <2>3, <2>4, <2>5, <2>6 DEF CreditTyped, Grows, fundVars, escrowVars
  <2>8. ProcOK(p)'
    <3>1. "release" \in Steps
      BY DEF Steps
    <3> QED BY <1>1, <1>6, <2>5, <2>6, <3>1 DEF ProcOK, Serving, Accepting
  <2>9. UNCHANGED <<scene, alone, syncs, applied, again>> /\ "release" \in Steps
    BY <2>5 DEF Quiet, Calm, Steps
  <2> QED BY <1>3, <1>4, <1>6, <2>5, <2>7, <2>8, <2>9, WriteStep
<1>8. ASSUME EscrowRelease(p) \/ EscrowMark(p) PROVE RequestsInv'
  <2>1. /\ me.op = "accept" /\ me.job \in Jobs /\ me.event = "-"
        /\ me.step \in {"release", "mark"} /\ settles[me.job] > 0
        /\ UNCHANGED <<job, syncs, moneyVars, fundVars, settleVars>> /\ Quiet
    BY <1>1, <1>8 DEF EscrowRelease, EscrowMark, At, Accepting
  <2>2. escrowPaid \subseteq escrowPaid' /\ escrowPaid' \subseteq Jobs /\ onChainSettled' \subseteq Jobs
    BY <1>3, <1>8, <2>1 DEF EscrowRelease, EscrowMark, CreditTyped
  <2>3. CreditTyped' /\ Grows
    BY <1>3, <1>5, <2>1, <2>2 DEF CreditTyped, Grows, moneyVars, fundVars, settleVars
  <2>4. PICK s \in {"mark", "attest"} : Goto(p, s) /\ (s = "mark" => me.job \in escrowPaid')
    BY <1>8 DEF EscrowRelease, EscrowMark
  <2>5. s \in Steps
    BY DEF Steps
  <2>6. ProcOK(p)'
    BY <1>6, <2>1, <2>4, <2>5 DEF ProcOK, Serving, Accepting, settleVars
  <2>7. UNCHANGED <<scene, alone, syncs, applied, again>>
    BY <2>1 DEF Quiet, Calm
  <2> QED BY <1>3, <1>4, <1>6, <2>1, <2>3, <2>4, <2>5, <2>6, <2>7, WriteStep
<1>9. ASSUME RefundWrite(p) PROVE RequestsInv'
  <2> DEFINE back == me.seen
  <2>1. me.op = "reject" /\ Rejecting(me) /\ reserve # {} /\ back \in Nat
    BY <1>1, <1>9, Zenon DEF RefundWrite, At, Rejecting, ProcType
  <2>2. /\ account' = [account EXCEPT !["poster"] = @ + back]
        /\ ledger' = [ledger EXCEPT !["rejection_refund"] = @ + back]
    BY <1>9, Zenon DEF RefundWrite
  <2>3. reserve' = {[r EXCEPT !.reserved = @ + back, !.status = "active"] : r \in reserve}
    BY <1>9, Zenon DEF RefundWrite
  <2>4. /\ UNCHANGED <<job, syncs, fundVars, escrowVars, settleVars>> /\ Quiet
        /\ proc' = [proc EXCEPT ![p] = Idle]
    BY <1>9, Zenon DEF RefundWrite, Finish
  <2> HIDE DEF back
  <2>5. PICK old \in RowType : reserve = {old}
    BY <1>3, <2>1 DEF CreditTyped
  <2>6. \E row \in RowType : reserve' = {row}
    <3> DEFINE new == [old EXCEPT !.reserved = @ + back, !.status = "active"]
    <3>1. new \in RowType
      <4>1. old.reserved + back \in Nat
        BY <2>1 DEF RowType
      <4> QED BY <4>1, RowMoves, Zenon
    <3>2. reserve' = {new}
      BY <2>3, <2>5
    <3> HIDE DEF new
    <3> QED BY <3>1, <3>2
  <2>7. account' \in [Payees \cup {"poster"} -> Int] /\ \A a \in Payees : account'[a] >= 0
    BY <1>3, <2>1, <2>2 DEF CreditTyped, Payees
  <2>8. ledger' \in [EntryTypes -> Int]
    BY <1>3, <2>1, <2>2 DEF CreditTyped, EntryTypes
  <2>9. CreditTyped'
    BY <1>3, <2>4, <2>6, <2>7, <2>8 DEF CreditTyped, fundVars, escrowVars, settleVars
  <2>10. Grows
    BY <1>3, <1>5, <2>4, <2>6 DEF Grows, escrowVars, settleVars
  <2>11. ProcOK(p)'
    BY <1>1, <2>4 DEF ProcOK, Serving, RequestsTyped
  <2>12. UNCHANGED <<scene, alone, syncs, applied, again>>
    BY <2>4 DEF Quiet, Calm
  <2> QED BY <1>2, <1>3, <1>4, <2>4, <2>9, <2>10, <2>11, <2>12, WriteStep
<1> QED BY <1>7, <1>8, <1>9

\* A total over the jobs is the sum over the set of them.
LEMMA TotalIsSum ==
    ASSUME NEW f \in [Jobs -> Nat]
    PROVE  Total(f) = SumFunctionOnSet(f, Jobs) /\ Total(f) \in Nat
<1>1. Total(f) = SumFunctionOnSet(f, Jobs)
  BY Zenon DEF Total, SumFunctionOnSet, FoldFunction, FoldFunctionOnSet
<1>2. SumFunctionOnSet(f, Jobs) \in Nat
  BY JobsAssumption, SumOfNaturals
<1> QED BY <1>1, <1>2

\* RejectPayload, ReportRead, HookStatus: the steps of reports and events that only
\* read, or write a job.
LEMMA SyncReadStep ==
    ASSUME RequestsInv, NEW p \in Requests, UNCHANGED creditVars,
           RejectPayload(p) \/ ReportRead(p) \/ HookStatus(p)
    PROVE  RequestsInv'
<1> DEFINE me == proc[p]
<1>1. /\ me \in ProcType /\ Serving(me) /\ RequestsTyped
      /\ me.op = "sync" => Syncing(me)
      /\ me.op = "hook" => Hooked(me)
  BY InHand
<1>2. Idle \in ProcType /\ Serving(Idle) /\ Idle.op = "idle"
  <2>1. {} \in SUBSET RowType
    OBVIOUS
  <2> QED BY <2>1 DEF ProcType, Idle, Ops, Steps, Serving
<1>3. ASSUME Finish(p), UNCHANGED <<syncs, syncVars>>, Quiet, job' \in [Jobs -> JobStatuses]
      PROVE  RequestsInv'
  BY <1>2, <1>3, ReadStep DEF Finish, Quiet, Calm
<1>4. job' = job => job' \in [Jobs -> JobStatuses]
  BY <1>1 DEF RequestsTyped
<1>5. ASSUME RejectPayload(p) PROVE RequestsInv'
  BY <1>3, <1>4, <1>5 DEF RejectPayload
<1>6. ASSUME ReportRead(p) PROVE RequestsInv'
  <2>1. /\ me.op = "sync" /\ me.step = "apply" /\ me.event = "accepted_submission_attested"
        /\ UNCHANGED <<job, syncs, syncVars>> /\ Quiet
    BY <1>6 DEF ReportRead, Applying, At
  <2>2. CASE Finish(p)
    BY <1>3, <1>4, <2>1, <2>2
  <2>3. CASE proc' = [proc EXCEPT ![p].step = "count", ![p].seen = accepted]
    <3> DEFINE r == [me EXCEPT !.step = "count", !.seen = accepted]
    <3>1. accepted \in Nat
      BY DEF RequestsInv, Typed, SyncTyped
    <3>2. r \in ProcType /\ r.op = "sync" /\ r.tx = me.tx /\ r.event = me.event
          /\ r.step = "count" /\ r.job = me.job
      BY <1>1, <2>1, <3>1 DEF ProcType, Steps
    <3>3. proc' = [proc EXCEPT ![p] = r]
      BY <1>1, <2>3 DEF RequestsTyped
    <3> HIDE DEF r
    <3>4. Serving(r) /\ Pending(p)
      BY <1>1, <2>1, <3>2 DEF Serving, Syncing, Pending
    <3>5. UNCHANGED <<scene, alone, syncs, applied, again>>
      BY <2>1 DEF Quiet, Calm
    <3> QED BY <1>4, <2>1, <3>2, <3>3, <3>4, <3>5, ReadStep
  <2> QED BY <1>6, <2>2, <2>3 DEF ReportRead
<1>7. ASSUME HookStatus(p) PROVE RequestsInv'
  <2>1. DisputeStatus[me.step] \in JobStatuses
    BY <1>7 DEF HookStatus, DisputeStatus, JobStatuses
  <2>2. job' \in [Jobs -> JobStatuses]
    BY <1>1, <1>7, <2>1 DEF HookStatus, RequestsTyped
  <2> QED BY <1>3, <1>7, <2>2 DEF HookStatus
<1> QED BY <1>5, <1>6, <1>7

\* Reserve, InsertRelease, MarkSettled, ReportCount, Attest: those that write the
\* tables of the chain.
LEMMA SyncWriteStep ==
    ASSUME RequestsInv, NEW p \in Requests, UNCHANGED creditVars,
           Reserve(p) \/ InsertRelease(p) \/ MarkSettled(p) \/ ReportCount(p) \/ Attest(p)
    PROVE  RequestsInv'
<1> DEFINE me == proc[p]
<1>1. /\ me \in ProcType /\ Serving(me) /\ RequestsTyped
      /\ me.op = "sync" => Syncing(me)
      /\ me.op = "hook" => Hooked(me)
      /\ me.op = "accept" => Accepting(me)
  BY InHand
<1>2. Idle \in ProcType /\ Serving(Idle) /\ Idle.op = "idle"
  <2>1. {} \in SUBSET RowType
    OBVIOUS
  <2> QED BY <2>1 DEF ProcType, Idle, Ops, Steps, Serving
<1>3. /\ CreditTyped /\ SyncTyped /\ CreditTyped' /\ escrowPaid \subseteq escrowPaid'
      /\ \A j \in Jobs : settles'[j] >= settles[j]
      /\ reserve # {} => reserve' # {}
  BY TablesKept DEF RequestsInv, Typed
<1>4. job' = job => job' \in [Jobs -> JobStatuses]
  BY <1>1 DEF RequestsTyped
<1>5. ASSUME UNCHANGED <<reputationVars, releases, arcVars>> PROVE SyncTyped' /\ Grows
  BY <1>3, <1>5 DEF SyncTyped, Grows, reputationVars, arcVars
<1>6. ASSUME Reserve(p) PROVE RequestsInv'
  <2>1. me.op = "sync" /\ me.step = "apply" /\ Apply(p) /\ Finish(p) /\ UNCHANGED syncs /\ Pending(p)
    BY <1>6 DEF Reserve, Applying, At, Pending
  <2>2. job' \in [Jobs -> JobStatuses]
    BY <1>1, <1>6 DEF Reserve, RequestsTyped, JobStatuses
  <2>3. SyncTyped' /\ Grows
    BY <1>5, <1>6 DEF Reserve
  <2> QED BY <1>3, <2>1, <2>2, <2>3, LastStep
<1>7. ASSUME InsertRelease(p) PROVE RequestsInv'
  <2>1. /\ UNCHANGED <<job, syncs, reputationVars, arcVars>> /\ Quiet
        /\ UNCHANGED <<scene, alone, syncs, applied, again>>
    BY <1>7 DEF InsertRelease, Quiet, Calm
  <2>2. \/ me.op = "sync" /\ me.step = "apply" /\ me.event = "milestone_released" /\ Syncing(me)
        \/ me.op = "hook" /\ Hooked(me)
    BY <1>1, <1>7 DEF InsertRelease, Applying, At
  <2>3. me.job \in Jobs
    BY <2>2 DEF Syncing, Hooked
  <2>4. CASE Finish(p) /\ UNCHANGED releases
    <3>1. SyncTyped' /\ Grows
      BY <1>5, <2>1, <2>4
    <3>2. proc' = [proc EXCEPT ![p] = Idle]
      BY <2>4 DEF Finish
    <3>3. ProcOK(p)'
      BY <1>1, <3>2 DEF ProcOK, Serving, RequestsTyped
    <3> QED BY <1>2, <1>3, <1>4, <2>1, <3>1, <3>2, <3>3, WriteStep
  <2>5. CASE releases' = releases \cup {me.job} /\ Goto(p, "settled")
    <3>1. SyncTyped' /\ Grows /\ me.job \in releases'
      BY <1>3, <2>1, <2>3, <2>5 DEF SyncTyped, Grows, reputationVars, arcVars
    <3> DEFINE r == [me EXCEPT !.step = "settled"]
    <3>2. r \in ProcType /\ r.op = me.op /\ r.tx = me.tx /\ r.event = me.event
          /\ r.step = "settled" /\ r.job = me.job
      BY <1>1 DEF ProcType, Steps
    <3>3. proc' = [proc EXCEPT ![p] = r] /\ proc'[p] = r
      BY <1>1, <2>5 DEF Goto, RequestsTyped
    <3> HIDE DEF r
    <3>4. ProcOK(p)' /\ (r.op \in {"fund", "sync"} => Pending(p))
      BY <2>2, <3>1, <3>2, <3>3 DEF ProcOK, Serving, Syncing, Hooked, Pending
    <3> QED BY <1>3, <1>4, <2>1, <3>1, <3>2, <3>3, <3>4, WriteStep
  <2> QED BY <1>7, <2>4, <2>5 DEF InsertRelease
<1>8. ASSUME MarkSettled(p) PROVE RequestsInv'
  <2>1. /\ me.step = "settled" /\ Finish(p) /\ UNCHANGED syncs
        /\ IF me.op = "sync" THEN Apply(p) ELSE Quiet
        /\ UNCHANGED <<reputationVars, releases, arcVars>>
    BY <1>8 DEF MarkSettled
  <2>2. job' \in [Jobs -> JobStatuses]
    BY <1>1, <1>8 DEF MarkSettled, RequestsTyped, JobStatuses
  <2>3. SyncTyped' /\ Grows
    BY <1>5, <2>1
  <2>4. CASE me.op = "sync"
    <3>1. Pending(p) /\ Apply(p)
      BY <2>1, <2>4 DEF Pending
    <3> QED BY <1>3, <2>1, <2>2, <2>3, <3>1, LastStep
  <2>5. CASE me.op # "sync"
    <3>1. proc' = [proc EXCEPT ![p] = Idle] /\ UNCHANGED <<scene, alone, syncs, applied, again>>
      BY <2>1, <2>5 DEF Finish, Quiet, Calm
    <3>2. ProcOK(p)'
      BY <1>1, <3>1 DEF ProcOK, Serving, RequestsTyped
    <3> QED BY <1>2, <1>3, <2>2, <2>3, <3>1, <3>2, WriteStep
  <2> QED BY <2>4, <2>5
<1>9. ASSUME ReportCount(p) PROVE RequestsInv'
  <2>1. Pending(p) /\ Apply(p) /\ Finish(p) /\ UNCHANGED <<job, syncs>>
    BY <1>9 DEF ReportCount, At, Pending
  <2>2. accepted' \in Nat
    BY <1>1, <1>9 DEF ReportCount, ProcType
  <2>3. SyncTyped' /\ Grows
    BY <1>3, <1>9, <2>2 DEF SyncTyped, Grows, ReportCount, arcVars
  <2> QED BY <1>3, <1>4, <2>1, <2>3, LastStep
<1>10. ASSUME Attest(p) PROVE RequestsInv'
  <2> DEFINE n == Total(attestations) + 1
             new == {Task("reputation", me.job, n), Task("registry", me.job, n)}
  <2>1. me.op = "accept" /\ me.job \in Jobs
    BY <1>1, <1>10 DEF Attest, At, Accepting
  <2>2. n \in Nat
    BY <1>3, TotalIsSum DEF SyncTyped
  <2>3. attestations' = [attestations EXCEPT ![me.job] = @ + 1] /\ tasks' = tasks \cup new
        /\ UNCHANGED <<job, syncs, accepted, nonce, attested, onChainCount, releases, arcVars>>
        /\ proc' = [proc EXCEPT ![p] = Idle] /\ UNCHANGED <<scene, alone, applied, again>>
    BY <1>10 DEF Attest, Finish, Quiet, Calm
  <2> HIDE DEF n
  <2>4. new \subseteq TaskType
    BY <2>1, <2>2 DEF Task, TaskType
  <2>5. IsFiniteSet(tasks \cup new)
    <3> HIDE DEF new
    <3>1. IsFiniteSet(new)
      <4>1. new = {Task("reputation", me.job, n)} \cup {Task("registry", me.job, n)}
        BY DEF new
      <4> QED BY <4>1, FS_Singleton, FS_Union
    <3> QED BY <1>3, <3>1, FS_Union DEF SyncTyped
  <2> HIDE DEF new
  <2>6. attestations' \in [Jobs -> Nat]
    BY <1>3, <2>1, <2>3 DEF SyncTyped
  <2>7. SyncTyped' /\ Grows
    BY <1>3, <2>3, <2>4, <2>5, <2>6 DEF SyncTyped, Grows, arcVars
  <2>8. ProcOK(p)'
    BY <1>1, <2>3 DEF ProcOK, Serving, RequestsTyped
  <2> QED BY <1>2, <1>3, <1>4, <2>3, <2>7, <2>8, WriteStep
<1> QED BY <1>6, <1>7, <1>8, <1>9, <1>10

\* RecordInsert: the index on transaction and event lets one report in, and that
\* one is then its request's to apply.
LEMMA RecordStep ==
    ASSUME RequestsInv, NEW p \in Requests, RecordInsert(p), UNCHANGED <<creditVars, syncVars>>
    PROVE  RequestsInv'
<1> DEFINE me == proc[p]
<1>1. /\ me \in ProcType /\ Serving(me) /\ RequestsTyped
      /\ me.op = "fund" => Funds(me)
      /\ me.op = "sync" => Syncing(me)
  BY InHand
<1>2. me.step = "record" /\ UNCHANGED job /\ UNCHANGED <<scene, alone, applied, again>>
  BY DEF RecordInsert, Quiet, Calm
<1>3. me.op \in {"fund", "sync"}
  BY <1>1, <1>2 DEF Serving, Idle, Accepting, Rejecting, Hooked, HookEvents
<1>4. /\ CreditTyped' /\ SyncTyped' /\ Grows
  BY TablesKept DEF RequestsInv, Typed, Grows
<1>5. job' \in [Jobs -> JobStatuses]
  BY <1>1, <1>2 DEF RequestsTyped
<1>6. CASE Finish(p) /\ UNCHANGED syncs
  <2>1. Idle \in ProcType /\ Serving(Idle) /\ Idle.op = "idle"
    <3>1. {} \in SUBSET RowType
      OBVIOUS
    <3> QED BY <3>1 DEF ProcType, Idle, Ops, Steps, Serving
  <2> QED BY <1>2, <1>5, <1>6, <2>1, ReadStep DEF Finish
<1>7. CASE Row(p) \notin syncs /\ syncs' = syncs \cup {Row(p)} /\ Goto(p, "apply")
  <2>1. "apply" \in Steps
    BY DEF Steps
  <2>2. /\ proc' \in [Requests -> ProcType] /\ proc'[p] = [me EXCEPT !.step = "apply"]
        /\ \A q \in Requests \ {p} : proc'[q] = proc[q]
    BY <1>1, <1>7, <2>1, ProcMoves
  <2>3. Row(p) \in RecordType
    BY <1>1, <1>3 DEF Row, RecordType, Funds, Syncing, SyncEvents
  <2>4. Typed'
    BY <1>1, <1>2, <1>4, <1>5, <1>7, <2>2, <2>3 DEF Typed, RequestsTyped
  <2>5. AppliedOnce'
    BY <1>2, <1>7 DEF RequestsInv, AppliedOnce
  <2>6. /\ proc'[p].op = me.op /\ proc'[p].step = "apply" /\ proc'[p].job = me.job
        /\ proc'[p].event = me.event /\ proc'[p].tx = me.tx /\ proc'[p].valid = me.valid
        /\ proc'[p].amount = me.amount
    BY <1>1, <2>2 DEF ProcType
  <2>7. ProcOK(p)'
    <3>1. releases' = releases
      BY DEF syncVars
    <3> QED BY <1>1, <1>2, <1>3, <2>6, <3>1 DEF ProcOK, Serving, Funds, Syncing
  <2>8. \A q \in Requests : ProcOK(q)'
    BY <1>4, <2>2, <2>4, <2>7, HandsKept DEF RequestsInv
  <2>9. Row(p)' = Row(p) /\ \A q \in Requests \ {p} : Row(q)' = Row(q) /\ (Pending(q)' <=> Pending(q))
    BY <2>2, <2>6 DEF Row, Pending
  <2>10. \A q \in Requests : Pending(q) => Row(q) \in syncs
    BY DEF RequestsInv, OwnRow
  <2>11. Row(p) \notin applied
    BY <1>7 DEF RequestsInv, AppliedOnce
  <2>12. ASSUME NEW q \in Requests PROVE OwnRow(q)'
    BY <1>2, <1>7, <2>9, <2>10, <2>11 DEF RequestsInv, OwnRow
  <2> QED BY <2>4, <2>5, <2>8, <2>12 DEF RequestsInv
<1> QED BY <1>6, <1>7 DEF RecordInsert

\* Failures, restarts, submissions, the calls in the background and the chain: they
\* end requests at most.
LEMMA OtherStep ==
    ASSUME RequestsInv,
           \/ \E p \in Requests : Fail(p) /\ UNCHANGED <<creditVars, syncVars>>
           \/ \E j \in Jobs : SubmitJob(j) /\ UNCHANGED syncVars
           \/ Background /\ UNCHANGED creditVars
           \/ Restart /\ LoseTasks /\ UNCHANGED creditVars
           \/ UNCHANGED vars
    PROVE  RequestsInv'
<1>1. RequestsTyped /\ CreditTyped /\ SyncTyped
  BY DEF RequestsInv, Typed
<1>2. Idle \in ProcType
  <2>1. {} \in SUBSET RowType
    OBVIOUS
  <2> QED BY <2>1 DEF ProcType, Idle, Ops, Steps
<1>3. ASSUME UNCHANGED <<scene, syncs, applied, again, alone>>, job' \in [Jobs -> JobStatuses],
             proc' \in [Requests -> ProcType],
             \A q \in Requests : proc'[q] = proc[q] \/ proc'[q] = Idle,
             CreditTyped', SyncTyped', Grows
      PROVE  RequestsInv'
  <2>1. Typed'
    BY <1>1, <1>3 DEF Typed, RequestsTyped
  <2> QED BY <1>3, <2>1, StillStep
<1>4. job' = job => job' \in [Jobs -> JobStatuses]
  BY <1>1 DEF RequestsTyped
<1>5. proc' = proc => /\ proc' \in [Requests -> ProcType]
                      /\ \A q \in Requests : proc'[q] = proc[q] \/ proc'[q] = Idle
  BY <1>1 DEF RequestsTyped
<1>6. \A j \in Jobs : settles[j] \in Nat /\ submits[j] \in Nat
  BY <1>1 DEF CreditTyped
<1>7. ASSUME NEW p \in Requests, Fail(p), UNCHANGED <<creditVars, syncVars>> PROVE RequestsInv'
  <2>1. UNCHANGED <<scene, job, syncs, applied, again, alone>> /\ Finish(p)
    BY <1>7 DEF Fail
  <2>2. /\ proc' \in [Requests -> ProcType]
        /\ \A q \in Requests : proc'[q] = proc[q] \/ proc'[q] = Idle
    BY <1>1, <2>1, ProcMoves
  <2>3. CreditTyped' /\ SyncTyped' /\ Grows
    BY <1>1, <1>7, TablesKept DEF Grows
  <2> QED BY <1>3, <1>4, <2>1, <2>2, <2>3
<1>8. ASSUME NEW j \in Jobs, SubmitJob(j), UNCHANGED syncVars PROVE RequestsInv'
  <2>1. UNCHANGED <<scene, syncs, proc, applied, again, alone>>
        /\ job' = [job EXCEPT ![j] = "submitted"]
        /\ submits' = [submits EXCEPT ![j] = @ + 1]
        /\ UNCHANGED <<moneyVars, fundVars, escrowVars, settles, lapsed>>
    BY <1>8 DEF SubmitJob, Submit
  <2>2. job' \in [Jobs -> JobStatuses] /\ submits' \in [Jobs -> Nat]
    BY <1>1, <1>6, <2>1 DEF RequestsTyped, CreditTyped, JobStatuses
  <2>3. SyncTyped' /\ releases \subseteq releases'
    BY <1>1, <1>8, TablesKept
  <2>4. CreditTyped' /\ Grows
    BY <1>1, <1>6, <2>1, <2>2, <2>3 DEF CreditTyped, Grows, moneyVars, fundVars, escrowVars
  <2> QED BY <1>3, <1>5, <2>1, <2>2, <2>3, <2>4
<1>9. ASSUME UNCHANGED creditVars, SyncTyped', releases' = releases
      PROVE  CreditTyped' /\ Grows
  BY <1>1, <1>9, TablesKept DEF Grows
<1>10. ASSUME NEW t \in tasks, TaskRead(t), UNCHANGED creditVars PROVE RequestsInv'
  <2> DEFINE u == [t EXCEPT !.step = "write",
                            !.seen = IF t.kind = "reputation" THEN accepted ELSE nonce]
  <2>1. t \in TaskType /\ accepted \in Nat /\ nonce \in Nat
    BY <1>1 DEF SyncTyped
  <2>2. u \in TaskType
    BY <2>1 DEF TaskType
  <2>3. tasks' = (tasks \ {t}) \cup {u}
        /\ UNCHANGED <<requestVars, attestations, accepted, nonce, attested, onChainCount, releases,
                       arcVars>>
    BY <1>10 DEF TaskRead
  <2> HIDE DEF u
  <2>4. IsFiniteSet(tasks') /\ tasks' \subseteq TaskType
    BY <1>1, <2>2, <2>3, FS_RemoveElement, FS_AddElement DEF SyncTyped
  <2>5. SyncTyped'
    BY <1>1, <2>3, <2>4 DEF SyncTyped, arcVars
  <2> QED BY <1>3, <1>4, <1>5, <1>9, <1>10, <2>3, <2>5 DEF requestVars
<1>11. ASSUME NEW t \in tasks, ReputationWrite(t) \/ RegistrySend(t), UNCHANGED creditVars
       PROVE  RequestsInv'
  <2>1. t \in TaskType /\ accepted \in Nat /\ nonce \in Nat
    BY <1>1 DEF SyncTyped
  <2>2. tasks' = tasks \ {t} /\ UNCHANGED <<requestVars, attestations, releases, arcVars>>
    BY <1>11 DEF ReputationWrite, RegistrySend
  <2>3. accepted' \in Nat
    BY <1>11, <2>1 DEF ReputationWrite, RegistrySend, TaskType
  <2>4. nonce' \in Nat /\ onChainCount' \in Nat /\ attested' \subseteq Jobs /\ IsFiniteSet(attested')
    <3>1. CASE UNCHANGED <<nonce, attested, onChainCount>>
      BY <1>1, <3>1 DEF SyncTyped
    <3>2. CASE nonce' = t.seen + 1 /\ attested' = attested \cup {t.job} /\ onChainCount' = onChainCount + 1
      BY <1>1, <2>1, <3>2, FS_AddElement DEF SyncTyped, TaskType
    <3> QED BY <1>11, <3>1, <3>2 DEF ReputationWrite, RegistrySend, RecordSubmission
  <2>5. IsFiniteSet(tasks') /\ tasks' \subseteq TaskType
    BY <1>1, <2>2, FS_RemoveElement DEF SyncTyped
  <2>6. SyncTyped'
    BY <1>1, <2>2, <2>3, <2>4, <2>5 DEF SyncTyped, arcVars
  <2> QED BY <1>3, <1>4, <1>5, <1>9, <1>11, <2>2, <2>6 DEF requestVars
<1>12. ASSUME NEW j \in Jobs, MilestoneStep(j), UNCHANGED creditVars PROVE RequestsInv'
  <2>1. UNCHANGED <<requestVars, reputationVars, releases>>
        /\ \E e \in HookEvents : emitted' = emitted \cup {<<j, e>>}
    BY <1>12 DEF MilestoneStep, Emit, HookEvents
  <2>2. SyncTyped'
    BY <1>1, <2>1 DEF SyncTyped, reputationVars
  <2> QED BY <1>3, <1>4, <1>5, <1>9, <1>12, <2>1, <2>2 DEF requestVars
<1>13. ASSUME Restart, LoseTasks, UNCHANGED creditVars PROVE RequestsInv'
  <2>1. UNCHANGED <<scene, job, syncs, applied, again, alone>>
        /\ proc' = [p \in Requests |-> Idle]
    BY <1>13 DEF Restart
  <2>2. SyncTyped' /\ releases' = releases
    BY <1>1, <1>13, FS_EmptySet DEF SyncTyped, LoseTasks, arcVars
  <2> QED BY <1>2, <1>3, <1>4, <1>9, <1>13, <2>1, <2>2
<1>14. ASSUME UNCHANGED vars PROVE RequestsInv'
  <2>1. UNCHANGED requestVars /\ UNCHANGED creditVars /\ UNCHANGED syncVars
    BY <1>14 DEF vars
  <2>2. SyncTyped' /\ releases' = releases
    BY <1>1, <2>1, TablesKept DEF syncVars
  <2> QED BY <1>3, <1>4, <1>5, <1>9, <2>1, <2>2 DEF requestVars
<1> QED BY <1>7, <1>8, <1>10, <1>11, <1>12, <1>13, <1>14 DEF Background

\* At the start nobody has asked anything.
LEMMA InitRequests == Init => RequestsInv
<1> SUFFICES ASSUME Init PROVE RequestsInv
  OBVIOUS
<1> USE DEF Init, RequestsInit, CreditInit, SyncInit
<1>1. \A p \in Requests : proc[p] = Idle
  OBVIOUS
<1>2. Idle \in ProcType
  <2>1. {} \in SUBSET RowType
    OBVIOUS
  <2> QED BY <2>1 DEF ProcType, Idle, Ops, Steps
<1>3. RequestsTyped
  BY <1>2, FS_EmptySet DEF RequestsTyped, JobStatuses
<1>4. CreditTyped
  BY DEF CreditTyped, NoReserve, Payees, EntryTypes
<1>5. SyncTyped
  BY FS_EmptySet DEF SyncTyped
<1>6. \A p \in Requests : ProcOK(p) /\ OwnRow(p)
  BY <1>1 DEF ProcOK, Serving, OwnRow, Pending, Idle
<1> QED BY <1>3, <1>4, <1>5, <1>6 DEF RequestsInv, Typed, AppliedOnce

\* Every step keeps what requests have in their hands.
LEMMA RequestsStep ==
    ASSUME RequestsInv, [Next]_vars
    PROVE  RequestsInv'
<1>1. ASSUME NEW p \in Requests, Arrive(p) PROVE RequestsInv'
  BY <1>1, CreditCallStep, SyncCallStep DEF Arrive
<1>2. ASSUME NEW p \in Requests, Serve(p) PROVE RequestsInv'
  <2>1. CASE CreditStep(p) /\ UNCHANGED syncVars
    BY <2>1, CreditReadStep, FundWriteStep, PayStep DEF CreditStep
  <2>2. CASE SyncStep(p) /\ UNCHANGED creditVars
    BY <2>2, SyncReadStep, SyncWriteStep DEF SyncStep
  <2>3. CASE RecordInsert(p) /\ UNCHANGED <<creditVars, syncVars>>
    BY <2>3, RecordStep
  <2>4. CASE Fail(p) /\ UNCHANGED <<creditVars, syncVars>>
    BY <2>4, OtherStep
  <2> QED BY <1>2, <2>1, <2>2, <2>3, <2>4 DEF Serve
<1> QED BY <1>1, <1>2, OtherStep DEF Next

\* Whatever requests arrive, fail or are lost, RequestsInv holds: no row is applied
\* twice (recordChainSync).
LEMMA RequestsAlways == Spec => []RequestsInv
<1> QED BY InitRequests, RequestsStep, PTL DEF Spec

\* Tables keep their types and no payee's balance is negative, however requests
\* interleave, fail or are lost (db/migrate.ts, tokenomicsService.ts 267-377).
THEOREM BrokerTyped == Spec => []BrokerTypeOK
<1>1. RequestsInv => BrokerTypeOK
  <2> SUFFICES ASSUME RequestsInv PROVE BrokerTypeOK
    OBVIOUS
  <2> USE DEF RequestsInv, Typed
  <2>1. Cardinality(reserve) <= 1
    <3>1. CASE reserve = {}
      BY <3>1, FS_EmptySet
    <3>2. ASSUME NEW row \in RowType, reserve = {row} PROVE Cardinality(reserve) <= 1
      <4>1. Cardinality({row}) = 1
        BY FS_Singleton
      <4> QED BY <3>2, <4>1
    <3> QED BY <3>1, <3>2 DEF CreditTyped
  <2>2. \A row \in reserve : row.status \in {"active", "settled"} /\ row.reserved >= 0
                            /\ row.stable > 0 /\ row.minted > 0
    BY DEF CreditTyped, RowType
  <2>3. CreditTypeOK
    BY <2>1, <2>2 DEF CreditTyped, CreditTypeOK
  <2>4. SyncTypeOK
    BY DEF SyncTyped, SyncTypeOK, TaskType
  <2> QED BY <2>3, <2>4 DEF BrokerTypeOK
<1> QED BY <1>1, RequestsAlways, PTL

-----------------------------------------------------------------------------
(* Money *)

\* The steps that change no amount.
MoneyStill ==
    /\ UNCHANGED <<moneyVars, escrowVars, settles, lapsed>>
    /\ applied \subseteq applied'

\* Amounts are changed by FundMint, SettleWrite, RefundWrite and the marks of the
\* escrow, by no other step.
LEMMA WhoMovesMoney ==
    ASSUME [Next]_vars
    PROVE  \/ MoneyStill
           \/ \E p \in Requests :
                /\ UNCHANGED syncVars
                /\ \/ FundMint(p) \/ RefundWrite(p) \/ EscrowRelease(p) \/ EscrowMark(p)
                   \/ \E rebate, referred \in BOOLEAN : SettleWrite(p, rebate, referred)
<1> USE DEF MoneyStill, Calm, Quiet
<1>1. UNCHANGED creditVars /\ applied \subseteq applied' => MoneyStill
  BY DEF creditVars, settleVars
<1>2. ASSUME NEW p \in Requests, NEW r, Begin(p, r), UNCHANGED creditVars PROVE MoneyStill
  BY <1>1, <1>2 DEF Begin
<1>3. ASSUME NEW p \in Requests, Arrive(p) PROVE MoneyStill
  <2>1. CASE CreditCall(p)
    BY <2>1, <1>2, Zenon DEF CreditCall, FundRead, CancelRead, AcceptRead, RejectRead
  <2>2. CASE SyncCall(p) /\ UNCHANGED creditVars
    BY <2>2, <1>2, Zenon DEF SyncCall, SyncRead, Deliver
  <2> QED BY <1>3, <2>1, <2>2 DEF Arrive
<1>4. ASSUME NEW p \in Requests, SyncStep(p), UNCHANGED creditVars PROVE MoneyStill
  <2>1. applied \subseteq applied'
    BY <1>4 DEF SyncStep, RejectPayload, Reserve, InsertRelease, MarkSettled, ReportRead,
                ReportCount, HookStatus, Attest, Apply
  <2> QED BY <1>1, <1>4, <2>1
<1>5. ASSUME NEW p \in Requests,
             \/ MarkFunded(p) \/ FundQuote(p) \/ CancelWrite(p)
             \/ AcceptJob(p) \/ SettleGuard(p) \/ SettleRead(p)
             \/ RejectJob(p) \/ RefundRead(p)
      PROVE  MoneyStill
  <2>1. applied \subseteq applied'
    BY <1>5 DEF MarkFunded, FundQuote, CancelWrite, AcceptJob, SettleGuard, SettleRead,
                RejectJob, RefundRead, Apply
  <2>2. UNCHANGED <<moneyVars, escrowVars, settleVars>>
    BY <1>5 DEF MarkFunded, FundQuote, CancelWrite, AcceptJob, SettleGuard, SettleRead,
                RejectJob, RefundRead, creditVars
  <2> QED BY <2>1, <2>2 DEF settleVars
<1>6. ASSUME NEW p \in Requests, RecordInsert(p) \/ Fail(p), UNCHANGED creditVars PROVE MoneyStill
  BY <1>1, <1>6 DEF RecordInsert, Fail
<1>7. ASSUME NEW j \in Jobs, SubmitJob(j) PROVE MoneyStill
  BY <1>7 DEF SubmitJob, Submit
<1>8. ASSUME Background, UNCHANGED creditVars PROVE MoneyStill
  <2>1. UNCHANGED applied
    BY <1>8, Zenon DEF Background, TaskRead, ReputationWrite, RegistrySend, MilestoneStep, Emit, requestVars
  <2> QED BY <1>1, <1>8, <2>1
<1>9. ASSUME Restart, UNCHANGED creditVars PROVE MoneyStill
  BY <1>1, <1>9 DEF Restart
<1>10. ASSUME UNCHANGED vars PROVE MoneyStill
  BY <1>1, <1>10 DEF vars, requestVars
<1> QED BY <1>3, <1>4, <1>5, <1>6, <1>7, <1>8, <1>9, <1>10 DEF Next, Serve, CreditStep

\* The difference between what settlements debited and what they paid.
Difference ==
    ledger["worker_payout"] + ledger["protocol_fee"] + ledger["staker_yield_pool"]
    + lapsed + ledger["settlement_debit"]

\* One more settlement of one job.
LEMMA OneMoreSettled ==
    ASSUME settles \in [Jobs -> Nat], NEW j \in Jobs, settles' = [settles EXCEPT ![j] = @ + 1]
    PROVE  SettledTimes \in Nat /\ SettledTimes' = SettledTimes + 1
<1> DEFINE f == settles
           g == [settles EXCEPT ![j] = @ + 1]
<1>1. f \in [Jobs -> Nat] /\ g \in [Jobs -> Nat]
  OBVIOUS
<1>8. g[j] = f[j] + 1 /\ \A k \in Jobs \ {j} : g[k] = f[k]
  OBVIOUS
<1> HIDE DEF f, g
<1>2. SumFunctionOnSet(g, Jobs) = SumFunctionOnSet(f, Jobs) - f[j] + g[j]
  <2>1. \A k \in Jobs : f[k] \in Int /\ g[k] \in Int
    <3>1. ASSUME NEW k \in Jobs PROVE f[k] \in Nat /\ g[k] \in Nat
      BY <1>1
    <3> QED BY <3>1
  <2> QED BY <1>8, <2>1, JobsAssumption, SumOfOneChange
<1>3. Total(f) = SumFunctionOnSet(f, Jobs) /\ Total(f) \in Nat /\ Total(g) = SumFunctionOnSet(g, Jobs)
  BY <1>1, TotalIsSum
<1>4. f[j] \in Nat
  BY <1>1
<1>5. Total(g) = Total(f) + 1
  BY <1>8, <1>2, <1>3, <1>4
<1>6. SettledTimes = Total(f)
  BY DEF SettledTimes, f
<1>7. SettledTimes' = Total(g)
  BY DEF SettledTimes, g
<1> QED BY <1>3, <1>5, <1>6, <1>7

\* The invariant of the amounts, step by step.
LEMMA MoneyStep ==
    ASSUME RequestsInv, MoneyInv, [Next]_vars
    PROVE  MoneyInv'
<1>1. CreditTyped /\ RequestsTyped
  BY DEF RequestsInv, Typed
<1>2. /\ \A t \in EntryTypes : ledger[t] \in Int
      /\ \A a \in Payees \cup {"poster"} : account[a] \in Int
      /\ DOMAIN account = Payees \cup {"poster"} /\ DOMAIN ledger = EntryTypes
  BY <1>1 DEF CreditTyped
<1>3. CASE MoneyStill
  <2>1. UNCHANGED <<account, reserve, ledger, escrowPaid, onChainSettled, settles, lapsed>>
    BY <1>3 DEF MoneyStill, moneyVars, escrowVars
  <2>2. AccountsMatchLedger' /\ SplitsAddUp' /\ MarkedWasPaid'
    BY <2>1 DEF MoneyInv, AccountsMatchLedger, SplitsAddUp, MarkedWasPaid, SettledTimes
  <2>3. MintedForFunding'
    BY <1>3, <2>1 DEF MoneyInv, MintedForFunding, MoneyStill
  <2> QED BY <2>1, <2>2, <2>3 DEF MoneyInv
<1>4. ASSUME NEW p \in Requests, FundMint(p) PROVE MoneyInv'
  <2> DEFINE minted == proc[p].seen
  <2>1. proc[p].op = "fund" /\ Funds(proc[p]) /\ minted \in Nat
    BY <1>4, InHand, Zenon DEF FundMint, At, ProcType
  <2>2. /\ account' = [account EXCEPT !["poster"] = @ + minted]
        /\ ledger' = [ledger EXCEPT !["mint"] = @ + minted, !["reserve"] = @ - minted]
    BY <1>4, Zenon DEF FundMint
  <2>3. UNCHANGED <<escrowVars, settleVars>> /\ Apply(p)
    BY <1>4, Zenon DEF FundMint
  <2>4. reserve' # {}
    BY <1>4, Zenon DEF FundMint, NoReserve
  <2> HIDE DEF minted
  <2>5. AccountsMatchLedger'
    BY <1>2, <2>1, <2>2 DEF MoneyInv, AccountsMatchLedger, Payees, EntryTypes
  <2>6. SplitsAddUp'
    BY <1>2, <2>1, <2>2, <2>3 DEF MoneyInv, SplitsAddUp, SettledTimes, EntryTypes, settleVars
  <2>7. MarkedWasPaid'
    BY <2>3 DEF MoneyInv, MarkedWasPaid, escrowVars, settleVars
  <2>8. MintedForFunding'
    BY <2>1, <2>3 DEF MintedForFunding, Apply, Funds, Row
  <2> QED BY <2>4, <2>5, <2>6, <2>7, <2>8 DEF MoneyInv
<1>5. ASSUME NEW p \in Requests, RefundWrite(p) PROVE MoneyInv'
  <2> DEFINE back == proc[p].seen
  <2>1. proc[p].op = "reject" /\ Rejecting(proc[p]) /\ reserve # {} /\ back \in Nat
    BY <1>5, InHand, Zenon DEF RefundWrite, At, ProcType, Rejecting
  <2>2. /\ account' = [account EXCEPT !["poster"] = @ + back]
        /\ ledger' = [ledger EXCEPT !["rejection_refund"] = @ + back]
    BY <1>5, Zenon DEF RefundWrite
  <2>3. UNCHANGED <<escrowVars, settleVars>> /\ UNCHANGED applied
    BY <1>5, Zenon DEF RefundWrite, Quiet
  <2>4. reserve' # {}
    BY <1>5, <2>1, Zenon DEF RefundWrite
  <2> HIDE DEF back
  <2>5. AccountsMatchLedger'
    BY <1>2, <2>1, <2>2 DEF MoneyInv, AccountsMatchLedger, Payees, EntryTypes
  <2>6. SplitsAddUp'
    BY <1>2, <2>1, <2>2, <2>3 DEF MoneyInv, SplitsAddUp, SettledTimes, EntryTypes, settleVars
  <2>7. MarkedWasPaid'
    BY <2>3 DEF MoneyInv, MarkedWasPaid, escrowVars, settleVars
  <2>8. MintedForFunding'
    BY <2>1, <2>3 DEF MoneyInv, MintedForFunding, NoReserve
  <2> QED BY <2>4, <2>5, <2>6, <2>7, <2>8 DEF MoneyInv
<1>6. ASSUME NEW p \in Requests, EscrowRelease(p) \/ EscrowMark(p) PROVE MoneyInv'
  <2>1. proc[p].op = "accept" /\ Accepting(proc[p])
    BY <1>6, InHand DEF EscrowRelease, EscrowMark, At
  <2>2. UNCHANGED <<account, reserve, ledger, settles, lapsed, applied>>
    BY <1>6 DEF EscrowRelease, EscrowMark, moneyVars, settleVars, Quiet
  <2>3. MarkedWasPaid'
    BY <1>6, <2>1, <2>2 DEF MoneyInv, MarkedWasPaid, EscrowRelease, EscrowMark, At, Accepting
  <2>4. AccountsMatchLedger' /\ SplitsAddUp'
    BY <2>2 DEF MoneyInv, AccountsMatchLedger, SplitsAddUp, SettledTimes
  <2>5. MintedForFunding'
    BY <2>2 DEF MoneyInv, MintedForFunding
  <2> QED BY <2>2, <2>3, <2>4, <2>5 DEF MoneyInv
<1>7. ASSUME NEW p \in Requests, NEW rebate \in BOOLEAN, NEW referred \in BOOLEAN,
             SettleWrite(p, rebate, referred)
      PROVE  MoneyInv'
  <2>1. PICK row \in RowType, now \in RowType, gross \in Nat :
           /\ SettlesFrom(p, row, now, gross, Split(gross, rebate, referred))
           /\ \E new \in RowType : reserve' = {new}
    BY <1>7, SettleAmounts
  <2> DEFINE split == Split(gross, rebate, referred)
             w == split.worker
             f == split.treasury
             y == split.staker_yield_pool
             l == split.lapsed
  <2>2. /\ w \in Nat /\ f \in Nat /\ y \in Nat /\ l \in Nat
        /\ w + f + y + l - gross \in -1..1
    <3>1. w \in Nat /\ f \in Nat /\ y \in Nat /\ l \in Nat
      BY SplitFits
    <3>2. w + f + y + l - gross \in -1..1
      BY SplitFits, SMTT(30)
    <3> QED BY <3>1, <3>2
  <2>3. /\ account' = [a \in DOMAIN account |->
                          account[a] + IF a = "poster" THEN -gross ELSE split[a]]
        /\ ledger' = [ledger EXCEPT !["settlement_debit"] = @ - gross, !["worker_payout"] = @ + w,
                                    !["protocol_fee"] = @ + f, !["staker_yield_pool"] = @ + y]
        /\ lapsed' = lapsed + l /\ reserve # {} /\ reserve' # {}
    BY <2>1 DEF SettlesFrom
  <2>4. /\ account'["poster"] = account["poster"] - gross
        /\ account'["worker"] = account["worker"] + w
        /\ account'["treasury"] = account["treasury"] + f
        /\ account'["staker_yield_pool"] = account["staker_yield_pool"] + y
    <3> HIDE DEF split
    <3> QED BY <1>2, <2>3 DEF Payees
  <2> HIDE DEF w, f, y, l, split
  <2>5. /\ ledger'["settlement_debit"] = ledger["settlement_debit"] - gross
        /\ ledger'["worker_payout"] = ledger["worker_payout"] + w
        /\ ledger'["protocol_fee"] = ledger["protocol_fee"] + f
        /\ ledger'["staker_yield_pool"] = ledger["staker_yield_pool"] + y
        /\ ledger'["mint"] = ledger["mint"] /\ ledger'["reserve"] = ledger["reserve"]
        /\ ledger'["rejection_refund"] = ledger["rejection_refund"]
    BY <1>2, <2>3 DEF EntryTypes
  <2>6. /\ account["poster"] \in Int /\ account["worker"] \in Int /\ account["treasury"] \in Int
        /\ account["staker_yield_pool"] \in Int /\ lapsed \in Int
        /\ ledger["settlement_debit"] \in Int /\ ledger["worker_payout"] \in Int
        /\ ledger["protocol_fee"] \in Int /\ ledger["staker_yield_pool"] \in Int
        /\ ledger["mint"] \in Int /\ ledger["reserve"] \in Int /\ ledger["rejection_refund"] \in Int
    BY <1>1, <1>2 DEF Payees, EntryTypes, CreditTyped
  <2>7. AccountsMatchLedger'
    BY <2>2, <2>4, <2>5, <2>6 DEF MoneyInv, AccountsMatchLedger
  <2>8. /\ proc[p].job \in Jobs /\ settles' = [settles EXCEPT ![proc[p].job] = @ + 1]
        /\ UNCHANGED escrowVars /\ UNCHANGED applied
    BY <1>7, InHand DEF SettleWrite, At, Accepting, Quiet
  <2>9. settles \in [Jobs -> Nat]
    BY <1>1 DEF CreditTyped
  <2>10. SettledTimes \in Nat /\ SettledTimes' = SettledTimes + 1
    BY <2>8, <2>9, OneMoreSettled
  <2>11. Difference \in Int /\ Difference' - Difference \in -1..1
    BY <2>2, <2>3, <2>5, <2>6 DEF Difference
  <2>12. Difference <= SettledTimes /\ Difference >= -SettledTimes
    BY DEF MoneyInv, SplitsAddUp, Difference
  <2>13. SplitsAddUp'
    <3>1. Difference' \in Int
      BY <2>2, <2>3, <2>5, <2>6 DEF Difference
    <3>2. \A a, b \in Int, n \in Nat : b - a \in -1..1 /\ a <= n /\ a >= -n
                                        => b <= n + 1 /\ b >= -(n + 1)
      OBVIOUS
    <3>3. Difference' <= SettledTimes' /\ Difference' >= -SettledTimes'
      BY <2>10, <2>11, <2>12, <3>1, <3>2
    <3> QED BY <3>3 DEF SplitsAddUp, Difference
  <2>14. MarkedWasPaid'
    BY <2>8, <2>9 DEF MoneyInv, MarkedWasPaid, escrowVars
  <2>15. MintedForFunding'
    BY <2>3, <2>8 DEF MoneyInv, MintedForFunding, NoReserve
  <2> QED BY <2>3, <2>7, <2>13, <2>14, <2>15 DEF MoneyInv
<1> QED BY <1>3, <1>4, <1>5, <1>6, <1>7, WhoMovesMoney

-----------------------------------------------------------------------------
(* Reputation and the registry *)

\* The steps that count nothing: a request may read the count it will add to.
CountsStill ==
    /\ UNCHANGED reputationVars /\ applied \subseteq applied'
    /\ \A p \in Requests : At(p, "sync", "count")' =>
          \/ At(p, "sync", "count") /\ proc'[p].seen = proc[p].seen
          \/ proc'[p].seen = accepted

\* Moves of a request that do not lead to "count".
LEMMA MovesElsewhere ==
    ASSUME RequestsTyped, NEW p \in Requests
    PROVE  /\ Finish(p) => \A q \in Requests : At(q, "sync", "count")' =>
                              At(q, "sync", "count") /\ proc'[q].seen = proc[q].seen
           /\ \A s \in Steps \ {"count"} : Goto(p, s) =>
                \A q \in Requests : At(q, "sync", "count")' =>
                              At(q, "sync", "count") /\ proc'[q].seen = proc[q].seen
           /\ \A r : proc' = [proc EXCEPT ![p] = r] /\ r.step # "count" =>
                \A q \in Requests : At(q, "sync", "count")' =>
                              At(q, "sync", "count") /\ proc'[q].seen = proc[q].seen
<1> USE DEF At
<1>1. ASSUME NEW r, proc' = [proc EXCEPT ![p] = r], r.step # "count"
      PROVE  \A q \in Requests : At(q, "sync", "count")' =>
                              At(q, "sync", "count") /\ proc'[q].seen = proc[q].seen
  BY <1>1 DEF RequestsTyped
<1>2. ASSUME Finish(p)
      PROVE  \A q \in Requests : At(q, "sync", "count")' =>
                              At(q, "sync", "count") /\ proc'[q].seen = proc[q].seen
  BY <1>2, <1>1 DEF Finish, Idle
<1>3. ASSUME NEW s \in Steps \ {"count"}, Goto(p, s)
      PROVE  \A q \in Requests : At(q, "sync", "count")' =>
                              At(q, "sync", "count") /\ proc'[q].seen = proc[q].seen
  <2> DEFINE r == [proc[p] EXCEPT !.step = s]
  <2>1. r.step # "count"
    BY DEF RequestsTyped, ProcType
  <2>2. proc' = [proc EXCEPT ![p] = r]
    BY <1>3 DEF RequestsTyped, Goto
  <2> HIDE DEF r
  <2> QED BY <1>1, <2>1, <2>2
<1> QED BY <1>1, <1>2, <1>3

\* Only an attestation, a report of one and the calls in the background count.
LEMMA WhoCounts ==
    ASSUME RequestsTyped, [Next]_vars
    PROVE  \/ CountsStill
           \/ \E p \in Requests : Attest(p) \/ ReportCount(p)
           \/ \E t \in tasks : TaskRead(t) \/ ReputationWrite(t) \/ RegistrySend(t)
           \/ Restart /\ LoseTasks
<1> DEFINE Elsewhere == \A q \in Requests : At(q, "sync", "count")' =>
                              At(q, "sync", "count") /\ proc'[q].seen = proc[q].seen
<1>1. UNCHANGED reputationVars /\ applied \subseteq applied' /\ Elsewhere => CountsStill
  BY DEF CountsStill
<1>2. \A s \in Steps \ {"count"}, p \in Requests : Goto(p, s) => Elsewhere
  BY MovesElsewhere
<1>3. \A p \in Requests : Finish(p) => Elsewhere
  BY MovesElsewhere
<1>4. \A p \in Requests : \A r : proc' = [proc EXCEPT ![p] = r] /\ r.step # "count" => Elsewhere
  BY MovesElsewhere
<1>5. proc' = proc => Elsewhere
  BY DEF At
<1> HIDE DEF Elsewhere
<1>6. {"apply", "quote", "mint", "guard", "reserve", "attest", "settle", "release", "mark",
       "refund", "settled"} \subseteq Steps \ {"count"}
  BY DEF Steps
<1>7. ASSUME NEW p \in Requests, NEW r, Begin(p, r), r.step # "count", UNCHANGED syncVars
      PROVE  CountsStill
  BY <1>7, <1>1, <1>4 DEF Begin, syncVars
<1>8. ASSUME NEW p \in Requests, Arrive(p) PROVE CountsStill
  <2> USE DEF Idle
  <2>1. CASE CreditCall(p) /\ UNCHANGED syncVars
    BY <2>1, <1>7, Zenon DEF CreditCall, FundRead, CancelRead, AcceptRead, RejectRead
  <2>2. CASE SyncCall(p)
    <3>1. ASSUME NEW x, NEW e, NEW j, NEW valid, SyncRead(p, x, e, j, valid) PROVE CountsStill
      BY <3>1, <1>7 DEF SyncRead
    <3>2. ASSUME NEW d \in emitted, Deliver(p, d[1], d[2]) PROVE CountsStill
      <4>1. CASE d[2] # "count"
        BY <3>2, <1>7, <4>1 DEF Deliver
      <4>2. CASE d[2] = "count"
        <5> DEFINE r == [Idle EXCEPT !.op = "hook", !.step = d[2], !.job = d[1]]
        <5>1. Begin(p, r) /\ UNCHANGED syncVars /\ r.op = "hook"
          BY <3>2 DEF Deliver
        <5> HIDE DEF r
        <5>2. Elsewhere
          BY <5>1 DEF Elsewhere, Begin, At, RequestsTyped
        <5> QED BY <5>1, <5>2, <1>1 DEF Begin, syncVars
      <4> QED BY <4>1, <4>2
    <3> QED BY <2>2, <3>1, <3>2 DEF SyncCall
  <2> QED BY <1>8, <2>1, <2>2 DEF Arrive
<1>9. ASSUME NEW p \in Requests, CreditStep(p), UNCHANGED syncVars PROVE CountsStill
  <2>1. UNCHANGED reputationVars
    BY <1>9 DEF syncVars
  <2>2. ASSUME MarkFunded(p) \/ FundMint(p) \/ CancelWrite(p) \/ RefundWrite(p) PROVE CountsStill
    BY <2>1, <2>2, <1>1, <1>2, <1>3, <1>6, Zenon
       DEF MarkFunded, FundMint, CancelWrite, RefundWrite, Apply, Quiet
  <2>3. ASSUME AcceptJob(p) \/ SettleGuard(p) \/ EscrowRelease(p) \/ EscrowMark(p) \/ RejectJob(p)
        PROVE  CountsStill
    BY <2>1, <2>3, <1>1, <1>2, <1>6
       DEF AcceptJob, SettleGuard, EscrowRelease, EscrowMark, RejectJob, Quiet
  <2>4. ASSUME NEW rebate \in BOOLEAN, NEW referred \in BOOLEAN, SettleWrite(p, rebate, referred)
        PROVE  CountsStill
    BY <2>1, <2>4, <1>1, <1>2, <1>6 DEF SettleWrite, Quiet
  <2>5. ASSUME NEW s \in {"mint", "settle", "refund"}, NEW a, NEW b,
               proc' = [proc EXCEPT ![p].step = s, ![p].seen = a]
                 \/ proc' = [proc EXCEPT ![p].step = s, ![p].row = b]
        PROVE  Elsewhere
    BY <2>5 DEF Elsewhere, At, RequestsTyped, ProcType
  <2>6. ASSUME FundQuote(p) PROVE CountsStill
    <3>1. UNCHANGED applied /\ (Finish(p) \/ \E a : proc' = [proc EXCEPT ![p].step = "mint", ![p].seen = a])
      BY <2>6 DEF FundQuote, Quiet
    <3> QED BY <2>1, <3>1, <1>1, <1>3, <2>5
  <2>7. ASSUME SettleRead(p) PROVE CountsStill
    <3>1. UNCHANGED applied /\ (Finish(p) \/ Goto(p, "attest")
                       \/ \E b : proc' = [proc EXCEPT ![p].step = "settle", ![p].row = b])
      BY <2>7 DEF SettleRead, Quiet
    <3> QED BY <2>1, <3>1, <1>1, <1>2, <1>3, <1>6, <2>5
  <2>8. ASSUME RefundRead(p) PROVE CountsStill
    <3>1. UNCHANGED applied /\ (Finish(p) \/ \E a : proc' = [proc EXCEPT ![p].step = "refund", ![p].seen = a])
      BY <2>8 DEF RefundRead, Quiet
    <3> QED BY <2>1, <3>1, <1>1, <1>3, <2>5
  <2> QED BY <1>9, <2>2, <2>3, <2>4, <2>6, <2>7, <2>8 DEF CreditStep
<1>10. ASSUME NEW p \in Requests,
              RejectPayload(p) \/ Reserve(p) \/ InsertRelease(p) \/ MarkSettled(p) \/ HookStatus(p)
       PROVE  CountsStill
  <2>1. UNCHANGED reputationVars /\ applied \subseteq applied'
    BY <1>10 DEF RejectPayload, Reserve, InsertRelease, MarkSettled, HookStatus, syncVars, Quiet, Apply
  <2>2. Finish(p) \/ Goto(p, "settled")
    BY <1>10 DEF RejectPayload, Reserve, InsertRelease, MarkSettled, HookStatus
  <2> QED BY <2>1, <2>2, <1>1, <1>2, <1>3, <1>6
<1>11. ASSUME NEW p \in Requests, ReportRead(p) PROVE CountsStill
  <2>1. UNCHANGED reputationVars /\ UNCHANGED applied
    BY <1>11 DEF ReportRead, syncVars, Quiet
  <2>2. CASE Finish(p)
    BY <2>1, <2>2, <1>1, <1>3
  <2>3. CASE proc' = [proc EXCEPT ![p].step = "count", ![p].seen = accepted]
    <3>1. ASSUME NEW q \in Requests, At(q, "sync", "count")'
          PROVE  \/ At(q, "sync", "count") /\ proc'[q].seen = proc[q].seen
                 \/ proc'[q].seen = accepted
      BY <2>3, <3>1 DEF At, RequestsTyped, ProcType
    <3> QED BY <2>1, <3>1 DEF CountsStill
  <2> QED BY <1>11, <2>2, <2>3 DEF ReportRead
<1>12. ASSUME NEW p \in Requests, RecordInsert(p) \/ Fail(p), UNCHANGED syncVars PROVE CountsStill
  BY <1>12, <1>1, <1>2, <1>3, <1>6 DEF RecordInsert, Fail, Quiet, syncVars
<1>13. ASSUME NEW j \in Jobs, SubmitJob(j), UNCHANGED syncVars PROVE CountsStill
  BY <1>13, <1>1, <1>5 DEF SubmitJob, Submit, syncVars
<1>14. ASSUME NEW j \in Jobs, MilestoneStep(j) PROVE CountsStill
  BY <1>14, <1>1, <1>5 DEF MilestoneStep, Emit, requestVars
<1>15. ASSUME UNCHANGED vars PROVE CountsStill
  BY <1>15, <1>1, <1>5 DEF vars, requestVars, syncVars
<1> QED BY <1>8, <1>9, <1>10, <1>11, <1>12, <1>13, <1>14, <1>15
        DEF Next, Serve, SyncStep, Background

\* What is earned is a number, and counts what it says.
LEMMA EarnedType ==
    ASSUME SyncTyped, RequestsTyped
    PROVE  /\ Total(attestations) \in Nat /\ Earned \in Int
           /\ IsFiniteSet(Counting) /\ Cardinality(Counting) \in Nat
           /\ IsFiniteSet(Reported) /\ Cardinality(Reported) \in Nat
<1>1. Total(attestations) \in Nat
  BY TotalIsSum DEF SyncTyped
<1>2. IsFiniteSet(Counting) /\ Cardinality(Counting) \in Nat
  BY FS_Subset, FS_CardinalityType DEF Counting, SyncTyped
<1>3. IsFiniteSet(Reported) /\ Cardinality(Reported) \in Nat
  BY FS_Subset, FS_CardinalityType DEF Reported, RequestsTyped
<1> QED BY <1>1, <1>2, <1>3 DEF Earned

\* And so after a step.
LEMMA EarnedTypeNext ==
    ASSUME SyncTyped', RequestsTyped'
    PROVE  /\ Total(attestations)' \in Nat /\ Earned' \in Int
           /\ IsFiniteSet(Counting') /\ Cardinality(Counting') \in Nat
           /\ IsFiniteSet(Reported') /\ Cardinality(Reported') \in Nat
<1>1. Total(attestations)' \in Nat
  BY TotalIsSum DEF SyncTyped
<1>2. IsFiniteSet(Counting') /\ Cardinality(Counting') \in Nat
  BY FS_Subset, FS_CardinalityType DEF Counting, SyncTyped
<1>3. IsFiniteSet(Reported') /\ Cardinality(Reported') \in Nat
  BY FS_Subset, FS_CardinalityType DEF Reported, RequestsTyped
<1>4. Earned' = Total(attestations)' + Cardinality(Reported') - Cardinality(Counting')
  BY DEF Earned
<1> QED BY <1>1, <1>2, <1>3, <1>4

\* Nothing that was earned is lost.
LEMMA EarnedKept ==
    ASSUME RequestsInv, RequestsInv', NEW n \in Nat, applied \subseteq applied',
           Total(attestations)' = Total(attestations) + n,
           Cardinality(Counting') <= Cardinality(Counting) + n
    PROVE  Earned' >= Earned
<1>1. SyncTyped /\ RequestsTyped /\ SyncTyped' /\ RequestsTyped'
  BY DEF RequestsInv, Typed
<1>2. /\ Total(attestations) \in Nat /\ Cardinality(Counting) \in Nat
      /\ IsFiniteSet(Reported) /\ Cardinality(Reported) \in Nat
  BY <1>1, EarnedType
<1>3. /\ Total(attestations)' \in Nat /\ Cardinality(Counting') \in Nat
      /\ IsFiniteSet(Reported') /\ Cardinality(Reported') \in Nat
  BY <1>1, EarnedTypeNext
<1>4. Reported \subseteq Reported'
  BY DEF Reported
<1>5. Cardinality(Reported) <= Cardinality(Reported')
  BY <1>3, <1>4, FS_Subset
<1> QED BY <1>2, <1>3, <1>5 DEF Earned

\* Reputation, step by step.
LEMMA ReputationStep ==
    ASSUME RequestsInv, RequestsInv', ReputationInv, [Next]_vars
    PROVE  ReputationInv'
<1>1. SyncTyped /\ RequestsTyped /\ SyncTyped' /\ RequestsTyped'
  BY DEF RequestsInv, Typed
<1>2. /\ Total(attestations) \in Nat /\ Earned \in Int
      /\ IsFiniteSet(Counting) /\ Cardinality(Counting) \in Nat
      /\ IsFiniteSet(Reported) /\ Cardinality(Reported) \in Nat
  BY <1>1, EarnedType
<1>3. /\ Total(attestations)' \in Nat /\ Earned' \in Int
      /\ IsFiniteSet(Counting') /\ Cardinality(Counting') \in Nat
      /\ IsFiniteSet(Reported') /\ Cardinality(Reported') \in Nat
  BY <1>1, EarnedTypeNext
<1>4. accepted \in Nat /\ (\A t \in Counting : t.seen \in Nat) /\ \A p \in Requests : proc[p].seen \in Nat
  BY <1>1 DEF SyncTyped, Counting, TaskType, RequestsTyped, ProcType
<1>5. CASE CountsStill
  <2>1. UNCHANGED <<attestations, accepted, tasks>> /\ Counting' = Counting
    BY <1>5 DEF CountsStill, reputationVars, Counting
  <2>2. Total(attestations)' = Total(attestations) + 0 /\ Cardinality(Counting') <= Cardinality(Counting) + 0
    BY <1>2, <2>1
  <2>3. Earned' >= Earned
    BY <1>5, <2>2, EarnedKept DEF CountsStill
  <2>4. accepted' <= Earned' /\ \A t \in Counting' : t.seen <= Earned'
    BY <1>2, <1>3, <1>4, <2>1, <2>3 DEF ReputationInv
  <2>5. ASSUME NEW p \in Requests, At(p, "sync", "count")' PROVE proc'[p].seen <= Earned'
    <3>1. \/ At(p, "sync", "count") /\ proc'[p].seen = proc[p].seen
          \/ proc'[p].seen = accepted
      BY <1>5, <2>5 DEF CountsStill
    <3> QED BY <1>2, <1>3, <1>4, <2>3, <3>1 DEF ReputationInv
  <2> QED BY <2>4, <2>5 DEF ReputationInv
<1>6. ASSUME NEW p \in Requests, Attest(p) PROVE ReputationInv'
  <2> DEFINE n == Total(attestations) + 1
             new == Task("reputation", proc[p].job, n)
  <2>1. proc[p].op = "accept" /\ proc[p].job \in Jobs /\ UNCHANGED <<accepted, applied>> /\ Finish(p)
    BY <1>6, InHand DEF Attest, At, Accepting, Quiet
  <2>2. Counting' = Counting \cup {new}
    <3>1. tasks' = tasks \cup {Task("reputation", proc[p].job, n), Task("registry", proc[p].job, n)}
      BY <1>6 DEF Attest
    <3> HIDE DEF n
    <3> QED BY <3>1 DEF Counting, Task
  <2>3. Cardinality(Counting') <= Cardinality(Counting) + 1
    <3> HIDE DEF new
    <3>2. \/ Cardinality(Counting \cup {new}) = Cardinality(Counting)
          \/ Cardinality(Counting \cup {new}) = Cardinality(Counting) + 1
      BY <1>2, FS_AddElement
    <3>1. Cardinality(Counting \cup {new}) <= Cardinality(Counting) + 1
      BY <1>2, <3>2
    <3> QED BY <2>2, <3>1
  <2>4. Total(attestations)' = Total(attestations) + 1
    <3> DEFINE f == attestations
               g == [attestations EXCEPT ![proc[p].job] = @ + 1]
               j == proc[p].job
    <3>1. f \in [Jobs -> Nat] /\ g \in [Jobs -> Nat]
      BY <1>1, <2>1 DEF SyncTyped
    <3>2. g[j] = f[j] + 1 /\ (\A k \in Jobs \ {j} : g[k] = f[k]) /\ j \in Jobs
      BY <1>1, <2>1 DEF SyncTyped
    <3>3. attestations' = g
      BY <1>6 DEF Attest
    <3>4. Total(attestations)' = Total(g)
      BY <3>3
    <3> HIDE DEF f, g, j
    <3>5. \A k \in Jobs : f[k] \in Int /\ g[k] \in Int
      <4>1. ASSUME NEW k \in Jobs PROVE f[k] \in Nat /\ g[k] \in Nat
        BY <3>1
      <4> QED BY <4>1
    <3>6. SumFunctionOnSet(g, Jobs) = SumFunctionOnSet(f, Jobs) - f[j] + g[j]
      BY <3>2, <3>5, JobsAssumption, SumOfOneChange
    <3>7. Total(g) = SumFunctionOnSet(g, Jobs) /\ Total(f) = SumFunctionOnSet(f, Jobs)
          /\ Total(f) \in Nat /\ f[j] \in Int
      BY <3>1, <3>2, <3>5, TotalIsSum
    <3>8. Total(g) = Total(f) + 1
      BY <3>2, <3>6, <3>7
    <3> QED BY <3>4, <3>8 DEF f
  <2>5. Earned' >= Earned
    BY <2>1, <2>3, <2>4, EarnedKept
  <2>6. new.seen = 0
    BY DEF Task
  <2> HIDE DEF new
  <2>7. accepted' <= Earned' /\ \A t \in Counting' : t.seen <= Earned'
    BY <1>2, <1>3, <1>4, <2>1, <2>2, <2>5, <2>6 DEF ReputationInv
  <2>8. ASSUME NEW q \in Requests, At(q, "sync", "count")' PROVE proc'[q].seen <= Earned'
    <3>1. At(q, "sync", "count") /\ proc'[q].seen = proc[q].seen
      BY <1>1, <2>1, <2>8, MovesElsewhere
    <3> QED BY <1>2, <1>3, <1>4, <2>5, <3>1 DEF ReputationInv
  <2> QED BY <2>7, <2>8 DEF ReputationInv
<1>7. ASSUME NEW p \in Requests, ReportCount(p) PROVE ReputationInv'
  <2>1. /\ At(p, "sync", "count") /\ accepted' = proc[p].seen + 1 /\ Apply(p) /\ Finish(p)
        /\ UNCHANGED <<attestations, tasks>>
    BY <1>7 DEF ReportCount
  <2>2. /\ Row(p) \notin applied /\ Row(p).event = "accepted_submission_attested"
        /\ applied' = applied \cup {Row(p)}
    <3>1. proc[p].event = "accepted_submission_attested" /\ Pending(p)
      BY <2>1, InHand DEF At, Syncing, Pending
    <3> QED BY <2>1, <3>1 DEF RequestsInv, OwnRow, Apply, Row
  <2>3. Reported' = Reported \cup {Row(p)} /\ Row(p) \notin Reported
    BY <2>2 DEF Reported
  <2>4. Cardinality(Reported') = Cardinality(Reported) + 1
    BY <1>2, <2>3, FS_AddElement
  <2>5. Counting' = Counting /\ Total(attestations)' = Total(attestations)
    BY <2>1 DEF Counting
  <2>6. Earned' = Earned + 1
    BY <1>2, <2>4, <2>5 DEF Earned
  <2>7. accepted' <= Earned' /\ \A t \in Counting' : t.seen <= Earned'
    BY <1>2, <1>4, <2>1, <2>5, <2>6 DEF ReputationInv
  <2>8. ASSUME NEW q \in Requests, At(q, "sync", "count")' PROVE proc'[q].seen <= Earned'
    <3>1. At(q, "sync", "count") /\ proc'[q].seen = proc[q].seen
      BY <1>1, <2>1, <2>8, MovesElsewhere
    <3> QED BY <1>2, <1>4, <2>6, <3>1 DEF ReputationInv
  <2> QED BY <2>7, <2>8 DEF ReputationInv
<1>8. ASSUME UNCHANGED <<attestations, applied>>,
             \A p \in Requests : At(p, "sync", "count")' =>
                At(p, "sync", "count") /\ proc'[p].seen = proc[p].seen,
             NEW n \in {0, 1}, Cardinality(Counting') <= Cardinality(Counting) - n,
             accepted' <= Earned + n, \A t \in Counting' : t.seen <= Earned + n
      PROVE  ReputationInv'
  <2>1. Earned' >= Earned + n
    <3>1. Total(attestations)' = Total(attestations) /\ Reported' = Reported
      BY <1>8 DEF Reported
    <3>2. Cardinality(Reported') = Cardinality(Reported)
      BY <3>1
    <3> QED BY <1>2, <1>3, <1>8, <3>1, <3>2 DEF Earned
  <2>2. accepted' \in Nat /\ \A t \in Counting' : t.seen \in Nat
    BY <1>1 DEF SyncTyped, Counting, TaskType
  <2>3. accepted' <= Earned' /\ \A t \in Counting' : t.seen <= Earned'
    BY <1>2, <1>3, <1>8, <2>1, <2>2
  <2>4. \A p \in Requests : At(p, "sync", "count")' => proc'[p].seen <= Earned'
    BY <1>2, <1>3, <1>4, <1>8, <2>1 DEF ReputationInv
  <2> QED BY <2>3, <2>4 DEF ReputationInv
<1>9. proc' = proc => \A p \in Requests : At(p, "sync", "count")' =>
                         At(p, "sync", "count") /\ proc'[p].seen = proc[p].seen
  BY DEF At
<1>10. ASSUME NEW t \in tasks, TaskRead(t) PROVE ReputationInv'
  <2> DEFINE u == [t EXCEPT !.step = "write",
                            !.seen = IF t.kind = "reputation" THEN accepted ELSE nonce]
  <2>1. tasks' = (tasks \ {t}) \cup {u} /\ UNCHANGED <<requestVars, attestations, accepted>>
    BY <1>10 DEF TaskRead
  <2>2. u.kind = t.kind /\ (t.kind = "reputation" => u.seen = accepted)
    BY <1>1 DEF SyncTyped, TaskType
  <2> HIDE DEF u
  <2>3. /\ Cardinality(Counting') <= Cardinality(Counting)
        /\ \A v \in Counting' : v \in Counting \/ (v = u /\ u.seen = accepted)
    <3>1. CASE t.kind = "reputation"
      <4>1. Counting' = (Counting \ {t}) \cup {u} /\ t \in Counting
        BY <2>1, <2>2, <3>1 DEF Counting
      <4>2. /\ IsFiniteSet(Counting \ {t}) /\ Cardinality(Counting \ {t}) = Cardinality(Counting) - 1
        BY <1>2, <4>1, FS_RemoveElement
      <4>3. Cardinality((Counting \ {t}) \cup {u}) <= Cardinality(Counting)
        BY <1>2, <4>2, FS_AddElement, SMTT(30)
      <4> QED BY <2>2, <3>1, <4>1, <4>3
    <3>2. CASE t.kind # "reputation"
      <4>1. Counting' = Counting
        BY <2>1, <2>2, <3>2 DEF Counting
      <4>2. Cardinality(Counting') <= Cardinality(Counting)
        BY <1>2, <4>1
      <4> QED BY <4>1, <4>2
    <3> QED BY <3>1, <3>2
  <2>4. UNCHANGED <<attestations, applied>> /\ proc' = proc
    BY <2>1 DEF requestVars
  <2>5. accepted' <= Earned + 0 /\ \A v \in Counting' : v.seen <= Earned + 0
    BY <1>2, <1>4, <2>1, <2>3 DEF ReputationInv
  <2>6. Cardinality(Counting') <= Cardinality(Counting) - 0
    BY <1>2, <1>3, <2>3
  <2> QED BY <1>8, <1>9, <2>4, <2>5, <2>6
<1>11. ASSUME NEW t \in tasks, ReputationWrite(t) PROVE ReputationInv'
  <2>1. t \in Counting /\ tasks' = tasks \ {t} /\ accepted' = t.seen + 1
        /\ UNCHANGED <<requestVars, attestations>>
    BY <1>11 DEF ReputationWrite, Counting
  <2>2. Counting' = Counting \ {t}
    BY <2>1 DEF Counting
  <2>3. Cardinality(Counting') <= Cardinality(Counting) - 1
    <3>1. Cardinality(Counting \ {t}) = Cardinality(Counting) - 1
      BY <1>2, <2>1, FS_RemoveElement
    <3> QED BY <1>2, <2>2, <3>1
  <2>4. accepted' <= Earned + 1 /\ \A v \in Counting' : v.seen <= Earned + 1
    BY <1>2, <1>4, <2>1, <2>2 DEF ReputationInv
  <2>5. UNCHANGED <<attestations, applied>> /\ proc' = proc
    BY <2>1 DEF requestVars
  <2> QED BY <1>8, <1>9, <2>3, <2>4, <2>5
<1>12. ASSUME NEW t \in tasks, RegistrySend(t) PROVE ReputationInv'
  <2>1. t.kind = "registry" /\ tasks' = tasks \ {t} /\ UNCHANGED <<requestVars, attestations, accepted>>
    BY <1>12 DEF RegistrySend
  <2>2. Counting' = Counting
    BY <2>1 DEF Counting
  <2>3. UNCHANGED <<attestations, applied>> /\ proc' = proc
    BY <2>1 DEF requestVars
  <2>4. accepted' <= Earned + 0 /\ \A v \in Counting' : v.seen <= Earned + 0
    BY <1>2, <1>4, <2>1, <2>2 DEF ReputationInv
  <2>5. Cardinality(Counting') <= Cardinality(Counting) - 0
    BY <1>2, <2>2
  <2> QED BY <1>8, <1>9, <2>3, <2>4, <2>5
<1>13. ASSUME Restart, LoseTasks PROVE ReputationInv'
  <2>1. tasks' = {} /\ UNCHANGED <<attestations, accepted, applied>> /\ proc' = [p \in Requests |-> Idle]
    BY <1>13 DEF Restart, LoseTasks
  <2>2. Counting' = {}
    BY <2>1 DEF Counting
  <2>3. Cardinality(Counting') <= Cardinality(Counting) - 0
    BY <1>2, <2>2, FS_EmptySet
  <2>4. accepted' <= Earned + 0 /\ \A v \in Counting' : v.seen <= Earned + 0
    BY <1>2, <1>4, <2>1, <2>2 DEF ReputationInv
  <2>5. \A p \in Requests : ~At(p, "sync", "count")'
    BY <2>1 DEF At, Idle
  <2> QED BY <1>8, <2>1, <2>3, <2>4, <2>5
<1> QED BY <1>1, <1>5, <1>6, <1>7, <1>10, <1>11, <1>12, <1>13, WhoCounts

\* A job is marked as settled by MarkSettled only, whose request holds the release.
LEMMA SettledStep ==
    ASSUME RequestsInv, SettledWasReleased, [Next]_vars
    PROVE  SettledWasReleased'
<1>1. RequestsTyped
  BY DEF RequestsInv, Typed
<1>2. ASSUME job' = job, releases \subseteq releases' PROVE SettledWasReleased'
  BY <1>2 DEF SettledWasReleased
<1>3. ASSUME NEW i \in Jobs, NEW v, v # "settled", job' = [job EXCEPT ![i] = v], releases \subseteq releases'
      PROVE  SettledWasReleased'
  BY <1>1, <1>3 DEF SettledWasReleased, RequestsTyped
<1>4. UNCHANGED syncVars => releases \subseteq releases'
  BY DEF syncVars
<1>5. ASSUME NEW p \in Requests, Arrive(p) PROVE SettledWasReleased'
  <2>1. job' = job
    BY <1>5, Zenon DEF Arrive, CreditCall, FundRead, CancelRead, AcceptRead, RejectRead, SyncCall, SyncRead,
                Deliver, Begin
  <2>2. releases' = releases
    BY <1>5, Zenon DEF Arrive, SyncCall, SyncRead, Deliver, syncVars
  <2> QED BY <1>2, <2>1, <2>2
<1>6. ASSUME NEW p \in Requests, CreditStep(p), UNCHANGED syncVars PROVE SettledWasReleased'
  <2>1. CASE AcceptJob(p)
    <3>1. proc[p].job \in Jobs
      BY <2>1, InHand DEF AcceptJob, At, Accepting
    <3> QED BY <1>3, <1>4, <1>6, <2>1, <3>1 DEF AcceptJob
  <2>2. CASE RejectJob(p)
    <3>1. proc[p].job \in Jobs
      BY <2>2, InHand DEF RejectJob, At, Rejecting
    <3> QED BY <1>3, <1>4, <1>6, <2>2, <3>1, ZenonT(40) DEF RejectJob
  <2>3. CASE ~AcceptJob(p) /\ ~RejectJob(p)
    <3>1. job' = job
      BY <1>6, <2>3, Zenon DEF CreditStep, MarkFunded, FundQuote, FundMint, CancelWrite, SettleGuard,
                        SettleRead, SettleWrite, EscrowRelease, EscrowMark, RefundRead, RefundWrite
    <3> QED BY <1>2, <1>4, <1>6, <3>1
  <2> QED BY <2>1, <2>2, <2>3
<1>7. ASSUME NEW p \in Requests, SyncStep(p) PROVE SettledWasReleased'
  <2>1. CASE Reserve(p)
    <3>1. proc[p].job \in Jobs
      BY <2>1, InHand DEF Reserve, Applying, At, Syncing
    <3> QED BY <1>3, <2>1, <3>1 DEF Reserve
  <2>2. CASE HookStatus(p)
    <3>1. proc[p].job \in Jobs
      BY <2>2, InHand DEF HookStatus, Hooked
    <3>2. DisputeStatus[proc[p].step] # "settled"
      BY <2>2 DEF HookStatus, DisputeStatus
    <3>3. releases \subseteq releases' /\ job' = [job EXCEPT ![proc[p].job] = DisputeStatus[proc[p].step]]
      BY <2>2, <1>4 DEF HookStatus
    <3> QED BY <1>3, <3>1, <3>2, <3>3
  <2>3. CASE MarkSettled(p)
    <3>1. proc[p].step = "settled" /\ job' = [job EXCEPT ![proc[p].job] = "settled"] /\ releases' = releases
      BY <2>3 DEF MarkSettled
    <3>2. proc[p].job \in releases
      BY <3>1, InHand DEF Serving, Idle, Funds, Syncing, Accepting, Rejecting, Hooked
    <3> QED BY <1>1, <3>1, <3>2 DEF SettledWasReleased, RequestsTyped
  <2>4. CASE RejectPayload(p) \/ InsertRelease(p) \/ ReportRead(p) \/ ReportCount(p) \/ Attest(p)
    <3>1. job' = job /\ releases \subseteq releases'
      BY <2>4 DEF RejectPayload, InsertRelease, ReportRead, ReportCount, Attest, syncVars
    <3> QED BY <1>2, <3>1
  <2> QED BY <1>7, <2>1, <2>2, <2>3, <2>4 DEF SyncStep
<1>8. ASSUME NEW p \in Requests, RecordInsert(p) \/ Fail(p), UNCHANGED syncVars PROVE SettledWasReleased'
  BY <1>8, <1>2, <1>4 DEF RecordInsert, Fail
<1>9. ASSUME NEW j \in Jobs, SubmitJob(j), UNCHANGED syncVars PROVE SettledWasReleased'
  BY <1>9, <1>3, <1>4 DEF SubmitJob, Submit
<1>10. ASSUME Background \/ (Restart /\ LoseTasks) \/ UNCHANGED vars PROVE SettledWasReleased'
  <2>1. job' = job /\ releases' = releases
    BY <1>10, Zenon DEF Background, TaskRead, ReputationWrite, RegistrySend, MilestoneStep, Emit, Restart,
                 LoseTasks, vars, requestVars, syncVars
  <2> QED BY <1>2, <2>1
<1> QED BY <1>5, <1>6, <1>7, <1>8, <1>9, <1>10 DEF Next, Serve

\* The registry, step by step: a call follows the nonce that is there, or is refused.
LEMMA RegistryStep ==
    ASSUME RequestsInv, RegistryInv, [Next]_vars
    PROVE  RegistryInv'
<1>1. SyncTyped /\ RequestsTyped
  BY DEF RequestsInv, Typed
<1>2. SettledWasReleased'
  BY SettledStep DEF RegistryInv
<1>3. ASSUME UNCHANGED <<nonce, attested, onChainCount>>,
             \A j \in Jobs : attestations'[j] >= attestations[j],
             \A t \in tasks' : \/ t \in tasks
                               \/ attestations'[t.job] > 0 /\ (t.kind = "registry" => t.seen <= nonce)
      PROVE  RegistryInv'
  <2>1. \A j \in Jobs : attestations[j] > 0 => attestations'[j] > 0
    <3>1. ASSUME NEW j \in Jobs, attestations[j] > 0 PROVE attestations'[j] > 0
      <4>1. attestations[j] \in Nat /\ attestations'[j] \in Nat
        <5>1. SyncTyped'
          BY RequestsStep DEF RequestsInv, Typed
        <5> QED BY <1>1, <5>1 DEF SyncTyped
      <4> QED BY <1>3, <3>1, <4>1
    <3> QED BY <3>1
  <2>2. RegistryAgrees'
    BY <1>1, <1>3, <2>1 DEF RegistryInv, RegistryAgrees, SyncTyped
  <2>3. \A t \in tasks' : attestations'[t.job] > 0 /\ (t.kind = "registry" => t.seen <= nonce')
    BY <1>1, <1>3, <2>1 DEF RegistryInv, SyncTyped, TaskType
  <2> QED BY <1>2, <2>2, <2>3 DEF RegistryInv
<1>4. \A j \in Jobs : attestations[j] \in Nat
  BY <1>1 DEF SyncTyped
<1>5. attestations' = attestations => \A j \in Jobs : attestations'[j] >= attestations[j]
  BY <1>4
<1>6. CASE CountsStill
  BY <1>3, <1>5, <1>6 DEF CountsStill, reputationVars
<1>7. ASSUME NEW p \in Requests, Attest(p) PROVE RegistryInv'
  <2> DEFINE j == proc[p].job
             n == Total(attestations) + 1
  <2>1. j \in Jobs
    BY <1>7, InHand DEF Attest, At, Accepting
  <2>2. /\ attestations' = [attestations EXCEPT ![j] = @ + 1]
        /\ tasks' = tasks \cup {Task("reputation", j, n), Task("registry", j, n)}
        /\ UNCHANGED <<nonce, attested, onChainCount>>
    BY <1>7 DEF Attest
  <2> HIDE DEF j, n
  <2>3. (\A k \in Jobs : attestations'[k] >= attestations[k]) /\ attestations'[j] > 0
    BY <1>1, <1>4, <2>1, <2>2 DEF SyncTyped
  <2>4. nonce >= 0
    BY <1>1 DEF SyncTyped
  <2>5. \A t \in tasks' : \/ t \in tasks
                          \/ attestations'[t.job] > 0 /\ (t.kind = "registry" => t.seen <= nonce)
    BY <2>2, <2>3, <2>4 DEF Task
  <2> QED BY <1>3, <2>2, <2>3, <2>5
<1>8. ASSUME NEW p \in Requests, ReportCount(p) PROVE RegistryInv'
  BY <1>3, <1>5, <1>8 DEF ReportCount
<1>9. ASSUME NEW t \in tasks, TaskRead(t) PROVE RegistryInv'
  <2> DEFINE u == [t EXCEPT !.step = "write",
                            !.seen = IF t.kind = "reputation" THEN accepted ELSE nonce]
  <2>1. tasks' = (tasks \ {t}) \cup {u} /\ UNCHANGED <<attestations, nonce, attested, onChainCount>>
    BY <1>9 DEF TaskRead
  <2>2. u.job = t.job /\ u.kind = t.kind /\ (t.kind = "registry" => u.seen = nonce)
    BY <1>1 DEF SyncTyped, TaskType
  <2> HIDE DEF u
  <2>3. nonce \in Nat /\ attestations[t.job] > 0
    BY <1>1 DEF SyncTyped, RegistryInv
  <2>4. \A v \in tasks' : \/ v \in tasks
                          \/ attestations'[v.job] > 0 /\ (v.kind = "registry" => v.seen <= nonce)
    BY <2>1, <2>2, <2>3
  <2> QED BY <1>3, <1>5, <2>1, <2>4
<1>10. ASSUME NEW t \in tasks, ReputationWrite(t) PROVE RegistryInv'
  BY <1>3, <1>5, <1>10 DEF ReputationWrite
<1>11. ASSUME NEW t \in tasks, RegistrySend(t) PROVE RegistryInv'
  <2>1. t.kind = "registry" /\ tasks' = tasks \ {t} /\ UNCHANGED attestations
    BY <1>11 DEF RegistrySend
  <2>2. CASE UNCHANGED <<nonce, attested, onChainCount>>
    BY <1>3, <1>5, <2>1, <2>2
  <2>3. CASE /\ t.job \notin attested /\ t.seen + 1 > nonce
             /\ nonce' = t.seen + 1 /\ attested' = attested \cup {t.job}
             /\ onChainCount' = onChainCount + 1
    <3>1. /\ nonce \in Nat /\ t.seen \in Nat /\ t.seen <= nonce /\ attestations[t.job] > 0
          /\ t.job \in Jobs /\ nonce = onChainCount /\ onChainCount = Cardinality(attested)
      BY <1>1, <2>1 DEF SyncTyped, TaskType, RegistryInv, RegistryAgrees
    <3>2. nonce' = nonce + 1
      BY <2>3, <3>1
    <3>3. Cardinality(attested \cup {t.job}) = Cardinality(attested) + 1
      BY <1>1, <2>3, FS_AddElement DEF SyncTyped
    <3>4. RegistryAgrees'
      BY <2>1, <2>3, <3>1, <3>2, <3>3 DEF RegistryInv, RegistryAgrees
    <3>5. \A v \in tasks' : attestations'[v.job] > 0 /\ (v.kind = "registry" => v.seen <= nonce')
      <4>1. ASSUME NEW v \in tasks PROVE attestations[v.job] > 0 /\ (v.kind = "registry" => v.seen <= nonce + 1)
        <5>1. attestations[v.job] > 0 /\ v.seen \in Nat /\ (v.kind = "registry" => v.seen <= nonce)
          BY <1>1 DEF RegistryInv, SyncTyped, TaskType
        <5> QED BY <3>1, <5>1
      <4> QED BY <2>1, <3>2, <4>1
    <3> QED BY <1>2, <3>4, <3>5 DEF RegistryInv
  <2> QED BY <1>11, <2>2, <2>3 DEF RegistrySend, RecordSubmission
<1>12. ASSUME LoseTasks PROVE RegistryInv'
  BY <1>3, <1>5, <1>12 DEF LoseTasks
<1> QED BY <1>1, <1>6, <1>7, <1>8, <1>9, <1>10, <1>11, <1>12, WhoCounts

\* What the broker holds of the chain is explained by the chain, in every state: reports
\* apply once, reputation is earned, registry and nonces agree, settled jobs were
\* released (chainService.ts, routes/arc.ts 593-697, AgentIdentityRegistry.sol).
THEOREM ChainAlwaysCountsOnce == Spec => []ChainCountsOnce
<1>1. Init => ReputationInv /\ RegistryInv
  <2> SUFFICES ASSUME Init PROVE ReputationInv /\ RegistryInv
    OBVIOUS
  <2> USE DEF Init, RequestsInit, SyncInit
  <2>1. SyncTyped /\ RequestsTyped
    BY InitRequests DEF RequestsInv, Typed
  <2>2. Counting = {} /\ Reported = {}
    BY DEF Counting, Reported
  <2>3. Cardinality(Counting) = 0 /\ Cardinality(Reported) = 0
    BY <2>2, FS_EmptySet
  <2>4. Earned \in Int /\ Total(attestations) \in Nat
    BY <2>1, EarnedType
  <2>5. Earned >= 0
    BY <2>3, <2>4 DEF Earned
  <2>6. \A p \in Requests : ~At(p, "sync", "count")
    BY DEF At, Idle
  <2>7. ReputationInv
    BY <2>2, <2>5, <2>6 DEF ReputationInv
  <2>8. RegistryInv
    BY FS_EmptySet DEF RegistryInv, RegistryAgrees, SettledWasReleased
  <2> QED BY <2>7, <2>8
<1>2. RequestsInv /\ RequestsInv' /\ ReputationInv /\ RegistryInv /\ [Next]_vars
      => ReputationInv' /\ RegistryInv'
  BY ReputationStep, RegistryStep
<1>3. RequestsInv /\ ReputationInv /\ RegistryInv => ChainCountsOnce
  <2> SUFFICES ASSUME RequestsInv, ReputationInv, RegistryInv PROVE ChainCountsOnce
    OBVIOUS
  <2>1. /\ Total(attestations) \in Nat /\ Cardinality(Counting) \in Nat /\ Cardinality(Reported) \in Nat
        /\ accepted \in Nat
    BY EarnedType DEF RequestsInv, Typed, SyncTyped
  <2>2. ReputationEarned
    BY <2>1 DEF ReputationInv, Earned, ReputationEarned, Reported
  <2> QED BY <2>2 DEF RequestsInv, RegistryInv, ChainCountsOnce
<1> QED BY <1>1, <1>2, <1>3, RequestsAlways, PTL DEF Spec

-----------------------------------------------------------------------------
(* One request at a time *)

\* A step of the only busy request: what it leaves in its own hands is all there is.
LEMMA ServeAlone ==
    ASSUME AloneInv, alone, NEW p \in Requests, proc[p] # Idle,
           \A q \in Requests \ {p} : proc'[q] = proc[q],
           RowFits', JobsFit', HandsAlone(proc[p])'
    PROVE  AloneInv'
<1>1. \A q \in Requests \ {p} : proc'[q] = Idle
  BY DEF AloneInv, OneBusy
<1>2. OneBusy'
  BY <1>1 DEF OneBusy
<1>3. ASSUME NEW q \in Requests PROVE HandsAlone(proc[q])'
  <2>1. CASE q = p
    BY <2>1
  <2>2. CASE proc'[q] = Idle
    BY <2>2 DEF HandsAlone, Idle
  <2> QED BY <1>1, <2>1, <2>2
<1> QED BY <1>2, <1>3 DEF AloneInv

\* The row, and the counts of jobs, when what they are about does not change.
LEMMA FitsKept ==
    /\ RowFits /\ UNCHANGED <<account, reserve, ledger, settles>> => RowFits'
    /\ JobsFit /\ UNCHANGED <<settles, submits>>
         /\ (\A j \in Jobs : job'[j] = "submitted" => job[j] = "submitted") => JobsFit'
<1>1. UNCHANGED settles => SettledTimes' = SettledTimes
  BY DEF SettledTimes
<1>2. RowFits /\ UNCHANGED <<account, reserve, ledger, settles>> => RowFits'
  BY <1>1 DEF RowFits
<1> QED BY <1>2 DEF JobsFit

\* The first read: nobody else is served, and an acceptance finds the job submitted.
LEMMA ArriveAlone ==
    ASSUME RequestsInv, AloneInv, NEW p \in Requests, Arrive(p), alone'
    PROVE  AloneInv'
<1>1. RequestsTyped
  BY DEF RequestsInv, Typed
<1>2. ASSUME NEW r, Begin(p, r), UNCHANGED creditVars,
             r.op = "accept" => r.step = "accept" /\ job[r.job] = "submitted"
      PROVE  AloneInv'
  <2>1. alone /\ (\A q \in Requests : proc[q] = Idle) /\ proc' = [proc EXCEPT ![p] = r] /\ job' = job
    BY <1>2 DEF Begin
  <2>2. \A q \in Requests : proc'[q] = IF q = p THEN r ELSE Idle
    BY <1>1, <2>1 DEF RequestsTyped
  <2>3. OneBusy'
    BY <2>2 DEF OneBusy
  <2>4. \A q \in Requests : HandsAlone(proc[q])'
    BY <1>2, <2>1, <2>2 DEF HandsAlone, Idle
  <2>5. UNCHANGED <<account, reserve, ledger, settles, submits>>
    BY <1>2 DEF creditVars, moneyVars, settleVars
  <2>6. RowFits' /\ JobsFit'
    BY <2>1, <2>5, FitsKept DEF AloneInv
  <2> QED BY <2>3, <2>4, <2>6 DEF AloneInv
<1> USE DEF Idle
<1>3. CASE CreditCall(p)
  <2>1. ASSUME NEW x, NEW usd, FundRead(p, x, usd) PROVE AloneInv'
    BY <1>2, <2>1 DEF FundRead
  <2>2. ASSUME CancelRead(p) PROVE AloneInv'
    BY <1>2, <2>2 DEF CancelRead
  <2>3. ASSUME NEW j \in Jobs, AcceptRead(p, j) PROVE AloneInv'
    BY <1>2, <2>3 DEF AcceptRead
  <2>4. ASSUME NEW j \in Jobs, RejectRead(p, j) PROVE AloneInv'
    BY <1>2, <2>4 DEF RejectRead
  <2> QED BY <1>3, <2>1, <2>2, <2>3, <2>4 DEF CreditCall
<1>4. CASE SyncCall(p) /\ UNCHANGED creditVars
  <2>1. ASSUME NEW x, NEW e, NEW j, NEW valid, SyncRead(p, x, e, j, valid) PROVE AloneInv'
    BY <1>2, <1>4, <2>1 DEF SyncRead
  <2>2. ASSUME NEW j, NEW e, Deliver(p, j, e) PROVE AloneInv'
    BY <1>2, <1>4, <2>2 DEF Deliver
  <2> QED BY <1>4, <2>1, <2>2 DEF SyncCall
<1> QED BY <1>3, <1>4 DEF Arrive

\* A step of a request that has nothing to do with a settlement.
LEMMA AsideAlone ==
    ASSUME RequestsInv, AloneInv, alone, NEW p \in Requests, proc[p] # Idle,
           UNCHANGED <<account, reserve, ledger, settles, submits>>,
           \A j \in Jobs : job'[j] = "submitted" => job[j] = "submitted",
           \/ Finish(p)
           \/ \E s \in Steps : Goto(p, s) /\ (proc[p].op # "accept" \/ s \in {"release", "mark", "attest"})
           \/ proc[p].op # "accept" /\ \E r : proc' = [proc EXCEPT ![p] = r] /\ r.op = proc[p].op
    PROVE  AloneInv'
<1>1. RequestsTyped /\ proc[p] \in ProcType
  BY DEF RequestsInv, Typed, RequestsTyped
<1>2. \A q \in Requests \ {p} : proc'[q] = proc[q]
  BY <1>1 DEF Finish, Goto, RequestsTyped
<1>3. \/ proc'[p].op # "accept"
      \/ proc'[p].step \in {"release", "mark", "attest"}
  BY <1>1 DEF Finish, Goto, RequestsTyped, Idle, ProcType
<1>4. HandsAlone(proc[p])'
  BY <1>3 DEF HandsAlone
<1>5. RowFits' /\ JobsFit'
  BY FitsKept DEF AloneInv
<1> QED BY <1>2, <1>4, <1>5, ServeAlone

\* The steps of an acceptance up to its settlement: what was read is still so.
LEMMA AcceptAlone ==
    ASSUME RequestsInv, AloneInv, alone, NEW p \in Requests,
           AcceptJob(p) \/ SettleGuard(p) \/ SettleRead(p)
    PROVE  AloneInv'
<1> DEFINE me == proc[p]
           j == me.job
<1>1. RequestsTyped /\ CreditTyped /\ me \in ProcType /\ me.op = "accept" /\ j \in Jobs
  BY InHand DEF AcceptJob, SettleGuard, SettleRead, At, Accepting, RequestsInv, Typed
<1>2. me # Idle
  BY <1>1 DEF Idle
<1>3. UNCHANGED <<account, reserve, ledger, settles, submits>>
  BY DEF AcceptJob, SettleGuard, SettleRead, creditVars, moneyVars, settleVars
<1>4. RowFits /\ JobsFit /\ HandsAlone(me)
  BY DEF AloneInv
<1>5. ASSUME NEW s \in Steps, Goto(p, s)
      PROVE  /\ \A q \in Requests \ {p} : proc'[q] = proc[q]
             /\ proc'[p].op = "accept" /\ proc'[p].job = j /\ proc'[p].step = s
  BY <1>1, <1>5 DEF Goto, RequestsTyped, ProcType
<1>6. {"guard", "reserve", "attest"} \subseteq Steps
  BY DEF Steps
<1>7. ASSUME AcceptJob(p) PROVE AloneInv'
  <2>1. me.step = "accept" /\ Goto(p, "guard") /\ job' = [job EXCEPT ![j] = "accepted"]
    BY <1>7 DEF AcceptJob, At
  <2>2. job[j] = "submitted" /\ settles[j] < submits[j]
    BY <1>1, <1>4, <2>1 DEF HandsAlone, JobsFit
  <2>3. job'[j] = "accepted" /\ \A i \in Jobs : job'[i] = "submitted" => job[i] = "submitted"
    BY <1>1, <2>1 DEF RequestsTyped
  <2>4. HandsAlone(proc[p])'
    BY <1>3, <1>5, <1>6, <2>1, <2>2, <2>3 DEF HandsAlone
  <2>5. RowFits' /\ JobsFit'
    BY <1>3, <1>4, <2>3, FitsKept
  <2> QED BY <1>2, <1>5, <1>6, <2>1, <2>4, <2>5, ServeAlone
<1>8. job' = job => RowFits' /\ JobsFit'
  BY <1>3, <1>4, FitsKept
<1>9. ASSUME SettleGuard(p) PROVE AloneInv'
  <2>1. me.step = "guard" /\ job' = job
    BY <1>9 DEF SettleGuard, At
  <2>2. PICK s \in {"attest", "reserve"} : Goto(p, s)
    BY <1>9 DEF SettleGuard
  <2>3. HandsAlone(proc[p])'
    BY <1>1, <1>3, <1>4, <1>5, <1>6, <2>1, <2>2 DEF HandsAlone
  <2> QED BY <1>2, <1>5, <1>6, <1>8, <2>1, <2>2, <2>3, ServeAlone
<1>10. ASSUME SettleRead(p) PROVE AloneInv'
  <2>1. me.step = "reserve" /\ job' = job
    BY <1>10 DEF SettleRead, At
  <2>2. CASE Goto(p, "attest") \/ Finish(p)
    BY <1>1, <1>2, <1>3, <1>6, <2>1, <2>2, AsideAlone
  <2>3. ASSUME NEW row \in reserve, row.reserved + Tolerance >= Gross(row, Budget[j]),
               proc' = [proc EXCEPT ![p].step = "settle", ![p].row = {row}]
        PROVE  AloneInv'
    <3>1. /\ \A q \in Requests \ {p} : proc'[q] = proc[q]
          /\ proc'[p].op = "accept" /\ proc'[p].job = j /\ proc'[p].step = "settle"
          /\ proc'[p].row = {row}
      BY <1>1, <2>3 DEF RequestsTyped, ProcType
    <3>2. reserve = {row} /\ row.reserved \in Nat
      BY <1>1 DEF CreditTyped, RowType
    <3>3. Budget[j] \in Nat /\ row \in RowType
      BY <1>1, CreditAssumption DEF CreditTyped
    <3>4. Gross(row, Budget[j]) \in Nat
      BY <3>3, QuotesAreNatural
    <3>5. Gross(row, Budget[j]) <= row.reserved + Tolerance
      BY <2>3, <3>2, <3>4, CreditAssumption
    <3>6. job[j] = "accepted" /\ settles[j] < submits[j]
      BY <1>1, <1>4, <2>1 DEF HandsAlone
    <3>7. HandsAlone(proc[p])'
      BY <1>3, <2>1, <3>1, <3>2, <3>5, <3>6 DEF HandsAlone
    <3> QED BY <1>2, <1>8, <2>1, <3>1, <3>7, ServeAlone
  <2> QED BY <1>10, <2>2, <2>3 DEF SettleRead
<1> QED BY <1>7, <1>9, <1>10

\* A purchase or a refund gives the row and the poster's account the same.
LEMMA FillAlone ==
    ASSUME RequestsInv, MoneyInv, AloneInv, alone, NEW p \in Requests,
           FundMint(p) \/ RefundWrite(p)
    PROVE  AloneInv'
<1> DEFINE me == proc[p]
           x == me.seen
           T == Tolerance * SettledTimes
<1>1. RequestsTyped /\ CreditTyped /\ me \in ProcType /\ x \in Nat
  BY InHand DEF RequestsInv, Typed, ProcType
<1>2. SettledTimes \in Nat
  BY <1>1, TotalIsSum DEF CreditTyped, SettledTimes
<1>3. T \in Nat
  BY <1>2, CreditAssumption
<1>4. UNCHANGED <<settles, submits, job>> /\ Finish(p) /\ me # Idle
  <2>1. UNCHANGED <<settles, submits, job>> /\ Finish(p)
    BY Zenon DEF FundMint, RefundWrite, settleVars
  <2>2. me.op \in {"fund", "reject"}
    BY Zenon DEF FundMint, RefundWrite, At
  <2> QED BY <2>1, <2>2 DEF Idle
<1>5. T' = T
  BY <1>4 DEF SettledTimes
<1>6. account["poster"] \in Int /\ ledger["mint"] \in Int
  BY <1>1 DEF CreditTyped, EntryTypes
<1> HIDE DEF x, T
<1>7. account'["poster"] = account["poster"] + x
  BY <1>1, Zenon DEF FundMint, RefundWrite, CreditTyped, x
<1>8. RowFits /\ JobsFit
  BY DEF AloneInv
<1>9. \A row \in reserve : /\ row \in RowType /\ row.reserved - account["poster"] \in 0..T
                           /\ row.minted = ledger["mint"]
                           /\ row.spent = ledger["worker_payout"] /\ row.fee = ledger["protocol_fee"]
  BY <1>1, <1>8 DEF RowFits, CreditTyped, T
<1>10. ASSUME NEW row, reserve' = {row}, row.reserved - account'["poster"] \in 0..T,
              row.minted = ledger'["mint"], row.spent = ledger'["worker_payout"],
              row.fee = ledger'["protocol_fee"]
       PROVE  AloneInv'
  <2>1. RowFits'
    BY <1>5, <1>10 DEF RowFits, T
  <2>2. JobsFit'
    BY <1>4, <1>8, FitsKept
  <2>3. (\A q \in Requests \ {p} : proc'[q] = proc[q]) /\ proc'[p] = Idle
    BY <1>1, <1>4 DEF Finish, RequestsTyped
  <2>4. HandsAlone(proc[p])'
    BY <2>3 DEF HandsAlone, Idle
  <2> QED BY <1>4, <2>1, <2>2, <2>3, <2>4, ServeAlone
<1>11. ASSUME FundMint(p) PROVE AloneInv'
  <2> DEFINE usd == me.amount
  <2>1. /\ ledger'["mint"] = ledger["mint"] + x
        /\ ledger'["worker_payout"] = ledger["worker_payout"]
        /\ ledger'["protocol_fee"] = ledger["protocol_fee"]
    BY <1>1, <1>11, Zenon DEF FundMint, CreditTyped, EntryTypes, x
  <2>2. reserve' = IF reserve = NoReserve THEN {NewRow(usd, x)}
                   ELSE {[r EXCEPT !.stable = @ + usd, !.minted = @ + x,
                                   !.reserved = @ + x, !.status = "active"] : r \in reserve}
    BY <1>11, Zenon DEF FundMint, x
  <2> HIDE DEF usd
  <2>3. CASE reserve = {}
    <3>1. reserve' = {NewRow(usd, x)}
      BY <2>2, <2>3 DEF NoReserve
    <3>2. \A t \in {"mint", "settlement_debit", "rejection_refund", "worker_payout", "protocol_fee"} :
             ledger[t] = 0
      BY <2>3 DEF MoneyInv, EntryTypes
    <3>3. account["poster"] = 0
      BY <3>2 DEF MoneyInv, AccountsMatchLedger
    <3>4. account'["poster"] = x /\ ledger'["mint"] = x
      BY <1>1, <1>7, <2>1, <3>2, <3>3
    <3>5. NewRow(usd, x).reserved = x /\ NewRow(usd, x).minted = x /\ NewRow(usd, x).spent = 0
          /\ NewRow(usd, x).fee = 0
      BY DEF NewRow
    <3>6. NewRow(usd, x).reserved - account'["poster"] \in 0..T
      BY <1>1, <1>3, <3>4, <3>5
    <3> QED BY <1>10, <2>1, <3>1, <3>2, <3>4, <3>5, <3>6
  <2>4. ASSUME NEW old \in RowType, reserve = {old} PROVE AloneInv'
    <3> DEFINE new == [old EXCEPT !.stable = @ + usd, !.minted = @ + x,
                                  !.reserved = @ + x, !.status = "active"]
    <3>1. reserve' = {new}
      BY <2>2, <2>4 DEF NoReserve
    <3>2. /\ new.reserved = old.reserved + x /\ new.minted = old.minted + x
          /\ new.spent = old.spent /\ new.fee = old.fee
      BY DEF RowType
    <3>3. old.reserved \in Nat /\ old.minted \in Nat
      BY DEF RowType
    <3> HIDE DEF new
    <3>4. old.reserved - account["poster"] \in 0..T /\ old.minted = ledger["mint"]
          /\ old.spent = ledger["worker_payout"] /\ old.fee = ledger["protocol_fee"]
      BY <1>9, <2>4
    <3>5. new.reserved - account'["poster"] \in 0..T
      BY <1>1, <1>3, <1>6, <1>7, <3>2, <3>3, <3>4
    <3> QED BY <1>10, <2>1, <3>1, <3>2, <3>4, <3>5
  <2> QED BY <1>1, <2>3, <2>4 DEF CreditTyped
<1>12. ASSUME RefundWrite(p) PROVE AloneInv'
  <2>1. /\ ledger'["mint"] = ledger["mint"]
        /\ ledger'["worker_payout"] = ledger["worker_payout"]
        /\ ledger'["protocol_fee"] = ledger["protocol_fee"]
    BY <1>1, <1>12, Zenon DEF RefundWrite, CreditTyped, EntryTypes
  <2>2. reserve' = {[r EXCEPT !.reserved = @ + x, !.status = "active"] : r \in reserve}
    BY <1>12, Zenon DEF RefundWrite, x
  <2>3. reserve # {}
    BY <1>12, InHand, Zenon DEF RefundWrite, At, Rejecting
  <2>4. PICK old \in RowType : reserve = {old}
    BY <1>1, <2>3 DEF CreditTyped
  <2> DEFINE new == [old EXCEPT !.reserved = @ + x, !.status = "active"]
  <2>5. reserve' = {new}
    BY <2>2, <2>4
  <2>6. /\ new.reserved = old.reserved + x /\ new.minted = old.minted
        /\ new.spent = old.spent /\ new.fee = old.fee
    BY DEF RowType
  <2>7. old.reserved \in Nat
    BY DEF RowType
  <2> HIDE DEF new
  <2>8. old.reserved - account["poster"] \in 0..T /\ old.minted = ledger["mint"]
        /\ old.spent = ledger["worker_payout"] /\ old.fee = ledger["protocol_fee"]
    BY <1>9, <2>4
  <2>9. new.reserved - account'["poster"] \in 0..T
    BY <1>1, <1>3, <1>6, <1>7, <2>6, <2>7, <2>8
  <2> QED BY <1>10, <2>1, <2>5, <2>6, <2>8, <2>9
<1> QED BY <1>11, <1>12

\* A settlement takes as much from the row as from the poster's account, but for the
\* tolerance that its check allows.
LEMMA SettleAlone ==
    ASSUME RequestsInv, AloneInv, alone, NEW p \in Requests,
           NEW rebate \in BOOLEAN, NEW referred \in BOOLEAN, SettleWrite(p, rebate, referred)
    PROVE  AloneInv'
<1> DEFINE me == proc[p]
           j == me.job
           T == Tolerance * SettledTimes
<1>1. RequestsTyped /\ CreditTyped /\ me \in ProcType /\ me.op = "accept" /\ me.step = "settle" /\ j \in Jobs
  BY InHand DEF SettleWrite, At, Accepting, RequestsInv, Typed
<1>2. PICK row \in RowType, now \in RowType, gross \in Nat :
         SettlesFrom(p, row, now, gross, Split(gross, rebate, referred))
  BY SettleAmounts
<1> DEFINE split == Split(gross, rebate, referred)
<1>3. split.worker \in Nat /\ split.treasury \in Nat
  BY SplitFits
<1> HIDE DEF split
<1>4. /\ row \in me.row /\ now \in reserve /\ gross = Gross(row, Budget[j])
      /\ account' = [a \in DOMAIN account |->
                       account[a] + IF a = "poster" THEN -gross ELSE split[a]]
      /\ reserve' = {[Settled(row, gross, split) EXCEPT !.stable = now.stable,
                                                       !.minted = now.minted]}
      /\ ledger' = [ledger EXCEPT !["settlement_debit"] = @ - gross,
                        !["worker_payout"] = @ + split.worker,
                        !["protocol_fee"] = @ + split.treasury,
                        !["staker_yield_pool"] = @ + split.staker_yield_pool]
  BY <1>2 DEF SettlesFrom, split
<1>5. RowFits /\ JobsFit /\ HandsAlone(me)
  BY DEF AloneInv
<1>6. /\ reserve = {row} /\ now = row /\ gross <= row.reserved + Tolerance
      /\ job[j] = "accepted" /\ settles[j] < submits[j]
  BY <1>1, <1>4, <1>5 DEF HandsAlone
<1>7. /\ settles' = [settles EXCEPT ![j] = @ + 1] /\ Goto(p, "release") /\ UNCHANGED <<job, submits>>
  BY DEF SettleWrite
<1>8. settles \in [Jobs -> Nat] /\ submits \in [Jobs -> Nat]
  BY <1>1 DEF CreditTyped
<1>9. SettledTimes \in Nat /\ SettledTimes' = SettledTimes + 1
  BY <1>1, <1>7, <1>8, OneMoreSettled
<1>10. T \in Nat /\ Tolerance \in Nat /\ Tolerance * SettledTimes' = T + Tolerance
  BY <1>9, CreditAssumption
<1> HIDE DEF T
<1> DEFINE new == [Settled(row, gross, split) EXCEPT !.stable = now.stable, !.minted = now.minted]
           left == AtLeast0(row.reserved - gross)
<1>11. /\ new.reserved = left /\ new.minted = now.minted
       /\ new.spent = row.spent + split.worker /\ new.fee = row.fee + split.treasury
  BY DEF Settled
<1>12. /\ ledger'["mint"] = ledger["mint"]
       /\ ledger'["worker_payout"] = ledger["worker_payout"] + split.worker
       /\ ledger'["protocol_fee"] = ledger["protocol_fee"] + split.treasury
  BY <1>1, <1>4 DEF CreditTyped, EntryTypes
<1>13. account'["poster"] = account["poster"] - gross /\ account["poster"] \in Int
  BY <1>1, <1>4 DEF CreditTyped
<1>14. /\ row.reserved \in Nat /\ row.reserved - account["poster"] \in 0..T
       /\ row.minted = ledger["mint"]
       /\ row.spent = ledger["worker_payout"] /\ row.fee = ledger["protocol_fee"]
  BY <1>5, <1>6 DEF RowFits, T, RowType
<1>15. left - account'["poster"] \in 0..(T + Tolerance)
  <2>1. left = IF row.reserved < gross THEN 0 ELSE row.reserved - gross
    BY <1>14 DEF AtLeast0
  <2> HIDE DEF left
  <2> QED BY <1>6, <1>10, <1>13, <1>14, <2>1
<1>16. RowFits'
  <2>1. reserve' = {new}
    BY <1>4
  <2> HIDE DEF new, left
  <2>2. new.reserved - account'["poster"] \in 0..(Tolerance * SettledTimes')
    BY <1>10, <1>11, <1>15
  <2> QED BY <1>6, <1>11, <1>12, <1>14, <2>1, <2>2 DEF RowFits
<1>17. JobsFit'
  <2>1. ASSUME NEW i \in Jobs
        PROVE  settles'[i] <= submits[i] /\ (job[i] = "submitted" => settles'[i] < submits[i])
    <3>1. settles[i] \in Nat /\ submits[i] \in Nat /\ settles'[i] = IF i = j THEN settles[i] + 1 ELSE settles[i]
      BY <1>1, <1>7, <1>8
    <3> QED BY <1>5, <1>6, <3>1 DEF JobsFit
  <2> QED BY <1>7, <2>1 DEF JobsFit
<1>18. (\A q \in Requests \ {p} : proc'[q] = proc[q]) /\ proc'[p].step = "release"
  BY <1>1, <1>7 DEF Goto, RequestsTyped, ProcType
<1>19. HandsAlone(proc[p])' /\ me # Idle
  BY <1>1, <1>18 DEF HandsAlone, Idle
<1> QED BY <1>16, <1>17, <1>18, <1>19, ServeAlone

\* One request at a time: the steps of AloneInv.
LEMMA AloneStep ==
    ASSUME RequestsInv, MoneyInv, AloneInv, [Next]_vars
    PROVE  AloneInv'
<1>1. RequestsTyped /\ CreditTyped
  BY DEF RequestsInv, Typed
<1>2. CASE ~alone'
  BY <1>2 DEF AloneInv
<1>3. ASSUME NEW p \in Requests, Arrive(p), alone' PROVE AloneInv'
  BY <1>3, ArriveAlone
<1>4. ASSUME NEW p \in Requests, CreditStep(p), alone' PROVE AloneInv'
  <2>1. alone
    BY <1>4, Zenon DEF CreditStep, MarkFunded, FundQuote, FundMint, CancelWrite, AcceptJob, SettleGuard,
                SettleRead, SettleWrite, EscrowRelease, EscrowMark, RejectJob, RefundRead, RefundWrite,
                Quiet, Calm, Apply
  <2>2. CASE AcceptJob(p) \/ SettleGuard(p) \/ SettleRead(p)
    BY <2>1, <2>2, AcceptAlone
  <2>3. CASE FundMint(p) \/ RefundWrite(p)
    BY <2>1, <2>3, FillAlone
  <2>4. CASE \E rebate, referred \in BOOLEAN : SettleWrite(p, rebate, referred)
    BY <2>1, <2>4, SettleAlone
  <2>5. CASE MarkFunded(p) \/ FundQuote(p) \/ CancelWrite(p) \/ RefundRead(p)
    <3>1. UNCHANGED <<account, reserve, ledger, settles, submits, job>>
      BY <2>5 DEF MarkFunded, FundQuote, CancelWrite, RefundRead, creditVars, moneyVars, settleVars
    <3>2. proc[p].op \in {"fund", "sync", "cancel", "reject"}
      BY <2>5, InHand DEF MarkFunded, FundQuote, CancelWrite, RefundRead, At, Serving, Idle, Accepting,
                          Hooked
    <3>3. proc[p] # Idle
      BY <3>2 DEF Idle
    <3>4. \/ Finish(p) \/ Goto(p, "quote")
          \/ \E s, x : proc' = [proc EXCEPT ![p].step = s, ![p].seen = x]
      BY <2>5 DEF MarkFunded, FundQuote, CancelWrite, RefundRead
    <3>5. "quote" \in Steps
      BY DEF Steps
    <3>6. ASSUME NEW s, NEW x, proc' = [proc EXCEPT ![p].step = s, ![p].seen = x]
          PROVE  \E r : proc' = [proc EXCEPT ![p] = r] /\ r.op = proc[p].op
      <4> DEFINE r == [proc[p] EXCEPT !.step = s, !.seen = x]
      <4>1. proc' = [proc EXCEPT ![p] = r] /\ r.op = proc[p].op
        BY <1>1, <3>6 DEF RequestsTyped, ProcType
      <4> QED BY <4>1
    <3>7. \/ Finish(p)
          \/ \E s \in Steps : Goto(p, s) /\ (proc[p].op # "accept" \/ s \in {"release", "mark", "attest"})
          \/ proc[p].op # "accept" /\ \E r : proc' = [proc EXCEPT ![p] = r] /\ r.op = proc[p].op
      BY <3>2, <3>4, <3>5, <3>6
    <3> QED BY <2>1, <3>1, <3>3, <3>7, AsideAlone
  <2>6. CASE EscrowRelease(p) \/ EscrowMark(p) \/ RejectJob(p)
    <3>1. UNCHANGED <<account, reserve, ledger, settles, submits>>
      BY <2>6 DEF EscrowRelease, EscrowMark, RejectJob, creditVars, moneyVars, settleVars
    <3>2. \A i \in Jobs : job'[i] = "submitted" => job[i] = "submitted"
      BY <1>1, <2>6 DEF EscrowRelease, EscrowMark, RejectJob, RequestsTyped
    <3>3. \E s \in Steps : Goto(p, s) /\ (proc[p].op # "accept" \/ s \in {"release", "mark", "attest"})
      <4>1. {"mark", "attest", "reserve"} \subseteq Steps
        BY DEF Steps
      <4> QED BY <2>6, <4>1 DEF EscrowRelease, EscrowMark, RejectJob, At
    <3>4. proc[p].op \in {"accept", "reject"}
      BY <2>6 DEF EscrowRelease, EscrowMark, RejectJob, At
    <3>5. proc[p] # Idle
      BY <3>4 DEF Idle
    <3> QED BY <2>1, <3>1, <3>2, <3>3, <3>5, AsideAlone
  <2> QED BY <1>4, <2>2, <2>3, <2>4, <2>5, <2>6, SMTT(30) DEF CreditStep
<1>5. ASSUME NEW p \in Requests, SyncStep(p), UNCHANGED creditVars, alone' PROVE AloneInv'
  <2>1. alone
    BY <1>5 DEF SyncStep, RejectPayload, Reserve, InsertRelease, MarkSettled, ReportRead, ReportCount,
                HookStatus, Attest, Quiet, Calm, Apply
  <2>2. UNCHANGED <<account, reserve, ledger, settles, submits>>
    BY <1>5 DEF creditVars, moneyVars, settleVars
  <2>3. \A i \in Jobs : job'[i] = "submitted" => job[i] = "submitted"
    BY <1>1, <1>5 DEF SyncStep, RejectPayload, Reserve, InsertRelease, MarkSettled, ReportRead,
                ReportCount, HookStatus, DisputeStatus, Attest, RequestsTyped
  <2>4. CASE Attest(p)
    <3>1. proc[p].op = "accept" /\ Finish(p)
      BY <2>4 DEF Attest, At
    <3>2. proc[p] # Idle
      BY <3>1 DEF Idle
    <3> QED BY <2>1, <2>2, <2>3, <3>1, <3>2, AsideAlone
  <2>5. CASE ~Attest(p)
    <3>1. proc[p].op \in {"sync", "hook"}
      BY <1>5, <2>5, InHand DEF SyncStep, RejectPayload, Reserve, InsertRelease, MarkSettled, ReportRead,
                ReportCount, HookStatus, Applying, At, Serving, Idle, Funds, Accepting, Rejecting
    <3>2. proc[p] # Idle
      BY <3>1 DEF Idle
    <3>3. \/ Finish(p) \/ Goto(p, "settled")
          \/ \E s, x : proc' = [proc EXCEPT ![p].step = s, ![p].seen = x]
      BY <1>5, <2>5 DEF SyncStep, RejectPayload, Reserve, InsertRelease, MarkSettled, ReportRead,
                        ReportCount, HookStatus
    <3>4. "settled" \in Steps
      BY DEF Steps
    <3>5. ASSUME NEW s, NEW x, proc' = [proc EXCEPT ![p].step = s, ![p].seen = x]
          PROVE  \E r : proc' = [proc EXCEPT ![p] = r] /\ r.op = proc[p].op
      <4> DEFINE r == [proc[p] EXCEPT !.step = s, !.seen = x]
      <4>1. proc' = [proc EXCEPT ![p] = r] /\ r.op = proc[p].op
        BY <1>1, <3>5 DEF RequestsTyped, ProcType
      <4> QED BY <4>1
    <3>6. \/ Finish(p)
          \/ \E s \in Steps : Goto(p, s) /\ (proc[p].op # "accept" \/ s \in {"release", "mark", "attest"})
          \/ proc[p].op # "accept" /\ \E r : proc' = [proc EXCEPT ![p] = r] /\ r.op = proc[p].op
      BY <3>1, <3>3, <3>4, <3>5
    <3> QED BY <2>1, <2>2, <2>3, <3>2, <3>6, AsideAlone
  <2> QED BY <2>4, <2>5
<1>6. ASSUME NEW p \in Requests, RecordInsert(p), UNCHANGED creditVars, alone' PROVE AloneInv'
  <2>1. /\ alone /\ UNCHANGED <<job, account, reserve, ledger, settles, submits>>
        /\ proc[p].step = "record" /\ (Finish(p) \/ Goto(p, "apply"))
    BY <1>6 DEF RecordInsert, Quiet, Calm, creditVars, moneyVars, settleVars
  <2>2. proc[p].op # "accept" /\ "apply" \in Steps
    BY <2>1, InHand DEF Accepting, Steps
  <2>3. proc[p] # Idle
    BY <2>1 DEF Idle
  <2> QED BY <2>1, <2>2, <2>3, AsideAlone
<1>7. ASSUME NEW p \in Requests, Fail(p), UNCHANGED creditVars, alone' PROVE AloneInv'
  <2>1. /\ alone /\ UNCHANGED <<job, account, reserve, ledger, settles, submits>>
        /\ proc[p] # Idle /\ Finish(p)
    BY <1>7 DEF Fail, creditVars, moneyVars, settleVars
  <2> QED BY <2>1, AsideAlone
<1>8. ASSUME NEW j \in Jobs, SubmitJob(j), alone' PROVE AloneInv'
  <2>1. /\ job[j] \in {"queued", "rework"} /\ job' = [job EXCEPT ![j] = "submitted"]
        /\ submits' = [submits EXCEPT ![j] = @ + 1]
        /\ alone /\ UNCHANGED <<proc, account, reserve, ledger, settles>>
    BY <1>8 DEF SubmitJob, Submit, moneyVars
  <2>2. RowFits /\ JobsFit /\ OneBusy /\ \A p \in Requests : HandsAlone(proc[p])
    BY <2>1 DEF AloneInv
  <2>3. /\ \A i \in Jobs : settles[i] \in Nat /\ submits[i] \in Nat
        /\ \A i \in Jobs : submits'[i] = IF i = j THEN submits[i] + 1 ELSE submits[i]
        /\ \A i \in Jobs : job'[i] = IF i = j THEN "submitted" ELSE job[i]
    BY <1>1, <2>1 DEF CreditTyped, RequestsTyped
  <2>4. RowFits'
    BY <2>1, <2>2, FitsKept
  <2>5. JobsFit'
    BY <2>1, <2>2, <2>3 DEF JobsFit
  <2>6. OneBusy'
    BY <2>1, <2>2 DEF OneBusy
  <2>7. ASSUME NEW p \in Requests PROVE HandsAlone(proc[p])'
    <3>1. CASE proc[p].op # "accept"
      BY <2>1, <3>1 DEF HandsAlone
    <3>2. CASE proc[p].op = "accept"
      <4>1. proc[p].job \in Jobs
        BY <3>2, InHand DEF Accepting
      <4>2. settles[proc[p].job] < submits[proc[p].job] => settles[proc[p].job] < submits'[proc[p].job]
        BY <2>3, <4>1
      <4>3. job[proc[p].job] \in {"submitted", "accepted"} => job'[proc[p].job] = job[proc[p].job]
        BY <2>1, <2>3, <4>1
      <4> QED BY <2>1, <2>2, <3>2, <4>2, <4>3 DEF HandsAlone
    <3> QED BY <3>1, <3>2
  <2> QED BY <2>4, <2>5, <2>6, <2>7 DEF AloneInv
<1>9. ASSUME Background \/ UNCHANGED vars, UNCHANGED creditVars PROVE AloneInv'
  <2>1. UNCHANGED <<job, proc, alone, account, reserve, ledger, settles, submits>>
    BY <1>9, Zenon DEF Background, TaskRead, ReputationWrite, RegistrySend, MilestoneStep, Emit, vars,
                requestVars, creditVars, moneyVars, settleVars
  <2>2. RowFits => RowFits'
    BY <2>1, FitsKept
  <2> QED BY <2>1, <2>2 DEF AloneInv, JobsFit, OneBusy, HandsAlone
<1>10. ASSUME Restart, UNCHANGED creditVars PROVE AloneInv'
  <2>1. UNCHANGED <<job, alone, account, reserve, ledger, settles, submits>>
        /\ proc' = [p \in Requests |-> Idle]
    BY <1>10 DEF Restart, creditVars, moneyVars, settleVars
  <2>2. RowFits /\ JobsFit => RowFits' /\ JobsFit'
    BY <2>1, FitsKept
  <2> QED BY <2>1, <2>2 DEF AloneInv, OneBusy, HandsAlone, Idle
<1>11. UNCHANGED vars => UNCHANGED creditVars
  BY DEF vars
<1> QED BY <1>2, <1>3, <1>4, <1>5, <1>6, <1>7, <1>8, <1>9, <1>10, <1>11 DEF Next, Serve

\* The three records of the same credits agree in every state: accounts with ledger
\* always, splits up to rounding, the idea's row while requests do not overlap; a mark
\* stands for a payment and credits for a recorded funding (tokenomicsService.ts,
\* routes/ideas.ts 143-180).
THEOREM CreditsAlwaysAddUp == Spec => []CreditsAddUp
<1>1. Init => MoneyInv /\ AloneInv
  <2> SUFFICES ASSUME Init PROVE MoneyInv /\ AloneInv
    OBVIOUS
  <2> USE DEF Init, RequestsInit, CreditInit
  <2>1. SettledTimes \in Nat
    BY TotalIsSum DEF SettledTimes
  <2>2. AccountsMatchLedger
    <3>1. /\ \A a \in {"poster", "worker", "treasury", "staker_yield_pool"} : account[a] = 0
          /\ \A t \in EntryTypes : ledger[t] = 0
      BY DEF Payees
    <3>2. /\ ledger["mint"] = 0 /\ ledger["settlement_debit"] = 0 /\ ledger["rejection_refund"] = 0
          /\ ledger["reserve"] = 0 /\ ledger["worker_payout"] = 0 /\ ledger["protocol_fee"] = 0
          /\ ledger["staker_yield_pool"] = 0
      BY <3>1 DEF EntryTypes
    <3>3. /\ account["poster"] = 0 /\ account["worker"] = 0 /\ account["treasury"] = 0
          /\ account["staker_yield_pool"] = 0
      BY <3>1
    <3> HIDE DEF Init, CreditInit
    <3>4. \A n, m \in Int : m + n = 0 => m = -n
      OBVIOUS
    <3>7. ledger["reserve"] \in Int /\ ledger["mint"] \in Int /\ ledger["reserve"] + ledger["mint"] = 0
      BY <3>2
    <3>5. ledger["reserve"] = -ledger["mint"]
      BY <3>4, <3>7
    <3>6. account["poster"] = ledger["mint"] + ledger["settlement_debit"] + ledger["rejection_refund"]
      BY <3>2, <3>3
    <3> QED BY <3>2, <3>3, <3>5, <3>6 DEF AccountsMatchLedger
  <2>6. MarkedWasPaid /\ MintedForFunding
    BY DEF MarkedWasPaid, MintedForFunding
  <2>3. SplitsAddUp
    BY <2>1 DEF SplitsAddUp, EntryTypes
  <2>4. MoneyInv
    BY <2>2, <2>3, <2>6 DEF MoneyInv
  <2>5. AloneInv
    BY DEF AloneInv, RowFits, JobsFit, OneBusy, HandsAlone, NoReserve, Idle
  <2> QED BY <2>4, <2>5
<1>2. RequestsInv /\ MoneyInv /\ AloneInv /\ [Next]_vars => MoneyInv' /\ AloneInv'
  BY MoneyStep, AloneStep
<1>3. MoneyInv /\ AloneInv => CreditsAddUp
  BY DEF MoneyInv, AloneInv, RowFits, JobsFit, CreditsAddUp, RowAgreesWhenAlone
<1> QED BY <1>1, <1>2, <1>3, RequestsAlways, PTL DEF Spec

-----------------------------------------------------------------------------
(* Scripts: one call, or what is left of a settlement                         *)

CallNames == {"setWorker", "clearWorker", "openDispute",
              "scores", "distribute", "buyback", "cap", "evaluate", "credential"}

\* The last k calls of a settlement
Onwards(k, j, w) ==
    CASE k = 0 -> <<>>
      [] k = 1 -> <<Deposit("fees")>>
      [] k = 2 -> <<Approve("fees"), Deposit("fees")>>
      [] k = 3 -> <<Call("release", j, w), Approve("fees"), Deposit("fees")>>
      [] k = 4 -> <<Deposit("staking"), Call("release", j, w), Approve("fees"), Deposit("fees")>>
      [] k = 5 -> <<Approve("staking"), Deposit("staking"), Call("release", j, w),
                    Approve("fees"), Deposit("fees")>>

First(k, j, w) ==
    CASE k = 1 -> Deposit("fees")
      [] k = 2 -> Approve("fees")
      [] k = 3 -> Call("release", j, w)
      [] k = 4 -> Deposit("staking")
      [] k = 5 -> Approve("staking")

Settles(s, k) == s.calls = Onwards(k, s.job, s.who) /\ s.job \in Jobs /\ s.who \in Accounts

OneCall(s) ==
    \E name \in CallNames, w \in {s.who, None} :
       /\ s.calls = <<Call(name, s.job, w)>>
       /\ name = "setWorker" => s.job \in Jobs /\ w \in Accounts
       /\ name = "clearWorker" => s.job \in Jobs /\ w = None

ScriptFields(s) == DOMAIN s = {"calls", "job", "who", "step", "nonce"} /\ s.nonce \in Nat

ScriptRow(s) ==
    /\ ScriptFields(s)
    /\ \/ OneCall(s) /\ s.step \in {"prepare", "send"}
       \/ \E k \in 1..5 : Settles(s, k) /\ (s.step \in {"prepare", "send"} \/ (s.step = "mark" /\ k = 3))

LEMMA OnwardsNone == \A j, w : Onwards(0, j, w) = <<>> /\ Len(Onwards(0, j, w)) = 0
BY DEF Onwards

LEMMA OnwardsNext ==
    ASSUME NEW k \in 1..5, NEW j, NEW w
    PROVE  /\ Head(Onwards(k, j, w)) = First(k, j, w)
           /\ Tail(Onwards(k, j, w)) = Onwards(k - 1, j, w)
           /\ Onwards(k, j, w) # <<>> /\ Len(Onwards(k, j, w)) = k
<1>0. Onwards(0, j, w) = <<>> /\ Len(Onwards(0, j, w)) = 0
  BY OnwardsNone
<1>1. ASSUME NEW a, NEW b, NEW c, NEW d, NEW e
      PROVE  /\ Tail(<<a>>) = <<>> /\ Tail(<<a, b>>) = <<b>> /\ Tail(<<a, b, c>>) = <<b, c>>
             /\ Tail(<<a, b, c, d>>) = <<b, c, d>> /\ Tail(<<a, b, c, d, e>>) = <<b, c, d, e>>
  OBVIOUS
<1>2. ASSUME NEW a, NEW b, NEW c, NEW d, NEW e
      PROVE  /\ Head(<<a>>) = a /\ Head(<<a, b>>) = a /\ Head(<<a, b, c>>) = a
             /\ Head(<<a, b, c, d>>) = a /\ Head(<<a, b, c, d, e>>) = a
             /\ Len(<<a>>) = 1 /\ Len(<<a, b>>) = 2 /\ Len(<<a, b, c>>) = 3
             /\ Len(<<a, b, c, d>>) = 4 /\ Len(<<a, b, c, d, e>>) = 5
             /\ <<a>> # <<>> /\ <<a, b>> # <<>> /\ <<a, b, c>> # <<>>
             /\ <<a, b, c, d>> # <<>> /\ <<a, b, c, d, e>> # <<>>
  OBVIOUS
<1>3. CASE k = 1
  BY <1>0, <1>1, <1>2, <1>3 DEF Onwards, First
<1>4. CASE k = 2
  BY <1>0, <1>1, <1>2, <1>4 DEF Onwards, First
<1>5. CASE k = 3
  BY <1>0, <1>1, <1>2, <1>5 DEF Onwards, First
<1>6. CASE k = 4
  BY <1>0, <1>1, <1>2, <1>6 DEF Onwards, First
<1>7. CASE k = 5
  BY <1>0, <1>1, <1>2, <1>7 DEF Onwards, First
<1> QED BY <1>3, <1>4, <1>5, <1>6, <1>7

LEMMA OneCallFacts ==
    ASSUME NEW s, OneCall(s)
    PROVE  /\ s.calls # <<>> /\ Tail(s.calls) = <<>> /\ Len(s.calls) = 1
           /\ s.calls = <<Head(s.calls)>>
           /\ Head(s.calls).name \in CallNames /\ Head(s.calls).job = s.job
           /\ Head(s.calls).name = "setWorker" => s.job \in Jobs /\ Head(s.calls).who \in Accounts
           /\ Head(s.calls).name = "clearWorker" => s.job \in Jobs /\ Head(s.calls).who = None
<1>1. PICK name \in CallNames, w \in {s.who, None} :
           /\ s.calls = <<Call(name, s.job, w)>>
           /\ name = "setWorker" => s.job \in Jobs /\ w \in Accounts
           /\ name = "clearWorker" => s.job \in Jobs /\ w = None
  BY DEF OneCall
<1>2. LET c == Call(name, s.job, w) IN c.name = name /\ c.job = s.job /\ c.who = w
  BY DEF Call
<1>3. ASSUME NEW c PROVE Tail(<<c>>) = <<>> /\ Head(<<c>>) = c /\ Len(<<c>>) = 1 /\ <<c>> # <<>>
  OBVIOUS
<1> QED BY <1>1, <1>2, <1>3

\* A script is of one kind, at one stage.
LEMMA ScriptKinds ==
    ASSUME NEW s, NEW k \in 1..5, Settles(s, k)
    PROVE  /\ ~OneCall(s)
           /\ \A l \in 0..5 : Settles(s, l) => l = k
           /\ s.calls # <<>> /\ Head(s.calls) = First(k, s.job, s.who)
           /\ Tail(s.calls) = Onwards(k - 1, s.job, s.who)
           /\ k \in {2, 5} => Tail(Tail(s.calls)) = Onwards(k - 2, s.job, s.who)
<1>1. Len(s.calls) = k /\ Head(s.calls) = First(k, s.job, s.who) /\ s.calls # <<>>
      /\ Tail(s.calls) = Onwards(k - 1, s.job, s.who)
  <2> DEFINE o == Onwards(k, s.job, s.who)
  <2>1. Len(o) = k /\ Head(o) = First(k, s.job, s.who) /\ o # <<>> /\ Tail(o) = Onwards(k - 1, s.job, s.who)
    BY OnwardsNext, ZenonT(40)
  <2>2. s.calls = o
    BY DEF Settles
  <2> HIDE DEF o
  <2> QED BY <2>1, <2>2
<1>2. \A l \in 0..5 : Settles(s, l) => Len(s.calls) = l
  <2> TAKE l \in 0..5
  <2>1. CASE l = 0
    BY <2>1, OnwardsNone DEF Settles
  <2>2. CASE l \in 1..5
    BY <2>2, OnwardsNext, SMTT(30) DEF Settles
  <2> QED BY <2>1, <2>2
<1>3. First(1, s.job, s.who).name = "deposit"
  BY DEF First, Deposit
<1>4. ~OneCall(s)
  BY <1>1, <1>3, OneCallFacts DEF CallNames
<1>5. k \in {2, 5} => k - 1 \in 1..5 /\ (k - 1) - 1 = k - 2
  OBVIOUS
<1>6. k \in {2, 5} => Tail(Onwards(k - 1, s.job, s.who)) = Onwards(k - 2, s.job, s.who)
  BY <1>5, OnwardsNext, SMTT(30)
<1> QED BY <1>1, <1>2, <1>4, <1>6

LEMMA FirstNames ==
    ASSUME NEW j, NEW w
    PROVE  /\ First(1, j, w) = [name |-> "deposit", job |-> None, who |-> "fees", amount |-> Share["fees"]]
           /\ First(2, j, w) = [name |-> "approve", job |-> None, who |-> "fees", amount |-> Share["fees"]]
           /\ First(3, j, w) = [name |-> "release", job |-> j, who |-> w, amount |-> 0]
           /\ First(4, j, w) = [name |-> "deposit", job |-> None, who |-> "staking", amount |-> Share["staking"]]
           /\ First(5, j, w) = [name |-> "approve", job |-> None, who |-> "staking", amount |-> Share["staking"]]
BY DEF First, Deposit, Approve, Call

\* What s goes on as, once its first call is done, or has failed
Pop(s) == [s EXCEPT !.calls = Tail(s.calls), !.step = "prepare"]

\* t goes on as s with fewer calls.
Drops(s, t) ==
    /\ ScriptFields(t) /\ t.job = s.job /\ t.who = s.who /\ t.nonce = s.nonce /\ t.step = "prepare"
    /\ OneCall(s) => t.calls = <<>>
    /\ t.calls # <<>> => ScriptRow(t)

LEMMA PopDrops ==
    ASSUME NEW s, ScriptRow(s)
    PROVE  Drops(s, Pop(s)) /\ \A k \in 1..5 : Settles(s, k) => Settles(Pop(s), k - 1)
<1> DEFINE t == Pop(s)
<1>1. ScriptFields(t) /\ t.job = s.job /\ t.who = s.who /\ t.nonce = s.nonce /\ t.step = "prepare"
      /\ t.calls = Tail(s.calls)
  BY DEF ScriptRow, ScriptFields, Pop
<1>2. \A k \in 1..5 : Settles(s, k) => Settles(t, k - 1)
  BY <1>1, ScriptKinds DEF Settles
<1>3. OneCall(s) => t.calls = <<>>
  BY <1>1, OneCallFacts
<1>4. ASSUME t.calls # <<>> PROVE ScriptRow(t)
  <2>1. PICK k \in 1..5 : Settles(s, k)
    BY <1>3, <1>4 DEF ScriptRow
  <2>2. k # 1
    BY <1>2, <1>4, <2>1, OnwardsNone DEF Settles
  <2> QED BY <1>1, <1>2, <2>1, <2>2 DEF ScriptRow
<1> QED BY <1>1, <1>2, <1>3, <1>4 DEF Drops

LEMMA RestDrops ==
    ASSUME NEW s, ScriptRow(s)
    PROVE  /\ Drops(s, Rest(s))
           /\ \A k \in 1..5 : Settles(s, k) => Settles(Rest(s), IF k \in {2, 5} THEN k - 2 ELSE k - 1)
<1> DEFINE t == Rest(s)
<1>1. ScriptFields(t) /\ t.job = s.job /\ t.who = s.who /\ t.nonce = s.nonce /\ t.step = "prepare"
      /\ t.calls = IF Head(s.calls).name = "approve" THEN Tail(Tail(s.calls)) ELSE Tail(s.calls)
  BY DEF ScriptRow, ScriptFields, Rest
<1>2. ASSUME NEW k \in 1..5, Settles(s, k)
      PROVE  Settles(t, IF k \in {2, 5} THEN k - 2 ELSE k - 1)
  <2>1. (Head(s.calls).name = "approve") = (k \in {2, 5})
    BY <1>2, ScriptKinds, FirstNames
  <2> QED BY <1>1, <1>2, <2>1, ScriptKinds DEF Settles
<1>3. OneCall(s) => t.calls = <<>>
  BY <1>1, OneCallFacts DEF CallNames
<1>4. ASSUME t.calls # <<>> PROVE ScriptRow(t)
  <2>1. PICK k \in 1..5 : Settles(s, k)
    BY <1>3, <1>4 DEF ScriptRow
  <2>2. k \notin {1, 2}
    BY <1>2, <1>4, <2>1, OnwardsNone DEF Settles
  <2> QED BY <1>1, <1>2, <2>1, <2>2 DEF ScriptRow
<1> QED BY <1>1, <1>2, <1>3, <1>4 DEF Drops

\* What s goes on as with the same calls
Stays(s, t) == /\ ScriptFields(t) /\ t.job = s.job /\ t.who = s.who /\ t.calls = s.calls

LEMMA StaysKind ==
    ASSUME NEW s, NEW t, Stays(s, t)
    PROVE  OneCall(t) = OneCall(s) /\ \A k : Settles(t, k) = Settles(s, k)
BY DEF Stays, OneCall, Settles

\* Every step of a script: one call less, fewer calls after a failure, or the same
\* calls at another step.
Advances(s, t) ==
    \/ PrepareCall(s) /\ Reverts(Head(s.calls)) /\ t = Rest(s)
    \/ /\ PrepareCall(s) /\ ~Reverts(Head(s.calls)) /\ Stays(s, t)
       /\ t.step = "send" /\ t.nonce = Len(sent)
    \/ SendCall(s) /\ Head(s.calls).name # "release" /\ t = Pop(s)
    \/ SendCall(s) /\ Head(s.calls).name = "release" /\ Stays(s, t) /\ t.step = "mark" /\ t.nonce = s.nonce
    \/ MarkSettledOnChain(s) /\ t = Pop(s)
    \/ CallFails(s) /\ t = Rest(s)
    \/ CallFails(s) /\ Head(s.calls).name = "release" /\ Stays(s, t) /\ t.step = "prepare" /\ t.nonce = s.nonce

LEMMA ScriptAdvances ==
    ASSUME NEW s \in scripts, ScriptRow(s), Len(sent) \in Nat,
           PrepareCall(s) \/ SendCall(s) \/ MarkSettledOnChain(s) \/ CallFails(s)
    PROVE  \E t : Advances(s, t) /\ Becomes(s, t)
<1> DEFINE t1 == [s EXCEPT !.step = "send", !.nonce = Len(sent)]
           t2 == [s EXCEPT !.step = "mark"]
           t3 == [s EXCEPT !.step = "prepare"]
<1>1. Stays(s, t1) /\ t1.step = "send" /\ t1.nonce = Len(sent)
  BY DEF ScriptRow, ScriptFields, Stays
<1>2. Stays(s, t2) /\ t2.step = "mark" /\ t2.nonce = s.nonce
  BY DEF ScriptRow, ScriptFields, Stays
<1>3. Stays(s, t3) /\ t3.step = "prepare" /\ t3.nonce = s.nonce
  BY DEF ScriptRow, ScriptFields, Stays
<1>4. PrepareCall(s) => IF Reverts(Head(s.calls)) THEN Becomes(s, Rest(s)) ELSE Becomes(s, t1)
  BY DEF PrepareCall
<1>5. SendCall(s) => Becomes(s, IF Head(s.calls).name = "release" THEN t2 ELSE Pop(s))
  BY DEF SendCall, Pop
<1>6. MarkSettledOnChain(s) => Becomes(s, Pop(s))
  BY DEF MarkSettledOnChain, Pop
<1>7. CallFails(s) => Becomes(s, Rest(s)) \/ (Head(s.calls).name = "release" /\ Becomes(s, t3))
  BY DEF CallFails
<1> HIDE DEF t1, t2, t3
<1> QED BY <1>1, <1>2, <1>3, <1>4, <1>5, <1>6, <1>7 DEF Advances

-----------------------------------------------------------------------------
(* What an executed call does to the contracts                                *)

EscrowType == [state : {"unfunded", "funded", "released", "refunded"}, worker : Accounts \cup {None}]

CallFits(c) ==
    /\ c.name = "setWorker" => c.job \in Jobs /\ c.who \in Accounts
    /\ c.name = "clearWorker" => c.job \in Jobs
    /\ c.name = "release" => c.job \in Jobs /\ c.who \in Accounts
    /\ c.name \in {"approve", "deposit"} => c.who \in Depositories /\ c.amount = Share[c.who]

SentTyped == (\E S : sent \in Seq(S)) /\ \A k \in 1..Len(sent) : CallFits(sent[k])

WalletTables ==
    /\ escrow \in [Jobs -> EscrowType]
    /\ allowance \in [Depositories -> Nat] /\ deposits \in [Depositories -> Nat]
    /\ missed \in [Depositories -> Nat]
    /\ DOMAIN epochs = {"scored", "distributed"}
    /\ SentTyped /\ mined \in 0..Len(sent) /\ accepts \in Nat /\ settled \subseteq Jobs
    /\ IsFiniteSet(scripts) /\ \A s \in scripts : ScriptRow(s)

LEMMA SentFacts ==
    ASSUME SentTyped
    PROVE  Len(sent) \in Nat /\ DOMAIN sent = 1..Len(sent)
<1>1. PICK S : sent \in Seq(S)
  BY DEF SentTyped
<1> QED BY <1>1

\* The transaction that is sent comes last, after all the others.
LEMMA SendFacts ==
    ASSUME SentTyped, NEW c, Send(c)
    PROVE  /\ Len(sent) \in Nat /\ Len(sent)' = Len(sent) + 1
           /\ sent'[Len(sent) + 1] = c /\ \A k \in 1..Len(sent) : sent'[k] = sent[k]
           /\ UNCHANGED <<escrow, allowance, deposits, epochs, mined>>
           /\ CallFits(c) => SentTyped'
<1>1. PICK S : sent \in Seq(S)
  BY DEF SentTyped
<1> DEFINE T == S \cup {c}
<1>2. sent \in Seq(T) /\ c \in T
  BY <1>1
<1>3. sent' = Append(sent, c) /\ UNCHANGED <<escrow, allowance, deposits, epochs, mined>>
  BY DEF Send
<1> HIDE DEF T
<1>4. /\ sent' \in Seq(T) /\ Len(sent)' = Len(sent) + 1 /\ Len(sent) \in Nat
      /\ sent'[Len(sent) + 1] = c /\ \A k \in 1..Len(sent) : sent'[k] = sent[k]
  BY <1>2, <1>3, AppendProperties
<1>5. ASSUME CallFits(c) PROVE SentTyped'
  <2>1. \A k \in 1..Len(sent)' : CallFits(sent'[k])
    <3> TAKE k \in 1..Len(sent)'
    <3>1. k = Len(sent) + 1 \/ k \in 1..Len(sent)
      BY <1>4
    <3>2. k \in 1..Len(sent) => CallFits(sent[k])
      BY DEF SentTyped
    <3> QED BY <1>4, <1>5, <3>1, <3>2
  <2>2. \E R : sent' \in Seq(R)
    BY <1>4
  <2>3. \A k \in 1..Len(sent') : CallFits(sent'[k])
    BY <2>1
  <2> QED BY <2>2, <2>3, Zenon DEF SentTyped, CallFits, Depositories, Share
<1> QED BY <1>3, <1>4, <1>5

LEMMA HeadFits ==
    ASSUME NEW s, ScriptRow(s)
    PROVE  CallFits(Head(s.calls)) /\ s.calls # <<>>
<1>1. CASE OneCall(s)
  BY <1>1, OneCallFacts DEF CallFits, CallNames
<1>2. ASSUME NEW k \in 1..5, Settles(s, k) PROVE CallFits(Head(s.calls)) /\ s.calls # <<>>
  <2> DEFINE c == Head(s.calls)
  <2>1. c = First(k, s.job, s.who) /\ s.calls # <<>> /\ s.job \in Jobs /\ s.who \in Accounts
    BY <1>2, ScriptKinds DEF Settles
  <2> HIDE DEF c
  <2>2. k = 1 \/ k = 2 \/ k = 3 \/ k = 4 \/ k = 5
    OBVIOUS
  <2>3. \/ c.name = "release" /\ c.job = s.job /\ c.who = s.who
        \/ c.name \in {"approve", "deposit"} /\ c.who \in Depositories /\ c.amount = Share[c.who]
    BY <2>1, <2>2, FirstNames DEF Depositories
  <2>4. CallFits(c)
    BY <2>1, <2>3 DEF CallFits
  <2> QED BY <2>1, <2>4 DEF c
<1> QED BY <1>1, <1>2 DEF ScriptRow

LEMMA ExecutedTask ==
    ASSUME escrow \in [Jobs -> EscrowType], NEW c, CallFits(c), Executed(c)
    PROVE  /\ escrow' \in [Jobs -> EscrowType]
           /\ \A j \in Jobs :
                 \/ escrow'[j] = escrow[j]
                 \/ /\ c.name \in {"setWorker", "clearWorker", "release"} /\ c.job = j /\ escrow[j].state = "funded"
                    /\ escrow'[j].state = (IF c.name = "release" THEN "released" ELSE "funded")
                    /\ escrow'[j].worker = Worker(c)
           /\ c.name \in {"setWorker", "clearWorker", "release"} /\ ~Reverts(c) =>
                 /\ escrow'[c.job].state = (IF c.name = "release" THEN "released" ELSE "funded")
                 /\ escrow'[c.job].worker = Worker(c)
<1> DEFINE e == [state |-> IF c.name = "release" THEN "released" ELSE "funded", worker |-> Worker(c)]
           moves == ~Reverts(c) /\ c.name \in {"setWorker", "clearWorker", "release"}
<1>1. escrow' = IF moves THEN [escrow EXCEPT ![c.job] = e] ELSE escrow
  BY DEF Executed
<1>2. e.state = (IF c.name = "release" THEN "released" ELSE "funded") /\ e.worker = Worker(c)
  OBVIOUS
<1>3. moves => c.job \in Jobs /\ e \in EscrowType /\ escrow[c.job].state = "funded"
  BY DEF CallFits, EscrowType, Worker, Reverts
<1>4. c.name \in {"setWorker", "clearWorker", "release"} /\ ~Reverts(c) => moves
  OBVIOUS
<1>5. moves => c.name \in {"setWorker", "clearWorker", "release"}
  OBVIOUS
<1> HIDE DEF e, moves
<1> QED BY <1>1, <1>2, <1>3, <1>4, <1>5

LEMMA ShareCases ==
    ASSUME NEW d \in Depositories
    PROVE  \/ d = "staking" /\ Share[d] = 9
           \/ d = "fees" /\ Share[d] = 1
BY DEF Depositories, Share

LEMMA ExecutedMoney ==
    ASSUME allowance \in [Depositories -> Nat], deposits \in [Depositories -> Nat], NEW c, CallFits(c), Executed(c)
    PROVE  /\ allowance' \in [Depositories -> Nat] /\ deposits' \in [Depositories -> Nat]
           /\ \A d \in Depositories :
                 /\ c.name = "approve" /\ c.who = d => allowance'[d] = Share[d] /\ deposits'[d] = deposits[d]
                 /\ c.name = "deposit" /\ c.who = d =>
                       IF allowance[d] < Share[d] THEN allowance'[d] = allowance[d] /\ deposits'[d] = deposits[d]
                       ELSE allowance'[d] = allowance[d] - Share[d] /\ deposits'[d] = deposits[d] + Share[d]
                 /\ c.name \notin {"approve", "deposit"} \/ c.who # d =>
                       allowance'[d] = allowance[d] /\ deposits'[d] = deposits[d]
<1>0. c.name \in {"approve", "deposit"} => c.who \in Depositories /\ c.amount = Share[c.who] /\ c.amount \in Nat
  BY ShareCases DEF CallFits
<1>1. CASE c.name = "approve"
  <2>1. allowance' = [allowance EXCEPT ![c.who] = c.amount] /\ deposits' = deposits
    BY <1>1 DEF Executed
  <2> QED BY <1>0, <1>1, <2>1
<1>2. CASE c.name = "deposit"
  <2>1. Reverts(c) <=> (allowance[c.who] < c.amount)
    BY <1>2 DEF Reverts
  <2>3. CASE Reverts(c)
    <3>1. allowance' = allowance /\ deposits' = deposits
      BY <1>2, <2>3 DEF Executed
    <3> QED BY <1>0, <1>2, <2>1, <2>3, <3>1
  <2>4. CASE ~Reverts(c)
    <3>1. allowance' = [allowance EXCEPT ![c.who] = @ - c.amount] /\ deposits' = [deposits EXCEPT ![c.who] = @ + c.amount]
      BY <1>2, <2>4 DEF Executed
    <3>2. allowance[c.who] - c.amount \in Nat /\ deposits[c.who] + c.amount \in Nat
      BY <1>0, <1>2, <2>1, <2>4
    <3>3. \A d \in Depositories : d # c.who => allowance'[d] = allowance[d] /\ deposits'[d] = deposits[d]
      BY <3>1
    <3> QED BY <1>0, <1>2, <2>1, <2>4, <3>1, <3>2, <3>3
  <2> QED BY <2>3, <2>4
<1>3. CASE c.name \notin {"approve", "deposit"}
  BY <1>3 DEF Executed
<1> QED BY <1>1, <1>2, <1>3

LEMMA ExecutedEpochs ==
    ASSUME DOMAIN epochs = {"scored", "distributed"}, NEW c, Executed(c)
    PROVE  /\ DOMAIN epochs' = {"scored", "distributed"}
           /\ epochs.distributed \subseteq epochs.scored => epochs'.distributed \subseteq epochs'.scored
<1>1. CASE c.name = "scores"
  <2>1. epochs' = [epochs EXCEPT !.scored = @ \cup {c.who}]
    BY <1>1 DEF Executed
  <2> QED BY <2>1
<1>2. CASE c.name = "distribute" /\ ~Reverts(c)
  <2>1. epochs' = [epochs EXCEPT !.distributed = @ \cup {c.who}]
    BY <1>2 DEF Executed
  <2>2. c.who \in epochs.scored
    BY <1>2 DEF Reverts
  <2> QED BY <2>1, <2>2
<1>3. CASE c.name # "scores" /\ ~(c.name = "distribute" /\ ~Reverts(c))
  BY <1>3 DEF Executed
<1> QED BY <1>1, <1>2, <1>3

-----------------------------------------------------------------------------
(* Scripts keep their kind                                                    *)

LEMMA AdvancesTyped ==
    ASSUME WalletTables, NEW s \in scripts, NEW t, Advances(s, t)
    PROVE  /\ t.nonce \in Nat /\ t.job = s.job /\ t.who = s.who
           /\ t.calls # <<>> => ScriptRow(t)
<1>0. ScriptRow(s) /\ s.nonce \in Nat /\ Len(sent) \in Nat
  BY SentFacts DEF WalletTables, ScriptRow, ScriptFields
<1>1. CASE t = Rest(s)
  BY <1>0, <1>1, RestDrops DEF Drops, ScriptFields
<1>2. CASE t = Pop(s)
  BY <1>0, <1>2, PopDrops DEF Drops, ScriptFields
<1>3. CASE Stays(s, t) /\ t.step \in {"prepare", "send"} /\ t.nonce \in {s.nonce, Len(sent)}
  BY <1>0, <1>3, StaysKind DEF Stays, ScriptRow, ScriptFields
<1>4. CASE Stays(s, t) /\ t.step = "mark" /\ t.nonce = s.nonce /\ Head(s.calls).name = "release"
  <2>1. ~OneCall(s)
    BY <1>4, OneCallFacts DEF CallNames
  <2>2. PICK k \in 1..5 : Settles(s, k)
    BY <1>0, <2>1 DEF ScriptRow
  <2>3. k = 3
    <3>1. k = 1 \/ k = 2 \/ k = 3 \/ k = 4 \/ k = 5
      OBVIOUS
    <3>2. First(k, s.job, s.who).name = "release"
      BY <1>4, <2>2, ScriptKinds
    <3> QED BY <3>1, <3>2, FirstNames
  <2> QED BY <1>0, <1>4, <2>2, <2>3, StaysKind DEF Stays, ScriptRow, ScriptFields
<1> QED BY <1>1, <1>2, <1>3, <1>4 DEF Advances

LEMMA BecomesTyped ==
    ASSUME WalletTables, NEW s \in scripts, NEW t, Advances(s, t), Becomes(s, t)
    PROVE  IsFiniteSet(scripts') /\ \A x \in scripts' : ScriptRow(x)
<1>1. scripts' \subseteq scripts \cup {t} /\ (t \in scripts' => t.calls # <<>> \/ t \in scripts)
  BY DEF Becomes
<1>2. IsFiniteSet(scripts')
  BY <1>1, FS_AddElement, FS_Subset DEF WalletTables
<1>3. t.calls # <<>> => ScriptRow(t)
  BY AdvancesTyped
<1> QED BY <1>1, <1>2, <1>3 DEF WalletTables

LEMMA LaunchTyped ==
    ASSUME WalletTables, NEW s, Launch(s), ScriptRow(s)
    PROVE  IsFiniteSet(scripts') /\ \A x \in scripts' : ScriptRow(x)
<1>1. scripts' = scripts \/ scripts' = scripts \cup {s}
  BY DEF Launch
<1>2. IsFiniteSet(scripts) /\ \A x \in scripts : ScriptRow(x)
  BY DEF WalletTables
<1>3. IsFiniteSet(scripts')
  BY <1>1, <1>2, FS_AddElement
<1> QED BY <1>1, <1>2, <1>3

-----------------------------------------------------------------------------
(* Steps of the services, by what they do to the contracts and scripts        *)

ScriptSteps(s) == PrepareCall(s) \/ SendCall(s) \/ MarkSettledOnChain(s) \/ CallFails(s)

\* A script begins, of one call or of a settlement.
Launched(s) ==
    /\ ScriptRow(s) /\ s.step = "prepare" /\ s.nonce = 0 /\ Setting.chain
    /\ scripts' = scripts \cup {s} /\ orderly' = (orderly /\ scripts = {})
    /\ UNCHANGED <<contractVars, settled, missed>>
    /\ (OneCall(s) /\ accepts' = accepts) \/ (Settles(s, 5) /\ accepts' = accepts + 1)

WalletMoves ==
    \/ UNCHANGED walletVars
    \/ \E s : Launched(s)
    \/ LoseScripts
    \/ \E j \in Jobs : FundTask(j) \/ LeaveEscrow(j)
    \/ Mine
    \/ \E s \in scripts : ScriptSteps(s)

LEMMA LaunchCases ==
    ASSUME NEW s, Launch(s), ScriptRow(s), s.step = "prepare", s.nonce = 0, accepts \in Nat,
           UNCHANGED <<contractVars, settled, missed>>,
           \/ OneCall(s) /\ accepts' = accepts
           \/ Settles(s, 5) /\ accepts' = IF Setting.chain THEN accepts + 1 ELSE accepts
    PROVE  WalletMoves
<1>1. CASE Setting.chain
  <2>1. (OneCall(s) /\ accepts' = accepts) \/ (Settles(s, 5) /\ accepts' = accepts + 1)
    BY <1>1
  <2>2. scripts' = scripts \cup {s} /\ orderly' = (orderly /\ scripts = {})
    BY <1>1 DEF Launch
  <2>3. Launched(s)
    BY <1>1, <2>1, <2>2, Zenon DEF Launched
  <2> QED BY <2>3 DEF WalletMoves
<1>2. CASE ~Setting.chain
  BY <1>2 DEF Launch, WalletMoves, walletVars
<1> QED BY <1>1, <1>2

\* A script that moves sends its first call, or changes nothing on the chain; in order
\* none of its calls fails.
LEMMA ScriptEffect ==
    ASSUME WalletTables, NEW s \in scripts, ScriptSteps(s)
    PROVE  /\ ScriptRow(s) /\ CallFits(Head(s.calls)) /\ SentTyped
           /\ accepts' = accepts /\ (orderly' => orderly /\ ~CallFails(s))
           /\ \E t : /\ Advances(s, t) /\ Becomes(s, t)
                     /\ \/ UNCHANGED contractVars /\ ~SendCall(s)
                        \/ Send(Head(s.calls)) /\ s.step = "send" /\ (SendCall(s) \/ CallFails(s))
<1>0. ScriptRow(s) /\ Len(sent) \in Nat /\ CallFits(Head(s.calls)) /\ SentTyped
  BY HeadFits, SentFacts DEF WalletTables
<1>1. PICK t : Advances(s, t) /\ Becomes(s, t)
  BY <1>0, ScriptAdvances DEF ScriptSteps
<1>2. accepts' = accepts /\ (orderly' => orderly /\ ~CallFails(s))
  <2>1. CallFails(s) => orderly' = FALSE /\ accepts' = accepts
    BY DEF CallFails
  <2>2. PrepareCall(s) \/ SendCall(s) \/ MarkSettledOnChain(s) => orderly' = orderly /\ accepts' = accepts
    BY DEF PrepareCall, SendCall, MarkSettledOnChain
  <2> QED BY <2>1, <2>2 DEF ScriptSteps
<1>3. /\ PrepareCall(s) \/ MarkSettledOnChain(s) => UNCHANGED contractVars /\ s.step # "send"
      /\ SendCall(s) => Send(Head(s.calls)) /\ s.step = "send"
      /\ CallFails(s) => (Send(Head(s.calls)) \/ UNCHANGED contractVars) /\ s.step = "send"
  BY DEF PrepareCall, MarkSettledOnChain, SendCall, CallFails
<1>4. CallFails(s) /\ SendCall(s) => Send(Head(s.calls))
  BY <1>3
<1> QED BY <1>0, <1>1, <1>2, <1>3, <1>4 DEF ScriptSteps

LEMMA MineFacts ==
    ASSUME WalletTables, Mine
    PROVE  /\ mined + 1 \in 1..Len(sent) /\ mined' = mined + 1 /\ sent' = sent
           /\ Executed(sent[mined + 1]) /\ CallFits(sent[mined + 1])
           /\ UNCHANGED <<scripts, settled, accepts, missed, orderly>>
<1>1. Len(sent) \in Nat /\ mined \in 0..Len(sent) /\ mined < Len(sent)
  BY SentFacts DEF WalletTables, Mine
<1>2. mined + 1 \in 1..Len(sent)
  BY <1>1
<1> QED BY <1>2 DEF Mine, WalletTables, SentTyped

-----------------------------------------------------------------------------
(* What the contracts have and may take is at most what was settled           *)

\* How many calls a settlement has left when it is to approve what d takes
Stage == [staking |-> 5, fees |-> 2]

\* Scripts that have yet to approve a deposit of a settlement in d
Coming(d) == {s \in scripts : \E k \in Stage[d]..5 : Settles(s, k)}

\* Transactions of that name for d that are not mined
Unmined(name, d) == {k \in (mined + 1)..Len(sent) : sent[k].name = name /\ sent[k].who = d}

Bounded ==
    \A d \in Depositories :
       deposits[d] + allowance[d] + Share[d] * (Cardinality(Coming(d)) + Cardinality(Unmined("approve", d)))
          <= Share[d] * accepts

LEMMA StageCases ==
    ASSUME NEW d \in Depositories
    PROVE  \/ d = "staking" /\ Share[d] = 9 /\ Stage[d] = 5
           \/ d = "fees" /\ Share[d] = 1 /\ Stage[d] = 2
BY DEF Depositories, Share, Stage

LEMMA ReplaceCount ==
    ASSUME NEW S, IsFiniteSet(S), NEW s, NEW t, NEW T, T \subseteq (S \ {s}) \cup {t}
    PROVE  /\ IsFiniteSet(T) /\ Cardinality(T) \in Nat /\ Cardinality(S) \in Nat
           /\ s \in S => Cardinality(T) <= Cardinality(S)
           /\ t \notin T => Cardinality(T) <= Cardinality(S)
           /\ s \in S /\ t \notin T => Cardinality(T) <= Cardinality(S) - 1
<1> DEFINE R == S \ {s}
<1>1. IsFiniteSet(R) /\ Cardinality(R) \in Nat /\ Cardinality(S) \in Nat
      /\ Cardinality(R) = IF s \in S THEN Cardinality(S) - 1 ELSE Cardinality(S)
  BY FS_RemoveElement, FS_CardinalityType
<1> DEFINE U == R \cup {t}
<1>2. IsFiniteSet(U) /\ Cardinality(U) \in Nat /\ Cardinality(U) <= Cardinality(R) + 1
  <2>1. IsFiniteSet(U) /\ (Cardinality(U) = Cardinality(R) \/ Cardinality(U) = Cardinality(R) + 1)
    BY <1>1, FS_AddElement
  <2> QED BY <1>1, <2>1
<1>3. IsFiniteSet(T) /\ Cardinality(T) \in Nat /\ Cardinality(T) <= Cardinality(U)
  BY <1>2, FS_Subset, FS_CardinalityType
<1>4. t \notin T => Cardinality(T) <= Cardinality(R)
  BY <1>1, FS_Subset
<1> QED BY <1>1, <1>2, <1>3, <1>4

\* A script goes on with the same calls of a settlement, or fewer.
LEMMA AdvanceStages ==
    ASSUME NEW s, ScriptRow(s), NEW t, Advances(s, t)
    PROVE  /\ OneCall(s) => t.calls = <<>> \/ (OneCall(t) /\ Stays(s, t))
           /\ \A k \in 1..5 : Settles(s, k) =>
                 \/ Stays(s, t) /\ Settles(t, k)
                 \/ t = Pop(s) /\ Settles(t, k - 1)
                 \/ t = Rest(s) /\ Settles(t, IF k \in {2, 5} THEN k - 2 ELSE k - 1)
<1>1. Stays(s, t) \/ t = Pop(s) \/ t = Rest(s)
  BY DEF Advances
<1>2. CASE Stays(s, t)
  BY <1>2, StaysKind
<1>3. CASE t = Pop(s)
  BY <1>3, PopDrops DEF Drops
<1>4. CASE t = Rest(s)
  BY <1>4, RestDrops DEF Drops
<1> QED BY <1>1, <1>2, <1>3, <1>4

LEMMA StageOne ==
    ASSUME NEW t, NEW l \in 0..5, Settles(t, l)
    PROVE  /\ l = 0 <=> t.calls = <<>>
           /\ \A k \in 0..5 : Settles(t, k) <=> k = l
<1>1. CASE l = 0
  <2>1. t.calls = <<>>
    BY <1>1, OnwardsNone DEF Settles
  <2>2. \A k \in 1..5 : ~Settles(t, k)
    BY <2>1, ScriptKinds
  <2> QED BY <1>1, <2>1, <2>2
<1>2. CASE l \in 1..5
  BY <1>2, ScriptKinds
<1> QED BY <1>1, <1>2

LEMMA CountsFall ==
    ASSUME WalletTables, NEW s \in scripts, NEW t, Advances(s, t), Becomes(s, t), NEW d \in Depositories
    PROVE  /\ Cardinality(Coming(d))' \in Nat /\ Cardinality(Coming(d)) \in Nat
           /\ Cardinality(Coming(d))' <= Cardinality(Coming(d))
           /\ Settles(s, Stage[d]) /\ ~Stays(s, t) => Cardinality(Coming(d))' <= Cardinality(Coming(d)) - 1
<1> DEFINE F == {x \in scripts' : \E k \in Stage[d]..5 : Settles(x, k)}
<1>0. ScriptRow(s) /\ IsFiniteSet(Coming(d)) /\ Stage[d] \in 2..5
  BY FS_Subset, StageCases DEF WalletTables, Coming
<1>1. scripts' \subseteq (scripts \ {s}) \cup {t}
  BY DEF Becomes
<1>2. F \subseteq (Coming(d) \ {s}) \cup {t}
  BY <1>1 DEF Coming
<1>3. ASSUME NEW k \in 1..5, Settles(s, k)
      PROVE \E l \in 0..5 : Settles(t, l) /\ l <= k /\ (~Stays(s, t) => l < k)
  BY <1>0, <1>3, AdvanceStages
<1>4. OneCall(s) => \A l \in 1..5 : ~Settles(t, l)
  BY <1>0, AdvanceStages, ScriptKinds
<1>5. (\E k \in Stage[d]..5 : Settles(t, k)) =>
         (\E k \in Stage[d]..5 : Settles(s, k)) /\ (Settles(s, Stage[d]) => Stays(s, t))
  <2> SUFFICES ASSUME NEW m \in Stage[d]..5, Settles(t, m)
               PROVE (\E k \in Stage[d]..5 : Settles(s, k)) /\ (Settles(s, Stage[d]) => Stays(s, t))
    OBVIOUS
  <2>0. m \in 1..5 /\ m >= Stage[d]
    BY <1>0
  <2>1. PICK k \in 1..5 : Settles(s, k)
    BY <1>0, <1>4, <2>0 DEF ScriptRow
  <2>2. PICK l \in 0..5 : Settles(t, l) /\ l <= k /\ (~Stays(s, t) => l < k)
    BY <1>3, <2>1
  <2>3. l = m
    BY <2>0, <2>2, StageOne
  <2>4. Settles(s, Stage[d]) => k = Stage[d]
    BY <1>0, <2>1, ScriptKinds
  <2> QED BY <1>0, <2>0, <2>1, <2>2, <2>3, <2>4
<1>6. t \in F => s \in Coming(d) /\ (Settles(s, Stage[d]) => Stays(s, t))
  BY <1>5 DEF Coming
<1>7. Settles(s, Stage[d]) => s \in Coming(d)
  BY <1>0 DEF Coming
<1> HIDE DEF F
<1>8. /\ Cardinality(F) \in Nat /\ Cardinality(Coming(d)) \in Nat
      /\ Cardinality(F) <= Cardinality(Coming(d))
      /\ Settles(s, Stage[d]) /\ ~Stays(s, t) => Cardinality(F) <= Cardinality(Coming(d)) - 1
  <2>1. /\ Cardinality(F) \in Nat /\ Cardinality(Coming(d)) \in Nat
        /\ s \in Coming(d) => Cardinality(F) <= Cardinality(Coming(d))
        /\ t \notin F => Cardinality(F) <= Cardinality(Coming(d))
        /\ s \in Coming(d) /\ t \notin F => Cardinality(F) <= Cardinality(Coming(d)) - 1
    BY <1>0, <1>2, ReplaceCount
  <2> QED BY <2>1, <1>6, <1>7
<1>9. Coming(d)' = F
  BY DEF Coming, F, Stage
<1> QED BY <1>8, <1>9

\* What the first call of a script is, by what the script has left to do
LEMMA HeadOf ==
    ASSUME NEW s, ScriptRow(s), NEW c, c = Head(s.calls)
    PROVE  /\ c.name = "approve" => c.who \in Depositories /\ Settles(s, Stage[c.who])
           /\ c.name = "deposit" => c.who \in Depositories /\ Settles(s, Stage[c.who] - 1)
           /\ OneCall(s) => c.name \in CallNames
           /\ Settles(s, 1) => c.name = "deposit" /\ c.who = "fees"
           /\ Settles(s, 2) => c.name = "approve" /\ c.who = "fees"
           /\ Settles(s, 3) => c.name = "release" /\ c.job = s.job /\ c.who = s.who
           /\ Settles(s, 4) => c.name = "deposit" /\ c.who = "staking"
           /\ Settles(s, 5) => c.name = "approve" /\ c.who = "staking"
           /\ c.name = "release" => Settles(s, 3)
<1>1. CASE OneCall(s)
  BY <1>1, OneCallFacts, ScriptKinds DEF CallNames
<1>2. ASSUME NEW k \in 1..5, Settles(s, k)
      PROVE  c = First(k, s.job, s.who) /\ \A l \in 1..5 : Settles(s, l) => l = k
  BY <1>2, ScriptKinds
<1>3. ASSUME NEW k \in 1..5, Settles(s, k), ~OneCall(s)
      PROVE  /\ c.name = "approve" => c.who \in Depositories /\ Settles(s, Stage[c.who])
             /\ c.name = "deposit" => c.who \in Depositories /\ Settles(s, Stage[c.who] - 1)
             /\ c.name = "release" => Settles(s, 3)
  <2>1. k = 1 \/ k = 2 \/ k = 3 \/ k = 4 \/ k = 5
    OBVIOUS
  <2>2. c = First(k, s.job, s.who)
    BY <1>2, <1>3
  <2>3. Stage["staking"] = 5 /\ Stage["fees"] = 2 /\ {"staking", "fees"} = Depositories
    BY DEF Stage, Depositories
  <2> QED BY <1>3, <2>1, <2>2, <2>3, FirstNames
<1>4. CASE ~OneCall(s)
  BY <1>2, <1>3, <1>4, FirstNames DEF ScriptRow
<1> QED BY <1>1, <1>4

LEMMA CountsAreNat ==
    ASSUME WalletTables, NEW d \in Depositories
    PROVE  /\ IsFiniteSet(Coming(d)) /\ Cardinality(Coming(d)) \in Nat
           /\ \A name : IsFiniteSet(Unmined(name, d)) /\ Cardinality(Unmined(name, d)) \in Nat
           /\ deposits[d] \in Nat /\ allowance[d] \in Nat /\ missed[d] \in Nat /\ accepts \in Nat
           /\ Len(sent) \in Nat /\ mined \in 0..Len(sent)
<1>1. IsFiniteSet(Coming(d))
  BY FS_Subset DEF WalletTables, Coming
<1>2. Len(sent) \in Nat /\ mined \in 0..Len(sent)
  BY SentFacts DEF WalletTables
<1>3. IsFiniteSet((mined + 1)..Len(sent))
  BY <1>2, FS_Interval
<1>4. \A name : IsFiniteSet(Unmined(name, d))
  BY <1>3, FS_Subset DEF Unmined
<1>5. deposits[d] \in Nat /\ allowance[d] \in Nat /\ missed[d] \in Nat /\ accepts \in Nat
  BY DEF WalletTables
<1> QED BY <1>1, <1>2, <1>4, <1>5, FS_CardinalityType

\* What is sent is pending until it is mined.
LEMMA UnminedSent ==
    ASSUME WalletTables, NEW c, Send(c), NEW name, NEW d \in Depositories
    PROVE  /\ Len(sent) + 1 \notin Unmined(name, d)
           /\ Unmined(name, d)' = IF c.name = name /\ c.who = d
                                  THEN Unmined(name, d) \cup {Len(sent) + 1} ELSE Unmined(name, d)
           /\ Cardinality(Unmined(name, d))' = IF c.name = name /\ c.who = d
                                               THEN Cardinality(Unmined(name, d)) + 1 ELSE Cardinality(Unmined(name, d))
<1>1. /\ Len(sent) \in Nat /\ Len(sent)' = Len(sent) + 1 /\ mined' = mined /\ mined \in 0..Len(sent)
      /\ sent'[Len(sent) + 1] = c /\ \A k \in 1..Len(sent) : sent'[k] = sent[k]
  BY SendFacts DEF WalletTables
<1> DEFINE P == {k \in (mined + 1)..(Len(sent) + 1) : sent'[k].name = name /\ sent'[k].who = d}
<1>2. Unmined(name, d)' = P
  BY <1>1 DEF Unmined
<1>3. Len(sent) + 1 \notin Unmined(name, d)
  BY <1>1 DEF Unmined
<1>4. P = IF c.name = name /\ c.who = d THEN Unmined(name, d) \cup {Len(sent) + 1} ELSE Unmined(name, d)
  <2>1. \A k \in (mined + 1)..(Len(sent) + 1) : k = Len(sent) + 1 \/ (k \in (mined + 1)..Len(sent) /\ k \in 1..Len(sent))
    BY <1>1
  <2>2. Len(sent) + 1 \in (mined + 1)..(Len(sent) + 1)
    BY <1>1
  <2>3. \A k \in (mined + 1)..Len(sent) : k \in (mined + 1)..(Len(sent) + 1) /\ k \in 1..Len(sent)
    BY <1>1
  <2> QED BY <1>1, <2>1, <2>2, <2>3, ZenonT(40) DEF Unmined
<1> HIDE DEF P
<1> QED BY <1>2, <1>3, <1>4, CountsAreNat, FS_AddElement

LEMMA UnminedMined ==
    ASSUME WalletTables, Mine, NEW name, NEW d \in Depositories
    PROVE  /\ mined + 1 \in Unmined(name, d) <=> sent[mined + 1].name = name /\ sent[mined + 1].who = d
           /\ Unmined(name, d)' = Unmined(name, d) \ {mined + 1}
           /\ Cardinality(Unmined(name, d))' =
                 IF sent[mined + 1].name = name /\ sent[mined + 1].who = d
                 THEN Cardinality(Unmined(name, d)) - 1 ELSE Cardinality(Unmined(name, d))
<1>1. mined + 1 \in 1..Len(sent) /\ mined' = mined + 1 /\ sent' = sent /\ Len(sent) \in Nat /\ mined \in 0..Len(sent)
  BY MineFacts, SentFacts DEF WalletTables
<1>2. mined + 1 \in Unmined(name, d) <=> sent[mined + 1].name = name /\ sent[mined + 1].who = d
  BY <1>1 DEF Unmined
<1>3. Unmined(name, d)' = Unmined(name, d) \ {mined + 1}
  <2>1. Unmined(name, d)' = {k \in (mined + 2)..Len(sent) : sent[k].name = name /\ sent[k].who = d}
    BY <1>1 DEF Unmined
  <2>2. \A k : k \in (mined + 2)..Len(sent) <=> k \in (mined + 1)..Len(sent) /\ k # mined + 1
    BY <1>1
  <2> QED BY <2>1, <2>2 DEF Unmined
<1>4. IsFiniteSet(Unmined(name, d))
  BY CountsAreNat
<1>5. Cardinality(Unmined(name, d) \ {mined + 1}) =
         IF mined + 1 \in Unmined(name, d) THEN Cardinality(Unmined(name, d)) - 1 ELSE Cardinality(Unmined(name, d))
  BY <1>4, FS_RemoveElement
<1> QED BY <1>2, <1>3, <1>5

LEMMA ExecutedSums ==
    ASSUME WalletTables, NEW c, CallFits(c), Executed(c), NEW d \in Depositories
    PROVE  /\ deposits'[d] \in Nat /\ allowance'[d] \in Nat /\ deposits[d] \in Nat /\ allowance[d] \in Nat
           /\ IF c.name = "approve" /\ c.who = d
              THEN allowance'[d] = Share[d] /\ deposits'[d] = deposits[d]
              ELSE deposits'[d] + allowance'[d] = deposits[d] + allowance[d]
<1>1. allowance \in [Depositories -> Nat] /\ deposits \in [Depositories -> Nat]
  BY DEF WalletTables
<1>2. allowance' \in [Depositories -> Nat] /\ deposits' \in [Depositories -> Nat]
      /\ (c.name = "approve" /\ c.who = d => allowance'[d] = Share[d] /\ deposits'[d] = deposits[d])
      /\ (c.name = "deposit" /\ c.who = d =>
                       IF allowance[d] < Share[d] THEN allowance'[d] = allowance[d] /\ deposits'[d] = deposits[d]
                       ELSE allowance'[d] = allowance[d] - Share[d] /\ deposits'[d] = deposits[d] + Share[d])
      /\ (c.name \notin {"approve", "deposit"} \/ c.who # d =>
                       allowance'[d] = allowance[d] /\ deposits'[d] = deposits[d])
  BY <1>1, ExecutedMoney
<1> QED BY <1>1, <1>2, ShareCases

\* Only a send makes a transaction pending, and no script comes from anywhere but Settle.
LEMMA MoneyOfScript ==
    ASSUME WalletTables, Bounded, NEW s \in scripts, ScriptSteps(s)
    PROVE  Bounded'
<1>1. PICK t : /\ Advances(s, t) /\ Becomes(s, t)
               /\ \/ UNCHANGED contractVars /\ ~SendCall(s)
                  \/ Send(Head(s.calls)) /\ s.step = "send" /\ (SendCall(s) \/ CallFails(s))
  BY ScriptEffect
<1>2. ScriptRow(s) /\ accepts' = accepts
  BY ScriptEffect
<1> SUFFICES ASSUME NEW d \in Depositories
             PROVE  deposits'[d] + allowance'[d]
                       + Share[d] * (Cardinality(Coming(d))' + Cardinality(Unmined("approve", d))') <= Share[d] * accepts'
  BY DEF Bounded, Depositories, Share
<1>3. /\ Cardinality(Coming(d))' \in Nat /\ Cardinality(Coming(d)) \in Nat
      /\ Cardinality(Coming(d))' <= Cardinality(Coming(d))
      /\ Settles(s, Stage[d]) /\ ~Stays(s, t) => Cardinality(Coming(d))' <= Cardinality(Coming(d)) - 1
  BY <1>1, CountsFall
<1>4. deposits[d] \in Nat /\ allowance[d] \in Nat /\ accepts \in Nat /\ Cardinality(Unmined("approve", d)) \in Nat
  BY CountsAreNat
<1>5. deposits[d] + allowance[d] + Share[d] * (Cardinality(Coming(d)) + Cardinality(Unmined("approve", d)))
          <= Share[d] * accepts
  BY DEF Bounded
<1>6. deposits' = deposits /\ allowance' = allowance
  BY <1>1 DEF contractVars, Send
<1>7. Cardinality(Coming(d))' + Cardinality(Unmined("approve", d))'
         <= Cardinality(Coming(d)) + Cardinality(Unmined("approve", d))
      /\ Cardinality(Unmined("approve", d))' \in Nat
  <2>1. CASE UNCHANGED contractVars
    <3>1. Unmined("approve", d)' = Unmined("approve", d)
      BY <2>1 DEF contractVars, Unmined
    <3> QED BY <1>3, <1>4, <3>1
  <2> DEFINE c == Head(s.calls)
  <2>2. CASE Send(c) /\ ~(c.name = "approve" /\ c.who = d)
    <3>1. Cardinality(Unmined("approve", d))' = Cardinality(Unmined("approve", d))
      BY <2>2, UnminedSent
    <3> QED BY <1>3, <1>4, <3>1
  <2>3. CASE Send(c) /\ s.step = "send" /\ (SendCall(s) \/ CallFails(s)) /\ c.name = "approve" /\ c.who = d
    <3>1. Cardinality(Unmined("approve", d))' = Cardinality(Unmined("approve", d)) + 1
      BY <2>3, UnminedSent
    <3>2. Settles(s, Stage[d])
      BY <1>2, <2>3, HeadOf
    <3>3. t = Pop(s) \/ t = Rest(s)
      BY <1>1, <2>3 DEF Advances, SendCall, CallFails, PrepareCall, MarkSettledOnChain
    <3>4. ~Stays(s, t)
      <4>1. Stage[d] \in {2, 5}
        BY StageCases
      <4>2. \E l \in 0..5 : l # Stage[d] /\ Settles(t, l)
        BY <1>2, <3>2, <3>3, <4>1, PopDrops, RestDrops
      <4> QED BY <3>2, <4>1, <4>2, StaysKind, StageOne
    <3> QED BY <1>3, <1>4, <3>1, <3>2, <3>4
  <2> QED BY <1>1, <2>1, <2>2, <2>3
<1> QED BY <1>2, <1>3, <1>4, <1>5, <1>6, <1>7, StageCases

LEMMA MoneyOfMine ==
    ASSUME WalletTables, Bounded, Mine
    PROVE  Bounded'
<1> DEFINE c == sent[mined + 1]
<1>1. Executed(c) /\ CallFits(c) /\ scripts' = scripts /\ accepts' = accepts
  BY MineFacts
<1> SUFFICES ASSUME NEW d \in Depositories
             PROVE  deposits'[d] + allowance'[d]
                       + Share[d] * (Cardinality(Coming(d))' + Cardinality(Unmined("approve", d))') <= Share[d] * accepts'
  BY DEF Bounded, Depositories, Share
<1>2. Coming(d)' = Coming(d)
  BY <1>1 DEF Coming, Stage
<1>3. Cardinality(Coming(d)) \in Nat /\ Cardinality(Unmined("approve", d)) \in Nat /\ accepts \in Nat
  BY CountsAreNat
<1>4. Cardinality(Unmined("approve", d))' =
         IF c.name = "approve" /\ c.who = d
         THEN Cardinality(Unmined("approve", d)) - 1 ELSE Cardinality(Unmined("approve", d))
  BY UnminedMined
<1>5. deposits[d] + allowance[d] + Share[d] * (Cardinality(Coming(d)) + Cardinality(Unmined("approve", d)))
          <= Share[d] * accepts
  BY DEF Bounded
<1>6. /\ deposits'[d] \in Nat /\ allowance'[d] \in Nat /\ deposits[d] \in Nat /\ allowance[d] \in Nat
      /\ IF c.name = "approve" /\ c.who = d
         THEN allowance'[d] = Share[d] /\ deposits'[d] = deposits[d]
         ELSE deposits'[d] + allowance'[d] = deposits[d] + allowance[d]
  BY <1>1, ExecutedSums
<1> HIDE DEF c
<1> QED BY <1>1, <1>2, <1>3, <1>4, <1>5, <1>6, StageCases

LEMMA MoneyOfLaunch ==
    ASSUME WalletTables, Bounded, NEW s, Launched(s)
    PROVE  Bounded'
<1>1. /\ deposits' = deposits /\ allowance' = allowance /\ sent' = sent /\ mined' = mined
      /\ scripts' = scripts \cup {s}
  BY DEF Launched, contractVars
<1> SUFFICES ASSUME NEW d \in Depositories
             PROVE  deposits'[d] + allowance'[d]
                       + Share[d] * (Cardinality(Coming(d))' + Cardinality(Unmined("approve", d))') <= Share[d] * accepts'
  BY DEF Bounded, Depositories, Share
<1>2. /\ IsFiniteSet(Coming(d)) /\ Cardinality(Coming(d)) \in Nat /\ Cardinality(Unmined("approve", d)) \in Nat
      /\ deposits[d] \in Nat /\ allowance[d] \in Nat /\ accepts \in Nat
  BY CountsAreNat
<1>3. Unmined("approve", d)' = Unmined("approve", d)
  BY <1>1 DEF Unmined
<1>4. deposits[d] + allowance[d] + Share[d] * (Cardinality(Coming(d)) + Cardinality(Unmined("approve", d)))
          <= Share[d] * accepts
  BY DEF Bounded
<1>5. Coming(d)' = IF \E k \in Stage[d]..5 : Settles(s, k) THEN Coming(d) \cup {s} ELSE Coming(d)
  <2>1. Coming(d)' = {x \in scripts \cup {s} : \E k \in Stage[d]..5 : Settles(x, k)}
    BY <1>1 DEF Coming, Settles, Onwards, Stage
  <2> QED BY <2>1 DEF Coming
<1>6. CASE OneCall(s) /\ accepts' = accepts
  <2>1. Coming(d)' = Coming(d)
    BY <1>5, <1>6, ScriptKinds, StageCases
  <2> QED BY <1>1, <1>2, <1>3, <1>4, <1>6, <2>1
<1>7. CASE Settles(s, 5) /\ accepts' = accepts + 1
  <2>1. Coming(d)' = Coming(d) \/ Coming(d)' = Coming(d) \cup {s}
    BY <1>5
  <2>2. Cardinality(Coming(d))' = Cardinality(Coming(d)) \/ Cardinality(Coming(d))' = Cardinality(Coming(d)) + 1
    BY <1>2, <2>1, FS_AddElement
  <2> QED BY <1>1, <1>2, <1>3, <1>4, <1>7, <2>2, StageCases
<1> QED BY <1>6, <1>7 DEF Launched

LEMMA MoneyKept ==
    ASSUME WalletTables, Bounded, WalletMoves
    PROVE  Bounded'
<1>1. CASE UNCHANGED walletVars
  BY <1>1 DEF walletVars, contractVars, Bounded, Coming, Unmined
<1>2. CASE LoseScripts
  <2> SUFFICES ASSUME NEW d \in Depositories
               PROVE  deposits'[d] + allowance'[d]
                         + Share[d] * (Cardinality(Coming(d))' + Cardinality(Unmined("approve", d))') <= Share[d] * accepts'
    BY DEF Bounded, Depositories, Share
  <2>1. Coming(d)' = {} /\ deposits' = deposits /\ allowance' = allowance /\ accepts' = accepts
        /\ Unmined("approve", d)' = Unmined("approve", d)
    BY <1>2 DEF LoseScripts, Coming, Unmined, contractVars
  <2>2. Cardinality(Coming(d))' = 0
    BY <2>1, FS_EmptySet
  <2>3. deposits[d] + allowance[d] + Share[d] * (Cardinality(Coming(d)) + Cardinality(Unmined("approve", d)))
          <= Share[d] * accepts
    BY DEF Bounded
  <2>4. /\ Cardinality(Coming(d)) \in Nat /\ Cardinality(Unmined("approve", d)) \in Nat
        /\ deposits[d] \in Nat /\ allowance[d] \in Nat /\ accepts \in Nat
    BY CountsAreNat
  <2> QED BY <2>1, <2>2, <2>3, <2>4, StageCases
<1>3. ASSUME NEW j \in Jobs, FundTask(j) \/ LeaveEscrow(j) PROVE Bounded'
  BY <1>3 DEF FundTask, LeaveEscrow, Bounded, Coming, Unmined
<1> QED BY <1>1, <1>2, <1>3, MoneyOfLaunch, MoneyOfScript, MoneyOfMine DEF WalletMoves

-----------------------------------------------------------------------------
(* In order, what was settled is deposited, pending, still to be sent, or     *)
(* was missed                                                                 *)

\* A deposit in d that is the i-th transaction finds its allowance: an approval goes
\* before it, or is mined, and no other deposit comes between.
Ready(d, i) ==
    \/ \E k \in Unmined("approve", d) : k < i /\ \A m \in Unmined("deposit", d) : m < k \/ m >= i
    \/ allowance[d] = Share[d] /\ \A m \in Unmined("deposit", d) : m >= i

\* Whether a script has yet to deposit in d
Unsent(d) == IF \E s \in scripts : \E k \in (Stage[d] - 1)..5 : Settles(s, k) THEN 1 ELSE 0

OrderOf(d) ==
    /\ deposits[d] + Share[d] * (Cardinality(Unmined("deposit", d)) + Unsent(d) + missed[d]) = Share[d] * accepts
    /\ \A i \in Unmined("deposit", d) : Ready(d, i)
    /\ (\E s \in scripts : Settles(s, Stage[d] - 1)) => Ready(d, Len(sent) + 1)

InOrder ==
    orderly =>
       /\ \A s, t \in scripts : s = t
       /\ \A d \in Depositories : OrderOf(d)

DepositsInv == Bounded /\ InOrder

LEMMA LeftOf ==
    ASSUME NEW s, scripts = {s}, NEW k \in 1..5, Settles(s, k), NEW d \in Depositories
    PROVE  /\ Unsent(d) = IF k >= Stage[d] - 1 THEN 1 ELSE 0
           /\ (\E x \in scripts : Settles(x, Stage[d] - 1)) <=> k = Stage[d] - 1
<1>1. Stage[d] - 1 \in {1, 4}
  BY StageCases
<1>2. \A l \in 1..5 : Settles(s, l) <=> l = k
  BY ScriptKinds
<1>3. (\E l \in (Stage[d] - 1)..5 : Settles(s, l)) <=> k >= Stage[d] - 1
  BY <1>1, <1>2
<1> QED BY <1>1, <1>2, <1>3 DEF Unsent

LEMMA LeftNext ==
    ASSUME NEW s, scripts = {s}, NEW t, Becomes(s, t), NEW l \in 0..5, Settles(t, l), NEW d \in Depositories
    PROVE  /\ Unsent(d)' = IF l >= Stage[d] - 1 THEN 1 ELSE 0
           /\ (\E x \in scripts' : Settles(x, Stage[d] - 1)) => l = Stage[d] - 1
<1>1. Stage[d] - 1 \in {1, 4}
  BY StageCases
<1>2. \A i \in 0..5 : Settles(t, i) <=> i = l
  BY StageOne
<1>3. scripts' = (IF l = 0 THEN {} ELSE {t})
  BY StageOne DEF Becomes
<1>4. (\E i \in (Stage[d] - 1)..5 : Settles(t, i)) <=> l >= Stage[d] - 1
  BY <1>1, <1>2
<1>5. Unsent(d)' = IF \E x \in scripts' : \E i \in (Stage[d] - 1)..5 : Settles(x, i) THEN 1 ELSE 0
  BY DEF Unsent, Stage
<1> QED BY <1>1, <1>2, <1>3, <1>4, <1>5

LEMMA LeftNone ==
    ASSUME \A s \in scripts : OneCall(s), NEW d \in Depositories
    PROVE  Unsent(d) = 0 /\ ~\E s \in scripts : Settles(s, Stage[d] - 1)
<1>1. Stage[d] - 1 \in {1, 4}
  BY StageCases
<1>2. \A s \in scripts : \A k \in (Stage[d] - 1)..5 : ~Settles(s, k)
  BY <1>1, ScriptKinds
<1>3. \A s \in scripts : ~Settles(s, Stage[d] - 1)
  BY <1>1, <1>2
<1> QED BY <1>2, <1>3 DEF Unsent

LEMMA ReadySent ==
    ASSUME WalletTables, NEW c, Send(c), NEW d \in Depositories, NEW i \in Nat, i <= Len(sent) + 1, Ready(d, i)
    PROVE  Ready(d, i)'
<1>1. allowance' = allowance /\ Len(sent) \in Nat
  BY SendFacts DEF WalletTables
<1>2. Unmined("approve", d) \subseteq Unmined("approve", d)'
  BY UnminedSent
<1>3. \A m \in Unmined("deposit", d)' : m \in Unmined("deposit", d) \/ m = Len(sent) + 1
  BY UnminedSent
<1>4. Ready(d, i)' <=>
         \/ \E k \in Unmined("approve", d)' : k < i /\ \A m \in Unmined("deposit", d)' : m < k \/ m >= i
         \/ allowance'[d] = Share[d] /\ \A m \in Unmined("deposit", d)' : m >= i
  BY DEF Ready, Share
<1>5. Len(sent) + 1 >= i
  BY <1>1
<1>6. CASE allowance[d] = Share[d] /\ \A m \in Unmined("deposit", d) : m >= i
  BY <1>1, <1>3, <1>4, <1>5, <1>6
<1>7. ASSUME NEW k \in Unmined("approve", d), k < i, \A m \in Unmined("deposit", d) : m < k \/ m >= i
      PROVE  Ready(d, i)'
  <2>1. \A m \in Unmined("deposit", d)' : m < k \/ m >= i
    BY <1>3, <1>5, <1>7
  <2> QED BY <1>2, <1>4, <1>7, <2>1
<1> QED BY <1>6, <1>7 DEF Ready

LEMMA ReadyMined ==
    ASSUME WalletTables, Mine, NEW d \in Depositories, NEW i \in Nat, i > mined + 1, Ready(d, i)
    PROVE  Ready(d, i)'
<1> DEFINE c == sent[mined + 1]
<1>0. mined \in Nat /\ Executed(c) /\ CallFits(c) /\ allowance \in [Depositories -> Nat] /\ deposits \in [Depositories -> Nat]
  BY MineFacts, SentFacts DEF WalletTables
<1>1. /\ \A name : Unmined(name, d)' = Unmined(name, d) \ {mined + 1}
      /\ \A name : mined + 1 \in Unmined(name, d) <=> c.name = name /\ c.who = d
  BY UnminedMined
<1>2. \A name : \A m \in Unmined(name, d) : m \in Nat /\ m > mined
  BY <1>0, SentFacts DEF Unmined, WalletTables
<1>3. /\ c.name = "approve" /\ c.who = d => allowance'[d] = Share[d]
      /\ c.name \notin {"approve", "deposit"} \/ c.who # d => allowance'[d] = allowance[d]
  BY <1>0, ExecutedMoney
<1> HIDE DEF c
<1>4. Ready(d, i)' <=>
         \/ \E k \in Unmined("approve", d)' : k < i /\ \A m \in Unmined("deposit", d)' : m < k \/ m >= i
         \/ allowance'[d] = Share[d] /\ \A m \in Unmined("deposit", d)' : m >= i
  BY DEF Ready, Share
<1>5. CASE allowance[d] = Share[d] /\ \A m \in Unmined("deposit", d) : m >= i
  <2>1. mined + 1 \notin Unmined("deposit", d)
    BY <1>0, <1>5
  <2>2. allowance'[d] = Share[d]
    BY <1>1, <1>3, <1>5, <2>1
  <2> QED BY <1>1, <1>4, <1>5, <2>2
<1>6. ASSUME NEW k \in Unmined("approve", d), k < i, \A m \in Unmined("deposit", d) : m < k \/ m >= i
      PROVE  Ready(d, i)'
  <2>1. CASE k # mined + 1
    <3>1. k \in Unmined("approve", d)' /\ \A m \in Unmined("deposit", d)' : m < k \/ m >= i
      BY <1>1, <1>6, <2>1
    <3> QED BY <1>4, <1>6, <3>1
  <2>2. CASE k = mined + 1
    <3>1. allowance'[d] = Share[d]
      BY <1>1, <1>3, <1>6, <2>2
    <3>2. \A m \in Unmined("deposit", d)' : m >= i
      <4> TAKE m \in Unmined("deposit", d)'
      <4>1. m \in Unmined("deposit", d) /\ m \in Nat /\ m > mined
        BY <1>1, <1>2
      <4>2. m < k \/ m >= i
        BY <1>6, <4>1
      <4> QED BY <1>0, <2>2, <4>1, <4>2
    <3> QED BY <1>4, <3>1, <3>2
  <2> QED BY <2>1, <2>2
<1> QED BY <1>5, <1>6 DEF Ready

LEMMA OrderOfMine ==
    ASSUME WalletTables, InOrder, Mine
    PROVE  InOrder'
<1> DEFINE c == sent[mined + 1]
<1>0. /\ Executed(c) /\ CallFits(c) /\ sent' = sent /\ mined \in Nat /\ mined' = mined + 1
      /\ mined + 1 \in 1..Len(sent) /\ Len(sent) \in Nat
      /\ scripts' = scripts /\ accepts' = accepts /\ missed' = missed /\ orderly' = orderly
      /\ allowance \in [Depositories -> Nat] /\ deposits \in [Depositories -> Nat]
  BY MineFacts, SentFacts DEF WalletTables
<1> SUFFICES ASSUME orderly, NEW d \in Depositories PROVE OrderOf(d)'
  BY <1>0 DEF InOrder, Depositories
<1>1. OrderOf(d)
  BY DEF InOrder
<1> DEFINE U == Unmined("deposit", d)
           here == c.name = "deposit" /\ c.who = d
<1>2. /\ U' = U \ {mined + 1} /\ (mined + 1 \in U <=> here)
      /\ Cardinality(U)' = IF here THEN Cardinality(U) - 1 ELSE Cardinality(U)
  BY UnminedMined
<1>3. \A name : \A m \in Unmined(name, d) : m \in Nat /\ m > mined
  BY <1>0 DEF Unmined
<1>4. here => deposits'[d] = deposits[d] + Share[d]
  <2> SUFFICES ASSUME here PROVE deposits'[d] = deposits[d] + Share[d]
    OBVIOUS
  <2>1. Ready(d, mined + 1)
    BY <1>1, <1>2 DEF OrderOf
  <2>2. allowance[d] = Share[d]
    <3>1. ASSUME NEW k \in Unmined("approve", d) PROVE ~(k < mined + 1)
      <4>1. k \in Nat /\ k > mined
        BY <1>3
      <4> QED BY <1>0, <4>1
    <3> QED BY <2>1, <3>1 DEF Ready
  <2>3. IF allowance[d] < Share[d] THEN allowance'[d] = allowance[d] /\ deposits'[d] = deposits[d]
                       ELSE allowance'[d] = allowance[d] - Share[d] /\ deposits'[d] = deposits[d] + Share[d]
    BY <1>0, ExecutedMoney
  <2> QED BY <2>2, <2>3, ShareCases
<1>5. ~here => deposits'[d] = deposits[d]
  BY <1>0, ExecutedMoney
<1>6. Unsent(d)' = Unsent(d) /\ Unsent(d) \in {0, 1}
  BY <1>0 DEF Unsent, Stage
<1>7. Cardinality(U) \in Nat /\ missed[d] \in Nat /\ accepts \in Nat /\ deposits[d] \in Nat
  BY CountsAreNat
<1> HIDE DEF here
<1>8. (deposits[d] + Share[d] * (Cardinality(U) + Unsent(d) + missed[d]) = Share[d] * accepts)'
  <2>1. deposits[d] + Share[d] * (Cardinality(U) + Unsent(d) + missed[d]) = Share[d] * accepts
    BY <1>1 DEF OrderOf
  <2> HIDE DEF U
  <2>2. deposits'[d] + Share[d] * (Cardinality(U)' + Unsent(d)' + missed'[d]) = Share[d] * accepts'
    <3>1. /\ Unsent(d)' = Unsent(d) /\ Unsent(d) \in {0, 1} /\ missed'[d] = missed[d] /\ accepts' = accepts
          /\ Cardinality(U)' = IF here THEN Cardinality(U) - 1 ELSE Cardinality(U)
          /\ deposits'[d] = IF here THEN deposits[d] + Share[d] ELSE deposits[d]
      BY <1>0, <1>2, <1>4, <1>5, <1>6
    <3> QED BY <1>7, <2>1, <3>1, ShareCases
  <2> QED BY <2>2 DEF Share
<1>9. \A i \in U' : Ready(d, i)'
  <2> TAKE i \in U'
  <2>1. i \in U /\ i \in Nat /\ i > mined + 1
    BY <1>0, <1>2, <1>3
  <2> QED BY <1>1, <2>1, ReadyMined DEF OrderOf
<1>10. (\E s \in scripts' : Settles(s, Stage[d] - 1)) => Ready(d, Len(sent) + 1)'
  <2>1. Len(sent) + 1 \in Nat /\ Len(sent) + 1 > mined + 1
    BY <1>0
  <2>2. Ready(d, Len(sent) + 1) => Ready(d, Len(sent) + 1)'
    <3> DEFINE n == Len(sent) + 1
    <3>1. n \in Nat /\ n > mined + 1 /\ n' = n
      BY <1>0, <2>1
    <3> HIDE DEF n
    <3>2. ASSUME Ready(d, n) PROVE Ready(d, n)'
      <4>1. PICK i \in Nat : i = n
        BY <3>1
      <4>2. Ready(d, i)'
        BY <3>1, <3>2, <4>1, ReadyMined
      <4> QED BY <3>1, <4>1, <4>2 DEF Ready
    <3> QED BY <3>2 DEF n
  <2> QED BY <1>0, <1>1, <2>2 DEF OrderOf
<1> QED BY <1>8, <1>9, <1>10 DEF OrderOf, Stage

\* In order, what the only script does: it goes on as it was, sends its first call, or
\* skips it; and a deposit that it skips is missed.
LEMMA OrderlyStep ==
    ASSUME WalletTables, NEW s \in scripts, ScriptSteps(s), orderly', NEW c, c = Head(s.calls)
    PROVE  \E t : /\ Becomes(s, t)
                  /\ \/ UNCHANGED contractVars /\ (missed' = missed \/ c.name = "deposit")
                     \/ Send(c) /\ missed' = missed
                  /\ OneCall(s) => (t.calls = <<>> \/ OneCall(t)) /\ missed' = missed
                  /\ \A k \in 1..5 : Settles(s, k) =>
                        \/ Settles(t, k) /\ missed' = missed
                           /\ (UNCHANGED contractVars \/ (Send(c) /\ c.name = "release"))
                        \/ Settles(t, k - 1) /\ c.name = "deposit" /\ UNCHANGED contractVars
                           /\ missed' = [missed EXCEPT ![c.who] = @ + 1]
                        \/ Settles(t, k - 1) /\ c.name \in {"deposit", "approve"} /\ Send(c) /\ missed' = missed
                        \/ Settles(t, 2) /\ k = 3 /\ UNCHANGED contractVars /\ missed' = missed
<1>0. ScriptRow(s) /\ ~CallFails(s) /\ Len(sent) \in Nat
  BY ScriptEffect, SentFacts
<1>1. PICK t : Advances(s, t) /\ Becomes(s, t)
  BY ScriptEffect
<1>2. /\ OneCall(s) => c.name \in CallNames
      /\ \A k \in {1, 4} : Settles(s, k) => c.name = "deposit"
      /\ \A k \in {2, 5} : Settles(s, k) => c.name = "approve"
      /\ Settles(s, 3) => c.name = "release" /\ c.job = s.job /\ c.who = s.who
  BY <1>0, HeadOf
<1>3. /\ OneCall(s) => t.calls = <<>> \/ (OneCall(t) /\ Stays(s, t))
      /\ \A k \in 1..5 : Settles(s, k) =>
            /\ Stays(s, t) => Settles(t, k)
            /\ t = Pop(s) => Settles(t, k - 1)
            /\ t = Rest(s) => Settles(t, IF k \in {2, 5} THEN k - 2 ELSE k - 1)
  BY <1>0, <1>1, AdvanceStages, StaysKind, PopDrops, RestDrops
<1>4. CASE PrepareCall(s) /\ Reverts(c) /\ t = Rest(s)
  <2>1. UNCHANGED contractVars
        /\ missed' = IF c.name = "deposit" THEN [missed EXCEPT ![c.who] = @ + 1] ELSE missed
    BY <1>4 DEF PrepareCall
  <2>2. c.name # "approve"
    BY <1>4 DEF Reverts
  <2>3. ASSUME NEW k \in 1..5, Settles(s, k)
        PROVE  \/ Settles(t, k - 1) /\ c.name = "deposit"
               \/ Settles(t, 2) /\ k = 3 /\ c.name = "release"
    <3>1. k \in {1, 4} \/ k = 3
      BY <1>2, <2>2, <2>3
    <3> QED BY <1>2, <1>3, <1>4, <2>3, <3>1
  <2>4. OneCall(s) => c.name # "deposit"
    BY <1>2 DEF CallNames
  <2> QED BY <1>1, <1>3, <2>1, <2>3, <2>4
<1>5. CASE PrepareCall(s) /\ ~Reverts(c) /\ Stays(s, t)
  <2>1. UNCHANGED contractVars /\ missed' = missed
    BY <1>5 DEF PrepareCall
  <2> QED BY <1>1, <1>3, <1>5, <2>1
<1>6. CASE SendCall(s) /\ c.name # "release" /\ t = Pop(s)
  <2>1. Send(c) /\ missed' = missed
    BY <1>6 DEF SendCall
  <2>2. ASSUME NEW k \in 1..5, Settles(s, k)
        PROVE  Settles(t, k - 1) /\ c.name \in {"deposit", "approve"}
    <3>1. k \in {1, 4} \/ k \in {2, 5}
      BY <1>2, <1>6, <2>2
    <3> QED BY <1>2, <1>3, <1>6, <2>2, <3>1
  <2> QED BY <1>1, <1>3, <2>1, <2>2
<1>7. CASE SendCall(s) /\ c.name = "release" /\ Stays(s, t)
  <2>1. Send(c) /\ missed' = missed
    BY <1>7 DEF SendCall
  <2> QED BY <1>1, <1>3, <1>7, <2>1
<1>8. CASE MarkSettledOnChain(s) /\ t = Pop(s)
  <2>1. UNCHANGED contractVars /\ missed' = missed /\ s.step = "mark"
    BY <1>8 DEF MarkSettledOnChain
  <2>2. Settles(s, 3)
    BY <1>0, <2>1 DEF ScriptRow
  <2>3. \A k \in 1..5 : Settles(s, k) => k = 3
    BY <2>2, ScriptKinds
  <2>4. Settles(t, 2) /\ ~OneCall(s)
    BY <1>3, <1>8, <2>2, ScriptKinds
  <2> QED BY <1>1, <2>1, <2>3, <2>4
<1> QED BY <1>0, <1>1, <1>4, <1>5, <1>6, <1>7, <1>8 DEF Advances

\* Nothing that d is to be given comes or goes.
LEMMA OrderStays ==
    ASSUME WalletTables, NEW d \in Depositories, OrderOf(d), accepts' = accepts, missed'[d] = missed[d],
           \/ UNCHANGED contractVars
           \/ \E c : Send(c) /\ ~(c.name = "deposit" /\ c.who = d),
           Unsent(d)' = Unsent(d),
           (\E x \in scripts' : Settles(x, Stage[d] - 1)) => Ready(d, Len(sent) + 1)'
    PROVE  OrderOf(d)'
<1>1. deposits' = deposits /\ Unmined("deposit", d)' = Unmined("deposit", d)
  <2>1. CASE UNCHANGED contractVars
    BY <2>1 DEF contractVars, Unmined
  <2>2. ASSUME NEW c, Send(c), ~(c.name = "deposit" /\ c.who = d)
        PROVE  deposits' = deposits /\ Unmined("deposit", d)' = Unmined("deposit", d)
    BY <2>2, UnminedSent, SendFacts DEF WalletTables
  <2> QED BY <2>1, <2>2
<1>2. \A i \in Unmined("deposit", d) : Ready(d, i)'
  <2> TAKE i \in Unmined("deposit", d)
  <2>1. Ready(d, i) /\ i \in Nat /\ i <= Len(sent) + 1
    BY CountsAreNat DEF OrderOf, Unmined
  <2>2. CASE UNCHANGED contractVars
    BY <2>1, <2>2 DEF Ready, contractVars, Unmined
  <2> QED BY <2>1, <2>2, ReadySent
<1>3. deposits[d] + Share[d] * (Cardinality(Unmined("deposit", d)) + Unsent(d) + missed[d]) = Share[d] * accepts
  BY DEF OrderOf
<1>4. (deposits[d] + Share[d] * (Cardinality(Unmined("deposit", d)) + Unsent(d) + missed[d]) = Share[d] * accepts)'
  BY <1>1, <1>3 DEF Share
<1> QED BY <1>1, <1>2, <1>4 DEF OrderOf, Stage

LEMMA OrderOfScript ==
    ASSUME WalletTables, InOrder, orderly', NEW s \in scripts, ScriptSteps(s)
    PROVE  InOrder'
<1> DEFINE c == Head(s.calls)
<1>0. ScriptRow(s) /\ accepts' = accepts /\ orderly /\ Len(sent) \in Nat
  BY ScriptEffect, SentFacts
<1>1. scripts = {s} /\ \A d \in Depositories : OrderOf(d)
  BY <1>0 DEF InOrder
<1>2. PICK t : /\ Becomes(s, t)
               /\ \/ UNCHANGED contractVars /\ (missed' = missed \/ c.name = "deposit")
                  \/ Send(c) /\ missed' = missed
               /\ OneCall(s) => (t.calls = <<>> \/ OneCall(t)) /\ missed' = missed
               /\ \A k \in 1..5 : Settles(s, k) =>
                     \/ Settles(t, k) /\ missed' = missed
                        /\ (UNCHANGED contractVars \/ (Send(c) /\ c.name = "release"))
                     \/ Settles(t, k - 1) /\ c.name = "deposit" /\ UNCHANGED contractVars
                        /\ missed' = [missed EXCEPT ![c.who] = @ + 1]
                     \/ Settles(t, k - 1) /\ c.name \in {"deposit", "approve"} /\ Send(c) /\ missed' = missed
                     \/ Settles(t, 2) /\ k = 3 /\ UNCHANGED contractVars /\ missed' = missed
  BY OrderlyStep
<1>3. \A x, y \in scripts' : x = y
  BY <1>1, <1>2 DEF Becomes
<1> SUFFICES ASSUME NEW d \in Depositories PROVE OrderOf(d)'
  BY <1>3 DEF InOrder, Depositories
<1>4. OrderOf(d)
  BY <1>1
<1>5. /\ OneCall(s) => c.name \in CallNames
      /\ Settles(s, 1) => c.name = "deposit" /\ c.who = "fees"
      /\ Settles(s, 2) => c.name = "approve" /\ c.who = "fees"
      /\ Settles(s, 3) => c.name = "release"
      /\ Settles(s, 4) => c.name = "deposit" /\ c.who = "staking"
      /\ Settles(s, 5) => c.name = "approve" /\ c.who = "staking"
  BY <1>0, HeadOf
<1> HIDE DEF c
<1>6. CASE OneCall(s)
  <2>1. c.name # "deposit" /\ missed' = missed
    BY <1>2, <1>5, <1>6 DEF CallNames
  <2>2. \A x \in scripts' : OneCall(x)
    BY <1>1, <1>2, <1>6 DEF Becomes
  <2>3. Unsent(d) = 0
    BY <1>1, <1>6, LeftNone
  <2>4. Unsent(d)' = 0 /\ ~\E x \in scripts' : Settles(x, Stage[d] - 1)
    <3>1. Stage[d] - 1 \in {1, 4}
      BY StageCases
    <3>2. \A x \in scripts' : \A k \in (Stage[d] - 1)..5 : ~Settles(x, k)
      BY <2>2, <3>1, ScriptKinds
    <3>3. \A x \in scripts' : ~Settles(x, Stage[d] - 1)
      BY <3>1, <3>2
    <3>4. Unsent(d)' = IF \E x \in scripts' : \E i \in (Stage[d] - 1)..5 : Settles(x, i) THEN 1 ELSE 0
      BY DEF Unsent, Stage
    <3> QED BY <3>2, <3>3, <3>4
  <2> QED BY <1>0, <1>2, <1>4, <2>1, <2>3, <2>4, OrderStays
<1>7. ASSUME NEW k \in 1..5, Settles(s, k) PROVE OrderOf(d)'
  <2>1. /\ Unsent(d) = IF k >= Stage[d] - 1 THEN 1 ELSE 0
        /\ k = Stage[d] - 1 => Ready(d, Len(sent) + 1)
    BY <1>1, <1>4, <1>7, LeftOf DEF OrderOf
  <2>2. ASSUME NEW l \in 0..5, Settles(t, l)
        PROVE  /\ Unsent(d)' = IF l >= Stage[d] - 1 THEN 1 ELSE 0
               /\ (\E x \in scripts' : Settles(x, Stage[d] - 1)) => l = Stage[d] - 1
    BY <1>1, <1>2, <2>2, LeftNext
  <2>3. \A l \in 1..5 : Settles(s, l) => l = k
    BY <1>7, ScriptKinds
  <2>4. UNCHANGED contractVars => (Ready(d, Len(sent) + 1) => Ready(d, Len(sent) + 1)')
    BY DEF Ready, Unmined, contractVars
  <2>5. CASE Settles(t, k) /\ missed' = missed /\ UNCHANGED contractVars
    <3>1. Unsent(d)' = Unsent(d) /\ ((\E x \in scripts' : Settles(x, Stage[d] - 1)) => k = Stage[d] - 1)
      BY <2>1, <2>2, <2>5
    <3> QED BY <1>0, <1>4, <2>1, <2>4, <2>5, <3>1, OrderStays
  <2>6. CASE Settles(t, k) /\ missed' = missed /\ Send(c) /\ c.name = "release"
    <3>1. k = 3
      <4>1. k = 1 \/ k = 2 \/ k = 3 \/ k = 4 \/ k = 5
        OBVIOUS
      <4> QED BY <1>5, <1>7, <2>6, <4>1
    <3>2. Unsent(d)' = Unsent(d) /\ ~\E x \in scripts' : Settles(x, Stage[d] - 1)
      BY <2>1, <2>2, <2>6, <3>1, StageCases
    <3> QED BY <1>0, <1>4, <2>6, <3>2, OrderStays
  <2>7. CASE Settles(t, 2) /\ k = 3 /\ UNCHANGED contractVars /\ missed' = missed
    <3>1. Unsent(d)' = Unsent(d) /\ ~\E x \in scripts' : Settles(x, Stage[d] - 1)
      BY <2>1, <2>2, <2>7, StageCases
    <3> QED BY <1>0, <1>4, <2>7, <3>1, OrderStays
  <2>8. CASE Settles(t, k - 1) /\ c.name \in {"deposit", "approve"} /\ ~(c.name = "deposit" /\ c.who = d)
             /\ missed'[d] = missed[d] /\ (UNCHANGED contractVars \/ Send(c))
             /\ (c.name = "approve" => Send(c))
    <3>1. k # Stage[d] - 1 /\ (k = Stage[d] <=> c.name = "approve" /\ c.who = d) /\ k # 3
      <4>1. k = 1 \/ k = 2 \/ k = 3 \/ k = 4 \/ k = 5
        OBVIOUS
      <4> QED BY <1>5, <1>7, <2>8, <4>1, StageCases
    <3>2. Unsent(d)' = Unsent(d) /\ ((\E x \in scripts' : Settles(x, Stage[d] - 1)) => k = Stage[d])
      BY <2>1, <2>2, <2>8, <3>1, StageCases
    <3>3. k = Stage[d] => Ready(d, Len(sent) + 1)'
      <4> SUFFICES ASSUME k = Stage[d] PROVE Ready(d, Len(sent) + 1)'
        OBVIOUS
      <4>1. Send(c) /\ c.name = "approve" /\ c.who = d
        BY <2>8, <3>1
      <4>2. Len(sent)' = Len(sent) + 1
        BY <4>1, SendFacts DEF WalletTables
      <4>3. Len(sent) + 1 \in Unmined("approve", d)'
        BY <4>1, UnminedSent
      <4>4. \A m \in Unmined("deposit", d)' : m < Len(sent) + 1
        <5>1. Unmined("deposit", d)' = Unmined("deposit", d)
          BY <4>1, UnminedSent
        <5>2. \A m \in Unmined("deposit", d) : m < Len(sent) + 1
          BY CountsAreNat DEF Unmined
        <5> QED BY <5>1, <5>2
      <4>5. Ready(d, Len(sent) + 1)' <=>
         \/ \E i \in Unmined("approve", d)' : i < Len(sent)' + 1 /\ \A m \in Unmined("deposit", d)' : m < i \/ m >= Len(sent)' + 1
         \/ allowance'[d] = Share[d] /\ \A m \in Unmined("deposit", d)' : m >= Len(sent)' + 1
        BY DEF Ready, Share
      <4>6. Len(sent) + 1 < Len(sent)' + 1
        BY <1>0, <4>2
      <4> QED BY <4>3, <4>4, <4>5, <4>6
    <3> QED BY <1>0, <1>4, <2>8, <3>2, <3>3, OrderStays
  <2>9. CASE /\ Settles(t, k - 1) /\ c.name = "deposit" /\ c.who = d
             /\ \/ UNCHANGED contractVars /\ missed' = [missed EXCEPT ![c.who] = @ + 1]
                \/ Send(c) /\ missed' = missed
    <3>1. k = Stage[d] - 1
      <4>1. k = 1 \/ k = 2 \/ k = 3 \/ k = 4 \/ k = 5
        OBVIOUS
      <4> QED BY <1>5, <1>7, <2>9, <4>1, StageCases
    <3>2. Unsent(d) = 1 /\ Unsent(d)' = 0 /\ ~\E x \in scripts' : Settles(x, Stage[d] - 1)
      BY <2>1, <2>2, <2>9, <3>1, StageCases
    <3> DEFINE U == Unmined("deposit", d)
    <3>3. deposits[d] + Share[d] * (Cardinality(U) + Unsent(d) + missed[d]) = Share[d] * accepts
      BY <1>4 DEF OrderOf
    <3>4. Cardinality(U) \in Nat /\ missed[d] \in Nat /\ accepts \in Nat /\ deposits[d] \in Nat
          /\ Len(sent) \in Nat /\ mined \in 0..Len(sent) /\ missed \in [Depositories -> Nat]
      BY CountsAreNat DEF WalletTables
    <3>5. CASE UNCHANGED contractVars /\ missed' = [missed EXCEPT ![c.who] = @ + 1]
      <4>1. U' = U /\ deposits' = deposits /\ missed'[d] = missed[d] + 1
        BY <2>9, <3>4, <3>5 DEF contractVars, Unmined
      <4>2. \A i \in U' : Ready(d, i)'
        <5>1. \A i \in U : Ready(d, i)
          BY <1>4 DEF OrderOf
        <5> QED BY <3>5, <5>1 DEF Ready, contractVars, Unmined
      <4>3. Cardinality(U)' = Cardinality(U)
        BY <4>1
      <4>4. deposits'[d] + Share[d] * (Cardinality(U)' + Unsent(d)' + missed'[d]) = Share[d] * accepts'
        BY <1>0, <3>2, <3>3, <3>4, <4>1, <4>3
      <4> QED BY <3>2, <4>2, <4>4 DEF OrderOf, Stage, Share
    <3>6. CASE Send(c) /\ missed' = missed
      <4>1. U' = U \cup {Len(sent) + 1} /\ Cardinality(U)' = Cardinality(U) + 1 /\ deposits' = deposits
        BY <2>9, <3>6, UnminedSent, SendFacts DEF WalletTables
      <4>2. \A i \in U' : Ready(d, i)'
        <5> TAKE i \in U'
        <5>1. i \in Nat /\ i <= Len(sent) + 1
          BY <3>4, <4>1 DEF Unmined
        <5>2. Ready(d, i)
          BY <1>4, <2>1, <3>1, <4>1 DEF OrderOf
        <5> QED BY <3>6, <5>1, <5>2, ReadySent
      <4>3. deposits'[d] + Share[d] * (Cardinality(U)' + Unsent(d)' + missed'[d]) = Share[d] * accepts'
        BY <1>0, <3>2, <3>3, <3>4, <3>6, <4>1
      <4> QED BY <3>2, <4>2, <4>3 DEF OrderOf, Stage, Share
    <3> QED BY <2>9, <3>5, <3>6
  <2>10. missed \in [Depositories -> Nat] /\ (c.who # d => [missed EXCEPT ![c.who] = @ + 1][d] = missed[d])
    BY DEF WalletTables
  <2> QED BY <1>2, <1>7, <2>5, <2>6, <2>7, <2>8, <2>9, <2>10
<1> QED BY <1>0, <1>6, <1>7 DEF ScriptRow

LEMMA OrderOfLaunch ==
    ASSUME WalletTables, InOrder, NEW s, Launched(s)
    PROVE  InOrder'
<1> SUFFICES ASSUME orderly', NEW d \in Depositories PROVE (\A x, y \in scripts' : x = y) /\ OrderOf(d)'
  BY DEF InOrder, Depositories
<1>1. /\ orderly /\ scripts = {} /\ scripts' = {s} /\ UNCHANGED contractVars /\ missed' = missed
      /\ OrderOf(d) /\ Stage[d] - 1 \in {1, 4}
  <2>1. orderly /\ scripts = {} /\ scripts' = {s} /\ UNCHANGED contractVars /\ missed' = missed
    BY DEF Launched
  <2> QED BY <2>1, StageCases DEF InOrder
<1>2. Unsent(d) = 0
  BY <1>1 DEF Unsent
<1>3. Unsent(d)' = IF \E k \in (Stage[d] - 1)..5 : Settles(s, k) THEN 1 ELSE 0
  BY <1>1 DEF Unsent, Stage
<1>4. CASE OneCall(s) /\ accepts' = accepts
  <2>1. Unsent(d)' = 0 /\ ~\E x \in scripts' : Settles(x, Stage[d] - 1)
    BY <1>1, <1>3, <1>4, ScriptKinds
  <2> QED BY <1>1, <1>2, <1>4, <2>1, OrderStays
<1>5. CASE Settles(s, 5) /\ accepts' = accepts + 1
  <2>1. Unsent(d)' = 1 /\ ~\E x \in scripts' : Settles(x, Stage[d] - 1)
    BY <1>1, <1>3, <1>5, ScriptKinds
  <2> DEFINE U == Unmined("deposit", d)
  <2>2. U' = U /\ deposits' = deposits
    BY <1>1 DEF contractVars, Unmined
  <2>3. \A i \in U' : Ready(d, i)'
    BY <1>1, <2>2 DEF Ready, OrderOf, contractVars, Unmined
  <2>4. deposits[d] + Share[d] * (Cardinality(U) + Unsent(d) + missed[d]) = Share[d] * accepts
    BY <1>1 DEF OrderOf
  <2>5. Cardinality(U) \in Nat /\ missed[d] \in Nat /\ accepts \in Nat /\ deposits[d] \in Nat
    BY CountsAreNat
  <2>6. Cardinality(U)' = Cardinality(U)
    BY <2>2
  <2>7. deposits'[d] + Share[d] * (Cardinality(U)' + Unsent(d)' + missed'[d]) = Share[d] * accepts'
    <3>1. missed'[d] = missed[d] /\ accepts' = accepts + 1 /\ deposits'[d] = deposits[d]
      BY <1>1, <1>5, <2>2
    <3>2. Share[d] = 9 \/ Share[d] = 1
      BY ShareCases
    <3> HIDE DEF U
    <3> QED BY <1>2, <2>1, <2>4, <2>5, <2>6, <3>1, <3>2
  <2> QED BY <1>1, <2>1, <2>3, <2>7 DEF OrderOf, Stage, Share
<1> QED BY <1>1, <1>4, <1>5 DEF Launched

LEMMA OrderSame ==
    ASSUME UNCHANGED <<deposits, allowance, sent, mined, scripts, accepts, missed>>, NEW d \in Depositories, OrderOf(d)
    PROVE  OrderOf(d)'
<1>1. Unmined("deposit", d)' = Unmined("deposit", d) /\ Unmined("approve", d)' = Unmined("approve", d)
  BY DEF Unmined
<1>2. Unsent(d)' = Unsent(d)
  BY DEF Unsent, Stage
<1>3. \A i : Ready(d, i) => Ready(d, i)'
  BY <1>1 DEF Ready, Share
<1>4. Ready(d, Len(sent) + 1) => Ready(d, Len(sent) + 1)'
  BY <1>1 DEF Ready, Share
<1>5. (deposits[d] + Share[d] * (Cardinality(Unmined("deposit", d)) + Unsent(d) + missed[d]) = Share[d] * accepts)'
  BY <1>1, <1>2 DEF OrderOf, Share
<1> QED BY <1>1, <1>3, <1>4, <1>5 DEF OrderOf, Stage

LEMMA OrderKept ==
    ASSUME WalletTables, InOrder, WalletMoves
    PROVE  InOrder'
<1>0. ASSUME orderly' => orderly, UNCHANGED <<deposits, allowance, sent, mined, scripts, accepts, missed>>
      PROVE  InOrder'
  <2>1. \A d \in Depositories : OrderOf(d) => OrderOf(d)'
    BY <1>0, OrderSame
  <2> QED BY <1>0, <2>1 DEF InOrder, Depositories
<1>1. UNCHANGED walletVars => InOrder'
  BY <1>0 DEF walletVars, contractVars
<1>2. CASE LoseScripts
  <2>1. scripts' = {} /\ (orderly' => orderly /\ scripts' = scripts) /\ UNCHANGED <<contractVars, missed, accepts>>
    BY <1>2 DEF LoseScripts
  <2>2. CASE scripts' = scripts
    BY <1>0, <2>1, <2>2 DEF contractVars
  <2>3. CASE ~orderly'
    BY <2>3 DEF InOrder
  <2> QED BY <2>1, <2>2, <2>3
<1>3. ASSUME NEW j \in Jobs, FundTask(j) \/ LeaveEscrow(j) PROVE InOrder'
  <2>1. orderly' => orderly
    BY <1>3 DEF FundTask, LeaveEscrow
  <2>2. UNCHANGED <<deposits, allowance, sent, mined, scripts, accepts, missed>>
    BY <1>3 DEF FundTask, LeaveEscrow
  <2> QED BY <1>0, <2>1, <2>2
<1>4. ASSUME NEW s \in scripts, ScriptSteps(s), ~orderly' PROVE InOrder'
  BY <1>4 DEF InOrder
<1> QED BY <1>1, <1>2, <1>3, <1>4, OrderOfMine, OrderOfLaunch, OrderOfScript DEF WalletMoves

-----------------------------------------------------------------------------
(* A mark stands for a task that has left the escrow, or whose release is     *)
(* pending or overtaken                                                       *)

Gone(j) == escrow[j].state \in {"released", "refunded"}

TaskCalls == {"setWorker", "clearWorker", "release"}

\* The calls of a task that are sent, or estimated, are about one that was funded.
Estimated ==
    /\ \A k \in 1..Len(sent) : sent[k].name \in TaskCalls => escrow[sent[k].job].state # "unfunded"
    /\ \A s \in scripts : s.step = "send" /\ Head(s.calls).name \in TaskCalls =>
                             escrow[Head(s.calls).job].state # "unfunded"

\* The worker of a task was set by a transaction that is mined.
WasSet ==
    \A j \in Jobs : escrow[j].worker # None =>
       \/ Gone(j)
       \/ \E i \in 1..mined : sent[i].name = "setWorker" /\ sent[i].job = j /\ sent[i].who = escrow[j].worker

\* A release that is mined has released its task, or was overtaken.
Vain == \A k \in 1..mined : sent[k].name = "release" => Gone(sent[k].job) \/ Overtaken(k)

SentRelease(j) == \E k \in 1..Len(sent) : IsRelease(k, j)

\* A mark is written for a release that was sent.
Marked ==
    /\ \A s \in scripts : s.step = "mark" => SentRelease(s.job)
    /\ \A j \in settled : SentRelease(j)

Released ==
    orderly => \A j \in Jobs : escrow[j].state = "released" \/ SentRelease(j) =>
                  j \in settled \/ \E s \in scripts : s.step = "mark" /\ s.job = j

MarksInv ==
    /\ epochs.distributed \subseteq epochs.scored
    /\ Estimated /\ WasSet /\ Vain /\ Marked /\ Released

\* A task changes by its funding, by leaving, or as a call says that is mined.
LEMMA TaskMoves ==
    ASSUME WalletTables, WalletMoves, NEW j \in Jobs
    PROVE  /\ Gone(j) => Gone(j)'
           /\ escrow[j].state # "unfunded" => escrow'[j].state # "unfunded"
           /\ \/ escrow'[j] = escrow[j]
              \/ FundTask(j) /\ escrow'[j].state = "funded" /\ escrow'[j].worker = escrow[j].worker
              \/ LeaveEscrow(j) /\ Gone(j)'
              \/ LET c == sent[mined + 1] IN
                 /\ Mine /\ escrow[j].state = "funded" /\ c.name \in TaskCalls /\ c.job = j
                 /\ escrow'[j].state = (IF c.name = "release" THEN "released" ELSE "funded")
                 /\ escrow'[j].worker = Worker(c)
<1>0. escrow \in [Jobs -> EscrowType]
  BY DEF WalletTables
<1> DEFINE c == sent[mined + 1]
           Moves == \/ escrow'[j] = escrow[j]
                    \/ FundTask(j) /\ escrow'[j].state = "funded" /\ escrow'[j].worker = escrow[j].worker
                    \/ LeaveEscrow(j) /\ Gone(j)'
                    \/ /\ Mine /\ escrow[j].state = "funded" /\ c.name \in TaskCalls /\ c.job = j
                       /\ escrow'[j].state = (IF c.name = "release" THEN "released" ELSE "funded")
                       /\ escrow'[j].worker = Worker(c)
<1>1. UNCHANGED escrow => Moves
  OBVIOUS
<1>2. ASSUME NEW i \in Jobs, FundTask(i) PROVE Moves
  BY <1>0, <1>2 DEF FundTask, EscrowType
<1>3. ASSUME NEW i \in Jobs, LeaveEscrow(i) PROVE Moves
  <2>1. PICK x \in {"refunded", "released"} : escrow' = [escrow EXCEPT ![i].state = x]
    BY <1>3 DEF LeaveEscrow
  <2>2. CASE i = j
    BY <1>0, <1>3, <2>1, <2>2 DEF Gone, EscrowType
  <2> QED BY <1>0, <2>1, <2>2
<1>4. Mine => Moves
  <2> SUFFICES ASSUME Mine PROVE Moves
    OBVIOUS
  <2>1. Executed(c) /\ CallFits(c)
    BY MineFacts
  <2> QED BY <1>0, <2>1, ExecutedTask DEF TaskCalls
<1>5. ASSUME NEW s \in scripts, ScriptSteps(s) PROVE UNCHANGED escrow
  <2>1. UNCHANGED contractVars \/ Send(Head(s.calls))
    BY <1>5, ScriptEffect
  <2> QED BY <2>1 DEF contractVars, Send
<1>6. UNCHANGED walletVars \/ LoseScripts \/ (\E s : Launched(s)) => UNCHANGED escrow
  BY DEF walletVars, contractVars, LoseScripts, Launched
<1>7. Moves
  BY <1>1, <1>2, <1>3, <1>4, <1>5, <1>6 DEF WalletMoves
<1>8. (Gone(j) => Gone(j)') /\ (escrow[j].state # "unfunded" => escrow'[j].state # "unfunded")
  BY <1>7 DEF Gone, FundTask
<1> QED BY <1>7, <1>8

\* Which scripts there are: those there were, but one that moves, and what it becomes
LEMMA ScriptsMove ==
    ASSUME WalletTables, WalletMoves, NEW x \in scripts'
    PROVE  \/ x \in scripts
           \/ Launched(x)
           \/ \E s \in scripts : ScriptSteps(s) /\ Advances(s, x) /\ Becomes(s, x)
<1>1. ASSUME NEW s \in scripts, ScriptSteps(s), x \notin scripts
      PROVE  Advances(s, x) /\ Becomes(s, x)
  <2>1. PICK t : Advances(s, t) /\ Becomes(s, t)
    BY <1>1, ScriptEffect
  <2>2. x = t
    BY <1>1, <2>1 DEF Becomes
  <2> QED BY <2>1, <2>2
<1>2. ASSUME NEW s, Launched(s) PROVE x \in scripts \/ Launched(x)
  <2>1. scripts' = scripts \cup {s}
    BY <1>2 DEF Launched
  <2> QED BY <1>2, <2>1
<1>3. UNCHANGED walletVars \/ LoseScripts \/ Mine \/ (\E j \in Jobs : FundTask(j) \/ LeaveEscrow(j)) => x \in scripts
  BY DEF walletVars, LoseScripts, Mine, FundTask, LeaveEscrow
<1> QED BY <1>1, <1>2, <1>3 DEF WalletMoves

\* What is sent: what was, or one more, the first call of a script that was estimated.
LEMMA SentMoves ==
    ASSUME WalletTables, WalletMoves
    PROVE  /\ Len(sent) \in Nat /\ mined \in 0..Len(sent) /\ mined <= mined'
           /\ \/ sent' = sent /\ (mined' = mined \/ (Mine /\ mined' = mined + 1))
              \/ \E s \in scripts : /\ s.step = "send" /\ (SendCall(s) \/ CallFails(s)) /\ Send(Head(s.calls))
                                    /\ mined' = mined
<1>1. Len(sent) \in Nat /\ mined \in 0..Len(sent)
  BY SentFacts DEF WalletTables
<1>2. ASSUME NEW s \in scripts, ScriptSteps(s)
      PROVE  \/ sent' = sent /\ mined' = mined
             \/ s.step = "send" /\ (SendCall(s) \/ CallFails(s)) /\ Send(Head(s.calls)) /\ mined' = mined
  BY <1>2, ScriptEffect DEF contractVars, Send
<1>3. Mine => sent' = sent /\ mined' = mined + 1
  BY DEF Mine
<1>4. UNCHANGED walletVars \/ LoseScripts \/ (\E j \in Jobs : FundTask(j) \/ LeaveEscrow(j)) \/ (\E s : Launched(s))
         => sent' = sent /\ mined' = mined
  BY DEF walletVars, contractVars, LoseScripts, FundTask, LeaveEscrow, Launched
<1> QED BY <1>1, <1>2, <1>3, <1>4 DEF WalletMoves

LEMMA SentGrows ==
    ASSUME WalletTables, WalletMoves
    PROVE  /\ Len(sent)' \in Nat /\ Len(sent) <= Len(sent)'
           /\ \A k \in 1..Len(sent) : k \in 1..Len(sent)' /\ sent'[k] = sent[k]
           /\ SentTyped
<1>1. SentTyped
  BY DEF WalletTables
<1>2. Len(sent) \in Nat
  BY <1>1, SentFacts
<1>3. CASE sent' = sent
  BY <1>1, <1>2, <1>3
<1>4. ASSUME NEW c, Send(c)
      PROVE  Len(sent)' = Len(sent) + 1 /\ \A k \in 1..Len(sent) : sent'[k] = sent[k]
  BY <1>1, <1>4, SendFacts
<1> QED BY <1>1, <1>2, <1>3, <1>4, SentMoves

LEMMA EstimatedKept ==
    ASSUME WalletTables, WalletMoves, Estimated
    PROVE  Estimated'
<1>0. \A j \in Jobs : escrow[j].state # "unfunded" => escrow'[j].state # "unfunded"
  BY TaskMoves
<1>1. ASSUME NEW c, CallFits(c), c.name \in TaskCalls PROVE c.job \in Jobs
  BY <1>1 DEF CallFits, TaskCalls
<1>2. ASSUME NEW k \in 1..Len(sent)', sent'[k].name \in TaskCalls PROVE escrow'[sent'[k].job].state # "unfunded"
  <2>1. CASE k \in 1..Len(sent)
    <3>1. sent'[k] = sent[k] /\ CallFits(sent[k])
      BY <2>1, SentGrows DEF SentTyped
    <3> QED BY <1>0, <1>1, <1>2, <2>1, <3>1 DEF Estimated
  <2>2. CASE k \notin 1..Len(sent)
    <3>1. PICK s \in scripts : s.step = "send" /\ Send(Head(s.calls))
      BY <1>2, <2>2, SentMoves
    <3>2. sent'[k] = Head(s.calls)
      <4>1. Len(sent) \in Nat /\ Len(sent)' = Len(sent) + 1 /\ sent'[Len(sent) + 1] = Head(s.calls)
        BY <3>1, SendFacts DEF WalletTables
      <4> QED BY <1>2, <2>2, <4>1
    <3>3. CallFits(Head(s.calls))
      BY HeadFits DEF WalletTables
    <3> QED BY <1>0, <1>1, <1>2, <3>1, <3>2, <3>3 DEF Estimated
  <2> QED BY <2>1, <2>2
<1>3. ASSUME NEW x \in scripts', x.step = "send", Head(x.calls).name \in TaskCalls
      PROVE  escrow'[Head(x.calls).job].state # "unfunded"
  <2>1. CASE x \in scripts
    <3>1. CallFits(Head(x.calls))
      BY <2>1, HeadFits DEF WalletTables
    <3> QED BY <1>0, <1>1, <1>3, <2>1, <3>1 DEF Estimated
  <2>2. ~Launched(x)
    BY <1>3 DEF Launched
  <2>3. ASSUME NEW s \in scripts, ScriptSteps(s), Advances(s, x) PROVE escrow'[Head(x.calls).job].state # "unfunded"
    <3>0. ScriptRow(s) /\ CallFits(Head(s.calls))
      BY HeadFits DEF WalletTables
    <3>1. x = Pop(s) \/ x = Rest(s) => x.step = "prepare"
      BY <3>0, PopDrops, RestDrops DEF Drops
    <3>2. PrepareCall(s) /\ ~Reverts(Head(s.calls)) /\ Stays(s, x)
      BY <1>3, <2>3, <3>1 DEF Advances
    <3>3. Head(x.calls) = Head(s.calls) /\ escrow[Head(s.calls).job].state = "funded"
      BY <1>3, <3>2 DEF Stays, Reverts, TaskCalls
    <3> QED BY <1>0, <1>1, <1>3, <3>0, <3>3
  <2> QED BY <2>1, <2>2, <2>3, ScriptsMove
<1> QED BY <1>2, <1>3 DEF Estimated, TaskCalls

LEMMA WasSetKept ==
    ASSUME WalletTables, WalletMoves, WasSet
    PROVE  WasSet'
<1> SUFFICES ASSUME NEW j \in Jobs, escrow'[j].worker # None, ~Gone(j)'
             PROVE  \E i \in 1..mined' : sent'[i].name = "setWorker" /\ sent'[i].job = j /\ sent'[i].who = escrow'[j].worker
  BY DEF WasSet
<1> DEFINE c == sent[mined + 1]
<1>0. /\ Len(sent) \in Nat /\ mined \in 0..Len(sent) /\ mined' \in Nat /\ mined <= mined'
      /\ \A k \in 1..Len(sent) : sent'[k] = sent[k]
  BY SentMoves, SentGrows
<1>1. CASE escrow'[j].worker = escrow[j].worker
  <2>1. ~Gone(j)
    BY TaskMoves
  <2>2. PICK i \in 1..mined : sent[i].name = "setWorker" /\ sent[i].job = j /\ sent[i].who = escrow[j].worker
    BY <1>1, <2>1 DEF WasSet
  <2>3. i \in 1..mined' /\ sent'[i] = sent[i]
    BY <1>0
  <2> QED BY <1>1, <2>2, <2>3
<1>2. CASE escrow'[j].worker # escrow[j].worker
  <2>1. Mine /\ c.name \in TaskCalls /\ c.job = j /\ escrow'[j].worker = Worker(c)
        /\ escrow'[j].state = (IF c.name = "release" THEN "released" ELSE "funded")
    BY <1>2, TaskMoves
  <2>2. c.name = "setWorker" /\ escrow'[j].worker = c.who
    BY <2>1 DEF Gone, TaskCalls, Worker
  <2>3. mined + 1 \in 1..mined' /\ sent'[mined + 1] = c
    BY <1>0, <2>1, MineFacts
  <2> QED BY <2>1, <2>2, <2>3
<1> QED BY <1>1, <1>2

LEMMA VainKept ==
    ASSUME WalletTables, WalletMoves, Estimated, WasSet, Vain
    PROVE  Vain'
<1> SUFFICES ASSUME NEW k \in 1..mined', sent'[k].name = "release" 
             PROVE  escrow'[sent'[k].job].state \in {"released", "refunded"} \/ Overtaken(k)'
  BY DEF Vain, Gone
<1>0. /\ Len(sent) \in Nat /\ mined \in 0..Len(sent) /\ mined' \in Nat /\ mined <= mined'
      /\ \A i \in 1..Len(sent) : sent'[i] = sent[i]
  BY SentMoves, SentGrows
<1>1. k \in 1..Len(sent) /\ (k \in 1..mined \/ (Mine /\ k = mined + 1))
  <2>1. mined' = mined \/ (Mine /\ mined' = mined + 1 /\ mined + 1 \in 1..Len(sent))
    BY SentMoves, MineFacts
  <2> QED BY <1>0, <2>1
<1>2. sent'[k] = sent[k] /\ sent[k].job \in Jobs /\ sent[k].name = "release"
  BY <1>0, <1>1, SentGrows DEF SentTyped, CallFits
<1>3. Overtaken(k) => Overtaken(k)'
  <2>1. \A i \in 1..(k - 1) : sent'[i] = sent[i]
    BY <1>0, <1>1
  <2> QED BY <1>2, <2>1 DEF Overtaken
<1>4. CASE k \in 1..mined
  BY <1>2, <1>3, <1>4, TaskMoves DEF Vain, Gone
<1>5. CASE Mine /\ k = mined + 1
  <2> DEFINE c == sent[k]
             j == c.job
  <2>0. /\ Executed(c) /\ CallFits(c) /\ escrow \in [Jobs -> EscrowType] /\ escrow[j].state # "unfunded"
        /\ c.who \in Accounts
    BY <1>1, <1>2, <1>5, MineFacts DEF WalletTables, Estimated, TaskCalls, CallFits
  <2>1. CASE Gone(j)
    BY <1>2, <2>1, TaskMoves DEF Gone
  <2>2. CASE ~Gone(j) /\ escrow[j].worker \in {None, c.who}
    <3>1. escrow[j].state = "funded"
      BY <1>2, <2>0, <2>2 DEF Gone, EscrowType
    <3>2. ~Reverts(c)
      BY <1>2, <2>2, <3>1 DEF Reverts
    <3>3. escrow'[j].state = "released"
      BY <1>2, <2>0, <3>2, ExecutedTask
    <3> QED BY <1>2, <3>3
  <2>3. CASE ~Gone(j) /\ escrow[j].worker \notin {None, c.who}
    <3>1. PICK i \in 1..mined : sent[i].name = "setWorker" /\ sent[i].job = j /\ sent[i].who = escrow[j].worker
      BY <1>2, <2>3 DEF WasSet
    <3>2. i \in 1..(k - 1)
      BY <1>0, <1>5
    <3> QED BY <1>3, <2>3, <3>1, <3>2 DEF Overtaken
  <2> QED BY <2>1, <2>2, <2>3
<1> QED BY <1>1, <1>4, <1>5

LEMMA MarkedKept ==
    ASSUME WalletTables, WalletMoves, Marked
    PROVE  Marked'
<1>0. ASSUME NEW j, SentRelease(j) PROVE SentRelease(j)'
  <2>1. PICK k \in 1..Len(sent) : IsRelease(k, j)
    BY <1>0 DEF SentRelease
  <2>2. k \in 1..Len(sent)' /\ sent'[k] = sent[k]
    BY SentGrows
  <2> QED BY <2>1, <2>2 DEF SentRelease, IsRelease
<1>1. ASSUME NEW x \in scripts', x.step = "mark" PROVE SentRelease(x.job)'
  <2>1. CASE x \in scripts
    BY <1>0, <1>1, <2>1 DEF Marked
  <2>2. ~Launched(x)
    BY <1>1 DEF Launched
  <2>3. ASSUME NEW s \in scripts, ScriptSteps(s), Advances(s, x) PROVE SentRelease(x.job)'
    <3>0. ScriptRow(s)
      BY DEF WalletTables
    <3>1. x = Pop(s) \/ x = Rest(s) => x.step = "prepare"
      BY <3>0, PopDrops, RestDrops DEF Drops
    <3>2. SendCall(s) /\ Head(s.calls).name = "release" /\ Stays(s, x)
      BY <1>1, <2>3, <3>1 DEF Advances
    <3>3. Head(s.calls).job = s.job /\ x.job = s.job
      BY <3>0, <3>2, HeadOf DEF Stays
    <3>4. Send(Head(s.calls))
      BY <3>2 DEF SendCall
    <3>5. Len(sent) + 1 \in 1..Len(sent)' /\ sent'[Len(sent) + 1] = Head(s.calls)
      BY <3>4, SendFacts DEF WalletTables
    <3> QED BY <3>2, <3>3, <3>5 DEF SentRelease, IsRelease
  <2> QED BY <2>1, <2>2, <2>3, ScriptsMove
<1>2. ASSUME NEW j \in settled' PROVE SentRelease(j)'
  <2>1. settled' = settled \/ \E s \in scripts : MarkSettledOnChain(s)
    BY ZenonT(40) DEF WalletMoves, walletVars, Launched, LoseScripts, FundTask, LeaveEscrow, Mine, ScriptSteps, PrepareCall, SendCall, CallFails
  <2>2. ASSUME NEW s \in scripts, MarkSettledOnChain(s) PROVE SentRelease(s.job) /\ settled' = settled \cup {s.job}
    BY <2>2 DEF MarkSettledOnChain, Marked
  <2> QED BY <1>0, <1>2, <2>1, <2>2 DEF Marked
<1> QED BY <1>1, <1>2 DEF Marked

LEMMA ReleasedKept ==
    ASSUME WalletTables, WalletMoves, InOrder, Released
    PROVE  Released'
<1> SUFFICES ASSUME orderly', NEW j \in Jobs, escrow'[j].state = "released" \/ SentRelease(j)'
             PROVE  j \in settled' \/ \E s \in scripts' : s.step = "mark" /\ s.job = j
  BY SMTT(30) DEF Released
<1>1. settled \subseteq settled'
  BY Zenon DEF WalletMoves, walletVars, Launched, LoseScripts, FundTask, LeaveEscrow, Mine, ScriptSteps, PrepareCall, SendCall,
         CallFails, MarkSettledOnChain
<1>2. orderly
  <2>1. ASSUME NEW s \in scripts, ScriptSteps(s) PROVE orderly
    BY <2>1, ScriptEffect
  <2>2. UNCHANGED walletVars \/ LoseScripts \/ Mine \/ (\E i \in Jobs : FundTask(i) \/ LeaveEscrow(i)) \/ (\E s : Launched(s))
           => orderly
    BY DEF walletVars, LoseScripts, Mine, FundTask, LeaveEscrow, Launched
  <2> QED BY <2>1, <2>2 DEF WalletMoves
<1>3. CASE escrow[j].state = "released" \/ SentRelease(j)
  <2>1. CASE j \in settled
    BY <1>1, <2>1
  <2>2. ASSUME NEW s \in scripts, s.step = "mark", s.job = j
        PROVE  j \in settled' \/ s \in scripts'
    <3>1. scripts = {s}
      BY <1>2, <2>2 DEF InOrder
    <3>2. CASE MarkSettledOnChain(s)
      BY <2>2, <3>2 DEF MarkSettledOnChain
    <3>3. ~PrepareCall(s) /\ ~SendCall(s) /\ ~CallFails(s)
      BY <2>2 DEF PrepareCall, SendCall, CallFails
    <3>4. LoseScripts => ~orderly'
      BY <2>2 DEF LoseScripts
    <3>5. UNCHANGED walletVars \/ Mine \/ (\E i \in Jobs : FundTask(i) \/ LeaveEscrow(i)) \/ (\E x : Launched(x))
             => s \in scripts'
      BY <2>2 DEF walletVars, Mine, FundTask, LeaveEscrow, Launched
    <3> QED BY <3>1, <3>2, <3>3, <3>4, <3>5 DEF WalletMoves, ScriptSteps
  <2> QED BY <1>2, <1>3, <2>1, <2>2 DEF Released
<1>4. CASE ~(escrow[j].state = "released" \/ SentRelease(j))
  <2>1. PICK s \in scripts : (SendCall(s) \/ CallFails(s)) /\ Send(Head(s.calls))
                             /\ Head(s.calls).name = "release" /\ Head(s.calls).job = j
    <3>0. Len(sent) \in Nat
      BY SentMoves
    <3>1. CASE SentRelease(j)'
      <4>1. PICK k \in 1..Len(sent)' : sent'[k].name = "release" /\ sent'[k].job = j
        BY <3>1 DEF SentRelease, IsRelease
      <4>2. k \notin 1..Len(sent)
        BY <1>4, <4>1, SentGrows DEF SentRelease, IsRelease
      <4>3. PICK s \in scripts : (SendCall(s) \/ CallFails(s)) /\ Send(Head(s.calls))
        BY <4>1, <4>2, SentMoves
      <4>4. k = Len(sent) + 1 /\ sent'[k] = Head(s.calls)
        <5>1. Len(sent)' = Len(sent) + 1 /\ sent'[Len(sent) + 1] = Head(s.calls)
          BY <4>3, SendFacts DEF WalletTables
        <5> QED BY <3>0, <4>2, <5>1
      <4> QED BY <4>1, <4>3, <4>4
    <3>2. CASE escrow'[j].state = "released"
      <4>1. ~LeaveEscrow(j)
        BY DEF LeaveEscrow
      <4> DEFINE c == sent[mined + 1]
      <4>2. Mine /\ c.name = "release" /\ c.job = j
        BY <1>4, <3>2, <4>1, TaskMoves
      <4>3. mined + 1 \in 1..Len(sent)
        BY <4>2, MineFacts
      <4> QED BY <1>4, <4>2, <4>3 DEF SentRelease, IsRelease
    <3> QED BY <3>1, <3>2
  <2>2. SendCall(s)
    BY <2>1, ScriptEffect, SMTT(30) DEF ScriptSteps
  <2>3. PICK t : Advances(s, t) /\ Becomes(s, t)
    BY <2>2, ScriptEffect, SMTT(30) DEF ScriptSteps
  <2>4. ScriptRow(s) /\ ~CallFails(s) /\ s.step = "send"
    BY <2>2, ScriptEffect, Zenon DEF SendCall, ScriptSteps
  <2>5. s.job = j /\ s.calls # <<>>
    BY <2>1, <2>4, HeadOf, HeadFits
  <2>6. Stays(s, t) /\ t.step = "mark"
    BY <2>1, <2>3, <2>4 DEF Advances, PrepareCall, MarkSettledOnChain
  <2>7. t \in scripts' /\ t.job = j
    BY <2>3, <2>5, <2>6 DEF Becomes, Stays
  <2> QED BY <2>6, <2>7
<1> QED BY <1>3, <1>4, SMTT(30)

LEMMA MarksKept ==
    ASSUME WalletTables, WalletMoves, MarksInv, InOrder
    PROVE  MarksInv'
<1>1. epochs'.distributed \subseteq epochs'.scored
  <2>1. CASE UNCHANGED epochs
    BY <2>1 DEF MarksInv
  <2>2. ASSUME NEW c, Executed(c) PROVE epochs'.distributed \subseteq epochs'.scored
    BY <2>2, ExecutedEpochs DEF MarksInv, WalletTables
  <2>3. ASSUME NEW s \in scripts, ScriptSteps(s) PROVE UNCHANGED epochs
    BY <2>3, ScriptEffect DEF contractVars, Send
  <2>4. UNCHANGED walletVars \/ LoseScripts \/ (\E j \in Jobs : FundTask(j) \/ LeaveEscrow(j)) \/ (\E s : Launched(s))
         => UNCHANGED epochs
    BY DEF walletVars, contractVars, LoseScripts, FundTask, LeaveEscrow, Launched
  <2>5. Mine => \E c : Executed(c)
    BY DEF Mine
  <2> QED BY <2>1, <2>2, <2>3, <2>4, <2>5 DEF WalletMoves
<1> QED BY <1>1, EstimatedKept, WasSetKept, VainKept, MarkedKept, ReleasedKept DEF MarksInv

-----------------------------------------------------------------------------
(* What a step does to the rows of the requests                              *)

OthersKeep(p) == DOMAIN proc' = Requests /\ \A q \in Requests \ {p} : proc'[q] = proc[q]

\* The request p goes on, ends, learns something, begins.
GoesTo(p, s) ==
    /\ OthersKeep(p)
    /\ DOMAIN proc'[p] = DOMAIN proc[p] /\ proc'[p].step = s
    /\ \A f \in DOMAIN proc[p] \ {"step"} : proc'[p][f] = proc[p][f]

Ends(p) == OthersKeep(p) /\ proc'[p] = Idle

Learns(p, change) ==
    /\ OthersKeep(p)
    /\ DOMAIN proc'[p] = DOMAIN proc[p] \cup DOMAIN change
    /\ \A f \in DOMAIN change : proc'[p][f] = change[f]
    /\ \A f \in DOMAIN proc[p] \ DOMAIN change : proc'[p][f] = proc[p][f]

Begins(p, r) ==
    /\ OthersKeep(p)
    /\ proc[p] = Idle /\ proc'[p] = With(Idle, r)
    /\ alone' => alone /\ \A q \in Requests : proc[q] = Idle
    /\ scene' = scene /\ faults' = faults /\ job' = job /\ syncs' = syncs

\* Every row says what its request does.
Rows == DOMAIN proc = Requests /\ \A p \in Requests : {"op", "step"} \subseteq DOMAIN proc[p]

LEMMA GotoGoes ==
    ASSUME NEW p \in Requests, NEW s, Rows, Goto(p, s)
    PROVE  GoesTo(p, s)
BY DEF Goto, GoesTo, OthersKeep, Rows

LEMMA FinishEnds ==
    ASSUME NEW p \in Requests, Rows, Finish(p)
    PROVE  Ends(p)
BY DEF Finish, Ends, OthersKeep, Rows

LEMMA WithLearns ==
    ASSUME NEW p \in Requests, NEW change, Rows, proc' = [proc EXCEPT ![p] = With(proc[p], change)]
    PROVE  Learns(p, change)
BY DEF With, Learns, OthersKeep, Rows

LEMMA StartBegins ==
    ASSUME NEW p \in Requests, NEW r, Rows, Start(p, r)
    PROVE  Begins(p, r)
BY DEF Start, Begin, MayStart, Begins, OthersKeep, Rows

\* The fields of a row that begins
LEMMA FieldsOfWith ==
    ASSUME NEW row, NEW change
    PROVE  /\ DOMAIN With(row, change) = DOMAIN row \cup DOMAIN change
           /\ \A f \in DOMAIN change : With(row, change)[f] = change[f]
           /\ \A f \in DOMAIN row \ DOMAIN change : With(row, change)[f] = row[f]
BY DEF With

LEMMA IdleRow ==
    /\ DOMAIN Idle = {"op", "step", "job", "tx", "event", "valid", "amount", "seen", "row"}
    /\ Idle.op = "idle" /\ Idle.step = "-"
BY DEF Idle

LEMMA RestartEnds ==
    ASSUME Rows, Restart
    PROVE  DOMAIN proc' = Requests /\ \A p \in Requests : proc'[p] = Idle
BY DEF Restart

\* Until requests overlap, one is served at a time.
Lonely == alone => \A p, q \in Requests : proc[p] # Idle /\ proc[q] # Idle => p = q

-----------------------------------------------------------------------------
(* Limits: how many more may pass                                             *)

Counted == Keys2 \cup {Key("accept", "-")}
AnswerKeys == Counted \cup [kind : {"admin"}, client : Clients]

AnswerType == [key : AnswerKeys, at : Nat, passed : BOOLEAN]
CounterType == [count : Nat, until : Nat \cup {None}]
BreakerType == [isOpen : BOOLEAN, trippedAt : Nat \cup {None}, requests : Nat, errors : Nat,
                accepts : Nat, since : Nat]

LimitTables ==
    /\ clock \in Nat /\ faults \in Nat /\ resets \in Nat /\ generation \in Nat
    /\ redisAvailable \in BOOLEAN /\ straddled \in BOOLEAN
    /\ redis \in [Keys2 -> CounterType]
    /\ counts \in [Keys2 -> CounterType]
    /\ breaker \in BreakerType
    /\ answers \in Seq(AnswerType)
    /\ \A n \in DOMAIN answers : answers[n].at <= clock
    /\ failedAttempts \in [Clients -> SUBSET Nat]

\* What the counters say of each other: one that is new never expires yet, and memory
\* counts only where Redis is given up.
LimitFacts ==
    /\ \A k \in Keys2 : /\ redis[k].count = 0 => redis[k].until = None
                        /\ redis[k].until # None => redis[k].until <= clock + Window[k.kind]
                        /\ counts[k].until = None => counts[k].count = 0
    /\ breaker.errors <= breaker.requests /\ breaker.accepts <= breaker.requests
    /\ breaker.since <= clock
    /\ breaker.isOpen => breaker.trippedAt \in Nat /\ breaker.trippedAt <= clock
    /\ ~redisAvailable => faults > 0

LimitOps == {"limited", "limitAccept"}

LimitRow(r) ==
    /\ r.op = "limited" => /\ "key" \in DOMAIN r /\ r.key \in Keys2
                           /\ r.step \in {"incr", "expire", "memory"}
                           /\ r.step = "memory" => ~redisAvailable
                           /\ r.step = "expire" => redis[r.key].until = None /\ redis[r.key].count > 0
    /\ r.op = "limitAccept" => /\ "seen" \in DOMAIN r /\ r.seen \in Nat /\ r.seen <= generation
                               /\ r.step = "handle"

Expires(p, k) == proc[p].op = "limited" /\ proc[p].step = "expire" /\ proc[p].key = k

LimitRows ==
    /\ \A p \in Requests : LimitRow(proc[p])
    /\ \A k \in Keys2, p, q \in Requests : Expires(p, k) /\ Expires(q, k) => p = q

Left(count, most) == IF count < most THEN most - count ELSE 0

\* How many requests of a key can still pass before T, if nothing fails or is reset.
RedisRoom(k, T) ==
    LET most == MaxRequests[k.kind] IN
    IF clock >= T THEN 0
    ELSE Left(redis[k].count, most)
         + (IF most > 0 /\ \E p \in Requests : Expires(p, k) THEN 1 ELSE 0)
         + (IF redis[k].until # None /\ redis[k].until < T THEN most ELSE 0)

MemoryRoom(k, T) ==
    LET most == MaxRequests[k.kind] IN
    IF clock >= T \/ redisAvailable THEN 0
    ELSE Left(counts[k].count, most)
         + (IF counts[k].until # None /\ counts[k].until + 1 < T THEN most ELSE 0)

BreakerRoom(b, T) ==
    LET most == MaxRequests["accept"] IN
    IF clock >= T THEN 0
    ELSE Left(b.accepts, most)
         + (IF b.since + Window["accept"] + 1 < T THEN most ELSE 0)
         + (IF b.isOpen /\ b.trippedAt + ResetTimeout + 1 < T THEN most ELSE 0)

Room(key, T) == IF key.kind = "accept" THEN BreakerRoom(breaker, T) ELSE RedisRoom(key, T) + MemoryRoom(key, T)

Quota(kind) == (Periods(kind) + 2 * faults + resets) * MaxRequests[kind]

Passing(key, n, T) == {m \in n..Len(answers) : answers[m].key = key /\ answers[m].passed /\ answers[m].at < T}

PassedFit ==
    \A n \in DOMAIN answers :
        LET key == answers[n].key
            T == answers[n].at + Window[key.kind]
        IN key.kind # "admin" => Cardinality(Passing(key, n, T)) + Room(key, T) <= Quota(key.kind)

LEMMA KindFacts ==
    ASSUME NEW key \in AnswerKeys
    PROVE  /\ key.kind \in {"ip", "wallet", "admin", "accept"}
           /\ MaxRequests[key.kind] \in Nat /\ Window[key.kind] \in Nat
           /\ key.kind # "admin" => key \in Counted
           /\ key.kind = "accept" => key = Key("accept", "-")
           /\ key.kind \in {"ip", "wallet"} => key \in Keys2
BY LimitsAssumption DEF AnswerKeys, Counted, Keys2, Key

LEMMA Times ==
    ASSUME NEW a \in Nat, NEW b \in Nat, NEW c \in Nat
    PROVE  /\ a * c \in Nat /\ (a + b) * c = a * c + b * c
           /\ (1 + a) * c = c + a * c /\ (2 + a) * c = 2 * c + a * c
OBVIOUS

LEMMA MoreTimes ==
    ASSUME NEW x \in Nat, NEW y \in Nat, NEW c \in Nat, y >= x
    PROVE  /\ y * c >= x * c
           /\ y >= x + 1 => y * c >= x * c + c
           /\ y >= x + 2 => y * c >= x * c + 2 * c
<1>1. PICK d \in Nat : y = x + d
  <2>1. y - x \in Nat /\ y = x + (y - x)
    OBVIOUS
  <2> QED BY <2>1
<1>2. y * c = x * c + d * c /\ x * c \in Nat /\ d * c \in Nat
  BY <1>1, Times
<1>3. ASSUME d >= 1 PROVE d * c >= c
  <2>1. d - 1 \in Nat /\ d = 1 + (d - 1)
    BY <1>3
  <2>2. PICK z \in Nat : d = 1 + z
    BY <2>1
  <2>3. d * c = c + z * c /\ z * c \in Nat
    BY <2>2, Times
  <2> QED BY <2>3
<1>4. ASSUME d >= 2 PROVE d * c >= 2 * c
  <2>1. d - 2 \in Nat /\ d = 2 + (d - 2)
    BY <1>4
  <2>2. PICK z \in Nat : d = 2 + z
    BY <2>1
  <2>3. d * c = 2 * c + z * c /\ z * c \in Nat
    BY <2>2, Times
  <2> QED BY <2>3
<1>5. (y >= x + 1 => d >= 1) /\ (y >= x + 2 => d >= 2)
  BY <1>1
<1> QED BY <1>2, <1>3, <1>4, <1>5

\* A failure allows two periods more, a reset by hand one.
LEMMA BudgetMoves ==
    ASSUME faults \in Nat, resets \in Nat, faults' \in Nat, resets' \in Nat, faults' >= faults, resets' >= resets,
           NEW kind \in {"ip", "wallet", "accept"}
    PROVE  /\ Quota(kind) \in Nat /\ Quota(kind)' \in Nat
           /\ Quota(kind)' >= Quota(kind)
           /\ faults' > faults => Quota(kind)' >= Quota(kind) + 2 * MaxRequests[kind]
           /\ resets' > resets => Quota(kind)' >= Quota(kind) + MaxRequests[kind]
<1>1. MaxRequests[kind] \in Nat /\ Periods(kind) \in Nat
  BY LimitsAssumption DEF Periods
<1>2. PICK x \in Nat : x = Periods(kind) + 2 * faults + resets
  BY <1>1
<1>3. PICK y \in Nat : y = Periods(kind) + 2 * faults' + resets'
  BY <1>1
<1>4. /\ y >= x /\ (faults' > faults => y >= x + 2) /\ (resets' > resets => y >= x + 1)
  BY <1>1, <1>2, <1>3
<1>5. Quota(kind) = x * MaxRequests[kind] /\ Quota(kind)' = y * MaxRequests[kind]
  BY <1>2, <1>3 DEF Quota, Periods
<1> QED BY <1>1, <1>4, <1>5, MoreTimes, Times

LEMMA BudgetFloor ==
    ASSUME faults \in Nat, resets \in Nat, NEW kind \in {"ip", "wallet", "accept"}
    PROVE  /\ Quota(kind) \in Nat
           /\ kind = "accept" => Quota(kind) >= 3 * MaxRequests[kind]
           /\ kind # "accept" => /\ Quota(kind) >= 2 * MaxRequests[kind]
                                 /\ faults > 0 => Quota(kind) >= 4 * MaxRequests[kind]
<1>1. MaxRequests[kind] \in Nat /\ Periods(kind) \in Nat
  BY LimitsAssumption DEF Periods
<1>2. PICK x \in Nat : x = Periods(kind) + 2 * faults + resets
  BY <1>1
<1>3. Quota(kind) = x * MaxRequests[kind]
  BY <1>2 DEF Quota
<1>4. kind = "accept" => x >= 3
  BY <1>2 DEF Periods
<1>5. kind # "accept" => x >= 2 /\ (faults > 0 => x >= 4)
  BY <1>2 DEF Periods
<1> QED BY <1>1, <1>3, <1>4, <1>5, MoreTimes, Times

\* Two periods of a counter, three of the breaker, and two more in memory once Redis
\* was lost
LEMMA RoomFits ==
    ASSUME LimitTables, LimitFacts, LimitRows, NEW key \in Counted, NEW T \in Nat
    PROVE  Room(key, T) \in Nat /\ Room(key, T) <= Quota(key.kind)
<1> DEFINE most == MaxRequests[key.kind]
<1>0. most \in Nat /\ key.kind \in {"ip", "wallet", "accept"}
  BY LimitsAssumption DEF Counted, Keys2, Key
<1>1. /\ Quota(key.kind) \in Nat
      /\ key.kind = "accept" => Quota(key.kind) >= 3 * most
      /\ key.kind # "accept" => /\ Quota(key.kind) >= 2 * most
                                /\ faults > 0 => Quota(key.kind) >= 4 * most
  BY <1>0, BudgetFloor DEF LimitTables
<1>2. CASE key.kind = "accept"
  <2>1. Room(key, T) = BreakerRoom(breaker, T) /\ most = MaxRequests["accept"]
    BY <1>2 DEF Room
  <2>2. breaker.accepts \in Nat
    BY DEF LimitTables, BreakerType
  <2> HIDE DEF most
  <2>3. BreakerRoom(breaker, T) \in Nat /\ BreakerRoom(breaker, T) <= 3 * most
    BY <1>0, <2>1, <2>2 DEF BreakerRoom, Left
  <2> QED BY <1>0, <1>1, <1>2, <2>1, <2>3
<1>3. CASE key.kind # "accept"
  <2>1. Room(key, T) = RedisRoom(key, T) + MemoryRoom(key, T) /\ key \in Keys2
    BY <1>3 DEF Room, Counted, Key
  <2>2. redis[key].count \in Nat /\ counts[key].count \in Nat
    BY <2>1 DEF LimitTables, CounterType
  <2>3. ASSUME NEW p \in Requests, Expires(p, key) PROVE redis[key].count > 0 /\ redis[key].until = None
    BY <2>3 DEF LimitRows, LimitRow, Expires
  <2> DEFINE pending == \E p \in Requests : Expires(p, key)
  <2>4. pending => redis[key].count > 0 /\ redis[key].until = None
    BY <2>3
  <2>5. /\ RedisRoom(key, T) = IF clock >= T THEN 0
            ELSE Left(redis[key].count, most) + (IF most > 0 /\ pending THEN 1 ELSE 0)
                 + (IF redis[key].until # None /\ redis[key].until < T THEN most ELSE 0)
        /\ MemoryRoom(key, T) = IF clock >= T \/ redisAvailable THEN 0
            ELSE Left(counts[key].count, most)
                 + (IF counts[key].until # None /\ counts[key].until + 1 < T THEN most ELSE 0)
    BY DEF RedisRoom, MemoryRoom
  <2> HIDE DEF most, pending
  <2>6. RedisRoom(key, T) \in Nat /\ RedisRoom(key, T) <= 2 * most
    BY <1>0, <2>2, <2>4, <2>5 DEF Left
  <2>7. MemoryRoom(key, T) \in Nat /\ MemoryRoom(key, T) <= 2 * most /\ (redisAvailable => MemoryRoom(key, T) = 0)
    BY <1>0, <2>2, <2>5 DEF Left
  <2>8. ~redisAvailable => faults > 0
    BY DEF LimitFacts
  <2> QED BY <1>0, <1>1, <1>3, <2>1, <2>6, <2>7, <2>8
<1> QED BY <1>2, <1>3

\* The answer that a step gives, if it gives one, lets a request of the key pass now.
Passes(key) == answers' # answers /\ answers'[Len(answers) + 1].key = key /\ answers'[Len(answers) + 1].passed

NotesOne ==
    \/ answers' = answers
    \/ \E key \in AnswerKeys, b \in BOOLEAN : Note(key, b) /\ clock' = clock

RoomMoves ==
    \A key \in Counted : \A T \in Nat : T <= clock + Window[key.kind] =>
        /\ Room(key, T)' \in Nat
        /\ Room(key, T)' + (IF Passes(key) /\ clock < T THEN 1 ELSE 0)
               <= Room(key, T) + (Quota(key.kind)' - Quota(key.kind))

LEMMA NoteFacts ==
    ASSUME LimitTables, NEW key \in AnswerKeys, NEW b \in BOOLEAN, Note(key, b)
    PROVE  /\ answers' \in Seq(AnswerType)
           /\ DOMAIN answers = 1..Len(answers) /\ Len(answers) \in Nat
           /\ DOMAIN answers' = 1..(Len(answers) + 1) /\ Len(answers') = Len(answers) + 1
           /\ \A n \in DOMAIN answers : answers'[n] = answers[n]
           /\ answers'[Len(answers) + 1] = [key |-> key, at |-> clock, passed |-> b]
           /\ answers' # answers
<1> DEFINE e == [key |-> key, at |-> clock, passed |-> b]
<1>1. e \in AnswerType /\ answers' = Append(answers, e) /\ answers \in Seq(AnswerType)
  BY DEF Note, AnswerType, LimitTables
<1> HIDE DEF e
<1>2. /\ answers' \in Seq(AnswerType) /\ Len(answers) \in Nat
      /\ DOMAIN answers = 1..Len(answers) /\ Len(answers') = Len(answers) + 1
      /\ DOMAIN answers' = 1..Len(answers') /\ answers'[Len(answers) + 1] = e
      /\ \A n \in 1..Len(answers) : answers'[n] = answers[n]
  BY <1>1
<1>3. answers' # answers
  BY <1>2
<1> QED BY <1>2, <1>3 DEF e

LEMMA PassingFinite ==
    ASSUME LimitTables, NEW n \in DOMAIN answers, NEW T \in Nat, NEW key
    PROVE  IsFiniteSet(Passing(key, n, T)) /\ Cardinality(Passing(key, n, T)) \in Nat
<1>1. n \in Nat /\ Len(answers) \in Nat
  BY DEF LimitTables
<1>2. IsFiniteSet(n..Len(answers))
  BY <1>1, FS_Interval
<1>3. Passing(key, n, T) \subseteq n..Len(answers)
  BY DEF Passing
<1> QED BY <1>2, <1>3, FS_Subset, FS_CardinalityType

\* As long as what may still pass shrinks by what passes, no more pass than fit.
LEMMA FitKept ==
    ASSUME LimitTables, LimitFacts, LimitRows, PassedFit, NotesOne,
           clock' \in Nat, clock' >= clock, faults' \in Nat, faults' >= faults, resets' \in Nat, resets' >= resets,
           RoomMoves
    PROVE  PassedFit'
<1> SUFFICES ASSUME NEW n \in DOMAIN answers', NEW key, NEW T, key = answers'[n].key, key.kind # "admin",
                    T = answers'[n].at + Window[key.kind]
             PROVE  Cardinality(Passing(key, n, T)') + Room(key, T)' <= Quota(key.kind)'
  BY DEF PassedFit
<1> DEFINE L == Len(answers)
<1>0. answers \in Seq(AnswerType) /\ clock \in Nat /\ L \in Nat /\ DOMAIN answers = 1..L
  BY DEF LimitTables
<1>1. /\ answers' \in Seq(AnswerType) /\ n \in Nat
      /\ \A m \in DOMAIN answers : m \in DOMAIN answers' /\ answers'[m] = answers[m]
      /\ answers' # answers => Len(answers') = L + 1 /\ DOMAIN answers' = 1..(L + 1) /\ answers'[L + 1].at = clock
  <2>1. CASE answers' = answers
    BY <1>0, <2>1
  <2>2. ASSUME NEW k \in AnswerKeys, NEW b \in BOOLEAN, Note(k, b)
        PROVE  /\ answers' \in Seq(AnswerType) /\ n \in Nat
               /\ \A m \in DOMAIN answers : m \in DOMAIN answers' /\ answers'[m] = answers[m]
               /\ Len(answers') = L + 1 /\ DOMAIN answers' = 1..(L + 1) /\ answers'[L + 1].at = clock
    <3>1. /\ answers' \in Seq(AnswerType)
          /\ DOMAIN answers' = 1..(L + 1) /\ Len(answers') = L + 1
          /\ \A m \in DOMAIN answers : answers'[m] = answers[m]
          /\ answers'[L + 1] = [key |-> k, at |-> clock, passed |-> b]
      BY <2>2, NoteFacts
    <3> HIDE DEF L
    <3> QED BY <1>0, <3>1
  <2> QED BY <2>1, <2>2 DEF NotesOne
<1>2. key \in AnswerKeys /\ answers'[n].at \in Nat /\ key.kind # "admin"
  <2>1. answers'[n] \in AnswerType
    BY <1>1
  <2> QED BY <2>1 DEF AnswerType
<1>3. key \in Counted /\ Window[key.kind] \in Nat /\ T \in Nat /\ key.kind \in {"ip", "wallet", "accept"}
  BY <1>2, KindFacts
<1>4. n \in DOMAIN answers => answers'[n].at <= clock
  BY <1>1 DEF LimitTables
<1>5. n \notin DOMAIN answers => n = L + 1 /\ answers'[n].at = clock /\ answers' # answers
  BY <1>0, <1>1
<1>6. T <= clock + Window[key.kind]
  BY <1>0, <1>2, <1>3, <1>4, <1>5
<1>7. Quota(key.kind) \in Nat /\ Quota(key.kind)' \in Nat
  BY <1>3, BudgetMoves DEF LimitTables
<1>8. Room(key, T) \in Nat /\ Room(key, T) <= Quota(key.kind)
  BY <1>3, RoomFits
<1>9. /\ Room(key, T)' \in Nat
      /\ Room(key, T)' + (IF Passes(key) /\ clock < T THEN 1 ELSE 0)
             <= Room(key, T) + (Quota(key.kind)' - Quota(key.kind))
  BY <1>3, <1>6 DEF RoomMoves
<1> DEFINE gain == IF Passes(key) /\ clock < T THEN 1 ELSE 0
<1>10. CASE n \in DOMAIN answers
  <2>1. Cardinality(Passing(key, n, T)) + Room(key, T) <= Quota(key.kind)
    BY <1>1, <1>2, <1>10 DEF PassedFit
  <2>2. IsFiniteSet(Passing(key, n, T)) /\ Cardinality(Passing(key, n, T)) \in Nat
    BY <1>3, <1>10, PassingFinite
  <2>3. CASE answers' = answers
    <3>1. Passing(key, n, T)' = Passing(key, n, T)
      BY <2>3 DEF Passing
    <3>2. gain = 0
      BY <2>3 DEF Passes
    <3> HIDE DEF gain
    <3> QED BY <1>7, <1>8, <1>9, <2>1, <2>2, <3>1, <3>2 DEF gain
  <2>4. ASSUME NEW k \in AnswerKeys, NEW b \in BOOLEAN, Note(k, b) PROVE Cardinality(Passing(key, n, T)') <= Cardinality(Passing(key, n, T)) + gain
    <3>1. /\ DOMAIN answers' = 1..(L + 1) /\ Len(answers') = L + 1 /\ answers' # answers
          /\ \A m \in DOMAIN answers : answers'[m] = answers[m]
          /\ answers'[L + 1] = [key |-> k, at |-> clock, passed |-> b]
      BY <2>4, NoteFacts
    <3>2. n \in 1..L
      BY <1>0, <1>10
    <3> HIDE DEF L
    <3>3. Passing(key, n, T)' = Passing(key, n, T) \cup (IF gain = 1 THEN {L + 1} ELSE {})
      <4>1. ASSUME NEW m \in n..(L + 1)
            PROVE  m \in Passing(key, n, T)' <=> m \in Passing(key, n, T) \/ (m = L + 1 /\ gain = 1)
        <5>1. CASE m = L + 1
          <6>1. m \in Passing(key, n, T)' <=> k = key /\ b = TRUE /\ clock < T
            BY <1>0, <3>1, <3>2, <5>1 DEF Passing
          <6>2. gain = 1 <=> k = key /\ b = TRUE /\ clock < T
            BY <3>1 DEF Passes, L
          <6>3. m \notin Passing(key, n, T)
            BY <1>0, <5>1 DEF Passing, L
          <6> QED BY <5>1, <6>1, <6>2, <6>3
        <5>2. CASE m # L + 1
          <6>1. m \in n..L /\ answers'[m] = answers[m]
            BY <1>0, <3>1, <3>2, <5>2
          <6> QED BY <1>0, <3>1, <3>2, <5>2, <6>1 DEF Passing, L
        <5> QED BY <5>1, <5>2
      <4>2. Passing(key, n, T)' \subseteq n..(L + 1) /\ Passing(key, n, T) \subseteq n..L
        BY <3>1 DEF Passing, L
      <4>3. n..L \subseteq n..(L + 1) /\ L + 1 \in n..(L + 1)
        BY <1>0, <3>2
      <4> QED BY <4>1, <4>2, <4>3
    <3>4. L + 1 \notin Passing(key, n, T)
      BY <1>0 DEF Passing, L
    <3>5. gain \in {0, 1}
      OBVIOUS
    <3>6. CASE gain = 1
      <4>1. Passing(key, n, T)' = Passing(key, n, T) \cup {L + 1}
        BY <3>3, <3>6
      <4>2. Cardinality(Passing(key, n, T) \cup {L + 1}) = Cardinality(Passing(key, n, T)) + 1
        BY <2>2, <3>4, FS_AddElement
      <4>3. Cardinality(Passing(key, n, T)') = Cardinality(Passing(key, n, T)) + 1
        BY <4>1, <4>2
      <4> HIDE DEF gain
      <4> QED BY <2>2, <3>6, <4>3
    <3>7. CASE gain = 0
      <4>1. Passing(key, n, T)' = Passing(key, n, T)
        BY <3>3, <3>7, 0 # 1
      <4> QED BY <2>2, <3>7, <4>1
    <3> QED BY <3>5, <3>6, <3>7
  <2>5. CASE answers' # answers
    <3>1. PICK k \in AnswerKeys, b \in BOOLEAN : Note(k, b)
      BY <2>5 DEF NotesOne
    <3>2. Cardinality(Passing(key, n, T)') <= Cardinality(Passing(key, n, T)) + gain
      BY <2>4, <3>1
    <3>3. IsFiniteSet(Passing(key, n, T)') /\ Cardinality(Passing(key, n, T)') \in Nat
      <4>1. Passing(key, n, T)' \subseteq n..Len(answers')
        BY DEF Passing
      <4>2. IsFiniteSet(n..Len(answers'))
        BY <1>1, FS_Interval
      <4> QED BY <4>1, <4>2, FS_Subset, FS_CardinalityType
    <3> HIDE DEF gain
    <3> QED BY <1>7, <1>8, <1>9, <2>1, <2>2, <3>2, <3>3 DEF gain
  <2> QED BY <2>3, <2>5
<1>11. CASE n \notin DOMAIN answers
  <2>1. n = L + 1 /\ answers' # answers /\ answers'[n].at = clock
    BY <1>5, <1>11
  <2>2. Len(answers') = L + 1
    BY <1>1, <2>1
  <2>3. Passing(key, n, T)' = IF gain = 1 THEN {n} ELSE {}
    <3>1. n..Len(answers') = {n}
      BY <1>0, <2>1, <2>2
    <3>2. gain = 1 <=> answers'[n].passed /\ clock < T
      BY <2>1 DEF Passes
    <3> HIDE DEF L
    <3> QED BY <2>1, <3>1, <3>2 DEF Passing
  <2>4. Cardinality(Passing(key, n, T)') = gain
    BY <2>3, FS_EmptySet, FS_Singleton
  <2>5. gain \in {0, 1}
    OBVIOUS
  <2> HIDE DEF gain
  <2> QED BY <1>7, <1>8, <1>9, <2>4, <2>5 DEF gain
<1> QED BY <1>10, <1>11

-----------------------------------------------------------------------------
(* Every step of the services, by what it does to the limits                  *)

\* Nothing of the limits moves, and no request but one of another service, or one that
\* fails.
LimitsStill ==
    /\ UNCHANGED limitVars
    /\ clock' \in Nat /\ clock' >= clock /\ faults' \in Nat /\ faults' >= faults /\ (alone' => alone)
    /\ \A q \in Requests :
          \/ proc'[q] = proc[q]
          \/ proc'[q].op \notin LimitOps /\ (faults' = 0 => proc[q].op \notin LimitOps)

\* Every step of the services, by what it does to the limits
LimitMoves ==
    \/ LimitsStill
    \/ \E p \in Requests : LimitArrives(p)
    \/ \E p \in Requests : proc[p] # Idle /\ LimitStep(p)
    \/ Restart /\ ForgetLimits /\ clock' = clock

LEMMA LimitCases ==
    ASSUME Rows, LimitTables, LimitRows, LimitMoves
    PROVE  \/ LimitsStill
           \/ \E p \in Requests :
                 /\ UNCHANGED <<limitVars, clock, faults>> /\ OthersKeep(p) /\ proc[p] = Idle
                 /\ (alone' => alone /\ \A q \in Requests : proc[q] = Idle)
                 /\ LimitRow(proc'[p]) /\ proc'[p].op = "limited" /\ proc'[p].step # "expire"
           \/ \E p \in Requests, k \in Keys2 :
                 /\ proc[p].op = "limited" /\ proc[p].key = k /\ OthersKeep(p)
                 /\ \/ Incr(p) \/ Expire(p) \/ RedisFails(p) \/ CountInMemory(p)
           \/ \E p \in Requests : RecordAccept(p) \/ AcceptAnswers(p) \/ \E is5xx \in BOOLEAN : RecordError(p, is5xx)
           \/ \E p \in Requests, c \in Clients : AdminRefused(p, c) \/ GetBreakerStatus(p, c) \/ ResetBreaker(p, c)
           \/ Restart /\ ForgetLimits /\ clock' = clock
<1>1. ASSUME NEW p \in Requests, NEW kind \in {"ip", "wallet"}, NEW c \in Clients, LimitedCall(p, kind, c)
      PROVE  /\ UNCHANGED <<limitVars, clock, faults>> /\ OthersKeep(p) /\ proc[p] = Idle
             /\ (alone' => alone /\ \A q \in Requests : proc[q] = Idle)
             /\ LimitRow(proc'[p]) /\ proc'[p].op = "limited" /\ proc'[p].step # "expire"
  <2> DEFINE r == [op |-> "limited", step |-> IF redisAvailable THEN "incr" ELSE "memory", key |-> Key(kind, c)]
  <2>1. Begins(p, r) /\ UNCHANGED <<limitVars, clock>>
    BY <1>1, StartBegins DEF LimitedCall, accessVars
  <2>2. /\ proc'[p].op = "limited" /\ proc'[p].step = (IF redisAvailable THEN "incr" ELSE "memory")
        /\ proc'[p].key = Key(kind, c) /\ "key" \in DOMAIN proc'[p]
    BY <2>1 DEF Begins, With
  <2>3. Key(kind, c) \in Keys2
    BY DEF Key, Keys2
  <2>4. LimitRow(proc'[p])
    BY <2>2, <2>3 DEF LimitRow
  <2> QED BY <2>1, <2>2, <2>4 DEF Begins, limitVars
<1>2. ASSUME NEW p \in Requests, LimitArrives(p)
      PROVE  \/ \E kind \in {"ip", "wallet"}, c \in Clients : LimitedCall(p, kind, c)
             \/ \E c \in Clients : AdminRefused(p, c) \/ GetBreakerStatus(p, c) \/ ResetBreaker(p, c)
             \/ RecordAccept(p)
  BY <1>2 DEF LimitArrives, WalletLimitedCall
<1>3. ASSUME NEW p \in Requests, Incr(p) \/ Expire(p) \/ RedisFails(p) \/ CountInMemory(p)
      PROVE  proc[p].op = "limited" /\ proc[p].key \in Keys2 /\ OthersKeep(p)
  <2>1. proc[p].op = "limited" /\ (Finish(p) \/ \E s : Goto(p, s))
    BY <1>3 DEF Incr, Expire, RedisFails, CountInMemory, At, Decide
  <2>2. LimitRow(proc[p])
    BY DEF LimitRows
  <2>3. ASSUME NEW s, Goto(p, s) PROVE OthersKeep(p)
    BY <2>3, GotoGoes DEF GoesTo
  <2>4. ASSUME Finish(p) PROVE OthersKeep(p)
    BY <2>4, FinishEnds DEF Ends
  <2> QED BY <2>1, <2>2, <2>3, <2>4 DEF LimitRow
<1>4. CASE \E p \in Requests : LimitArrives(p)
  <2>1. PICK p \in Requests : LimitArrives(p)
    BY <1>4
  <2>2. CASE \E kind \in {"ip", "wallet"}, c \in Clients : LimitedCall(p, kind, c)
    <3>1. PICK kind \in {"ip", "wallet"} : \E c \in Clients : LimitedCall(p, kind, c)
      BY <2>2
    <3>2. PICK c \in Clients : LimitedCall(p, kind, c)
      BY <3>1
    <3> QED BY <1>1, <3>2
  <2> QED BY <1>2, <2>1, <2>2
<1>5. CASE \E p \in Requests : proc[p] # Idle /\ LimitStep(p)
  BY <1>3, <1>5 DEF LimitStep
<1> QED BY <1>4, <1>5 DEF LimitMoves

-----------------------------------------------------------------------------
(* Rows, tables and room after each step                                      *)

\* The rows of the other requests hold as long as what they rest on does.
LEMMA RowsStay ==
    ASSUME LimitRows, LimitTables, NEW p \in Requests, OthersKeep(p), LimitRow(proc[p])',
           generation \in Nat, generation' \in Nat, generation' >= generation, redisAvailable' => redisAvailable,
           \A k \in Keys2, q \in Requests \ {p} :
               Expires(q, k) => /\ redis'[k].until = None /\ redis'[k].count > 0
                                /\ ~Expires(p, k)'
    PROVE  LimitRows'
<1>1. ASSUME NEW q \in Requests PROVE LimitRow(proc[q])'
  <2>1. CASE q = p
    BY <2>1
  <2>2. CASE q # p
    <3>1. proc'[q] = proc[q] /\ q \in Requests \ {p}
      BY <2>2 DEF OthersKeep
    <3>2. LimitRow(proc[q])
      BY DEF LimitRows
    <3>3. proc[q].op = "limited" /\ proc[q].step = "expire" =>
              redis'[proc[q].key].until = None /\ redis'[proc[q].key].count > 0
      BY <3>1, <3>2 DEF LimitRow, Expires
    <3>4. proc[q].op = "limitAccept" => proc[q].seen \in Nat /\ proc[q].seen <= generation'
      BY <3>2 DEF LimitRow
    <3>5. proc[q].op = "limited" /\ proc[q].step = "memory" => ~redisAvailable'
      BY <3>2 DEF LimitRow
    <3> QED BY <3>1, <3>2, <3>3, <3>4, <3>5 DEF LimitRow
  <2> QED BY <2>1, <2>2
<1>2. ASSUME NEW k \in Keys2, NEW q \in Requests, NEW r \in Requests, Expires(q, k)', Expires(r, k)'
      PROVE  q = r
  <2>1. ASSUME NEW s \in Requests \ {p}, Expires(s, k)' PROVE Expires(s, k)
    BY <2>1 DEF Expires, OthersKeep
  <2>2. CASE q # p /\ r # p
    BY <1>2, <2>1, <2>2 DEF LimitRows
  <2>3. CASE q = p /\ r # p
    BY <1>2, <2>1, <2>3
  <2>4. CASE q # p /\ r = p
    BY <1>2, <2>1, <2>4
  <2> QED BY <2>2, <2>3, <2>4
<1> QED BY <1>1, <1>2 DEF LimitRows

LEMMA IdleLimitRow == LimitRow(Idle) /\ Idle.op \notin LimitOps
BY IdleRow DEF LimitRow, LimitOps

\* The breaker as a handler finds it
LEMMA CheckedFacts ==
    ASSUME LimitTables, LimitFacts
    PROVE  /\ Closed \in BreakerType /\ Checked \in BreakerType /\ Checked \in {breaker, Closed, [Closed EXCEPT !.isOpen = breaker.isOpen, !.trippedAt = breaker.trippedAt]}
           /\ Checked.errors <= Checked.requests /\ Checked.accepts <= Checked.requests
           /\ Checked.since <= clock /\ clock - Checked.since <= Window["accept"]
           /\ Checked.isOpen => /\ breaker.isOpen
                                /\ Checked.trippedAt = breaker.trippedAt /\ Checked.trippedAt \in Nat /\ Checked.trippedAt <= clock
           /\ Checked # breaker => Checked.accepts = 0 /\ Checked.errors = 0 /\ Checked.requests = 0 /\ Checked.since = clock
<1>1. breaker \in BreakerType /\ clock \in Nat /\ Window["accept"] \in Nat
  BY LimitsAssumption DEF LimitTables
<1>2. Closed = [isOpen |-> FALSE, trippedAt |-> None, requests |-> 0, errors |-> 0, accepts |-> 0, since |-> clock]
  BY DEF Closed
<1> DEFINE late == [Closed EXCEPT !.isOpen = breaker.isOpen, !.trippedAt = breaker.trippedAt]
<1>3. late = [isOpen |-> breaker.isOpen, trippedAt |-> breaker.trippedAt, requests |-> 0, errors |-> 0, accepts |-> 0, since |-> clock]
  <2>1. breaker.isOpen \in BOOLEAN
    BY <1>1 DEF BreakerType
  <2>2. [Closed EXCEPT !.isOpen = breaker.isOpen] = [isOpen |-> breaker.isOpen, trippedAt |-> None, requests |-> 0, errors |-> 0, accepts |-> 0, since |-> clock]
    BY <1>2, <2>1
  <2> DEFINE half == [isOpen |-> breaker.isOpen, trippedAt |-> None, requests |-> 0, errors |-> 0, accepts |-> 0, since |-> clock]
  <2>3. late = [half EXCEPT !.trippedAt = breaker.trippedAt]
    BY <2>2 DEF half
  <2> QED BY <2>1, <2>3 DEF half
<1>4. Closed \in BreakerType /\ late \in BreakerType
  BY <1>1, <1>2, <1>3 DEF BreakerType
<1>5. Checked = Closed \/ Checked = late \/ (Checked = breaker /\ ~(clock - breaker.since > Window["accept"]))
  BY DEF Checked
<1>6. CASE Checked = Closed
  BY <1>1, <1>2, <1>4, <1>6
<1>7. CASE Checked = late
  <2> HIDE DEF late
  <2>1. /\ Checked.isOpen = breaker.isOpen /\ Checked.trippedAt = breaker.trippedAt
        /\ Checked.requests = 0 /\ Checked.errors = 0 /\ Checked.accepts = 0 /\ Checked.since = clock
    BY <1>3, <1>7
  <2>2. breaker.isOpen => breaker.trippedAt \in Nat /\ breaker.trippedAt <= clock
    BY DEF LimitFacts
  <2>3. Checked \in {breaker, Closed, late}
    BY <1>7
  <2> QED BY <1>1, <1>4, <1>7, <2>1, <2>2, <2>3 DEF late
<1>8. CASE Checked = breaker /\ ~(clock - breaker.since > Window["accept"])
  <2>1. breaker.since \in Nat
    BY <1>1 DEF BreakerType
  <2>2. clock - breaker.since <= Window["accept"]
    BY <1>1, <1>8, <2>1
  <2> HIDE DEF late
  <2> QED BY <1>1, <1>4, <1>8, <2>1, <2>2 DEF LimitFacts, late
<1> QED BY <1>5, <1>6, <1>7, <1>8

\* What is counted on top of it
LEMMA BreakerCounts ==
    ASSUME LimitTables, LimitFacts, NEW a \in {0, 1}, NEW e \in {0, 1}, NEW trip \in BOOLEAN, NEW b,
           b = [isOpen |-> Checked.isOpen, trippedAt |-> Checked.trippedAt, requests |-> Checked.requests + 1,
                errors |-> Checked.errors + e, accepts |-> Checked.accepts + a, since |-> Checked.since],
           clock' = clock, breaker' = IF trip THEN Trip(b) ELSE b
    PROVE  /\ breaker' \in BreakerType
           /\ breaker'.errors = Checked.errors + e /\ breaker'.accepts = Checked.accepts + a
           /\ breaker'.requests = Checked.requests + 1 /\ breaker'.since = Checked.since
           /\ breaker'.errors <= breaker'.requests /\ breaker'.accepts <= breaker'.requests
           /\ breaker'.since <= clock'
           /\ breaker'.isOpen => breaker'.trippedAt \in Nat /\ breaker'.trippedAt <= clock'
           /\ breaker'.isOpen => (trip /\ breaker'.trippedAt = clock) \/ (Checked.isOpen /\ breaker'.trippedAt = Checked.trippedAt)
<1>1. /\ Checked \in BreakerType
      /\ Checked.errors <= Checked.requests /\ Checked.accepts <= Checked.requests
      /\ Checked.since <= clock
      /\ Checked.isOpen => Checked.trippedAt \in Nat /\ Checked.trippedAt <= clock
  BY CheckedFacts
<1>2. clock \in Nat
  BY DEF LimitTables
<1>3. /\ Checked.requests \in Nat /\ Checked.errors \in Nat /\ Checked.accepts \in Nat /\ Checked.since \in Nat
      /\ Checked.isOpen \in BOOLEAN /\ Checked.trippedAt \in Nat \cup {None}
  BY <1>1 DEF BreakerType
<1>4. breaker' = [isOpen |-> trip \/ Checked.isOpen, trippedAt |-> IF trip THEN clock ELSE Checked.trippedAt,
                  requests |-> Checked.requests + 1, errors |-> Checked.errors + e,
                  accepts |-> Checked.accepts + a, since |-> Checked.since]
  BY <1>3 DEF Trip
<1>5. breaker' \in BreakerType
  BY <1>2, <1>3, <1>4 DEF BreakerType
<1>6. /\ breaker'.isOpen = (trip \/ Checked.isOpen) /\ breaker'.trippedAt = (IF trip THEN clock ELSE Checked.trippedAt)
      /\ breaker'.requests = Checked.requests + 1 /\ breaker'.errors = Checked.errors + e
      /\ breaker'.accepts = Checked.accepts + a /\ breaker'.since = Checked.since
  BY <1>4
<1>7. breaker'.errors <= breaker'.requests /\ breaker'.accepts <= breaker'.requests /\ breaker'.since <= clock'
  BY <1>1, <1>3, <1>6
<1>8. CASE trip = TRUE
  <2>1. breaker'.trippedAt = clock
    BY <1>6, <1>8
  <2> QED BY <1>2, <1>5, <1>6, <1>7, <1>8, <2>1
<1>9. CASE trip = FALSE
  <2>1. breaker'.trippedAt = Checked.trippedAt /\ (breaker'.isOpen <=> Checked.isOpen)
    BY <1>3, <1>6, <1>9
  <2>2. breaker'.isOpen => Checked.trippedAt \in Nat /\ Checked.trippedAt <= clock'
    BY <1>1, <2>1
  <2> QED BY <1>5, <1>6, <1>7, <2>1, <2>2
<1> QED BY <1>8, <1>9

LEMMA RedisStays ==
    ASSUME LimitTables, LimitTables', clock' >= clock, NEW k \in Keys2, NEW T \in Nat,
           redis'[k] = redis[k],
           (\E p \in Requests : Expires(p, k)') => \E p \in Requests : Expires(p, k)
    PROVE  RedisRoom(k, T)' \in Nat /\ RedisRoom(k, T) \in Nat /\ RedisRoom(k, T)' <= RedisRoom(k, T)
<1> DEFINE most == MaxRequests[k.kind]
           pending == \E p \in Requests : Expires(p, k)
           later == \E p \in Requests : Expires(p, k)'
<1>1. most \in Nat /\ redis[k].count \in Nat /\ redis[k].until \in Nat \cup {None} /\ clock \in Nat /\ clock' \in Nat
  BY LimitsAssumption DEF Keys2, LimitTables, CounterType
<1>2. RedisRoom(k, T) = IF clock >= T THEN 0
          ELSE Left(redis[k].count, most) + (IF most > 0 /\ pending THEN 1 ELSE 0)
               + (IF redis[k].until # None /\ redis[k].until < T THEN most ELSE 0)
  BY DEF RedisRoom
<1>3. RedisRoom(k, T)' = IF clock' >= T THEN 0
          ELSE Left(redis[k].count, most) + (IF most > 0 /\ later THEN 1 ELSE 0)
               + (IF redis[k].until # None /\ redis[k].until < T THEN most ELSE 0)
  BY DEF RedisRoom, Left
<1>4. later => pending
  OBVIOUS
<1> HIDE DEF most, pending, later
<1> QED BY <1>1, <1>2, <1>3, <1>4 DEF Left

LEMMA MemoryStays ==
    ASSUME LimitTables, LimitTables', clock' >= clock, NEW k \in Keys2, NEW T \in Nat,
           counts'[k] = counts[k]
    PROVE  /\ MemoryRoom(k, T)' \in Nat /\ MemoryRoom(k, T) \in Nat
           /\ (redisAvailable => redisAvailable') => MemoryRoom(k, T)' <= MemoryRoom(k, T)
           /\ MemoryRoom(k, T)' <= 2 * MaxRequests[k.kind]
<1> DEFINE most == MaxRequests[k.kind]
<1>1. most \in Nat /\ counts[k].count \in Nat /\ counts[k].until \in Nat \cup {None} /\ clock \in Nat /\ clock' \in Nat
  BY LimitsAssumption DEF Keys2, LimitTables, CounterType
<1>2. MemoryRoom(k, T) = IF clock >= T \/ redisAvailable THEN 0
          ELSE Left(counts[k].count, most)
               + (IF counts[k].until # None /\ counts[k].until + 1 < T THEN most ELSE 0)
  BY DEF MemoryRoom
<1>3. MemoryRoom(k, T)' = IF clock' >= T \/ redisAvailable' THEN 0
          ELSE Left(counts[k].count, most)
               + (IF counts[k].until # None /\ counts[k].until + 1 < T THEN most ELSE 0)
  BY DEF MemoryRoom, Left
<1> HIDE DEF most
<1>4. /\ MemoryRoom(k, T)' \in Nat /\ MemoryRoom(k, T) \in Nat
      /\ (redisAvailable => redisAvailable') => MemoryRoom(k, T)' <= MemoryRoom(k, T)
      /\ MemoryRoom(k, T)' <= 2 * most
  BY <1>1, <1>2, <1>3 DEF Left
<1> QED BY <1>4 DEF most

LEMMA BreakerRoomFits ==
    ASSUME NEW b \in BreakerType, NEW T \in Nat, LimitTables
    PROVE  BreakerRoom(b, T) \in Nat
<1>1. MaxRequests["accept"] \in Nat /\ Window["accept"] \in Nat /\ ResetTimeout \in Nat /\ clock \in Nat /\ b.accepts \in Nat
  BY LimitsAssumption DEF BreakerType, LimitTables
<1> QED BY <1>1 DEF BreakerRoom, Left

LEMMA BreakerStays ==
    ASSUME LimitTables, LimitTables', clock' >= clock, NEW T \in Nat, breaker' = breaker
    PROVE  /\ BreakerRoom(breaker, T)' \in Nat /\ BreakerRoom(breaker, T) \in Nat
           /\ BreakerRoom(breaker, T)' <= BreakerRoom(breaker, T)
<1>1. /\ MaxRequests["accept"] \in Nat /\ Window["accept"] \in Nat /\ ResetTimeout \in Nat
      /\ clock \in Nat /\ clock' \in Nat /\ breaker.accepts \in Nat
  BY LimitsAssumption DEF BreakerType, LimitTables
<1> DEFINE most == MaxRequests["accept"]
           late == Left(breaker.accepts, most)
                    + (IF breaker.since + Window["accept"] + 1 < T THEN most ELSE 0)
                    + (IF breaker.isOpen /\ breaker.trippedAt + ResetTimeout + 1 < T THEN most ELSE 0)
<1>2. BreakerRoom(breaker, T) = IF clock >= T THEN 0 ELSE late
  BY DEF BreakerRoom
<1>3. BreakerRoom(breaker, T)' = IF clock' >= T THEN 0 ELSE late
  BY DEF BreakerRoom, Left
<1>4. late \in Nat
  BY <1>1 DEF Left
<1> HIDE DEF late
<1> QED BY <1>1, <1>2, <1>3, <1>4

\* What a step leaves alone keeps its room, or loses it to the clock.
LEMMA RoomStays ==
    ASSUME LimitTables, LimitTables', clock' >= clock, NEW key \in Counted, NEW T \in Nat,
           key = Key("accept", "-") => breaker' = breaker,
           key \in Keys2 => /\ redis'[key] = redis[key] /\ counts'[key] = counts[key]
                            /\ redisAvailable => redisAvailable'
                            /\ (\E p \in Requests : Expires(p, key)') => \E p \in Requests : Expires(p, key)
    PROVE  Room(key, T)' \in Nat /\ Room(key, T) \in Nat /\ Room(key, T)' <= Room(key, T)
<1>1. CASE key \in Keys2
  <2>1. Room(key, T) = RedisRoom(key, T) + MemoryRoom(key, T)
    BY <1>1 DEF Room, Keys2
  <2>2. Room(key, T)' = RedisRoom(key, T)' + MemoryRoom(key, T)'
    BY <1>1 DEF Room, Keys2
  <2>3. RedisRoom(key, T)' \in Nat /\ RedisRoom(key, T) \in Nat /\ RedisRoom(key, T)' <= RedisRoom(key, T)
    BY <1>1, RedisStays
  <2>4. MemoryRoom(key, T)' \in Nat /\ MemoryRoom(key, T) \in Nat /\ MemoryRoom(key, T)' <= MemoryRoom(key, T)
    BY <1>1, MemoryStays
  <2> QED BY <2>1, <2>2, <2>3, <2>4
<1>2. CASE key = Key("accept", "-")
  <2>1. Room(key, T) = BreakerRoom(breaker, T) /\ Room(key, T)' = BreakerRoom(breaker, T)'
    BY <1>2 DEF Room, Key
  <2> QED BY <1>2, <2>1, BreakerStays
<1> QED BY <1>1, <1>2 DEF Counted

\* Checking the breaker gives no room within a window.
LEMMA CheckedRoom ==
    ASSUME LimitTables, LimitFacts, NEW T \in Nat, T <= clock + Window["accept"]
    PROVE  /\ BreakerRoom(Checked, T) <= BreakerRoom(breaker, T)
           /\ BreakerRoom(Checked, T) \in Nat /\ BreakerRoom(breaker, T) \in Nat
           /\ BreakerRoom(Closed, T) \in Nat /\ BreakerRoom(Closed, T) <= MaxRequests["accept"]
<1> DEFINE most == MaxRequests["accept"]
<1>1. /\ most \in Nat /\ Window["accept"] \in Nat /\ ResetTimeout \in Nat
      /\ clock \in Nat /\ breaker \in BreakerType
  BY LimitsAssumption DEF LimitTables
<1>2. /\ breaker.accepts \in Nat /\ breaker.since \in Nat
      /\ (breaker.isOpen => breaker.trippedAt \in Nat)
  BY <1>1 DEF BreakerType, LimitFacts
<1>3. /\ BreakerRoom(Checked, T) \in Nat /\ BreakerRoom(breaker, T) \in Nat /\ BreakerRoom(Closed, T) \in Nat
  BY <1>1, CheckedFacts, BreakerRoomFits
<1>4. BreakerRoom(Closed, T) = IF clock >= T THEN 0 ELSE most
  <2>1. Closed.accepts = 0 /\ Closed.since = clock /\ Closed.isOpen = FALSE
    BY DEF Closed
  <2>2. ~(clock + Window["accept"] + 1 < T)
    BY <1>1
  <2> QED BY <1>1, <2>1, <2>2 DEF BreakerRoom, Left
<1>5. CASE breaker.isOpen /\ clock - breaker.trippedAt > ResetTimeout
  <2>1. Checked = Closed
    BY <1>5 DEF Checked
  <2>2. clock < T => breaker.trippedAt + ResetTimeout + 1 < T
    BY <1>1, <1>2, <1>5
  <2>3. clock < T => BreakerRoom(breaker, T) >= most
    BY <1>1, <1>2, <1>5, <2>2 DEF BreakerRoom, Left
  <2> HIDE DEF most
  <2> QED BY <1>1, <1>3, <1>4, <2>1, <2>3 DEF most
<1>6. CASE /\ ~(breaker.isOpen /\ clock - breaker.trippedAt > ResetTimeout)
           /\ clock - breaker.since > Window["accept"]
  <2> DEFINE third == IF breaker.isOpen /\ breaker.trippedAt + ResetTimeout + 1 < T THEN most ELSE 0
  <2>1. /\ Checked.accepts = 0 /\ Checked.since = clock
        /\ Checked.isOpen = breaker.isOpen /\ Checked.trippedAt = breaker.trippedAt
    <3>1. Checked = [Closed EXCEPT !.isOpen = breaker.isOpen, !.trippedAt = breaker.trippedAt]
      BY <1>6 DEF Checked
    <3>2. breaker.isOpen \in BOOLEAN
      BY <1>1 DEF BreakerType
    <3> QED BY <3>1, <3>2 DEF Closed
  <2>2. ~(clock + Window["accept"] + 1 < T)
    BY <1>1
  <2>3. clock < T => breaker.since + Window["accept"] + 1 < T
    BY <1>1, <1>2, <1>6
  <2>4. BreakerRoom(Checked, T) = IF clock >= T THEN 0 ELSE most + third
    BY <1>1, <2>1, <2>2 DEF BreakerRoom, Left
  <2>5. BreakerRoom(breaker, T) = IF clock >= T THEN 0 ELSE Left(breaker.accepts, most) + most + third
    BY <1>1, <2>3 DEF BreakerRoom
  <2>6. third \in Nat
    BY <1>1
  <2>7. Left(breaker.accepts, most) \in Nat
    BY <1>1, <1>2 DEF Left
  <2> HIDE DEF most, third
  <2> QED BY <1>1, <1>3, <1>4, <2>4, <2>5, <2>6, <2>7 DEF most
<1>7. CASE /\ ~(breaker.isOpen /\ clock - breaker.trippedAt > ResetTimeout)
           /\ ~(clock - breaker.since > Window["accept"])
  <2>1. Checked = breaker
    BY <1>7 DEF Checked
  <2> HIDE DEF most
  <2> QED BY <1>1, <1>3, <1>4, <2>1 DEF most
<1> QED BY <1>5, <1>6, <1>7

LimitsMoved == LimitTables' /\ LimitFacts' /\ LimitRows' /\ NotesOne /\ RoomMoves

\* A step that answers nobody, or refuses, and lets no counter grow room
LEMMA RoomsStay ==
    ASSUME LimitTables, LimitTables', clock' >= clock, faults' >= faults, resets' >= resets,
           \A key \in Counted : ~Passes(key),
           breaker' = breaker, redis' = redis, counts' = counts, redisAvailable => redisAvailable',
           \A k \in Keys2, p \in Requests : Expires(p, k)' => Expires(p, k)
    PROVE  RoomMoves
<1> SUFFICES ASSUME NEW key \in Counted, NEW T \in Nat
             PROVE  /\ Room(key, T)' \in Nat
                    /\ Room(key, T)' + (IF Passes(key) /\ clock < T THEN 1 ELSE 0)
                           <= Room(key, T) + (Quota(key.kind)' - Quota(key.kind))
  BY DEF RoomMoves
<1>1. Room(key, T)' \in Nat /\ Room(key, T) \in Nat /\ Room(key, T)' <= Room(key, T)
  BY RoomStays
<1>2. Quota(key.kind) \in Nat /\ Quota(key.kind)' \in Nat /\ Quota(key.kind)' >= Quota(key.kind)
  <2>1. key.kind \in {"ip", "wallet", "accept"}
    BY DEF Counted, Keys2, Key
  <2> QED BY <2>1, BudgetMoves DEF LimitTables
<1> QED BY <1>1, <1>2

LEMMA StillMoves ==
    ASSUME Rows, LimitTables, LimitFacts, LimitRows, LimitsStill
    PROVE  LimitsMoved
<1>1. /\ redis' = redis /\ redisAvailable' = redisAvailable /\ counts' = counts /\ breaker' = breaker
      /\ failedAttempts' = failedAttempts /\ answers' = answers /\ resets' = resets /\ generation' = generation
      /\ straddled' = straddled /\ clock' \in Nat /\ clock' >= clock /\ faults' \in Nat /\ faults' >= faults
  BY DEF LimitsStill, limitVars
<1>2. LimitTables'
  <2>1. ASSUME NEW n \in DOMAIN answers PROVE answers[n].at <= clock'
    <3>1. answers[n].at <= clock /\ clock \in Nat /\ answers[n] \in AnswerType
      BY DEF LimitTables
    <3>2. answers[n].at \in Nat
      BY <3>1 DEF AnswerType
    <3> QED BY <1>1, <3>1, <3>2
  <2> QED BY <1>1, <2>1 DEF LimitTables, CounterType, BreakerType
<1>3. LimitFacts'
  <2>1. ASSUME NEW k \in Keys2, redis[k].until # None PROVE redis[k].until <= clock' + Window[k.kind]
    <3>1. redis[k].until \in Nat /\ redis[k].until <= clock + Window[k.kind] /\ Window[k.kind] \in Nat /\ clock \in Nat
      BY <2>1, LimitsAssumption DEF LimitTables, LimitFacts, CounterType, Keys2
    <3> QED BY <1>1, <3>1
  <2>2. breaker.since \in Nat /\ breaker.since <= clock /\ clock \in Nat
    BY DEF LimitTables, LimitFacts, BreakerType
  <2>3. breaker.since <= clock' /\ (breaker.isOpen => breaker.trippedAt \in Nat /\ breaker.trippedAt <= clock')
    BY <1>1, <2>2 DEF LimitFacts
  <2>4. ~redisAvailable => faults' > 0
    BY <1>1 DEF LimitFacts, LimitTables
  <2> QED BY <1>1, <2>1, <2>3, <2>4 DEF LimitFacts
<1>4. ASSUME NEW q \in Requests PROVE proc'[q] = proc[q] \/ proc'[q].op \notin LimitOps
  BY DEF LimitsStill
<1>5. ASSUME NEW k \in Keys2, NEW q \in Requests, Expires(q, k)' PROVE Expires(q, k)
  BY <1>4, <1>5 DEF Expires, LimitOps
<1>6. LimitRows'
  <2>1. ASSUME NEW q \in Requests PROVE LimitRow(proc[q])'
    <3>1. CASE proc'[q] = proc[q]
      BY <1>1, <3>1 DEF LimitRows, LimitRow
    <3>2. CASE proc'[q].op \notin LimitOps
      BY <3>2 DEF LimitRow, LimitOps
    <3> QED BY <1>4, <3>1, <3>2
  <2> QED BY <1>5, <2>1 DEF LimitRows
<1>7. RoomMoves
  <2>1. \A key \in Counted : ~Passes(key)
    BY <1>1 DEF Passes
  <2> QED BY <1>1, <1>2, <1>5, <2>1, RoomsStay DEF LimitTables
<1> QED BY <1>1, <1>2, <1>3, <1>6, <1>7 DEF LimitsMoved, NotesOne

\* A request begins to be counted.
LEMMA CallMoves ==
    ASSUME Rows, LimitTables, LimitFacts, LimitRows, NEW p \in Requests,
           UNCHANGED <<limitVars, clock, faults>>, OthersKeep(p),
           LimitRow(proc'[p]), proc'[p].op = "limited", proc'[p].step # "expire"
    PROVE  LimitsMoved
<1>1. /\ redis' = redis /\ redisAvailable' = redisAvailable /\ counts' = counts /\ breaker' = breaker
      /\ failedAttempts' = failedAttempts /\ answers' = answers /\ resets' = resets /\ generation' = generation
      /\ straddled' = straddled /\ clock' = clock /\ faults' = faults
  BY DEF limitVars
<1>2. LimitTables' /\ LimitFacts'
  BY <1>1 DEF LimitTables, LimitFacts, CounterType, BreakerType
<1>3. LimitRow(proc[p])'
  BY <1>1 DEF LimitRow
<1>4. \A k \in Keys2 : ~Expires(p, k)'
  BY DEF Expires
<1>5. ASSUME NEW k \in Keys2, NEW q \in Requests, Expires(q, k)' PROVE Expires(q, k)
  <2>1. q # p
    BY <1>4, <1>5
  <2> QED BY <1>5, <2>1 DEF Expires, OthersKeep
<1>6. LimitRows'
  <2>1. ASSUME NEW k \in Keys2, NEW q \in Requests \ {p}, Expires(q, k)
        PROVE  redis'[k].until = None /\ redis'[k].count > 0 /\ ~Expires(p, k)'
    <3>1. LimitRow(proc[q])
      BY DEF LimitRows
    <3> QED BY <1>1, <1>4, <2>1, <3>1 DEF LimitRow, Expires
  <2>2. generation \in Nat
    BY DEF LimitTables
  <2> QED BY <1>1, <1>3, <2>1, <2>2, RowsStay
<1>7. RoomMoves
  <2>1. \A key \in Counted : ~Passes(key)
    BY <1>1 DEF Passes
  <2> QED BY <1>1, <1>2, <1>5, <2>1, RoomsStay DEF LimitTables
<1> QED BY <1>1, <1>2, <1>6, <1>7 DEF LimitsMoved, NotesOne

\* The request is over: its row is idle.
LEMMA OverRows ==
    ASSUME Rows, LimitTables, LimitRows, NEW p \in Requests, Finish(p),
           generation' \in Nat, generation' >= generation, redisAvailable' => redisAvailable,
           \A k \in Keys2, q \in Requests \ {p} : Expires(q, k) => redis'[k].until = None /\ redis'[k].count > 0
    PROVE  LimitRows' /\ OthersKeep(p) /\ \A k \in Keys2, q \in Requests : Expires(q, k)' => Expires(q, k) /\ q # p
<1>1. OthersKeep(p) /\ proc'[p] = Idle
  BY FinishEnds DEF Ends
<1>2. LimitRow(proc[p])' /\ proc'[p].op # "limited"
  BY <1>1, IdleLimitRow DEF LimitRow, LimitOps
<1>3. \A k \in Keys2 : ~Expires(p, k)'
  BY <1>2 DEF Expires
<1>4. ASSUME NEW k \in Keys2, NEW q \in Requests, Expires(q, k)' PROVE Expires(q, k) /\ q # p
  BY <1>1, <1>3, <1>4 DEF Expires, OthersKeep
<1> QED BY <1>1, <1>2, <1>3, <1>4, RowsStay DEF LimitTables

\* The same of a request that goes on
LEMMA OnwardRows ==
    ASSUME Rows, LimitTables, LimitRows, NEW p \in Requests, NEW s \in {"expire", "memory"}, Goto(p, s),
           proc[p].op = "limited", generation' = generation, redisAvailable' => redisAvailable,
           s = "memory" => ~redisAvailable',
           \A k \in Keys2, q \in Requests \ {p} : Expires(q, k) => redis'[k].until = None /\ redis'[k].count > 0,
           s = "expire" => /\ redis'[proc[p].key].until = None /\ redis'[proc[p].key].count > 0
                           /\ \A q \in Requests \ {p} : ~Expires(q, proc[p].key)
    PROVE  /\ LimitRows' /\ OthersKeep(p)
           /\ \A k \in Keys2, q \in Requests : Expires(q, k)' =>
                  (Expires(q, k) /\ q # p) \/ (q = p /\ s = "expire" /\ k = proc[p].key)
<1>1. GoesTo(p, s)
  BY GotoGoes
<1>2. LimitRow(proc[p])
  BY DEF LimitRows
<1>3. /\ OthersKeep(p) /\ proc'[p].op = "limited" /\ proc'[p].step = s /\ proc'[p].key = proc[p].key
      /\ "key" \in DOMAIN proc'[p] /\ proc'[p].key \in Keys2
  BY <1>1, <1>2 DEF GoesTo, LimitRow, Rows
<1>4. LimitRow(proc[p])'
  BY <1>3 DEF LimitRow
<1>5. ASSUME NEW k \in Keys2, Expires(p, k)' PROVE s = "expire" /\ k = proc[p].key
  BY <1>3, <1>5 DEF Expires
<1>6. ASSUME NEW k \in Keys2, NEW q \in Requests, Expires(q, k)', q # p PROVE Expires(q, k)
  BY <1>3, <1>6 DEF Expires, OthersKeep
<1>7. LimitRows'
  <2>1. ASSUME NEW k \in Keys2, NEW q \in Requests \ {p}, Expires(q, k)
        PROVE  redis'[k].until = None /\ redis'[k].count > 0 /\ ~Expires(p, k)'
    BY <1>5, <2>1
  <2> QED BY <1>3, <1>4, <2>1, RowsStay DEF LimitTables
<1> QED BY <1>3, <1>5, <1>6, <1>7

LEMMA BudgetStays ==
    ASSUME LimitTables, faults' = faults, resets' = resets, NEW kind \in {"ip", "wallet", "accept"}
    PROVE  Quota(kind) \in Nat /\ Quota(kind)' = Quota(kind)
BY BudgetFloor DEF LimitTables, Quota, Periods

\* Only the key k is counted.
LEMMA OneKeyMoves ==
    ASSUME LimitTables, LimitTables', clock' = clock, faults' >= faults, resets' >= resets, NEW k \in Counted,
           \A key \in Counted \ {k} : ~Passes(key),
           k # Key("accept", "-") => breaker' = breaker,
           \A j \in Keys2 \ {k} : /\ redis'[j] = redis[j] /\ counts'[j] = counts[j]
                                  /\ \A p \in Requests : Expires(p, j)' => Expires(p, j),
           redisAvailable => redisAvailable',
           \A T \in Nat : T <= clock + Window[k.kind] =>
               /\ Room(k, T)' \in Nat
               /\ Room(k, T)' + (IF Passes(k) /\ clock < T THEN 1 ELSE 0)
                      <= Room(k, T) + (Quota(k.kind)' - Quota(k.kind))
    PROVE  RoomMoves
<1> SUFFICES ASSUME NEW key \in Counted, NEW T \in Nat, T <= clock + Window[key.kind]
             PROVE  /\ Room(key, T)' \in Nat
                    /\ Room(key, T)' + (IF Passes(key) /\ clock < T THEN 1 ELSE 0)
                           <= Room(key, T) + (Quota(key.kind)' - Quota(key.kind))
  BY DEF RoomMoves
<1>1. CASE key = k
  BY <1>1
<1>2. CASE key # k
  <2>1. Room(key, T)' \in Nat /\ Room(key, T) \in Nat /\ Room(key, T)' <= Room(key, T)
    <3>1. key \in Keys2 => key \in Keys2 \ {k}
      BY <1>2
    <3>2. clock' >= clock
      BY DEF LimitTables
    <3>3. key = Key("accept", "-") => breaker' = breaker
      BY <1>2
    <3>4. key \in Keys2 => ((\E p \in Requests : Expires(p, key)') => \E p \in Requests : Expires(p, key))
      BY <3>1
    <3> QED BY <3>1, <3>2, <3>3, <3>4, RoomStays
  <2>2. Quota(key.kind) \in Nat /\ Quota(key.kind)' \in Nat /\ Quota(key.kind)' >= Quota(key.kind)
    <3>1. key.kind \in {"ip", "wallet", "accept"}
      BY DEF Counted, Keys2, Key
    <3> QED BY <3>1, BudgetMoves DEF LimitTables
  <2>3. ~Passes(key)
    BY <1>2
  <2> QED BY <2>1, <2>2, <2>3
<1> QED BY <1>1, <1>2

\* What a noted answer does to the tables
LEMMA NotedTables ==
    ASSUME LimitTables, NEW key \in AnswerKeys, NEW b \in BOOLEAN, Note(key, b), clock' = clock
    PROVE  /\ answers' \in Seq(AnswerType) /\ \A n \in DOMAIN answers' : answers'[n].at <= clock'
           /\ Passes(key) <=> b
           /\ \A other : other # key => ~Passes(other)
<1>1. /\ answers' \in Seq(AnswerType)
      /\ DOMAIN answers = 1..Len(answers) /\ Len(answers) \in Nat
      /\ DOMAIN answers' = 1..(Len(answers) + 1) /\ Len(answers') = Len(answers) + 1
      /\ \A n \in DOMAIN answers : answers'[n] = answers[n]
      /\ answers'[Len(answers) + 1] = [key |-> key, at |-> clock, passed |-> b]
      /\ answers' # answers
  BY NoteFacts
<1>2. ASSUME NEW n \in DOMAIN answers' PROVE answers'[n].at <= clock'
  <2>1. CASE n \in DOMAIN answers
    <3>1. answers[n].at <= clock
      BY <2>1 DEF LimitTables
    <3> QED BY <1>1, <2>1, <3>1
  <2>2. CASE n = Len(answers) + 1
    BY <1>1, <2>2 DEF LimitTables
  <2> QED BY <1>1, <2>1, <2>2
<1>3. answers'[Len(answers) + 1].key = key /\ answers'[Len(answers) + 1].passed = b
  BY <1>1
<1> QED BY <1>1, <1>2, <1>3 DEF Passes

LEMMA IncrMoves ==
    ASSUME Rows, LimitTables, LimitFacts, LimitRows, NEW p \in Requests, NEW k \in Keys2,
           proc[p].op = "limited", proc[p].key = k, Incr(p)
    PROVE  LimitsMoved
<1> DEFINE most == MaxRequests[k.kind]
           W == Window[k.kind]
           until == Current(k).until
           gone == redis[k].until # None /\ redis[k].until <= clock
<1>1. PICK c \in Nat : c = Current(k).count + 1
  BY DEF LimitTables, CounterType, Current, Zero
<1>2. /\ k.kind \in {"ip", "wallet"} /\ most \in Nat /\ W \in Nat /\ clock \in Nat /\ k \in Counted /\ k \in AnswerKeys
  BY LimitsAssumption DEF Keys2, LimitTables, Counted, AnswerKeys
<1>3. /\ proc[p].step = "incr"
      /\ redis' = [redis EXCEPT ![k] = [Current(k) EXCEPT !.count = c]]
      /\ (IF c = 1 THEN Goto(p, "expire") /\ UNCHANGED answers ELSE Decide(p, k, c))
      /\ redisAvailable' = redisAvailable /\ counts' = counts /\ breaker' = breaker
      /\ failedAttempts' = failedAttempts /\ resets' = resets /\ generation' = generation /\ straddled' = straddled
      /\ clock' = clock /\ faults' = faults
  BY <1>1 DEF Incr, At, accessVars, Quiet, Calm
<1>4. /\ redis \in [Keys2 -> CounterType] /\ redis[k].count \in Nat /\ redis[k].until \in Nat \cup {None}
      /\ (redis[k].count = 0 => redis[k].until = None)
  BY DEF LimitTables, LimitFacts, CounterType
<1>5. Current(k) = IF gone THEN Zero ELSE redis[k]
  BY DEF Current
<1>6. Current(k) \in CounterType
  BY <1>4, <1>5 DEF CounterType, Zero, LimitTables
<1>7. /\ redis' \in [Keys2 -> CounterType] /\ redis'[k].count = c /\ redis'[k].until = until
      /\ \A j \in Keys2 \ {k} : redis'[j] = redis[j]
  BY <1>3, <1>4, <1>6 DEF CounterType
<1>8. /\ gone => c = 1 /\ until = None
      /\ ~gone => c = redis[k].count + 1 /\ until = redis[k].until
  BY <1>1, <1>5 DEF Zero
<1>9. ASSUME NEW q \in Requests, Expires(q, k) PROVE ~gone /\ redis[k].until = None /\ redis[k].count > 0
  <2>1. LimitRow(proc[q])
    BY DEF LimitRows
  <2> QED BY <1>9, <2>1 DEF LimitRow, Expires
<1>10. \A j \in Keys2 : ~Expires(p, j)
  BY <1>3 DEF Expires
<1>11. ASSUME NEW j \in Keys2, NEW q \in Requests \ {p}, Expires(q, j) PROVE redis'[j].until = None /\ redis'[j].count > 0
  <2>1. LimitRow(proc[q])
    BY DEF LimitRows
  <2>2. redis[j].until = None /\ redis[j].count > 0
    BY <1>11, <2>1 DEF LimitRow, Expires
  <2>3. CASE j = k
    BY <1>4, <1>7, <1>8, <1>9, <1>11, <2>2, <2>3
  <2> QED BY <1>7, <2>2, <2>3
<1>12. LimitRows' /\ OthersKeep(p)
       /\ \A j \in Keys2, q \in Requests : Expires(q, j)' =>
              (Expires(q, j) /\ q # p) \/ (c = 1 /\ q = p /\ j = k)
  <2>1. CASE c = 1
    <3>1. Goto(p, "expire")
      BY <1>3, <2>1
    <3>2. redis'[k].until = None /\ redis'[k].count > 0
      BY <1>4, <1>7, <1>8, <2>1
    <3>3. \A q \in Requests \ {p} : ~Expires(q, k)
      BY <1>4, <1>8, <1>9, <2>1
    <3> QED BY <1>3, <1>11, <2>1, <3>1, <3>2, <3>3, OnwardRows
  <2>2. CASE c # 1
    <3>1. Finish(p)
      BY <1>3, <2>2 DEF Decide
    <3>2. generation' \in Nat /\ generation' >= generation
      BY <1>3 DEF LimitTables
    <3> QED BY <1>3, <1>11, <3>1, <3>2, OverRows
  <2> QED BY <2>1, <2>2
<1>13. NotesOne /\ answers' \in Seq(AnswerType) /\ (\A n \in DOMAIN answers' : answers'[n].at <= clock')
       /\ (Passes(k) <=> c # 1 /\ c <= most) /\ (\A other : other # k => ~Passes(other))
  <2>1. CASE c = 1
    BY <1>3, <2>1 DEF NotesOne, Passes, LimitTables
  <2>2. CASE c # 1
    <3>1. Note(k, c <= most) /\ (c <= most) \in BOOLEAN
      BY <1>3, <2>2 DEF Decide
    <3> HIDE DEF most
    <3>2. PICK b \in BOOLEAN : b = (c <= most) /\ Note(k, b)
      BY <3>1
    <3> QED BY <1>2, <1>3, <2>2, <3>2, NotedTables DEF NotesOne
  <2> QED BY <2>1, <2>2
<1>14. LimitTables'
  BY <1>3, <1>7, <1>13 DEF LimitTables, BreakerType
<1>15. LimitFacts'
  <2>1. redis'[k].count > 0
    BY <1>1, <1>7, <1>6 DEF CounterType
  <2>2. until # None => until <= clock + W
    BY <1>8 DEF LimitFacts
  <2> QED BY <1>3, <1>7, <2>1, <2>2 DEF LimitFacts
<1>16. RoomMoves
  <2> SUFFICES ASSUME NEW T \in Nat, T <= clock + W
               PROVE  /\ Room(k, T)' \in Nat
                      /\ Room(k, T)' + (IF Passes(k) /\ clock < T THEN 1 ELSE 0) <= Room(k, T) + (Quota(k.kind)' - Quota(k.kind))
    <3>1. k # Key("accept", "-")
      BY <1>2 DEF Key
    <3>2. ASSUME NEW j \in Keys2 \ {k}
          PROVE /\ redis'[j] = redis[j] /\ counts'[j] = counts[j]
                /\ \A q \in Requests : Expires(q, j)' => Expires(q, j)
      BY <1>3, <1>7, <1>12
    <3> QED BY <1>2, <1>3, <1>13, <1>14, <3>1, <3>2, OneKeyMoves DEF LimitTables
  <2>1. Quota(k.kind)' = Quota(k.kind) /\ Quota(k.kind) \in Nat
    BY <1>2, <1>3, BudgetStays
  <2>2. Room(k, T) = RedisRoom(k, T) + MemoryRoom(k, T) /\ Room(k, T)' = RedisRoom(k, T)' + MemoryRoom(k, T)'
    BY <1>2 DEF Room
  <2>3. MemoryRoom(k, T)' = MemoryRoom(k, T) /\ MemoryRoom(k, T) \in Nat
    <3>1. MemoryRoom(k, T)' = MemoryRoom(k, T)
      BY <1>3 DEF MemoryRoom, Left
    <3>2. MemoryRoom(k, T) \in Nat
      BY <1>2, <1>3, <1>14, MemoryStays
    <3> QED BY <3>1, <3>2
  <2> DEFINE pending == \E q \in Requests : Expires(q, k)
             later == \E q \in Requests : Expires(q, k)'
  <2>4. RedisRoom(k, T) = IF clock >= T THEN 0
            ELSE Left(redis[k].count, most) + (IF most > 0 /\ pending THEN 1 ELSE 0)
                 + (IF redis[k].until # None /\ redis[k].until < T THEN most ELSE 0)
    BY DEF RedisRoom
  <2>5. RedisRoom(k, T)' = IF clock >= T THEN 0
            ELSE Left(c, most) + (IF most > 0 /\ later THEN 1 ELSE 0)
                 + (IF until # None /\ until < T THEN most ELSE 0)
    BY <1>3, <1>7 DEF RedisRoom, Left
  <2>6. later => pending \/ c = 1
    BY <1>12
  <2>7. pending => ~gone /\ redis[k].until = None /\ redis[k].count > 0
    BY <1>9
  <2>8. Passes(k) <=> c # 1 /\ c <= most
    BY <1>13
  <2>9. gone /\ clock < T => redis[k].until # None /\ redis[k].until < T
    BY <1>2, <1>4
  <2>10. RedisRoom(k, T)' \in Nat /\ RedisRoom(k, T) \in Nat
         /\ RedisRoom(k, T)' + (IF Passes(k) /\ clock < T THEN 1 ELSE 0) <= RedisRoom(k, T)
    <3> DEFINE passes == Passes(k)
    <3> HIDE DEF most, pending, later, gone, until, passes
    <3>1. passes <=> c # 1 /\ c <= most
      BY <2>8 DEF passes
    <3>2. RedisRoom(k, T)' \in Nat /\ RedisRoom(k, T) \in Nat
          /\ RedisRoom(k, T)' + (IF passes /\ clock < T THEN 1 ELSE 0) <= RedisRoom(k, T)
      <4>1. CASE clock >= T
        BY <1>2, <2>4, <2>5, <4>1
      <4>2. CASE clock < T /\ gone
        BY <1>2, <1>4, <1>8, <2>4, <2>5, <2>6, <2>7, <2>9, <3>1, <4>2 DEF Left
      <4>3. CASE clock < T /\ ~gone
        <5> DEFINE x == redis[k].count
                   more == IF redis[k].until # None /\ redis[k].until < T THEN most ELSE 0
                   one == IF most > 0 /\ pending THEN 1 ELSE 0
                   next == IF most > 0 /\ later THEN 1 ELSE 0
        <5>1. x \in Nat /\ c = x + 1 /\ more \in Nat /\ one \in {0, 1} /\ next \in {0, 1}
          BY <1>2, <1>4, <1>8, <4>3
        <5>2. RedisRoom(k, T) = Left(x, most) + one + more /\ RedisRoom(k, T)' = Left(c, most) + next + more
          BY <1>2, <1>8, <2>4, <2>5, <4>3
        <5>3. c # 1 => next <= one
          BY <2>6
        <5>4. most = 0 => next = 0
          OBVIOUS
        <5> HIDE DEF x, more, one, next
        <5>5. CASE c = 1
          BY <1>2, <3>1, <4>3, <5>1, <5>2, <5>4, <5>5 DEF Left
        <5>6. CASE c # 1
          BY <1>2, <3>1, <4>3, <5>1, <5>2, <5>3, <5>6 DEF Left
        <5> QED BY <5>5, <5>6
      <4> QED BY <1>2, <4>1, <4>2, <4>3
    <3> QED BY <3>2 DEF passes
  <2> QED BY <2>1, <2>2, <2>3, <2>10
<1> QED BY <1>12, <1>13, <1>14, <1>15, <1>16 DEF LimitsMoved

LEMMA ExpireMoves ==
    ASSUME Rows, LimitTables, LimitFacts, LimitRows, NEW p \in Requests, NEW k \in Keys2,
           proc[p].op = "limited", proc[p].key = k, Expire(p)
    PROVE  LimitsMoved
<1> DEFINE most == MaxRequests[k.kind]
           W == Window[k.kind]
<1>2. /\ k.kind \in {"ip", "wallet"} /\ most \in Nat /\ W \in Nat /\ clock \in Nat /\ k \in Counted /\ k \in AnswerKeys
  BY LimitsAssumption DEF Keys2, LimitTables, Counted, AnswerKeys
<1>3. /\ proc[p].step = "expire"
      /\ redis' = [redis EXCEPT ![k].until = clock + W]
      /\ Note(k, 1 <= most) /\ Finish(p)
      /\ redisAvailable' = redisAvailable /\ counts' = counts /\ breaker' = breaker
      /\ failedAttempts' = failedAttempts /\ resets' = resets /\ generation' = generation /\ straddled' = straddled
      /\ clock' = clock /\ faults' = faults
  BY DEF Expire, At, accessVars, Quiet, Calm, Decide
<1>4. /\ redis \in [Keys2 -> CounterType] /\ redis[k].count \in Nat /\ redis[k].count > 0 /\ redis[k].until = None
      /\ Expires(p, k)
  <2>1. LimitRow(proc[p])
    BY DEF LimitRows
  <2> QED BY <1>3, <2>1 DEF LimitTables, CounterType, LimitRow, Expires
<1>5. /\ redis' \in [Keys2 -> CounterType] /\ redis'[k].count = redis[k].count /\ redis'[k].until = clock + W
      /\ \A j \in Keys2 \ {k} : redis'[j] = redis[j]
  <2>1. clock + W \in Nat
    BY <1>2
  <2>2. redis[k] \in CounterType
    BY <1>4
  <2> HIDE DEF W
  <2>3. redis'[k] = [redis[k] EXCEPT !.until = clock + W] /\ \A j \in Keys2 \ {k} : redis'[j] = redis[j]
    BY <1>3, <1>4
  <2> QED BY <1>3, <1>4, <2>1, <2>2, <2>3 DEF CounterType
<1>6. ASSUME NEW j \in Keys2, NEW q \in Requests \ {p}, Expires(q, j) PROVE redis'[j].until = None /\ redis'[j].count > 0
  <2>1. LimitRow(proc[q])
    BY DEF LimitRows
  <2>2. redis[j].until = None /\ redis[j].count > 0
    BY <1>6, <2>1 DEF LimitRow, Expires
  <2>3. j # k
    BY <1>4, <1>6 DEF LimitRows
  <2> QED BY <1>5, <2>2, <2>3
<1>7. LimitRows' /\ \A j \in Keys2, q \in Requests : Expires(q, j)' => Expires(q, j) /\ q # p
  <2>1. generation' \in Nat /\ generation' >= generation
    BY <1>3 DEF LimitTables
  <2> QED BY <1>3, <1>6, <2>1, OverRows
<1>8. NotesOne /\ answers' \in Seq(AnswerType) /\ (\A n \in DOMAIN answers' : answers'[n].at <= clock')
       /\ (Passes(k) <=> 1 <= most) /\ (\A other : other # k => ~Passes(other))
  <2> HIDE DEF most
  <2>0. Note(k, 1 <= most) /\ (1 <= most) \in BOOLEAN
    BY <1>3
  <2>1. PICK b \in BOOLEAN : b = (1 <= most) /\ Note(k, b)
    BY <2>0
  <2> QED BY <1>2, <1>3, <2>1, NotedTables DEF NotesOne
<1>9. LimitTables'
  BY <1>3, <1>5, <1>8 DEF LimitTables, BreakerType
<1>10. LimitFacts'
  <2>1. clock + W <= clock + Window[k.kind] /\ redis'[k].count # 0
    BY <1>2, <1>4, <1>5
  <2> HIDE DEF W
  <2> QED BY <1>3, <1>5, <2>1 DEF LimitFacts
<1>11. RoomMoves
  <2> SUFFICES ASSUME NEW T \in Nat, T <= clock + W
               PROVE  /\ Room(k, T)' \in Nat
                      /\ Room(k, T)' + (IF Passes(k) /\ clock < T THEN 1 ELSE 0) <= Room(k, T) + (Quota(k.kind)' - Quota(k.kind))
    <3>1. k # Key("accept", "-")
      BY <1>2 DEF Key
    <3>2. ASSUME NEW j \in Keys2 \ {k}
          PROVE /\ redis'[j] = redis[j] /\ counts'[j] = counts[j]
                /\ \A q \in Requests : Expires(q, j)' => Expires(q, j)
      BY <1>3, <1>5, <1>7
    <3> QED BY <1>2, <1>3, <1>8, <1>9, <3>1, <3>2, OneKeyMoves DEF LimitTables
  <2>1. Quota(k.kind)' = Quota(k.kind) /\ Quota(k.kind) \in Nat
    BY <1>2, <1>3, BudgetStays
  <2>2. Room(k, T) = RedisRoom(k, T) + MemoryRoom(k, T) /\ Room(k, T)' = RedisRoom(k, T)' + MemoryRoom(k, T)'
    BY <1>2 DEF Room
  <2>3. MemoryRoom(k, T)' = MemoryRoom(k, T) /\ MemoryRoom(k, T) \in Nat
    <3>1. MemoryRoom(k, T)' = MemoryRoom(k, T)
      BY <1>3 DEF MemoryRoom, Left
    <3>2. MemoryRoom(k, T) \in Nat
      BY <1>2, <1>3, <1>9, MemoryStays
    <3> QED BY <3>1, <3>2
  <2>4. RedisRoom(k, T) = IF clock >= T THEN 0
            ELSE Left(redis[k].count, most) + (IF most > 0 THEN 1 ELSE 0)
    <3>1. \E q \in Requests : Expires(q, k)
      BY <1>4
    <3> QED BY <1>2, <1>4, <3>1 DEF RedisRoom, Left
  <2>5. RedisRoom(k, T)' = IF clock >= T THEN 0 ELSE Left(redis[k].count, most)
    <3>1. ~\E q \in Requests : Expires(q, k)'
      BY <1>4, <1>7 DEF LimitRows
    <3>2. ~(clock + W < T)
      BY <1>2
    <3> QED BY <1>2, <1>3, <1>4, <1>5, <3>1, <3>2 DEF RedisRoom, Left
  <2>6. Passes(k) <=> 1 <= most
    BY <1>8
  <2>7. RedisRoom(k, T)' \in Nat /\ RedisRoom(k, T) \in Nat
         /\ RedisRoom(k, T)' + (IF Passes(k) /\ clock < T THEN 1 ELSE 0) <= RedisRoom(k, T)
    <3> DEFINE passes == Passes(k)
    <3> HIDE DEF most, passes
    <3>1. passes <=> 1 <= most
      BY <2>6 DEF passes
    <3>2. RedisRoom(k, T)' \in Nat /\ RedisRoom(k, T) \in Nat
          /\ RedisRoom(k, T)' + (IF passes /\ clock < T THEN 1 ELSE 0) <= RedisRoom(k, T)
      BY <1>2, <1>4, <2>4, <2>5, <3>1 DEF Left
    <3> QED BY <3>2 DEF passes
  <2> QED BY <2>1, <2>2, <2>3, <2>7
<1> QED BY <1>7, <1>8, <1>9, <1>10, <1>11 DEF LimitsMoved

LEMMA MemoryMoves ==
    ASSUME Rows, LimitTables, LimitFacts, LimitRows, NEW p \in Requests, NEW k \in Keys2,
           proc[p].op = "limited", proc[p].key = k, CountInMemory(p)
    PROVE  LimitsMoved
<1> DEFINE most == MaxRequests[k.kind]
           W == Window[k.kind]
           old == counts[k].until = None \/ clock > counts[k].until
<1>1. PICK entry : entry = IF old THEN [count |-> 1, until |-> clock + W] ELSE [counts[k] EXCEPT !.count = @ + 1]
  OBVIOUS
<1>2. /\ k.kind \in {"ip", "wallet"} /\ most \in Nat /\ W \in Nat /\ clock \in Nat /\ k \in Counted /\ k \in AnswerKeys
  BY LimitsAssumption DEF Keys2, LimitTables, Counted, AnswerKeys
<1>3. /\ proc[p].step = "memory"
      /\ counts' = [counts EXCEPT ![k] = entry]
      /\ Note(k, entry.count <= most) /\ Finish(p)
      /\ redisAvailable' = redisAvailable /\ redis' = redis /\ breaker' = breaker
      /\ failedAttempts' = failedAttempts /\ resets' = resets /\ generation' = generation /\ straddled' = straddled
      /\ clock' = clock /\ faults' = faults
  BY <1>1 DEF CountInMemory, At, accessVars, Quiet, Calm, Decide
<1>4. /\ counts \in [Keys2 -> CounterType] /\ counts[k].count \in Nat /\ counts[k].until \in Nat \cup {None}
      /\ (counts[k].until = None => counts[k].count = 0)
  BY DEF LimitTables, LimitFacts, CounterType
<1>5. ~redisAvailable
  <2>1. LimitRow(proc[p])
    BY DEF LimitRows
  <2> QED BY <1>3, <2>1 DEF LimitRow
<1>6. /\ old => entry.count = 1 /\ entry.until = clock + W
      /\ ~old => entry.count = counts[k].count + 1 /\ entry.until = counts[k].until
  <2>1. counts[k] \in CounterType
    BY <1>4
  <2> HIDE DEF old, W
  <2> QED BY <1>1, <2>1 DEF CounterType
<1>7. entry \in CounterType
  <2>1. counts[k] \in CounterType /\ clock + W \in Nat
    BY <1>2, <1>4
  <2> HIDE DEF old, W
  <2> QED BY <1>1, <2>1 DEF CounterType
<1>8. counts' \in [Keys2 -> CounterType] /\ counts'[k] = entry /\ \A j \in Keys2 \ {k} : counts'[j] = counts[j]
  BY <1>3, <1>4, <1>7
<1>9. LimitRows' /\ \A j \in Keys2, q \in Requests : Expires(q, j)' => Expires(q, j) /\ q # p
  <2>1. generation' \in Nat /\ generation' >= generation
    BY <1>3 DEF LimitTables
  <2>2. ASSUME NEW j \in Keys2, NEW q \in Requests \ {p}, Expires(q, j) PROVE redis'[j].until = None /\ redis'[j].count > 0
    <3>1. LimitRow(proc[q])
      BY DEF LimitRows
    <3> QED BY <1>3, <2>2, <3>1 DEF LimitRow, Expires
  <2> QED BY <1>3, <2>1, <2>2, OverRows
<1>10. PICK c \in Nat : c = entry.count
  BY <1>7 DEF CounterType
<1>11. NotesOne /\ answers' \in Seq(AnswerType) /\ (\A n \in DOMAIN answers' : answers'[n].at <= clock')
       /\ (Passes(k) <=> c <= most) /\ (\A other : other # k => ~Passes(other))
  <2> HIDE DEF most
  <2>0. Note(k, c <= most) /\ (c <= most) \in BOOLEAN
    BY <1>3, <1>10
  <2>1. PICK b \in BOOLEAN : b = (c <= most) /\ Note(k, b)
    BY <2>0
  <2> QED BY <1>2, <1>3, <2>1, NotedTables DEF NotesOne
<1>12. LimitTables'
  BY <1>3, <1>8, <1>11 DEF LimitTables, BreakerType
<1>13. LimitFacts'
  <2>1. clock + W \in Nat /\ clock + W # None
    BY <1>2, NoneAssumption
  <2>2. entry.until # None
    BY <1>6, <2>1
  <2> QED BY <1>3, <1>8, <2>2 DEF LimitFacts
<1>14. RoomMoves
  <2> SUFFICES ASSUME NEW T \in Nat, T <= clock + W
               PROVE  /\ Room(k, T)' \in Nat
                      /\ Room(k, T)' + (IF Passes(k) /\ clock < T THEN 1 ELSE 0) <= Room(k, T) + (Quota(k.kind)' - Quota(k.kind))
    <3>1. k # Key("accept", "-")
      BY <1>2 DEF Key
    <3>2. ASSUME NEW j \in Keys2 \ {k}
          PROVE /\ redis'[j] = redis[j] /\ counts'[j] = counts[j]
                /\ \A q \in Requests : Expires(q, j)' => Expires(q, j)
      BY <1>3, <1>8, <1>9
    <3>3. /\ clock' = clock /\ faults' >= faults /\ resets' >= resets /\ breaker' = breaker
          /\ (redisAvailable => redisAvailable') /\ \A key \in Counted \ {k} : ~Passes(key)
      BY <1>3, <1>11 DEF LimitTables
    <3> HIDE DEF W, most, old
    <3> QED BY <1>2, <1>12, <3>1, <3>2, <3>3, OneKeyMoves DEF W
  <2>1. Quota(k.kind)' = Quota(k.kind) /\ Quota(k.kind) \in Nat
    BY <1>2, <1>3, BudgetStays
  <2>2. Room(k, T) = RedisRoom(k, T) + MemoryRoom(k, T) /\ Room(k, T)' = RedisRoom(k, T)' + MemoryRoom(k, T)'
    BY <1>2 DEF Room
  <2>3. RedisRoom(k, T)' \in Nat /\ RedisRoom(k, T) \in Nat /\ RedisRoom(k, T)' <= RedisRoom(k, T)
    BY <1>2, <1>3, <1>9, <1>12, RedisStays
  <2>4. MemoryRoom(k, T) = IF clock >= T THEN 0
            ELSE Left(counts[k].count, most) + (IF counts[k].until # None /\ counts[k].until + 1 < T THEN most ELSE 0)
    BY <1>5 DEF MemoryRoom
  <2>5. MemoryRoom(k, T)' = IF clock >= T THEN 0
            ELSE Left(c, most) + (IF entry.until # None /\ entry.until + 1 < T THEN most ELSE 0)
    BY <1>3, <1>5, <1>8, <1>10 DEF MemoryRoom, Left
  <2>6. Passes(k) <=> c <= most
    BY <1>11
  <2>7. MemoryRoom(k, T)' \in Nat /\ MemoryRoom(k, T) \in Nat
         /\ MemoryRoom(k, T)' + (IF Passes(k) /\ clock < T THEN 1 ELSE 0) <= MemoryRoom(k, T)
    <3> DEFINE passes == Passes(k)
               x == counts[k].count
    <3>0. x \in Nat
      BY <1>4
    <3>1. passes <=> c <= most
      BY <2>6
    <3>2. CASE old
      <4>1. c = 1 /\ ~(entry.until + 1 < T)
        BY <1>2, <1>6, <1>10, <3>2
      <4>2. clock < T => x = 0 \/ (counts[k].until # None /\ counts[k].until + 1 < T)
        BY <1>2, <1>4, <3>2
      <4> HIDE DEF most, passes, old, W, x
      <4>3. CASE clock < T /\ x = 0
        <5>1. MemoryRoom(k, T)' = Left(1, most) /\ MemoryRoom(k, T) = Left(0, most) + (IF counts[k].until # None /\ counts[k].until + 1 < T THEN most ELSE 0)
          BY <1>2, <2>4, <2>5, <4>1, <4>3 DEF Left, x
        <5> QED BY <1>2, <3>1, <4>1, <4>3, <5>1 DEF Left, passes
      <4>4. CASE clock < T /\ x # 0
        <5>1. MemoryRoom(k, T)' = Left(1, most) /\ MemoryRoom(k, T) = Left(x, most) + most
          BY <1>2, <2>4, <2>5, <4>1, <4>2, <4>4 DEF Left, x
        <5> QED BY <1>2, <3>0, <3>1, <4>1, <4>4, <5>1 DEF Left, passes
      <4>5. CASE clock >= T
        BY <1>2, <2>4, <2>5, <4>5
      <4> QED BY <1>2, <4>3, <4>4, <4>5
    <3>3. CASE ~old
      <4>1. c = x + 1 /\ entry.until = counts[k].until
        BY <1>6, <1>10, <3>3
      <4> DEFINE more == IF counts[k].until # None /\ counts[k].until + 1 < T THEN most ELSE 0
      <4>2. more \in Nat
        BY <1>2
      <4>3. MemoryRoom(k, T)' = (IF clock >= T THEN 0 ELSE Left(c, most) + more)
            /\ MemoryRoom(k, T) = (IF clock >= T THEN 0 ELSE Left(x, most) + more)
        BY <2>4, <2>5, <4>1
      <4> HIDE DEF most, passes, old, W, x, more
      <4> QED BY <1>2, <3>0, <3>1, <4>1, <4>2, <4>3 DEF Left, passes
    <3> QED BY <3>2, <3>3
  <2> QED BY <2>1, <2>2, <2>3, <2>7
<1> QED BY <1>9, <1>11, <1>12, <1>13, <1>14 DEF LimitsMoved

LEMMA RedisFailsMoves ==
    ASSUME Rows, LimitTables, LimitFacts, LimitRows, NEW p \in Requests, RedisFails(p)
    PROVE  LimitsMoved
<1>1. /\ redis' = redis /\ redisAvailable' = FALSE /\ counts' = counts /\ breaker' = breaker
      /\ failedAttempts' = failedAttempts /\ answers' = answers /\ resets' = resets /\ generation' = generation
      /\ straddled' = straddled /\ clock' = clock /\ faults' = faults + 1 /\ Goto(p, "memory")
      /\ proc[p].op = "limited"
  BY DEF RedisFails, accessVars
<1>2. LimitTables' /\ LimitFacts'
  <2>1. faults \in Nat /\ faults' \in Nat /\ faults' > 0
    BY <1>1 DEF LimitTables
  <2>2. LimitTables'
    BY <1>1, <2>1 DEF LimitTables, CounterType, BreakerType
  <2> QED BY <1>1, <2>1, <2>2 DEF LimitFacts
<1>3. LimitRows' /\ \A j \in Keys2, q \in Requests : Expires(q, j)' => Expires(q, j)
  <2>1. ASSUME NEW j \in Keys2, NEW q \in Requests \ {p}, Expires(q, j) PROVE redis'[j].until = None /\ redis'[j].count > 0
    <3>1. LimitRow(proc[q])
      BY DEF LimitRows
    <3> QED BY <1>1, <2>1, <3>1 DEF LimitRow, Expires
  <2> QED BY <1>1, <2>1, OnwardRows
<1>4. RoomMoves
  <2> SUFFICES ASSUME NEW key \in Counted, NEW T \in Nat
               PROVE  /\ Room(key, T)' \in Nat
                      /\ Room(key, T)' + (IF Passes(key) /\ clock < T THEN 1 ELSE 0)
                             <= Room(key, T) + (Quota(key.kind)' - Quota(key.kind))
    BY DEF RoomMoves
  <2>1. ~Passes(key)
    BY <1>1 DEF Passes
  <2>2. key.kind \in {"ip", "wallet", "accept"}
    BY DEF Counted, Keys2, Key
  <2>3. /\ Quota(key.kind) \in Nat /\ Quota(key.kind)' \in Nat
        /\ Quota(key.kind)' >= Quota(key.kind) + 2 * MaxRequests[key.kind]
    <3>1. faults' > faults /\ faults' >= faults /\ resets' >= resets /\ faults' \in Nat /\ resets' \in Nat
      BY <1>1 DEF LimitTables
    <3> QED BY <2>2, <3>1, BudgetMoves DEF LimitTables
  <2>4. MaxRequests[key.kind] \in Nat
    BY <2>2, LimitsAssumption
  <2>5. clock' >= clock
    BY <1>1 DEF LimitTables
  <2>6. CASE key \in Keys2
    <3>1. Room(key, T) = RedisRoom(key, T) + MemoryRoom(key, T) /\ Room(key, T)' = RedisRoom(key, T)' + MemoryRoom(key, T)'
      BY <2>6 DEF Room, Keys2
    <3>2. RedisRoom(key, T)' \in Nat /\ RedisRoom(key, T) \in Nat /\ RedisRoom(key, T)' <= RedisRoom(key, T)
      BY <1>1, <1>2, <1>3, <2>5, <2>6, RedisStays
    <3>3. MemoryRoom(key, T)' \in Nat /\ MemoryRoom(key, T) \in Nat /\ MemoryRoom(key, T)' <= 2 * MaxRequests[key.kind]
      BY <1>1, <1>2, <2>5, <2>6, MemoryStays
    <3> QED BY <2>1, <2>3, <2>4, <3>1, <3>2, <3>3
  <2>7. CASE key = Key("accept", "-")
    <3>1. Room(key, T)' = BreakerRoom(breaker, T)' /\ Room(key, T) = BreakerRoom(breaker, T)
      BY <2>7 DEF Room, Key
    <3>2. Room(key, T)' \in Nat /\ Room(key, T) \in Nat /\ Room(key, T)' <= Room(key, T)
      BY <1>1, <1>2, <2>5, <3>1, BreakerStays
    <3> QED BY <2>1, <2>3, <2>4, <3>2
  <2> QED BY <2>6, <2>7 DEF Counted
<1> QED BY <1>1, <1>2, <1>3, <1>4 DEF LimitsMoved, NotesOne

\* Only the breaker counts.
LEMMA BreakerOnly ==
    ASSUME Rows, LimitTables, LimitFacts, LimitTables', clock' = clock, faults' = faults, resets' >= resets,
           redis' = redis, counts' = counts, redisAvailable' = redisAvailable,
           \A j \in Keys2, q \in Requests : Expires(q, j)' => Expires(q, j),
           \A key \in Keys2 : ~Passes(key),
           \A T \in Nat : T <= clock + Window["accept"] =>
               BreakerRoom(breaker, T)' + (IF Passes(Key("accept", "-")) /\ clock < T THEN 1 ELSE 0)
                   <= BreakerRoom(breaker, T) + (Quota("accept")' - Quota("accept"))
    PROVE  RoomMoves
<1> DEFINE k == Key("accept", "-")
<1>2. k \in Counted /\ k.kind = "accept" /\ \A j \in Keys2 : j # k
  BY DEF Counted, Key, Keys2
<1>3. ASSUME NEW T \in Nat PROVE Room(k, T)' = BreakerRoom(breaker, T)' /\ Room(k, T) = BreakerRoom(breaker, T)
  BY DEF Room, Key
<1>4. ASSUME NEW T \in Nat PROVE BreakerRoom(breaker, T)' \in Nat
  <2>1. /\ MaxRequests["accept"] \in Nat /\ Window["accept"] \in Nat /\ ResetTimeout \in Nat /\ clock' \in Nat /\ breaker'.accepts \in Nat
    BY LimitsAssumption DEF BreakerType, LimitTables
  <2> QED BY <2>1, SMTT(30) DEF BreakerRoom, Left
<1> HIDE DEF k
<1>5. \A key \in Counted \ {k} : ~Passes(key) /\ key \in Keys2
  BY DEF Counted, k
<1>6. faults' >= faults /\ (redisAvailable => redisAvailable')
  BY DEF LimitTables
<1>7. ASSUME NEW T \in Nat, T <= clock + Window[k.kind]
      PROVE  /\ Room(k, T)' \in Nat
             /\ Room(k, T)' + (IF Passes(k) /\ clock < T THEN 1 ELSE 0)
                    <= Room(k, T) + (Quota(k.kind)' - Quota(k.kind))
  <2>1. BreakerRoom(breaker, T)' + (IF Passes(k) /\ clock < T THEN 1 ELSE 0)
            <= BreakerRoom(breaker, T) + (Quota("accept")' - Quota("accept"))
    BY <1>2, <1>7 DEF k
  <2>2. Quota(k.kind)' = Quota("accept")' /\ Quota(k.kind) = Quota("accept")
    BY <1>2
  <2> QED BY <1>3, <1>4, <2>1, <2>2
<1>8. k # Key("accept", "-") => breaker' = breaker
  BY DEF k
<1> QED BY <1>2, <1>5, <1>6, <1>7, <1>8, OneKeyMoves

\* No counter is touched, and the answer, if any, is not one that these count.
LEMMA AcceptAnswersMoves ==
    ASSUME Rows, LimitTables, LimitFacts, LimitRows, NEW p \in Requests, AcceptAnswers(p)
    PROVE  LimitsMoved
<1>1. /\ redis' = redis /\ redisAvailable' = redisAvailable /\ counts' = counts /\ breaker' = breaker
      /\ failedAttempts' = failedAttempts /\ answers' = answers /\ resets' = resets /\ generation' = generation
      /\ straddled' = straddled /\ clock' = clock /\ faults' = faults /\ Finish(p)
  BY DEF AcceptAnswers, accessVars, limitVars, Quiet, Calm
<1>2. LimitTables' /\ LimitFacts'
  BY <1>1 DEF LimitTables, LimitFacts, CounterType, BreakerType
<1>3. LimitRows' /\ \A j \in Keys2, q \in Requests : Expires(q, j)' => Expires(q, j)
  <2>1. ASSUME NEW j \in Keys2, NEW q \in Requests \ {p}, Expires(q, j) PROVE redis'[j].until = None /\ redis'[j].count > 0
    <3>1. LimitRow(proc[q])
      BY DEF LimitRows
    <3> QED BY <1>1, <2>1, <3>1 DEF LimitRow, Expires
  <2>2. generation' \in Nat /\ generation' >= generation
    BY <1>1 DEF LimitTables
  <2> QED BY <1>1, <2>1, <2>2, OverRows
<1>4. RoomMoves
  <2>1. \A key \in Counted : ~Passes(key)
    BY <1>1 DEF Passes
  <2>2. clock' >= clock /\ faults' >= faults /\ resets' >= resets
    BY <1>1 DEF LimitTables
  <2> QED BY <1>1, <1>2, <1>3, <2>1, <2>2, RoomsStay
<1> QED BY <1>1, <1>2, <1>3, <1>4 DEF LimitsMoved, NotesOne

\* The counters of Redis and of memory stay as they are.
LEMMA CountersStay ==
    ASSUME LimitTables, LimitFacts, clock' = clock, faults' = faults, redis' = redis, counts' = counts,
           redisAvailable' = redisAvailable, breaker' \in BreakerType,
           breaker'.errors <= breaker'.requests, breaker'.accepts <= breaker'.requests, breaker'.since <= clock,
           breaker'.isOpen => breaker'.trippedAt \in Nat /\ breaker'.trippedAt <= clock,
           resets' \in Nat, generation' \in Nat, straddled' \in BOOLEAN, failedAttempts' \in [Clients -> SUBSET Nat],
           answers' \in Seq(AnswerType), \A n \in DOMAIN answers' : answers'[n].at <= clock
    PROVE  LimitTables' /\ LimitFacts'
BY DEF LimitTables, LimitFacts

\* A request that begins and does nothing more, or waits for its acceptance
LEMMA BegunRows ==
    ASSUME Rows, LimitTables, LimitRows, NEW p \in Requests, NEW r, Begins(p, r), r \in [op : {"idle"}] \/ r = [op |-> "limitAccept", step |-> "handle", seen |-> generation'],
           generation' \in Nat, generation' >= generation, redisAvailable' = redisAvailable, redis' = redis
    PROVE  LimitRows' /\ OthersKeep(p) /\ \A j \in Keys2, q \in Requests : Expires(q, j)' => Expires(q, j)
<1>1. OthersKeep(p) /\ proc'[p] = With(Idle, r)
  BY DEF Begins
<1>2. LimitRow(proc[p])' /\ proc'[p].op # "limited"
  <2>1. CASE r \in [op : {"idle"}]
    <3>1. proc'[p].op = "idle"
      BY <1>1, <2>1 DEF With
    <3> QED BY <3>1 DEF LimitRow
  <2>2. CASE r = [op |-> "limitAccept", step |-> "handle", seen |-> generation']
    <3>1. proc'[p].op = "limitAccept" /\ proc'[p].step = "handle" /\ proc'[p].seen = generation' /\ "seen" \in DOMAIN proc'[p]
      BY <1>1, <2>2 DEF With
    <3> QED BY <3>1 DEF LimitRow
  <2> QED BY <2>1, <2>2
<1>3. ASSUME NEW j \in Keys2, NEW q \in Requests, Expires(q, j)' PROVE Expires(q, j) /\ q # p
  <2>1. q # p
    BY <1>2, <1>3 DEF Expires
  <2> QED BY <1>1, <1>3, <2>1 DEF Expires, OthersKeep
<1>4. ASSUME NEW j \in Keys2, NEW q \in Requests \ {p}, Expires(q, j)
      PROVE  redis'[j].until = None /\ redis'[j].count > 0 /\ ~Expires(p, j)'
  <2>1. LimitRow(proc[q])
    BY DEF LimitRows
  <2>2. ~Expires(p, j)'
    BY <1>2 DEF Expires
  <2> QED BY <1>4, <2>1, <2>2 DEF LimitRow, Expires
<1> QED BY <1>1, <1>2, <1>3, <1>4, RowsStay DEF LimitTables

\* The breaker trips now at the earliest, or not: no more room within a window.
LEMMA CountedRoom ==
    ASSUME LimitTables, LimitFacts, clock' = clock, breaker' \in BreakerType, NEW T \in Nat, T <= clock + Window["accept"],
           NEW a \in {0, 1}, breaker'.accepts = Checked.accepts + a, breaker'.since = Checked.since,
           breaker'.isOpen => (breaker'.trippedAt = clock \/ (Checked.isOpen /\ breaker'.trippedAt = Checked.trippedAt))
    PROVE  /\ BreakerRoom(breaker, T)' \in Nat
           /\ BreakerRoom(breaker, T)' + (IF clock < T /\ a = 1 /\ breaker'.accepts <= MaxRequests["accept"] THEN 1 ELSE 0)
                  <= BreakerRoom(breaker, T)
<1> DEFINE most == MaxRequests["accept"]
           W == Window["accept"]
           x == Checked.accepts
           second == IF Checked.since + W + 1 < T THEN most ELSE 0
           third == IF Checked.isOpen /\ Checked.trippedAt + ResetTimeout + 1 < T THEN most ELSE 0
           later == IF breaker'.isOpen /\ breaker'.trippedAt + ResetTimeout + 1 < T THEN most ELSE 0
<1>1. most \in Nat /\ W \in Nat /\ ResetTimeout \in Nat /\ ResetTimeout >= W /\ clock \in Nat
  BY LimitsAssumption DEF LimitTables
<1>2. x \in Nat /\ Checked \in BreakerType
  BY CheckedFacts DEF BreakerType
<1>3. BreakerRoom(Checked, T) <= BreakerRoom(breaker, T) /\ BreakerRoom(Checked, T) \in Nat /\ BreakerRoom(breaker, T) \in Nat
  BY CheckedRoom
<1>4. BreakerRoom(Checked, T) = IF clock >= T THEN 0 ELSE Left(x, most) + second + third
  BY DEF BreakerRoom
<1>5. BreakerRoom(breaker, T)' = IF clock >= T THEN 0 ELSE Left(x + a, most) + second + later
  BY DEF BreakerRoom, Left
<1>6. later <= third /\ later \in Nat /\ third \in Nat /\ second \in Nat
  <2>1. ~(clock + ResetTimeout + 1 < T)
    BY <1>1
  <2> QED BY <1>1, <2>1
<1> HIDE DEF most, x, second, third, later
<1>7. BreakerRoom(breaker, T)' \in Nat
      /\ BreakerRoom(breaker, T)' + (IF clock < T /\ a = 1 /\ x + a <= most THEN 1 ELSE 0) <= BreakerRoom(Checked, T)
  BY <1>1, <1>2, <1>4, <1>5, <1>6 DEF Left
<1>8. PICK new \in Nat : new = BreakerRoom(breaker, T)'
  BY <1>7
<1>9. PICK old \in Nat : old = BreakerRoom(breaker, T)
  BY <1>3
<1>10. PICK mid \in Nat : mid = BreakerRoom(Checked, T)
  BY <1>3
<1>11. new + (IF clock < T /\ a = 1 /\ x + a <= most THEN 1 ELSE 0) <= old
  BY <1>3, <1>7, <1>8, <1>9, <1>10
<1> QED BY <1>8, <1>9, <1>11 DEF x, most

LEMMA NextGenerationFacts ==
    ASSUME LimitTables
    PROVE  NextGeneration \in Nat /\ NextGeneration >= generation /\ (Checked # breaker => NextGeneration = generation + 1)
           /\ (Checked = breaker => NextGeneration = generation)
BY DEF LimitTables, NextGeneration

AcceptKey == Key("accept", "-")

LEMMA RecordAcceptMoves ==
    ASSUME Rows, LimitTables, LimitFacts, LimitRows, NEW p \in Requests, RecordAccept(p)
    PROVE  LimitsMoved
<1> DEFINE b == [Checked EXCEPT !.accepts = @ + 1, !.requests = @ + 1]
           passed == b.accepts <= MaxRequests["accept"]
           r == IF passed THEN [op |-> "limitAccept", step |-> "handle", seen |-> NextGeneration] ELSE [op |-> "idle"]
<1>1. /\ Start(p, r) /\ breaker' = (IF passed THEN b ELSE Trip(b)) /\ generation' = NextGeneration
      /\ Note(AcceptKey, passed)
      /\ redis' = redis /\ redisAvailable' = redisAvailable /\ counts' = counts
      /\ failedAttempts' = failedAttempts /\ resets' = resets /\ straddled' = straddled /\ clock' = clock
  BY DEF RecordAccept, accessVars, AcceptKey
<1>2. b = [isOpen |-> Checked.isOpen, trippedAt |-> Checked.trippedAt, requests |-> Checked.requests + 1,
           errors |-> Checked.errors + 0, accepts |-> Checked.accepts + 1, since |-> Checked.since]
  <2>1. Checked \in BreakerType
    BY CheckedFacts
  <2>2. Checked.errors + 0 = Checked.errors /\ Checked.isOpen \in BOOLEAN
    BY <2>1 DEF BreakerType
  <2> DEFINE c == [Checked EXCEPT !.accepts = @ + 1]
  <2>3. c = [isOpen |-> Checked.isOpen, trippedAt |-> Checked.trippedAt, requests |-> Checked.requests,
             errors |-> Checked.errors, accepts |-> Checked.accepts + 1, since |-> Checked.since]
    BY <2>1, <2>2 DEF BreakerType
  <2>4. b = [c EXCEPT !.requests = @ + 1]
    BY <2>1 DEF BreakerType
  <2> HIDE DEF c, b
  <2> QED BY <2>2, <2>3, <2>4
<1>3. b.accepts = Checked.accepts + 1
  BY <1>2
<1> HIDE DEF b
<1>4. PICK trip \in BOOLEAN : trip = ~passed
  OBVIOUS
<1>5. breaker' = IF trip THEN Trip(b) ELSE b
  BY <1>1, <1>4
<1>6. /\ breaker' \in BreakerType
      /\ breaker'.accepts = Checked.accepts + 1 /\ breaker'.since = Checked.since
      /\ breaker'.errors <= breaker'.requests /\ breaker'.accepts <= breaker'.requests /\ breaker'.since <= clock'
      /\ (breaker'.isOpen => breaker'.trippedAt \in Nat /\ breaker'.trippedAt <= clock')
      /\ (breaker'.isOpen => (trip /\ breaker'.trippedAt = clock) \/ (Checked.isOpen /\ breaker'.trippedAt = Checked.trippedAt))
  BY <1>1, <1>2, <1>5, BreakerCounts
<1>7. Begins(p, r) /\ faults' = faults
  BY <1>1, StartBegins DEF Begins
<1>8. AcceptKey \in AnswerKeys /\ passed \in BOOLEAN
  BY DEF AcceptKey, AnswerKeys, Counted
<1>9. /\ NotesOne /\ answers' \in Seq(AnswerType) /\ (\A n \in DOMAIN answers' : answers'[n].at <= clock')
      /\ (Passes(AcceptKey) <=> passed) /\ (\A other : other # AcceptKey => ~Passes(other))
  <2> HIDE DEF passed
  <2> QED BY <1>1, <1>8, NotedTables DEF NotesOne
<1>10. LimitTables' /\ LimitFacts'
  <2>1. resets' \in Nat /\ generation' \in Nat /\ straddled' \in BOOLEAN /\ failedAttempts' \in [Clients -> SUBSET Nat]
    BY <1>1, NextGenerationFacts DEF LimitTables
  <2> QED BY <1>1, <1>6, <1>7, <1>9, <2>1, CountersStay
<1>11. LimitRows' /\ \A j \in Keys2, q \in Requests : Expires(q, j)' => Expires(q, j)
  <2>1. r \in [op : {"idle"}] \/ r = [op |-> "limitAccept", step |-> "handle", seen |-> generation']
    <3> HIDE DEF passed
    <3> QED BY <1>1
  <2>2. generation' \in Nat /\ generation' >= generation
    BY <1>1, NextGenerationFacts
  <2> HIDE DEF r
  <2> QED BY <1>1, <1>7, <2>1, <2>2, BegunRows
<1>12. RoomMoves
  <2>1. ASSUME NEW T \in Nat, T <= clock + Window["accept"]
        PROVE  BreakerRoom(breaker, T)' + (IF Passes(AcceptKey) /\ clock < T THEN 1 ELSE 0)
                   <= BreakerRoom(breaker, T) + (Quota("accept")' - Quota("accept"))
    <3>1. Quota("accept")' = Quota("accept") /\ Quota("accept") \in Nat
      BY <1>1, <1>7, BudgetStays
    <3>2. /\ BreakerRoom(breaker, T)' \in Nat
          /\ BreakerRoom(breaker, T)' + (IF clock < T /\ 1 = 1 /\ breaker'.accepts <= MaxRequests["accept"] THEN 1 ELSE 0)
                  <= BreakerRoom(breaker, T)
      BY <1>1, <1>6, <2>1, CountedRoom
    <3>3. Passes(AcceptKey) <=> breaker'.accepts <= MaxRequests["accept"]
      BY <1>3, <1>6, <1>9
    <3>4. BreakerRoom(breaker, T) \in Nat
      BY BreakerRoomFits DEF LimitTables
    <3> QED BY <3>1, <3>2, <3>3, <3>4
  <2>2. \A key \in Keys2 : ~Passes(key)
    BY <1>9 DEF AcceptKey, Key, Keys2
  <2>3. resets' >= resets
    BY <1>1 DEF LimitTables
  <2> QED BY <1>1, <1>7, <1>10, <1>11, <2>1, <2>2, <2>3, BreakerOnly DEF AcceptKey
<1> QED BY <1>9, <1>10, <1>11, <1>12 DEF LimitsMoved

LEMMA RecordErrorMoves ==
    ASSUME Rows, LimitTables, LimitFacts, LimitRows, NEW p \in Requests, NEW is5xx \in BOOLEAN, RecordError(p, is5xx)
    PROVE  LimitsMoved
<1> DEFINE b == [Checked EXCEPT !.requests = @ + 1, !.errors = IF is5xx THEN @ + 1 ELSE @]
<1>1. /\ proc[p].op = "limitAccept" /\ Finish(p)
      /\ breaker' = (IF 2 * b.errors > b.requests THEN Trip(b) ELSE b)
      /\ generation' = NextGeneration /\ straddled' = (straddled \/ proc[p].seen # NextGeneration)
      /\ redis' = redis /\ redisAvailable' = redisAvailable /\ counts' = counts /\ answers' = answers
      /\ failedAttempts' = failedAttempts /\ resets' = resets /\ clock' = clock /\ faults' = faults
  BY DEF RecordError, accessVars, At, Quiet, Calm
<1>2. PICK e \in {0, 1} : e = IF is5xx THEN 1 ELSE 0
  OBVIOUS
<1>3. b = [isOpen |-> Checked.isOpen, trippedAt |-> Checked.trippedAt, requests |-> Checked.requests + 1,
           errors |-> Checked.errors + e, accepts |-> Checked.accepts + 0, since |-> Checked.since]
  <2>1. Checked \in BreakerType
    BY CheckedFacts
  <2>2. Checked.errors \in Nat /\ Checked.accepts + 0 = Checked.accepts /\ Checked.isOpen \in BOOLEAN
    BY <2>1 DEF BreakerType
  <2>3. (IF is5xx THEN Checked.errors + 1 ELSE Checked.errors) = Checked.errors + e
    BY <1>2, <2>2
  <2> DEFINE c == [Checked EXCEPT !.requests = @ + 1]
  <2>4. c = [isOpen |-> Checked.isOpen, trippedAt |-> Checked.trippedAt, requests |-> Checked.requests + 1,
             errors |-> Checked.errors, accepts |-> Checked.accepts, since |-> Checked.since]
    BY <2>1, <2>2 DEF BreakerType
  <2>5. b = [c EXCEPT !.errors = Checked.errors + e]
    BY <2>1, <2>3 DEF BreakerType
  <2> HIDE DEF c, b
  <2> QED BY <2>2, <2>4, <2>5
<1> HIDE DEF b
<1>4. PICK trip \in BOOLEAN : trip = (2 * b.errors > b.requests)
  <2>1. (2 * b.errors > b.requests) \in BOOLEAN
    OBVIOUS
  <2> QED BY <2>1
<1>5. breaker' = IF trip THEN Trip(b) ELSE b
  BY <1>1, <1>4
<1>6. /\ breaker' \in BreakerType
      /\ breaker'.accepts = Checked.accepts + 0 /\ breaker'.since = Checked.since
      /\ breaker'.errors <= breaker'.requests /\ breaker'.accepts <= breaker'.requests /\ breaker'.since <= clock'
      /\ (breaker'.isOpen => breaker'.trippedAt \in Nat /\ breaker'.trippedAt <= clock')
      /\ (breaker'.isOpen => (trip /\ breaker'.trippedAt = clock) \/ (Checked.isOpen /\ breaker'.trippedAt = Checked.trippedAt))
  BY <1>1, <1>2, <1>3, <1>5, BreakerCounts
<1>7. generation' \in Nat /\ generation' >= generation
  BY <1>1, NextGenerationFacts
<1>8. LimitTables' /\ LimitFacts'
  <2>1. straddled' \in BOOLEAN /\ resets' \in Nat /\ failedAttempts' \in [Clients -> SUBSET Nat]
        /\ answers' \in Seq(AnswerType) /\ \A n \in DOMAIN answers' : answers'[n].at <= clock
    BY <1>1 DEF LimitTables
  <2> QED BY <1>1, <1>6, <1>7, <2>1, CountersStay
<1>9. LimitRows' /\ \A j \in Keys2, q \in Requests : Expires(q, j)' => Expires(q, j)
  <2>1. ASSUME NEW j \in Keys2, NEW q \in Requests \ {p}, Expires(q, j) PROVE redis'[j].until = None /\ redis'[j].count > 0
    <3>1. LimitRow(proc[q])
      BY DEF LimitRows
    <3> QED BY <1>1, <2>1, <3>1 DEF LimitRow, Expires
  <2> QED BY <1>1, <1>7, <2>1, OverRows
<1>10. \A key : ~Passes(key)
  BY <1>1 DEF Passes
<1>11. RoomMoves
  <2>1. ASSUME NEW T \in Nat, T <= clock + Window["accept"]
        PROVE  BreakerRoom(breaker, T)' + (IF Passes(AcceptKey) /\ clock < T THEN 1 ELSE 0)
                   <= BreakerRoom(breaker, T) + (Quota("accept")' - Quota("accept"))
    <3>1. Quota("accept")' = Quota("accept") /\ Quota("accept") \in Nat
      BY <1>1, BudgetStays
    <3>2. /\ BreakerRoom(breaker, T)' \in Nat
          /\ BreakerRoom(breaker, T)' + (IF clock < T /\ 0 = 1 /\ breaker'.accepts <= MaxRequests["accept"] THEN 1 ELSE 0)
                  <= BreakerRoom(breaker, T)
      BY <1>1, <1>6, <2>1, CountedRoom
    <3>4. BreakerRoom(breaker, T) \in Nat
      BY BreakerRoomFits DEF LimitTables
    <3> QED BY <1>10, <3>1, <3>2, <3>4
  <2>3. resets' >= resets
    BY <1>1 DEF LimitTables
  <2> QED BY <1>1, <1>8, <1>9, <1>10, <2>1, <2>3, BreakerOnly DEF AcceptKey
<1> QED BY <1>1, <1>8, <1>9, <1>11 DEF LimitsMoved, NotesOne

LEMMA AdminRefusedMoves ==
    ASSUME Rows, LimitTables, LimitFacts, LimitRows, NEW p \in Requests, NEW c \in Clients, AdminRefused(p, c)
    PROVE  LimitsMoved
<1> DEFINE r == [op |-> "idle"]
           recent == {n \in failedAttempts[c] : clock - answers[n].at < Window["admin"]}
           attempts == recent \cup {Len(answers) + 1}
           k == Key("admin", c)
<1>1. /\ Start(p, r)
      /\ failedAttempts' = [failedAttempts EXCEPT ![c] = attempts]
      /\ Note(k, Cardinality(attempts) <= MaxRequests["admin"])
      /\ redis' = redis /\ redisAvailable' = redisAvailable /\ counts' = counts /\ breaker' = breaker
      /\ resets' = resets /\ generation' = generation /\ straddled' = straddled /\ clock' = clock
  BY DEF AdminRefused, accessVars
<1>2. Begins(p, r) /\ faults' = faults
  BY <1>1, StartBegins DEF Begins
<1>3. k \in AnswerKeys /\ k.kind = "admin"
  BY DEF AnswerKeys, Key
<1>4. attempts \subseteq Nat
  BY DEF LimitTables
<1>5. /\ NotesOne /\ answers' \in Seq(AnswerType) /\ (\A n \in DOMAIN answers' : answers'[n].at <= clock')
      /\ (\A other : other # k => ~Passes(other))
  <2> HIDE DEF attempts, k
  <2>0. (Cardinality(attempts) <= MaxRequests["admin"]) \in BOOLEAN
    OBVIOUS
  <2>1. PICK b \in BOOLEAN : b = (Cardinality(attempts) <= MaxRequests["admin"])
    BY <2>0
  <2>2. Note(k, b)
    BY <1>1, <2>1
  <2> QED BY <1>1, <1>3, <2>2, NotedTables DEF NotesOne
<1>6. failedAttempts' \in [Clients -> SUBSET Nat]
  <2> HIDE DEF attempts
  <2> QED BY <1>1, <1>4 DEF LimitTables
<1>7. LimitTables' /\ LimitFacts'
  <2>1. /\ breaker' \in BreakerType /\ breaker'.errors <= breaker'.requests /\ breaker'.accepts <= breaker'.requests
        /\ breaker'.since <= clock /\ resets' \in Nat /\ generation' \in Nat /\ straddled' \in BOOLEAN
        /\ (breaker'.isOpen => breaker'.trippedAt \in Nat /\ breaker'.trippedAt <= clock')
    BY <1>1 DEF LimitTables, LimitFacts
  <2> QED BY <1>1, <1>2, <1>5, <1>6, <2>1, CountersStay
<1>8. LimitRows' /\ \A j \in Keys2, q \in Requests : Expires(q, j)' => Expires(q, j)
  <2>1. r \in [op : {"idle"}]
    OBVIOUS
  <2>2. generation' \in Nat /\ generation' >= generation
    BY <1>1 DEF LimitTables
  <2> HIDE DEF r
  <2> QED BY <1>1, <1>2, <2>1, <2>2, BegunRows
<1>9. RoomMoves
  <2>1. \A key \in Counted : ~Passes(key)
    BY <1>3, <1>5 DEF Counted, Keys2, Key
  <2>2. clock' >= clock /\ faults' >= faults /\ resets' >= resets
    BY <1>1, <1>2 DEF LimitTables
  <2> QED BY <1>1, <1>7, <1>8, <2>1, <2>2, RoomsStay
<1> QED BY <1>5, <1>7, <1>8, <1>9 DEF LimitsMoved

\* What an operator does with the token
LEMMA OperatorMoves ==
    ASSUME Rows, LimitTables, LimitFacts, LimitRows, NEW p \in Requests, NEW c \in Clients,
           GetBreakerStatus(p, c) \/ ResetBreaker(p, c)
    PROVE  LimitsMoved
<1> DEFINE r == [op |-> "idle"]
<1>1. /\ Start(p, r)
      /\ failedAttempts' = [failedAttempts EXCEPT ![c] = {}]
      /\ redis' = redis /\ redisAvailable' = redisAvailable /\ counts' = counts
      /\ answers' = answers /\ straddled' = straddled /\ clock' = clock
      /\ \/ breaker' = Checked /\ generation' = NextGeneration /\ resets' = resets
         \/ breaker' = Closed /\ generation' = generation + 1 /\ resets' = resets + 1
  BY DEF GetBreakerStatus, ResetBreaker, accessVars
<1>2. Begins(p, r) /\ faults' = faults
  BY <1>1, StartBegins DEF Begins
<1>3. /\ breaker' \in BreakerType /\ breaker'.errors <= breaker'.requests /\ breaker'.accepts <= breaker'.requests
      /\ breaker'.since <= clock /\ (breaker'.isOpen => breaker'.trippedAt \in Nat /\ breaker'.trippedAt <= clock')
  <2>1. CASE breaker' = Checked
    BY <1>1, <2>1, CheckedFacts
  <2>2. CASE breaker' = Closed
    <3>1. Closed.isOpen = FALSE /\ Closed.errors = 0 /\ Closed.requests = 0 /\ Closed.accepts = 0 /\ Closed.since = clock
      BY DEF Closed
    <3> QED BY <1>1, <2>2, <3>1, CheckedFacts DEF LimitTables
  <2> QED BY <1>1, <2>1, <2>2
<1>4. generation' \in Nat /\ generation' >= generation /\ resets' \in Nat /\ resets' >= resets
  BY <1>1, NextGenerationFacts DEF LimitTables
<1>5. LimitTables' /\ LimitFacts'
  <2>1. straddled' \in BOOLEAN /\ failedAttempts' \in [Clients -> SUBSET Nat]
        /\ answers' \in Seq(AnswerType) /\ \A n \in DOMAIN answers' : answers'[n].at <= clock
    BY <1>1 DEF LimitTables
  <2> QED BY <1>1, <1>2, <1>3, <1>4, <2>1, CountersStay
<1>6. LimitRows' /\ \A j \in Keys2, q \in Requests : Expires(q, j)' => Expires(q, j)
  <2>1. r \in [op : {"idle"}]
    OBVIOUS
  <2> HIDE DEF r
  <2> QED BY <1>1, <1>2, <1>4, <2>1, BegunRows
<1>7. \A key : ~Passes(key)
  BY <1>1 DEF Passes
<1>8. RoomMoves
  <2>1. ASSUME NEW T \in Nat, T <= clock + Window["accept"]
        PROVE  BreakerRoom(breaker, T)' + (IF Passes(AcceptKey) /\ clock < T THEN 1 ELSE 0)
                   <= BreakerRoom(breaker, T) + (Quota("accept")' - Quota("accept"))
    <3>0. MaxRequests["accept"] \in Nat
      BY LimitsAssumption
    <3>1. /\ Quota("accept") \in Nat /\ Quota("accept")' \in Nat /\ Quota("accept")' >= Quota("accept")
          /\ (resets' > resets => Quota("accept")' >= Quota("accept") + MaxRequests["accept"])
      <4>1. faults' \in Nat /\ faults' >= faults
        BY <1>2 DEF LimitTables
      <4> QED BY <1>4, <4>1, BudgetMoves DEF LimitTables
    <3>2. /\ BreakerRoom(Checked, T) <= BreakerRoom(breaker, T)
          /\ BreakerRoom(Checked, T) \in Nat /\ BreakerRoom(breaker, T) \in Nat
          /\ BreakerRoom(Closed, T) \in Nat /\ BreakerRoom(Closed, T) <= MaxRequests["accept"]
      BY <2>1, CheckedRoom
    <3>3. BreakerRoom(breaker, T)' = BreakerRoom(breaker', T)
      BY <1>1 DEF BreakerRoom, Left
    <3>4. CASE breaker' = Checked
      BY <1>7, <3>1, <3>2, <3>3, <3>4
    <3>5. CASE breaker' = Closed /\ resets' = resets + 1
      <4>1. resets' > resets
        BY <1>4, <3>5 DEF LimitTables
      <4> QED BY <1>7, <3>0, <3>1, <3>2, <3>3, <3>5, <4>1
    <3> QED BY <1>1, <3>4, <3>5
  <2> QED BY <1>1, <1>2, <1>4, <1>5, <1>6, <1>7, <2>1, BreakerOnly DEF AcceptKey
<1> QED BY <1>1, <1>5, <1>6, <1>8 DEF LimitsMoved, NotesOne

LEMMA RestartMoves ==
    ASSUME Rows, LimitTables, LimitFacts, LimitRows, Restart, ForgetLimits, clock' = clock
    PROVE  LimitsMoved
<1>1. /\ redis' = redis /\ redisAvailable' = TRUE /\ counts' = [k \in Keys2 |-> Zero] /\ breaker' = Closed
      /\ failedAttempts' = [c \in Clients |-> {}] /\ answers' = answers /\ resets' = resets /\ generation' = generation + 1
      /\ straddled' = straddled /\ clock' = clock /\ faults' = faults + 1
  BY DEF ForgetLimits, Restart
<1>2. \A p \in Requests : proc'[p] = Idle
  BY RestartEnds
<1>3. Zero \in CounterType /\ Zero.count = 0
  BY DEF Zero, CounterType
<1>4. Closed.isOpen = FALSE /\ Closed.errors = 0 /\ Closed.requests = 0 /\ Closed.accepts = 0 /\ Closed.since = clock
      /\ Closed \in BreakerType
  BY CheckedFacts DEF Closed
<1>5. LimitTables'
  BY <1>1, <1>3, <1>4 DEF LimitTables, CounterType
<1>6. LimitFacts'
  BY <1>1, <1>3, <1>4 DEF LimitFacts, LimitTables
<1>7. LimitRows'
  BY <1>2, IdleLimitRow DEF LimitRows, LimitRow, Expires, LimitOps
<1>8. \A k : \A p \in Requests : ~Expires(p, k)'
  BY <1>2, IdleRow DEF Expires
<1>9. RoomMoves
  <2> SUFFICES ASSUME NEW key \in Counted, NEW T \in Nat, T <= clock + Window[key.kind]
               PROVE  /\ Room(key, T)' \in Nat
                      /\ Room(key, T)' + (IF Passes(key) /\ clock < T THEN 1 ELSE 0)
                             <= Room(key, T) + (Quota(key.kind)' - Quota(key.kind))
    BY DEF RoomMoves
  <2>1. ~Passes(key)
    BY <1>1 DEF Passes
  <2>2. key.kind \in {"ip", "wallet", "accept"}
    BY DEF Counted, Keys2, Key
  <2>3. /\ Quota(key.kind) \in Nat /\ Quota(key.kind)' \in Nat
        /\ Quota(key.kind)' >= Quota(key.kind) + 2 * MaxRequests[key.kind]
    <3>1. faults' > faults /\ faults' >= faults /\ resets' >= resets /\ faults' \in Nat /\ resets' \in Nat
      BY <1>1 DEF LimitTables
    <3> QED BY <2>2, <3>1, BudgetMoves DEF LimitTables
  <2>4. MaxRequests[key.kind] \in Nat
    BY <2>2, LimitsAssumption
  <2>5. Room(key, T) \in Nat
    BY RoomFits
  <2>6. CASE key \in Keys2
    <3>1. Room(key, T) = RedisRoom(key, T) + MemoryRoom(key, T) /\ Room(key, T)' = RedisRoom(key, T)' + MemoryRoom(key, T)'
      BY <2>6 DEF Room, Keys2
    <3>2. RedisRoom(key, T)' \in Nat /\ RedisRoom(key, T) \in Nat /\ RedisRoom(key, T)' <= RedisRoom(key, T)
      <4>1. clock' >= clock /\ ~\E p \in Requests : Expires(p, key)'
        BY <1>1, <1>8 DEF LimitTables
      <4> QED BY <1>1, <1>5, <2>6, <4>1, RedisStays
    <3>3. MemoryRoom(key, T)' = 0
      BY <1>1 DEF MemoryRoom
    <3>4. MemoryRoom(key, T) \in Nat
      <4>1. /\ MaxRequests[key.kind] \in Nat /\ counts[key].count \in Nat /\ counts[key].until \in Nat \cup {None} /\ clock \in Nat
        BY <2>4, <2>6 DEF LimitTables, CounterType
      <4> QED BY <4>1 DEF MemoryRoom, Left
    <3> QED BY <2>1, <2>3, <2>4, <3>1, <3>2, <3>3, <3>4
  <2>7. CASE key = Key("accept", "-")
    <3>1. Room(key, T)' = BreakerRoom(Closed, T) /\ key.kind = "accept"
      BY <1>1, <2>7 DEF Room, Key, BreakerRoom, Left
    <3>2. BreakerRoom(Closed, T) \in Nat /\ BreakerRoom(Closed, T) <= MaxRequests["accept"]
      BY <3>1, CheckedRoom
    <3> QED BY <2>1, <2>3, <2>4, <2>5, <3>1, <3>2
  <2> QED BY <2>6, <2>7 DEF Counted
<1> QED BY <1>1, <1>5, <1>6, <1>7, <1>9 DEF LimitsMoved, NotesOne

-----------------------------------------------------------------------------
(* Who is refused has asked too often                                         *)

\* Who asked for a key since then
AskedFor(key, since) == {m \in DOMAIN answers : answers[m].key = key /\ answers[m].at >= since}

\* The counters count what was answered, until requests overlap or one fails those of
\* Redis too.
AskedFit ==
    /\ \A c \in Clients : failedAttempts[c] \subseteq {m \in DOMAIN answers : answers[m].key = Key("admin", c)}
    /\ breaker.accepts <= Cardinality(AskedFor(AcceptKey, breaker.since))
    /\ alone /\ faults = 0 => \A k \in Keys2 :
          /\ redis[k].until = None => redis[k].count = 0 \/ (redis[k].count = 1 /\ \E p \in Requests : Expires(p, k))
          /\ redis[k].until # None => redis[k].count <= Cardinality(AskedFor(k, redis[k].until - Window[k.kind]))

\* A refusal comes after as many requests as it takes.
RefusedWell ==
    \A key \in AnswerKeys, b \in BOOLEAN :
        Note(key, b) /\ ~b /\ (key.kind \in {"ip", "wallet"} => alone' /\ faults' = 0) =>
            \A since \in Int : since = clock - Window[key.kind] => Cardinality(AskedFor(key, since)') > MaxRequests[key.kind]

LEMMA AskedFinite ==
    ASSUME LimitTables, NEW key, NEW since
    PROVE  IsFiniteSet(AskedFor(key, since)) /\ Cardinality(AskedFor(key, since)) \in Nat
<1>1. answers \in Seq(AnswerType) /\ Len(answers) \in Nat /\ DOMAIN answers = 1..Len(answers)
  BY DEF LimitTables
<1>2. IsFiniteSet(1..Len(answers))
  BY <1>1, FS_Interval
<1>3. AskedFor(key, since) \subseteq 1..Len(answers)
  BY <1>1 DEF AskedFor
<1> QED BY <1>2, <1>3, FS_Subset, FS_CardinalityType

\* One more has asked.
LEMMA AskedGrows ==
    ASSUME LimitTables, NEW key \in AnswerKeys, NEW b \in BOOLEAN, Note(key, b), NEW k, NEW since \in Int
    PROVE  /\ IsFiniteSet(AskedFor(k, since)') /\ Cardinality(AskedFor(k, since)') \in Nat
           /\ AskedFor(k, since) \subseteq AskedFor(k, since)' /\ Cardinality(AskedFor(k, since)') >= Cardinality(AskedFor(k, since))
           /\ k = key /\ since <= clock => /\ Len(answers) + 1 \in AskedFor(k, since)'
                                           /\ Cardinality(AskedFor(k, since)') = Cardinality(AskedFor(k, since)) + 1
<1> DEFINE L == Len(answers)
<1>1. /\ DOMAIN answers = 1..L /\ L \in Nat /\ DOMAIN answers' = 1..(L + 1)
      /\ \A n \in DOMAIN answers : answers'[n] = answers[n]
      /\ answers'[L + 1] = [key |-> key, at |-> clock, passed |-> b]
  BY NoteFacts
<1>2. IsFiniteSet(AskedFor(k, since)) /\ Cardinality(AskedFor(k, since)) \in Nat
  BY AskedFinite
<1> HIDE DEF L
<1>3. L + 1 \notin AskedFor(k, since)
  BY <1>1 DEF AskedFor
<1>4. AskedFor(k, since)' = IF k = key /\ since <= clock THEN AskedFor(k, since) \cup {L + 1} ELSE AskedFor(k, since)
  <2>0. clock \in Nat
    BY DEF LimitTables
  <2>1. answers'[L + 1].key = key /\ answers'[L + 1].at = clock
    BY <1>1
  <2>2. ASSUME NEW m
        PROVE  m \in AskedFor(k, since)' <=> m \in AskedFor(k, since) \/ (m = L + 1 /\ k = key /\ since <= clock)
    <3>1. CASE m = L + 1
      <4>1. m \in DOMAIN answers'
        BY <1>1, <3>1
      <4> QED BY <1>3, <2>0, <2>1, <3>1, <4>1 DEF AskedFor
    <3>2. CASE m # L + 1
      <4>1. m \in DOMAIN answers' <=> m \in DOMAIN answers
        BY <1>1, <3>2
      <4> QED BY <1>1, <3>2, <4>1 DEF AskedFor
    <3> QED BY <3>1, <3>2
  <2> QED BY <2>2
<1>5. CASE k = key /\ since <= clock
  <2>1. AskedFor(k, since)' = AskedFor(k, since) \cup {L + 1}
    BY <1>4, <1>5
  <2>2. IsFiniteSet(AskedFor(k, since) \cup {L + 1}) /\ Cardinality(AskedFor(k, since) \cup {L + 1}) = Cardinality(AskedFor(k, since)) + 1
    BY <1>2, <1>3, FS_AddElement
  <2>3. Cardinality(AskedFor(k, since)') = Cardinality(AskedFor(k, since)) + 1 /\ IsFiniteSet(AskedFor(k, since)')
    BY <2>1, <2>2
  <2> QED BY <1>2, <2>1, <2>3 DEF L
<1>6. CASE ~(k = key /\ since <= clock)
  <2>1. AskedFor(k, since)' = AskedFor(k, since)
    BY <1>4, <1>6
  <2> QED BY <1>2, <1>6, <2>1
<1> QED BY <1>5, <1>6

LEMMA AskedStays ==
    ASSUME answers' = answers, NEW k, NEW since
    PROVE  AskedFor(k, since)' = AskedFor(k, since)
BY DEF AskedFor

LEMMA RefusedKept ==
    ASSUME LimitTables, RefusedAskedOften, NotesOne, RefusedWell, alone' => alone, faults' \in Nat, faults' >= faults
    PROVE  RefusedAskedOften'
<1>1. CASE answers' = answers
  <2>1. alone' /\ faults' = 0 => alone /\ faults = 0
    BY DEF LimitTables
  <2> QED BY <1>1, <2>1 DEF RefusedAskedOften
<1>2. ASSUME NEW key \in AnswerKeys, NEW b \in BOOLEAN, Note(key, b), clock' = clock
      PROVE  RefusedAskedOften'
  <2> DEFINE L == Len(answers)
  <2>1. /\ DOMAIN answers = 1..L /\ L \in Nat /\ DOMAIN answers' = 1..(L + 1)
        /\ \A n \in DOMAIN answers : answers'[n] = answers[n]
        /\ answers'[L + 1] = [key |-> key, at |-> clock, passed |-> b]
    BY <1>2, NoteFacts
  <2> HIDE DEF L
  <2>2. alone' /\ faults' = 0 => alone /\ faults = 0
    BY DEF LimitTables
  <2> SUFFICES ASSUME NEW n \in DOMAIN answers', ~answers'[n].passed,
                      answers'[n].key.kind \in {"ip", "wallet"} => alone' /\ faults' = 0
               PROVE  Cardinality({m \in 1..n : /\ answers'[m].key = answers'[n].key
                                                /\ answers'[m].at >= answers'[n].at - Window[answers'[n].key.kind]})
                          > MaxRequests[answers'[n].key.kind]
    BY DEF RefusedAskedOften
  <2>3. CASE n \in DOMAIN answers
    <3>1. answers'[n] = answers[n] /\ 1..n \subseteq DOMAIN answers /\ \A m \in 1..n : answers'[m] = answers[m]
      BY <2>1, <2>3
    <3>2. Cardinality({m \in 1..n : answers[m].key = answers[n].key /\ answers[m].at >= answers[n].at - Window[answers[n].key.kind]})
              > MaxRequests[answers[n].key.kind]
      BY <2>2, <2>3, <3>1 DEF RefusedAskedOften
    <3>3. {m \in 1..n : answers'[m].key = answers'[n].key /\ answers'[m].at >= answers'[n].at - Window[answers'[n].key.kind]}
              = {m \in 1..n : answers[m].key = answers[n].key /\ answers[m].at >= answers[n].at - Window[answers[n].key.kind]}
      BY <3>1
    <3> QED BY <3>1, <3>2, <3>3
  <2>4. CASE n = L + 1
    <3>1. answers'[n].key = key /\ answers'[n].at = clock /\ answers'[n].passed = b
      BY <2>1, <2>4
    <3>2. Window[key.kind] \in Nat /\ clock \in Nat
      BY KindFacts DEF LimitTables
    <3>3. PICK since \in Int : since = clock - Window[key.kind]
      BY <3>2
    <3>4. Cardinality(AskedFor(key, since)') > MaxRequests[key.kind]
      BY <1>2, <3>1, <3>3 DEF RefusedWell
    <3>5. {m \in 1..n : answers'[m].key = answers'[n].key /\ answers'[m].at >= answers'[n].at - Window[answers'[n].key.kind]}
              = AskedFor(key, since)'
      BY <2>1, <2>4, <3>1, <3>3 DEF AskedFor
    <3> QED BY <3>1, <3>4, <3>5
  <2>5. n \in DOMAIN answers \/ n = L + 1
    BY <2>1
  <2> QED BY <2>3, <2>4, <2>5, Zenon
<1> QED BY <1>1, <1>2 DEF NotesOne

\* Nobody is answered.
LEMMA SilentWell ==
    ASSUME LimitTables, answers' = answers
    PROVE  RefusedWell
BY NoteFacts DEF RefusedWell

LEMMA AskedFrame ==
    ASSUME LimitTables, AskedFit, NotesOne
    PROVE  /\ \A c \in Clients : failedAttempts[c] \subseteq {m \in DOMAIN answers' : answers'[m].key = Key("admin", c)}
           /\ \A k : \A since \in Int : /\ Cardinality(AskedFor(k, since)') \in Nat /\ Cardinality(AskedFor(k, since)) \in Nat
                                        /\ Cardinality(AskedFor(k, since)') >= Cardinality(AskedFor(k, since))
<1>1. ASSUME NEW k, NEW since \in Int
      PROVE  /\ Cardinality(AskedFor(k, since)') \in Nat /\ Cardinality(AskedFor(k, since)) \in Nat
             /\ Cardinality(AskedFor(k, since)') >= Cardinality(AskedFor(k, since))
  <2>1. Cardinality(AskedFor(k, since)) \in Nat
    BY AskedFinite
  <2>2. CASE answers' = answers
    BY <2>1, <2>2, AskedStays
  <2>3. ASSUME NEW key \in AnswerKeys, NEW b \in BOOLEAN, Note(key, b)
        PROVE  Cardinality(AskedFor(k, since)') \in Nat /\ Cardinality(AskedFor(k, since)') >= Cardinality(AskedFor(k, since))
    BY <2>3, AskedGrows
  <2> QED BY <2>1, <2>2, <2>3 DEF NotesOne
<1>2. ASSUME NEW c \in Clients, NEW m \in failedAttempts[c] PROVE m \in DOMAIN answers' /\ answers'[m].key = Key("admin", c)
  <2>1. m \in DOMAIN answers /\ answers[m].key = Key("admin", c)
    BY <1>2 DEF AskedFit
  <2>2. CASE answers' = answers
    BY <2>1, <2>2
  <2>3. ASSUME NEW key \in AnswerKeys, NEW b \in BOOLEAN, Note(key, b) PROVE m \in DOMAIN answers' /\ answers'[m].key = Key("admin", c)
    <3>1. /\ DOMAIN answers = 1..Len(answers) /\ Len(answers) \in Nat /\ DOMAIN answers' = 1..(Len(answers) + 1)
          /\ answers'[m] = answers[m]
      BY <2>1, <2>3, NoteFacts
    <3> QED BY <2>1, <3>1
  <2> QED BY <2>2, <2>3 DEF NotesOne
<1> QED BY <1>1, <1>2

\* Of the counters of Redis, until requests overlap or one fails
CountsAsked(k) ==
    /\ redis[k].until = None => redis[k].count = 0 \/ (redis[k].count = 1 /\ \E p \in Requests : Expires(p, k))
    /\ redis[k].until # None => redis[k].count <= Cardinality(AskedFor(k, redis[k].until - Window[k.kind]))

LEMMA CountStays ==
    ASSUME LimitTables, AskedFit, NotesOne, NEW k \in Keys2, redis'[k] = redis[k], CountsAsked(k),
           (\E p \in Requests : Expires(p, k)) => \E p \in Requests : Expires(p, k)'
    PROVE  CountsAsked(k)'
<1>1. CASE redis[k].until = None
  BY <1>1 DEF CountsAsked
<1>2. CASE redis[k].until # None
  <2>1. redis[k].until \in Nat /\ redis[k].count \in Nat /\ Window[k.kind] \in Nat
    BY <1>2, LimitsAssumption DEF LimitTables, CounterType, Keys2
  <2>2. PICK since \in Int : since = redis[k].until - Window[k.kind]
    BY <2>1
  <2>3. /\ Cardinality(AskedFor(k, since)') \in Nat /\ Cardinality(AskedFor(k, since)) \in Nat
        /\ Cardinality(AskedFor(k, since)') >= Cardinality(AskedFor(k, since))
    BY AskedFrame
  <2>4. redis[k].count <= Cardinality(AskedFor(k, since))
    BY <1>2, <2>2 DEF CountsAsked
  <2>5. redis[k].count <= Cardinality(AskedFor(k, since)')
    BY <2>1, <2>3, <2>4
  <2>6. AskedFor(k, redis[k].until - Window[k.kind])' = AskedFor(k, since)'
    BY <2>2
  <2> QED BY <1>2, <2>5, <2>6 DEF CountsAsked
<1> QED BY <1>1, <1>2

\* The rest of it: what the breaker and the operators count stays.
LEMMA FitFrame ==
    ASSUME LimitTables, AskedFit, NotesOne, failedAttempts' = failedAttempts, breaker' = breaker,
           alone' /\ faults' = 0 => \A k \in Keys2 : CountsAsked(k)'
    PROVE  AskedFit'
<1>1. breaker'.accepts <= Cardinality(AskedFor(AcceptKey, breaker.since)')
  <2>1. breaker.since \in Int /\ breaker.accepts \in Nat
    BY DEF LimitTables, BreakerType
  <2>2. breaker.accepts <= Cardinality(AskedFor(AcceptKey, breaker.since))
    BY DEF AskedFit
  <2>3. PICK since \in Int : since = breaker.since
    BY <2>1
  <2>4. /\ Cardinality(AskedFor(AcceptKey, since)') \in Nat /\ Cardinality(AskedFor(AcceptKey, since)) \in Nat
        /\ Cardinality(AskedFor(AcceptKey, since)') >= Cardinality(AskedFor(AcceptKey, since))
    BY AskedFrame
  <2>5. AskedFor(AcceptKey, breaker.since)' = AskedFor(AcceptKey, since)'
    BY <2>3
  <2> QED BY <2>1, <2>2, <2>3, <2>4, <2>5
<1>2. \A c \in Clients : failedAttempts[c] \subseteq {m \in DOMAIN answers' : answers'[m].key = Key("admin", c)}
  BY AskedFrame
<1> QED BY <1>1, <1>2 DEF AskedFit, CountsAsked

AskedMoved == AskedFit' /\ RefusedWell

LEMMA StillAsked ==
    ASSUME LimitTables, AskedFit, LimitsStill
    PROVE  AskedMoved
<1>1. answers' = answers /\ failedAttempts' = failedAttempts /\ breaker' = breaker /\ redis' = redis
  BY DEF LimitsStill, limitVars
<1>2. NotesOne
  BY <1>1 DEF NotesOne
<1>3. ASSUME alone', faults' = 0, NEW k \in Keys2 PROVE CountsAsked(k)'
  <2>1. alone /\ faults = 0
    BY <1>3 DEF LimitsStill, LimitTables
  <2>2. CountsAsked(k)
    BY <2>1 DEF AskedFit, CountsAsked
  <2>3. ASSUME NEW p \in Requests, Expires(p, k) PROVE Expires(p, k)'
    <3>1. proc'[p] = proc[p] \/ proc[p].op \notin LimitOps
      BY <1>3 DEF LimitsStill
    <3> QED BY <2>3, <3>1 DEF Expires, LimitOps
  <2> QED BY <1>1, <1>2, <2>2, <2>3, CountStays
<1> QED BY <1>1, <1>2, <1>3, FitFrame, SilentWell DEF AskedMoved

\* A request begins, and counts nothing.
LEMMA CallAsked ==
    ASSUME LimitTables, AskedFit, NEW p \in Requests, OthersKeep(p), answers' = answers,
           failedAttempts' = failedAttempts, breaker' = breaker, redis' = redis, faults' = faults, alone' => alone,
           proc[p].op # "limited"
    PROVE  AskedMoved
<1>1. NotesOne
  BY DEF NotesOne
<1>2. ASSUME alone', faults' = 0, NEW k \in Keys2 PROVE CountsAsked(k)'
  <2>1. CountsAsked(k)
    BY <1>2 DEF AskedFit, CountsAsked
  <2>2. ASSUME NEW q \in Requests, Expires(q, k) PROVE Expires(q, k)'
    <3>1. q # p
      BY <2>2 DEF Expires
    <3> QED BY <2>2, <3>1 DEF Expires, OthersKeep
  <2> QED BY <1>1, <2>1, <2>2, CountStays
<1> QED BY <1>1, <1>2, FitFrame, SilentWell DEF AskedMoved

\* Redis or the whole broker fails.
LEMMA FailureAsked ==
    ASSUME LimitTables, AskedFit, answers' = answers, faults' = faults + 1,
           \/ failedAttempts' = failedAttempts /\ breaker' = breaker
           \/ failedAttempts' = [c \in Clients |-> {}] /\ breaker' = Closed
    PROVE  AskedMoved
<1>1. NotesOne /\ faults' # 0
  BY DEF NotesOne, LimitTables
<1>2. CASE failedAttempts' = failedAttempts /\ breaker' = breaker
  BY <1>1, <1>2, FitFrame, SilentWell DEF AskedMoved
<1>3. CASE failedAttempts' = [c \in Clients |-> {}] /\ breaker' = Closed
  <2>1. breaker'.accepts = 0
    BY <1>3 DEF Closed
  <2>2. PICK since \in Int : since = breaker'.since
    BY <1>3 DEF Closed, LimitTables
  <2>3. Cardinality(AskedFor(AcceptKey, since)') \in Nat
    BY <1>1, AskedFrame
  <2>4. AskedFor(AcceptKey, breaker.since)' = AskedFor(AcceptKey, since)'
    BY <2>2
  <2>5. AskedFit'
    BY <1>1, <1>3, <2>1, <2>3, <2>4 DEF AskedFit
  <2> QED BY <2>5, SilentWell DEF AskedMoved
<1> QED BY <1>2, <1>3

\* While nobody else is served, nobody else has a counter to expire.
LEMMA NoneExpires ==
    ASSUME Lonely, alone, NEW p \in Requests, proc[p].op # "idle"
    PROVE  \A k : \A q \in Requests \ {p} : ~Expires(q, k)
<1>1. proc[p] # Idle
  BY IdleRow
<1>2. \A q \in Requests \ {p} : proc[q] = Idle
  BY <1>1 DEF Lonely
<1> QED BY <1>2, IdleRow DEF Expires

LEMMA IncrAsked ==
    ASSUME Rows, LimitTables, LimitFacts, LimitRows, AskedFit, Lonely, NEW p \in Requests, NEW k \in Keys2,
           proc[p].op = "limited", proc[p].key = k, Incr(p)
    PROVE  AskedMoved
<1>1. /\ proc[p].step = "incr"
      /\ redis' = [redis EXCEPT ![k] = [Current(k) EXCEPT !.count = Current(k).count + 1]]
      /\ (IF Current(k).count + 1 = 1 THEN Goto(p, "expire") /\ UNCHANGED answers ELSE Decide(p, k, Current(k).count + 1))
      /\ breaker' = breaker /\ failedAttempts' = failedAttempts
      /\ clock' = clock /\ faults' = faults /\ alone' = alone
  BY DEF Incr, At, accessVars, Quiet, Calm
<1>2. LimitsMoved
  BY IncrMoves
<1>3. NotesOne
  BY <1>2 DEF LimitsMoved
<1>4. redis \in [Keys2 -> CounterType] /\ redis[k] \in CounterType /\ k.kind \in {"ip", "wallet"} /\ k \in AnswerKeys
  BY DEF LimitTables, Keys2, AnswerKeys, Counted
<1>5. redis'[k] = [Current(k) EXCEPT !.count = Current(k).count + 1] /\ \A j \in Keys2 \ {k} : redis'[j] = redis[j]
  BY <1>1, <1>4
<1>6. Current(k) \in CounterType
  BY <1>4 DEF Current, Zero, CounterType
<1>7. redis'[k].count = Current(k).count + 1 /\ redis'[k].until = Current(k).until
  BY <1>5, <1>6 DEF CounterType
<1>8. ASSUME alone, faults = 0 PROVE \A j \in Keys2 : CountsAsked(j) /\ \A q \in Requests : ~Expires(q, j)
  <2>1. \A j : \A q \in Requests \ {p} : ~Expires(q, j)
    BY <1>8, NoneExpires
  <2>2. \A j : ~Expires(p, j)
    BY <1>1 DEF Expires
  <2> QED BY <1>8, <2>1, <2>2 DEF AskedFit, CountsAsked
<1>9. ASSUME alone, faults = 0, Current(k).count # 0
      PROVE  /\ Current(k) = redis[k] /\ redis[k].until \in Nat /\ redis[k].until > clock
             /\ redis[k].until <= clock + Window[k.kind]
             /\ redis[k].count <= Cardinality(AskedFor(k, redis[k].until - Window[k.kind]))
  <2>1. Current(k) = redis[k]
    BY <1>9 DEF Current, Zero
  <2>2. redis[k].until # None
    BY <1>8, <1>9, <2>1 DEF CountsAsked
  <2>3. redis[k].until \in Nat /\ ~(redis[k].until <= clock)
    <3>1. redis[k].until \in Nat
      BY <1>4, <2>2 DEF CounterType
    <3>2. redis[k].until <= clock => Current(k) = Zero
      BY <2>2 DEF Current
    <3> QED BY <1>9, <3>1, <3>2 DEF Zero
  <2>4. redis[k].until > clock
    BY <2>3 DEF LimitTables
  <2>5. redis[k].until <= clock + Window[k.kind]
    BY <2>2 DEF LimitFacts
  <2>6. redis[k].count <= Cardinality(AskedFor(k, redis[k].until - Window[k.kind]))
    BY <1>8, <1>9, <2>2 DEF CountsAsked
  <2> QED BY <2>1, <2>3, <2>4, <2>5, <2>6
<1>10. PICK c \in Nat : c = Current(k).count + 1
  BY <1>6 DEF CounterType
<1>11. Window[k.kind] \in Nat /\ clock \in Nat /\ MaxRequests[k.kind] \in Nat
  BY <1>4, LimitsAssumption DEF LimitTables
<1>12. ASSUME alone, faults = 0, c # 1, NEW b \in BOOLEAN, Note(k, b)
       PROVE  \A since \in Int : since = redis[k].until - Window[k.kind] => c <= Cardinality(AskedFor(k, since)')
  <2>1. TAKE since \in Int
  <2>2. HAVE since = redis[k].until - Window[k.kind]
  <2>3. Current(k).count # 0
    BY <1>6, <1>10, <1>12 DEF CounterType
  <2>4. since <= clock /\ redis[k].count <= Cardinality(AskedFor(k, since)) /\ c = redis[k].count + 1
    BY <1>9, <1>10, <1>11, <1>12, <2>2, <2>3
  <2>5. Cardinality(AskedFor(k, since)') = Cardinality(AskedFor(k, since)) + 1
    BY <1>4, <1>12, <2>4, AskedGrows
  <2>6. Cardinality(AskedFor(k, since)) \in Nat /\ redis[k].count \in Nat
    BY <1>4, AskedFinite DEF CounterType
  <2> QED BY <2>4, <2>5, <2>6
<1>13. ASSUME c # 1 PROVE \E b \in BOOLEAN : b = (c <= MaxRequests[k.kind]) /\ Note(k, b)
  <2>1. Note(k, c <= MaxRequests[k.kind]) /\ (c <= MaxRequests[k.kind]) \in BOOLEAN
    BY <1>1, <1>10, <1>13 DEF Decide
  <2> QED BY <2>1
<1>14. ASSUME alone', faults' = 0, NEW j \in Keys2 PROVE CountsAsked(j)'
  <2>1. alone /\ faults = 0
    BY <1>1, <1>14
  <2>2. CASE j # k
    <3>1. CountsAsked(j) /\ \A q \in Requests : ~Expires(q, j)
      BY <1>8, <2>1
    <3>2. redis'[j] = redis[j]
      BY <1>5, <2>2
    <3> QED BY <1>3, <3>1, <3>2, CountStays
  <2>3. CASE j = k /\ c = 1
    <3>1. GoesTo(p, "expire")
      BY <1>1, <1>10, <2>3, GotoGoes
    <3>2. Expires(p, k)'
      <4>1. LimitRow(proc[p])
        BY DEF LimitRows
      <4>2. {"op", "step"} \subseteq DOMAIN proc[p] /\ "key" \in DOMAIN proc[p]
        BY <4>1 DEF LimitRow, Rows
      <4> QED BY <3>1, <4>2 DEF GoesTo, Expires
    <3>3. redis'[k].count = 1
      BY <1>7, <1>10, <2>3
    <3>4. redis'[k].until = None
      <4>1. Current(k).count = 0
        BY <1>6, <1>10, <2>3 DEF CounterType
      <4>2. CASE Current(k) = Zero
        BY <1>7, <4>2 DEF Zero
      <4>3. CASE Current(k) = redis[k]
        <5>1. redis[k].until = None
          BY <4>1, <4>3 DEF LimitFacts
        <5> QED BY <1>7, <4>3, <5>1
      <4> QED BY <4>2, <4>3 DEF Current
    <3> QED BY <2>3, <3>2, <3>3, <3>4 DEF CountsAsked
  <2>4. CASE j = k /\ c # 1
    <3>0. Current(k).count # 0
      BY <1>6, <1>10, <2>4 DEF CounterType
    <3>1. redis'[k].count = c /\ redis'[k].until = redis[k].until /\ redis[k].until \in Nat
      BY <1>7, <1>9, <1>10, <2>1, <3>0
    <3>2. PICK b \in BOOLEAN : b = (c <= MaxRequests[k.kind]) /\ Note(k, b)
      BY <1>13, <2>4
    <3>3. PICK since \in Int : since = redis[k].until - Window[k.kind]
      BY <1>11, <3>1
    <3>4. c <= Cardinality(AskedFor(k, since)')
      BY <1>12, <2>1, <2>4, <3>2, <3>3
    <3>5. AskedFor(k, redis[k].until - Window[k.kind])' = AskedFor(k, since)'
      BY <3>1, <3>3
    <3>6. redis'[k].until # None
      BY <3>1, NoneAssumption
    <3> QED BY <2>4, <3>1, <3>4, <3>5, <3>6 DEF CountsAsked
  <2> QED BY <2>2, <2>3, <2>4
<1>15. RefusedWell
  <2>1. CASE answers' = answers
    BY <2>1, SilentWell
  <2>2. CASE c # 1
    <3> SUFFICES ASSUME NEW key \in AnswerKeys, NEW b \in BOOLEAN, Note(key, b), ~b,
                        key.kind \in {"ip", "wallet"} => alone' /\ faults' = 0, NEW since \in Int, since = clock - Window[key.kind]
                 PROVE  Cardinality(AskedFor(key, since)') > MaxRequests[key.kind]
      BY DEF RefusedWell
    <3>1. PICK d \in BOOLEAN : d = (c <= MaxRequests[k.kind]) /\ Note(k, d)
      BY <1>13, <2>2
    <3>2. key = k /\ b = d
      <4>1. answers'[Len(answers) + 1] = [key |-> k, at |-> clock, passed |-> d]
        BY <1>4, <3>1, NoteFacts
      <4>2. answers'[Len(answers) + 1] = [key |-> key, at |-> clock, passed |-> b]
        BY NoteFacts
      <4> QED BY <4>1, <4>2
    <3>3. alone /\ faults = 0 /\ ~(c <= MaxRequests[k.kind])
      BY <1>1, <1>4, <3>1, <3>2
    <3>4. Current(k).count # 0
      BY <1>6, <1>10, <2>2 DEF CounterType
    <3>5. redis[k].until \in Nat /\ redis[k].until > clock
      BY <1>9, <3>3, <3>4
    <3>6. PICK s \in Int : s = redis[k].until - Window[k.kind]
      BY <1>11, <3>5
    <3>7. c <= Cardinality(AskedFor(k, s)')
      BY <1>12, <2>2, <3>1, <3>3, <3>6
    <3>8. s > since
      BY <1>11, <3>2, <3>5, <3>6
    <3>9. AskedFor(k, s)' \subseteq AskedFor(k, since)'
      <4>1. ASSUME NEW m \in AskedFor(k, s)' PROVE m \in AskedFor(k, since)'
        <5>1. m \in DOMAIN answers' /\ answers'[m].key = k /\ answers'[m].at >= s
          BY <4>1 DEF AskedFor
        <5>2. answers' \in Seq(AnswerType)
          BY <1>4, <3>1, NoteFacts
        <5>3. answers'[m].at \in Nat
          <6>1. answers'[m] \in AnswerType
            BY <5>1, <5>2
          <6> QED BY <6>1 DEF AnswerType
        <5>4. answers'[m].at >= since
          BY <3>8, <5>1, <5>3
        <5> QED BY <5>1, <5>4 DEF AskedFor
      <4> QED BY <4>1
    <3>10. /\ IsFiniteSet(AskedFor(k, since)') /\ Cardinality(AskedFor(k, since)') \in Nat /\ Cardinality(AskedFor(k, s)') \in Nat
      BY <1>4, <3>1, AskedGrows
    <3>11. Cardinality(AskedFor(k, s)') <= Cardinality(AskedFor(k, since)')
      BY <3>9, <3>10, FS_Subset
    <3> QED BY <1>11, <3>2, <3>3, <3>7, <3>10, <3>11
  <2> QED BY <1>1, <1>10, <2>1, <2>2
<1> QED BY <1>1, <1>3, <1>14, <1>15, FitFrame DEF AskedMoved

\* The answer of a step is the one it notes.
LEMMA OneAnswer ==
    ASSUME LimitTables, NEW k \in AnswerKeys, NEW d \in BOOLEAN, Note(k, d), NEW key \in AnswerKeys, NEW b \in BOOLEAN, Note(key, b)
    PROVE  key = k /\ b = d
<1>1. answers'[Len(answers) + 1] = [key |-> k, at |-> clock, passed |-> d]
  BY NoteFacts
<1>2. answers'[Len(answers) + 1] = [key |-> key, at |-> clock, passed |-> b]
  BY NoteFacts
<1> QED BY <1>1, <1>2

\* Asked since later is asked since before.
LEMMA AskedMeanwhile ==
    ASSUME LimitTables, NotesOne, LimitTables', NEW k, NEW s \in Int, NEW since \in Int, since <= s
    PROVE  /\ IsFiniteSet(AskedFor(k, since)') /\ AskedFor(k, s)' \subseteq AskedFor(k, since)'
           /\ Cardinality(AskedFor(k, s)') <= Cardinality(AskedFor(k, since)')
           /\ Cardinality(AskedFor(k, s)') \in Nat /\ Cardinality(AskedFor(k, since)') \in Nat
<1>1. AskedFor(k, s)' \subseteq AskedFor(k, since)'
  <2>1. ASSUME NEW m \in AskedFor(k, s)' PROVE m \in AskedFor(k, since)'
    <3>1. m \in DOMAIN answers' /\ answers'[m].key = k /\ answers'[m].at >= s /\ answers' \in Seq(AnswerType)
      BY <2>1 DEF AskedFor, LimitTables
    <3>2. answers'[m].at \in Nat
      <4>1. answers'[m] \in AnswerType
        BY <3>1
      <4> QED BY <4>1 DEF AnswerType
    <3>3. answers'[m].at >= since
      BY <3>1, <3>2
    <3> QED BY <3>1, <3>3 DEF AskedFor
  <2> QED BY <2>1
<1>2. IsFiniteSet(AskedFor(k, since)')
  <2>1. answers' \in Seq(AnswerType) /\ Len(answers') \in Nat /\ DOMAIN answers' = 1..Len(answers')
    BY DEF LimitTables
  <2>2. IsFiniteSet(1..Len(answers'))
    BY <2>1, FS_Interval
  <2>3. AskedFor(k, since)' \subseteq 1..Len(answers')
    BY <2>1 DEF AskedFor
  <2> QED BY <2>2, <2>3, FS_Subset
<1> QED BY <1>1, <1>2, FS_Subset, FS_CardinalityType

LEMMA ExpireAsked ==
    ASSUME Rows, LimitTables, LimitFacts, LimitRows, AskedFit, Lonely, NEW p \in Requests, NEW k \in Keys2,
           proc[p].op = "limited", proc[p].key = k, Expire(p)
    PROVE  AskedMoved
<1>1. /\ proc[p].step = "expire"
      /\ redis' = [redis EXCEPT ![k].until = clock + Window[k.kind]]
      /\ Note(k, 1 <= MaxRequests[k.kind])
      /\ breaker' = breaker /\ failedAttempts' = failedAttempts
      /\ clock' = clock /\ faults' = faults /\ alone' = alone
  BY DEF Expire, At, accessVars, Quiet, Calm, Decide
<1>2. LimitsMoved
  BY ExpireMoves
<1>3. NotesOne /\ LimitTables'
  BY <1>2 DEF LimitsMoved
<1>4. redis \in [Keys2 -> CounterType] /\ redis[k] \in CounterType /\ k.kind \in {"ip", "wallet"} /\ k \in AnswerKeys
  BY DEF LimitTables, Keys2, AnswerKeys, Counted
<1>5. Window[k.kind] \in Nat /\ clock \in Nat /\ MaxRequests[k.kind] \in Nat
  BY <1>4, LimitsAssumption DEF LimitTables
<1>6. redis'[k].until = clock + Window[k.kind] /\ redis'[k].count = redis[k].count /\ \A j \in Keys2 \ {k} : redis'[j] = redis[j]
  BY <1>1, <1>4 DEF CounterType
<1>7. PICK b \in BOOLEAN : b = (1 <= MaxRequests[k.kind]) /\ Note(k, b)
  <2>1. (1 <= MaxRequests[k.kind]) \in BOOLEAN
    OBVIOUS
  <2> QED BY <1>1, <2>1
<1>8. ASSUME NEW since \in Int, since <= clock PROVE Cardinality(AskedFor(k, since)') \in Nat /\ Cardinality(AskedFor(k, since)') >= 1
  <2>1. Cardinality(AskedFor(k, since)') = Cardinality(AskedFor(k, since)) + 1
    BY <1>4, <1>7, <1>8, AskedGrows
  <2>2. Cardinality(AskedFor(k, since)) \in Nat
    BY AskedFinite
  <2> QED BY <2>1, <2>2
<1>9. ASSUME alone', faults' = 0, NEW j \in Keys2 PROVE CountsAsked(j)'
  <2>1. alone /\ faults = 0
    BY <1>1, <1>9
  <2>2. CountsAsked(j) /\ CountsAsked(k)
    BY <2>1 DEF AskedFit, CountsAsked
  <2>3. CASE j # k
    <3>1. \A q \in Requests : ~Expires(q, j)
      BY <2>1, <2>3, NoneExpires DEF Expires
    <3>2. redis'[j] = redis[j]
      BY <1>6, <2>3
    <3> QED BY <1>3, <2>2, <3>1, <3>2, CountStays
  <2>4. CASE j = k
    <3>1. redis[k].until = None
      <4>1. LimitRow(proc[p])
        BY DEF LimitRows
      <4> QED BY <1>1, <4>1 DEF LimitRow
    <3>2. redis'[k].count \in {0, 1}
      BY <1>6, <2>2, <3>1 DEF CountsAsked
    <3>3. PICK since \in Int : since = redis'[k].until - Window[k.kind] /\ since = clock
      BY <1>5, <1>6
    <3>4. redis'[k].count <= Cardinality(AskedFor(k, since)')
      BY <1>5, <1>8, <3>2, <3>3
    <3>5. AskedFor(k, redis[k].until - Window[k.kind])' = AskedFor(k, since)'
      BY <3>3
    <3>6. redis'[k].until # None
      BY <1>5, <1>6, NoneAssumption
    <3> QED BY <2>4, <3>4, <3>5, <3>6 DEF CountsAsked
  <2> QED BY <2>3, <2>4
<1>10. RefusedWell
  <2> SUFFICES ASSUME NEW key \in AnswerKeys, NEW d \in BOOLEAN, Note(key, d), ~d,
                      NEW since \in Int, since = clock - Window[key.kind]
               PROVE  Cardinality(AskedFor(key, since)') > MaxRequests[key.kind]
    BY DEF RefusedWell
  <2>1. key = k /\ d = b
    BY <1>4, <1>7, OneAnswer
  <2>2. MaxRequests[k.kind] = 0
    <3>1. ~(1 <= MaxRequests[k.kind])
      BY <1>7, <2>1, Zenon
    <3> QED BY <1>5, <3>1
  <2>3. since <= clock
    BY <1>5, <2>1
  <2> QED BY <1>8, <2>1, <2>2, <2>3
<1> QED BY <1>1, <1>3, <1>9, <1>10, FitFrame DEF AskedMoved

LEMMA MemoryAsked ==
    ASSUME Rows, LimitTables, LimitFacts, LimitRows, AskedFit, NEW p \in Requests, NEW k \in Keys2,
           proc[p].op = "limited", proc[p].key = k, CountInMemory(p)
    PROVE  AskedMoved
<1>1. /\ proc[p].step = "memory" /\ breaker' = breaker /\ failedAttempts' = failedAttempts /\ faults' = faults
      /\ \E b \in BOOLEAN : Note(k, b)
  <2>1. \A x : (x <= MaxRequests[k.kind]) \in BOOLEAN
    OBVIOUS
  <2> QED BY <2>1 DEF CountInMemory, At, Quiet, Calm, Decide
<1>2. NotesOne
  <2>1. LimitsMoved
    BY MemoryMoves
  <2> QED BY <2>1 DEF LimitsMoved
<1>3. faults' # 0
  <2>1. LimitRow(proc[p])
    BY DEF LimitRows
  <2>2. faults > 0
    BY <1>1, <2>1 DEF LimitRow, LimitFacts
  <2> QED BY <1>1, <2>2 DEF LimitTables
<1>4. RefusedWell
  <2> SUFFICES ASSUME NEW key \in AnswerKeys, NEW d \in BOOLEAN, Note(key, d), key.kind \in {"ip", "wallet"} => faults' = 0
               PROVE  FALSE
    BY DEF RefusedWell
  <2>1. k \in AnswerKeys /\ k.kind \in {"ip", "wallet"}
    BY DEF AnswerKeys, Counted, Keys2
  <2>2. key = k
    BY <1>1, <2>1, OneAnswer
  <2> QED BY <1>3, <2>1, <2>2
<1> QED BY <1>1, <1>2, <1>3, <1>4, FitFrame DEF AskedMoved

LEMMA CheckedAsked ==
    ASSUME LimitTables, LimitFacts, AskedFit
    PROVE  /\ Checked.since \in Int /\ Checked.accepts \in Nat /\ Checked.since <= clock
           /\ \A since \in Int : since = Checked.since => Checked.accepts <= Cardinality(AskedFor(AcceptKey, since))
<1>1. Checked.since \in Int /\ Checked.accepts \in Nat /\ Checked.since <= clock
  BY CheckedFacts DEF BreakerType
<1>2. ASSUME NEW since \in Int, since = Checked.since PROVE Checked.accepts <= Cardinality(AskedFor(AcceptKey, since))
  <2>1. Cardinality(AskedFor(AcceptKey, since)) \in Nat
    BY AskedFinite
  <2>2. CASE Checked = breaker
    BY <1>2, <2>2 DEF AskedFit
  <2>3. CASE Checked # breaker
    <3>1. Checked.accepts = 0
      BY <2>3, CheckedFacts
    <3> QED BY <2>1, <3>1
  <2> QED BY <2>2, <2>3
<1> QED BY <1>1, <1>2

\* Each request of the others is as it was.
LEMMA CountsStay ==
    ASSUME LimitTables, AskedFit, NotesOne, redis' = redis, faults' = faults, alone' => alone,
           NEW p \in Requests, OthersKeep(p), proc[p].op # "limited"
    PROVE  alone' /\ faults' = 0 => \A k \in Keys2 : CountsAsked(k)'
<1> SUFFICES ASSUME alone', faults' = 0, NEW k \in Keys2 PROVE CountsAsked(k)'
  OBVIOUS
<1>1. CountsAsked(k)
  BY DEF AskedFit, CountsAsked
<1>2. ASSUME NEW q \in Requests, Expires(q, k) PROVE Expires(q, k)'
  <2>1. q # p
    BY <1>2 DEF Expires
  <2> QED BY <1>2, <2>1 DEF Expires, OthersKeep
<1> QED BY <1>1, <1>2, CountStays

LEMMA RecordAcceptAsked ==
    ASSUME Rows, LimitTables, LimitFacts, LimitRows, AskedFit, NEW p \in Requests, RecordAccept(p)
    PROVE  AskedMoved
<1> DEFINE b == [Checked EXCEPT !.accepts = @ + 1, !.requests = @ + 1]
<1>0. Checked \in BreakerType /\ clock - Checked.since <= Window["accept"]
  BY CheckedFacts
<1>1. /\ (\E r : Start(p, r)) /\ breaker' = (IF b.accepts <= MaxRequests["accept"] THEN b ELSE Trip(b))
      /\ Note(AcceptKey, b.accepts <= MaxRequests["accept"])
      /\ redis' = redis /\ failedAttempts' = failedAttempts /\ clock' = clock
  BY DEF RecordAccept, accessVars, AcceptKey
<1>2. b.accepts = Checked.accepts + 1 /\ b.since = Checked.since
  BY <1>0 DEF BreakerType
<1> HIDE DEF b
<1>3. breaker'.accepts = Checked.accepts + 1 /\ breaker'.since = Checked.since
  <2>1. b \in [{"isOpen", "trippedAt", "requests", "errors", "accepts", "since"} -> {b.isOpen, b.trippedAt, b.requests, b.errors, b.accepts, b.since}]
    BY <1>0 DEF b, BreakerType
  <2>2. Trip(b).accepts = b.accepts /\ Trip(b).since = b.since
    BY <2>1 DEF Trip
  <2> QED BY <1>1, <1>2, <2>2
<1>4. PICK d \in BOOLEAN : d = (Checked.accepts + 1 <= MaxRequests["accept"]) /\ Note(AcceptKey, d)
  <2>1. (Checked.accepts + 1 <= MaxRequests["accept"]) \in BOOLEAN
    OBVIOUS
  <2> QED BY <1>1, <1>2, <2>1
<1>5. PICK r : Begins(p, r)
  BY <1>1, StartBegins
<1>6. LimitTables' /\ NotesOne
  BY RecordAcceptMoves DEF LimitsMoved
<1>7. AcceptKey \in AnswerKeys /\ AcceptKey.kind = "accept"
  BY DEF AcceptKey, AnswerKeys, Counted, Key
<1>8. PICK s \in Int : s = Checked.since
  BY CheckedAsked
<1>9. s <= clock /\ Checked.accepts \in Nat /\ Checked.accepts <= Cardinality(AskedFor(AcceptKey, s))
  BY <1>8, CheckedAsked
<1>10. Checked.accepts + 1 <= Cardinality(AskedFor(AcceptKey, s)')
  <2>1. Cardinality(AskedFor(AcceptKey, s)') = Cardinality(AskedFor(AcceptKey, s)) + 1
    BY <1>4, <1>7, <1>9, AskedGrows
  <2>2. Cardinality(AskedFor(AcceptKey, s)) \in Nat
    BY AskedFinite
  <2> QED BY <1>9, <2>1, <2>2
<1>11. RefusedWell
  <2> SUFFICES ASSUME NEW key \in AnswerKeys, NEW e \in BOOLEAN, Note(key, e), ~e,
                      NEW since \in Int, since = clock - Window[key.kind]
               PROVE  Cardinality(AskedFor(key, since)') > MaxRequests[key.kind]
    BY DEF RefusedWell
  <2>1. key = AcceptKey /\ e = d
    BY <1>4, <1>7, OneAnswer
  <2>2. MaxRequests["accept"] \in Nat /\ Window["accept"] \in Nat /\ clock \in Nat
    BY LimitsAssumption DEF LimitTables
  <2>3. since <= s
    BY <1>0, <1>7, <1>8, <2>1, <2>2
  <2>4. Cardinality(AskedFor(AcceptKey, s)') <= Cardinality(AskedFor(AcceptKey, since)') /\ Cardinality(AskedFor(AcceptKey, s)') \in Nat
        /\ Cardinality(AskedFor(AcceptKey, since)') \in Nat
    BY <1>6, <2>3, AskedMeanwhile
  <2>5. Checked.accepts + 1 > MaxRequests["accept"]
    <3>1. ~(Checked.accepts + 1 <= MaxRequests["accept"])
      BY <1>4, <2>1, Zenon
    <3> QED BY <1>9, <2>2, <3>1
  <2> QED BY <1>7, <1>9, <1>10, <2>1, <2>2, <2>4, <2>5
<1>12. AskedFit'
  <2>1. AskedFor(AcceptKey, breaker.since)' = AskedFor(AcceptKey, s)'
    BY <1>3, <1>8
  <2>2. \A c \in Clients : failedAttempts[c] \subseteq {m \in DOMAIN answers' : answers'[m].key = Key("admin", c)}
    BY <1>6, AskedFrame
  <2>3. proc[p].op # "limited" /\ OthersKeep(p) /\ (alone' => alone) /\ faults' = faults
    BY <1>5, IdleRow DEF Begins
  <2>4. alone' /\ faults' = 0 => \A k \in Keys2 : CountsAsked(k)'
    BY <1>1, <1>6, <2>3, CountsStay
  <2> QED BY <1>1, <1>3, <1>10, <2>1, <2>2, <2>4 DEF AskedFit, CountsAsked
<1> QED BY <1>11, <1>12 DEF AskedMoved

\* A step that checks the breaker and answers nobody
LEMMA BreakerAsked ==
    ASSUME LimitTables, LimitFacts, AskedFit, NEW p \in Requests, OthersKeep(p), proc[p].op # "limited",
           answers' = answers, redis' = redis, faults' = faults, alone' => alone, clock' = clock,
           \A c \in Clients : failedAttempts'[c] \in {failedAttempts[c], {}},
           \/ breaker'.accepts = Checked.accepts /\ breaker'.since = Checked.since
           \/ breaker'.accepts = 0 /\ breaker'.since \in Int
    PROVE  AskedMoved
<1>1. NotesOne
  BY DEF NotesOne
<1>2. PICK s \in Int : s = breaker'.since
  BY CheckedAsked
<1>3. breaker'.accepts <= Cardinality(AskedFor(AcceptKey, s)')
  <2>0. AskedFor(AcceptKey, s)' = AskedFor(AcceptKey, s)
    BY AskedStays
  <2>1. Cardinality(AskedFor(AcceptKey, s)) \in Nat
    BY AskedFinite
  <2>2. CASE breaker'.accepts = Checked.accepts /\ breaker'.since = Checked.since
    BY <1>2, <2>0, <2>2, CheckedAsked
  <2>3. CASE breaker'.accepts = 0
    BY <2>0, <2>1, <2>3
  <2> QED BY <2>2, <2>3
<1>4. AskedFor(AcceptKey, breaker.since)' = AskedFor(AcceptKey, s)'
  BY <1>2
<1>5. \A c \in Clients : failedAttempts'[c] \subseteq {m \in DOMAIN answers' : answers'[m].key = Key("admin", c)}
  BY DEF AskedFit
<1>6. alone' /\ faults' = 0 => \A k \in Keys2 : CountsAsked(k)'
  BY <1>1, CountsStay
<1> QED BY <1>3, <1>4, <1>5, <1>6, SilentWell DEF AskedMoved, AskedFit, CountsAsked

LEMMA RecordErrorAsked ==
    ASSUME Rows, LimitTables, LimitFacts, LimitRows, AskedFit, NEW p \in Requests, NEW is5xx \in BOOLEAN, RecordError(p, is5xx)
    PROVE  AskedMoved
<1> DEFINE b == [Checked EXCEPT !.requests = @ + 1, !.errors = IF is5xx THEN @ + 1 ELSE @]
<1>1. /\ proc[p].op = "limitAccept" /\ OthersKeep(p)
      /\ breaker' = (IF 2 * b.errors > b.requests THEN Trip(b) ELSE b)
      /\ redis' = redis /\ answers' = answers /\ failedAttempts' = failedAttempts /\ clock' = clock
      /\ faults' = faults /\ alone' = alone
  BY FinishEnds DEF RecordError, accessVars, At, Quiet, Calm, Ends
<1>2. Checked \in BreakerType
  BY CheckedFacts
<1>3. b.accepts = Checked.accepts /\ b.since = Checked.since
  BY <1>2 DEF BreakerType
<1>4. Trip(b).accepts = b.accepts /\ Trip(b).since = b.since
  <2>1. b \in [{"isOpen", "trippedAt", "requests", "errors", "accepts", "since"} -> {b.isOpen, b.trippedAt, b.requests, b.errors, b.accepts, b.since}]
    BY <1>2 DEF b, BreakerType
  <2> HIDE DEF b
  <2> QED BY <2>1 DEF Trip
<1> HIDE DEF b
<1>5. breaker'.accepts = Checked.accepts /\ breaker'.since = Checked.since
  BY <1>1, <1>3, <1>4
<1> QED BY <1>1, <1>5, BreakerAsked

LEMMA OperatorAsked ==
    ASSUME Rows, LimitTables, LimitFacts, LimitRows, AskedFit, NEW p \in Requests, NEW c \in Clients,
           GetBreakerStatus(p, c) \/ ResetBreaker(p, c)
    PROVE  AskedMoved
<1>1. /\ Start(p, [op |-> "idle"])
      /\ failedAttempts' = [failedAttempts EXCEPT ![c] = {}]
      /\ redis' = redis /\ answers' = answers /\ clock' = clock
      /\ breaker' = Checked \/ breaker' = Closed
  BY DEF GetBreakerStatus, ResetBreaker, accessVars
<1>2. OthersKeep(p) /\ proc[p].op # "limited" /\ faults' = faults /\ (alone' => alone)
  BY <1>1, StartBegins, IdleRow DEF Begins
<1>3. Closed.accepts = 0 /\ Closed.since \in Int
  BY DEF Closed, LimitTables
<1>4. \A d \in Clients : failedAttempts'[d] \in {failedAttempts[d], {}}
  BY <1>1 DEF LimitTables
<1> QED BY <1>1, <1>2, <1>3, <1>4, BreakerAsked

LEMMA AdminAsked ==
    ASSUME Rows, LimitTables, LimitFacts, LimitRows, AskedFit, NEW p \in Requests, NEW c \in Clients, AdminRefused(p, c)
    PROVE  AskedMoved
<1> DEFINE recent == {n \in failedAttempts[c] : clock - answers[n].at < Window["admin"]}
           L == Len(answers)
           attempts == recent \cup {L + 1}
           k == Key("admin", c)
<1>1. /\ Start(p, [op |-> "idle"])
      /\ failedAttempts' = [failedAttempts EXCEPT ![c] = attempts]
      /\ Note(k, Cardinality(attempts) <= MaxRequests["admin"])
      /\ redis' = redis /\ breaker' = breaker /\ clock' = clock
  BY DEF AdminRefused, accessVars
<1>2. OthersKeep(p) /\ proc[p].op # "limited" /\ faults' = faults /\ (alone' => alone)
  BY <1>1, StartBegins, IdleRow DEF Begins
<1>3. k \in AnswerKeys /\ k.kind = "admin"
  BY DEF AnswerKeys, Key
<1>4. LimitTables' /\ NotesOne
  BY AdminRefusedMoves DEF LimitsMoved
<1> HIDE DEF k
<1>5. PICK d \in BOOLEAN : d = (Cardinality(attempts) <= MaxRequests["admin"]) /\ Note(k, d)
  <2>1. (Cardinality(attempts) <= MaxRequests["admin"]) \in BOOLEAN
    OBVIOUS
  <2> QED BY <1>1, <2>1
<1>6. /\ DOMAIN answers = 1..L /\ L \in Nat /\ DOMAIN answers' = 1..(L + 1)
      /\ \A n \in DOMAIN answers : answers'[n] = answers[n]
      /\ answers'[L + 1] = [key |-> k, at |-> clock, passed |-> d]
  BY <1>3, <1>5, NoteFacts
<1>7. recent \subseteq DOMAIN answers /\ \A n \in recent : answers[n].key = k
  BY DEF AskedFit, k
<1>8. attempts \subseteq {m \in DOMAIN answers' : answers'[m].key = k}
  <2> HIDE DEF L, recent
  <2> QED BY <1>6, <1>7
<1>9. ASSUME NEW since \in Int, since = clock - Window["admin"]
      PROVE  Cardinality(attempts) \in Nat /\ Cardinality(attempts) <= Cardinality(AskedFor(k, since)') /\ Cardinality(AskedFor(k, since)') \in Nat
  <2>1. clock \in Nat /\ Window["admin"] \in Nat
    BY LimitsAssumption DEF LimitTables
  <2>2. attempts \subseteq AskedFor(k, since)'
    <3>1. ASSUME NEW m \in recent PROVE answers'[m].at >= since
      <4>1. m \in DOMAIN answers /\ clock - answers[m].at < Window["admin"]
        BY <1>7
      <4>2. answers[m].at \in Nat
        <5>1. answers[m] \in AnswerType
          BY <4>1 DEF LimitTables
        <5> QED BY <5>1 DEF AnswerType
      <4>3. answers[m].at >= since
        BY <1>9, <2>1, <4>1, <4>2
      <4> QED BY <1>6, <4>1, <4>3
    <3>2. answers'[L + 1].at = clock /\ clock >= since
      BY <1>6, <1>9, <2>1
    <3> HIDE DEF L, recent
    <3> QED BY <1>8, <3>1, <3>2 DEF AskedFor
  <2>3. IsFiniteSet(AskedFor(k, since)') /\ Cardinality(AskedFor(k, since)') \in Nat
    BY <1>3, <1>5, AskedGrows
  <2> HIDE DEF attempts
  <2> QED BY <2>2, <2>3, FS_Subset, FS_CardinalityType
<1>10. RefusedWell
  <2> SUFFICES ASSUME NEW key \in AnswerKeys, NEW e \in BOOLEAN, Note(key, e), ~e,
                      NEW since \in Int, since = clock - Window[key.kind]
               PROVE  Cardinality(AskedFor(key, since)') > MaxRequests[key.kind]
    BY DEF RefusedWell
  <2> HIDE DEF attempts
  <2>1. key = k /\ e = d
    BY <1>3, <1>5, OneAnswer
  <2>2. ~(Cardinality(attempts) <= MaxRequests["admin"])
    BY <1>5, <2>1, Zenon
  <2>3. MaxRequests["admin"] \in Nat
    BY LimitsAssumption
  <2>4. since = clock - Window["admin"]
    BY <1>3, <2>1
  <2>5. Cardinality(attempts) \in Nat /\ Cardinality(attempts) <= Cardinality(AskedFor(k, since)') /\ Cardinality(AskedFor(k, since)') \in Nat
    BY <1>9, <2>4
  <2> QED BY <1>3, <2>1, <2>2, <2>3, <2>5
<1>11. AskedFit'
  <2>1. PICK s \in Int : s = breaker.since
    BY DEF LimitTables, BreakerType
  <2>2. AskedFor(AcceptKey, breaker.since)' = AskedFor(AcceptKey, s)' /\ AskedFor(AcceptKey, breaker.since) = AskedFor(AcceptKey, s)
    BY <1>1, <2>1
  <2>3. breaker'.accepts <= Cardinality(AskedFor(AcceptKey, s)')
    <3>1. /\ Cardinality(AskedFor(AcceptKey, s)') \in Nat /\ Cardinality(AskedFor(AcceptKey, s)) \in Nat
          /\ Cardinality(AskedFor(AcceptKey, s)') >= Cardinality(AskedFor(AcceptKey, s))
      BY <1>4, AskedFrame
    <3>2. breaker.accepts <= Cardinality(AskedFor(AcceptKey, s)) /\ breaker.accepts \in Nat
      BY <2>1 DEF AskedFit, LimitTables, BreakerType
    <3> QED BY <1>1, <3>1, <3>2
  <2>4. ASSUME NEW j \in Clients PROVE failedAttempts'[j] \subseteq {m \in DOMAIN answers' : answers'[m].key = Key("admin", j)}
    <3> HIDE DEF attempts
    <3>1. CASE j = c
      BY <1>1, <1>8, <3>1 DEF LimitTables, k
    <3>2. CASE j # c
      <4>1. failedAttempts'[j] = failedAttempts[j]
        BY <1>1, <3>2 DEF LimitTables
      <4> QED BY <1>4, <4>1, AskedFrame
    <3> QED BY <3>1, <3>2
  <2>5. alone' /\ faults' = 0 => \A key \in Keys2 : CountsAsked(key)'
    BY <1>1, <1>2, <1>4, CountsStay
  <2> QED BY <2>2, <2>3, <2>4, <2>5 DEF AskedFit, CountsAsked
<1> QED BY <1>10, <1>11 DEF AskedMoved

-----------------------------------------------------------------------------
(* Errors are counted for the acceptances handled                             *)

\* The acceptances that are being handled since the breaker was reset last
Handling == {p \in Requests : proc[p].op = "limitAccept" /\ proc[p].seen = generation}

AcceptRefused == \E n \in DOMAIN answers : answers[n].key.kind = "accept" /\ ~answers[n].passed

\* Each of them is a request already, and when it fails one request more and an error.
HandlingFit ==
    /\ IsFiniteSet(Handling)
    /\ ~straddled => /\ 2 * breaker.errors + Cardinality(Handling) <= breaker.requests
                     /\ breaker.isOpen => AcceptRefused

LEMMA RefusedStays ==
    ASSUME LimitTables, NotesOne, AcceptRefused
    PROVE  AcceptRefused'
<1>1. CASE answers' = answers
  BY <1>1 DEF AcceptRefused
<1>2. ASSUME NEW key \in AnswerKeys, NEW b \in BOOLEAN, Note(key, b) PROVE AcceptRefused'
  <2>1. /\ DOMAIN answers = 1..Len(answers) /\ Len(answers) \in Nat /\ DOMAIN answers' = 1..(Len(answers) + 1)
        /\ \A n \in DOMAIN answers : answers'[n] = answers[n]
    BY <1>2, NoteFacts
  <2>2. PICK n \in DOMAIN answers : answers[n].key.kind = "accept" /\ ~answers[n].passed
    BY DEF AcceptRefused
  <2>3. n \in DOMAIN answers' /\ answers'[n] = answers[n]
    BY <2>1, <2>2
  <2> QED BY <2>2, <2>3 DEF AcceptRefused
<1> QED BY <1>1, <1>2 DEF NotesOne

LEMMA HandlingShrinks ==
    ASSUME LimitTables, HandlingFit, NotesOne, Handling' \subseteq Handling, breaker' = breaker, straddled' = straddled
    PROVE  HandlingFit'
<1>1. IsFiniteSet(Handling') /\ Cardinality(Handling') <= Cardinality(Handling)
      /\ Cardinality(Handling') \in Nat /\ Cardinality(Handling) \in Nat
  BY FS_Subset, FS_CardinalityType DEF HandlingFit
<1>2. ASSUME ~straddled PROVE 2 * breaker.errors + Cardinality(Handling') <= breaker.requests
  <2>1. 2 * breaker.errors + Cardinality(Handling) <= breaker.requests
    BY <1>2 DEF HandlingFit
  <2>2. breaker.errors \in Nat /\ breaker.requests \in Nat
    BY DEF LimitTables, BreakerType
  <2> QED BY <1>1, <2>1, <2>2
<1>3. ~straddled /\ breaker.isOpen => AcceptRefused'
  BY RefusedStays DEF HandlingFit
<1> QED BY <1>1, <1>2, <1>3 DEF HandlingFit

\* The request p does not wait for its acceptance, nor for that of an earlier count.
LEMMA OthersHandle ==
    ASSUME LimitRows, LimitTables, NEW p \in Requests, OthersKeep(p), proc'[p].op # "limitAccept",
           generation' = generation \/ (generation' \in Nat /\ generation' > generation)
    PROVE  /\ generation' = generation => Handling' \subseteq Handling \ {p}
           /\ generation' # generation => Handling' = {}
<1>1. ASSUME NEW q \in Handling' PROVE q # p /\ proc[q] = proc'[q] /\ proc[q].op = "limitAccept" /\ proc[q].seen = generation'
  BY <1>1 DEF Handling, OthersKeep
<1>2. ASSUME NEW q \in Handling' PROVE generation' <= generation
  <2>1. LimitRow(proc[q])
    BY <1>2 DEF LimitRows, Handling
  <2> QED BY <1>1, <1>2, <2>1 DEF LimitRow
<1>3. generation' = generation => Handling' \subseteq Handling \ {p}
  BY <1>1 DEF Handling
<1>4. generation' # generation => Handling' = {}
  <2>1. generation' # generation => ~(generation' <= generation)
    BY DEF LimitTables
  <2> QED BY <1>2, <2>1
<1> QED BY <1>3, <1>4

LEMMA OthersFit ==
    ASSUME LimitTables, LimitRows, HandlingFit, NotesOne, NEW p \in Requests, OthersKeep(p), proc'[p].op # "limitAccept",
           generation' = generation, breaker' = breaker, straddled' = straddled
    PROVE  HandlingFit'
BY OthersHandle, HandlingShrinks

\* Everything is counted anew.
LEMMA AnewFit ==
    ASSUME Handling' = {}, breaker'.errors = 0, breaker'.requests \in Nat,
           ~straddled' /\ breaker'.isOpen => AcceptRefused'
    PROVE  HandlingFit'
<1>1. IsFiniteSet(Handling') /\ Cardinality(Handling') = 0
  BY FS_EmptySet
<1> QED BY <1>1 DEF HandlingFit

LEMMA OperatorFit ==
    ASSUME Rows, LimitTables, LimitFacts, LimitRows, HandlingFit, NEW p \in Requests, NEW c \in Clients,
           GetBreakerStatus(p, c) \/ ResetBreaker(p, c)
    PROVE  HandlingFit'
<1>1. /\ Start(p, [op |-> "idle"])
      /\ answers' = answers /\ straddled' = straddled /\ clock' = clock
      /\ \/ breaker' = Checked /\ generation' = NextGeneration
         \/ breaker' = Closed /\ generation' = generation + 1
  BY DEF GetBreakerStatus, ResetBreaker, accessVars
<1>2. OthersKeep(p) /\ proc'[p].op # "limitAccept"
  <2>1. Begins(p, [op |-> "idle"])
    BY <1>1, StartBegins
  <2> QED BY <2>1 DEF Begins, With
<1>3. NotesOne
  BY <1>1 DEF NotesOne
<1>4. CASE breaker' = breaker /\ generation' = generation
  BY <1>1, <1>2, <1>3, <1>4, OthersFit
<1>5. CASE generation' = generation + 1 /\ (breaker' = Closed \/ (breaker' = Checked /\ Checked # breaker))
  <2>1. generation' \in Nat /\ generation' > generation /\ generation' # generation
    BY <1>5 DEF LimitTables
  <2>2. Handling' = {}
    BY <1>2, <2>1, OthersHandle
  <2>3. CASE breaker' = Closed
    <3>1. Closed.errors = 0 /\ Closed.requests = 0 /\ Closed.isOpen = FALSE
      BY DEF Closed
    <3> QED BY <2>2, <2>3, <3>1, AnewFit
  <2>4. CASE breaker' = Checked /\ Checked # breaker
    <3>1. Checked.errors = 0 /\ Checked.requests = 0 /\ (Checked.isOpen => breaker.isOpen)
      BY <2>4, CheckedFacts
    <3>2. ~straddled' /\ breaker'.isOpen => AcceptRefused'
      BY <1>1, <1>3, <2>4, <3>1, RefusedStays DEF HandlingFit
    <3> QED BY <2>2, <2>4, <3>1, <3>2, AnewFit
  <2> QED BY <1>5, <2>3, <2>4
<1> QED BY <1>1, <1>4, <1>5, NextGenerationFacts

LEMMA RecordErrorFit ==
    ASSUME Rows, LimitTables, LimitFacts, LimitRows, HandlingFit, NEW p \in Requests, NEW is5xx \in BOOLEAN, RecordError(p, is5xx)
    PROVE  HandlingFit'
<1> DEFINE b == [Checked EXCEPT !.requests = @ + 1, !.errors = IF is5xx THEN @ + 1 ELSE @]
<1>1. /\ proc[p].op = "limitAccept" /\ OthersKeep(p) /\ proc'[p] = Idle
      /\ breaker' = (IF 2 * b.errors > b.requests THEN Trip(b) ELSE b)
      /\ answers' = answers /\ generation' = NextGeneration /\ straddled' = (straddled \/ proc[p].seen # NextGeneration)
  BY FinishEnds DEF RecordError, accessVars, At, Quiet, Calm, Ends
<1>2. Checked \in BreakerType /\ (Checked.isOpen => breaker.isOpen)
  BY CheckedFacts
<1>3. b.requests = Checked.requests + 1 /\ b.errors \in {Checked.errors, Checked.errors + 1} /\ b.isOpen = Checked.isOpen
  BY <1>2 DEF BreakerType
<1>4. Checked.requests \in Nat /\ Checked.errors \in Nat
  BY <1>2 DEF BreakerType
<1>5. proc'[p].op # "limitAccept"
  BY <1>1, IdleRow
<1>6. LimitRow(proc[p])
  BY DEF LimitRows
<1> HIDE DEF b
<1>7. IsFiniteSet(Handling')
  <2>1. generation' = generation \/ (generation' \in Nat /\ generation' > generation)
    BY <1>1, NextGenerationFacts DEF LimitTables
  <2>2. Handling' \subseteq Handling \ {p} \/ Handling' = {}
    BY <1>1, <1>5, <2>1, OthersHandle
  <2> QED BY <2>2, FS_EmptySet, FS_Subset DEF HandlingFit
<1>8. ASSUME ~straddled'
      PROVE  2 * breaker'.errors + Cardinality(Handling') <= breaker'.requests /\ (breaker'.isOpen => AcceptRefused')
  <2>1. ~straddled /\ proc[p].seen = NextGeneration
    BY <1>1, <1>8
  <2>2. NextGeneration = generation /\ Checked = breaker
    <3>1. proc[p].seen <= generation
      BY <1>1, <1>6 DEF LimitRow
    <3> QED BY <2>1, <3>1, NextGenerationFacts DEF LimitTables
  <2>3. p \in Handling
    BY <1>1, <2>1, <2>2 DEF Handling
  <2>4. Handling' \subseteq Handling \ {p}
    BY <1>1, <1>5, <2>2, OthersHandle
  <2>5. /\ Cardinality(Handling) \in Nat /\ Cardinality(Handling \ {p}) = Cardinality(Handling) - 1
        /\ Cardinality(Handling') <= Cardinality(Handling \ {p}) /\ Cardinality(Handling') \in Nat
    <3>1. IsFiniteSet(Handling)
      BY DEF HandlingFit
    <3>2. Cardinality(Handling) \in Nat /\ Cardinality(Handling \ {p}) = Cardinality(Handling) - 1 /\ IsFiniteSet(Handling \ {p})
      BY <2>3, <3>1, FS_RemoveElement, FS_CardinalityType
    <3> QED BY <2>4, <3>2, FS_Subset, FS_CardinalityType
  <2>6. 2 * Checked.errors + Cardinality(Handling) <= Checked.requests
    BY <2>1, <2>2 DEF HandlingFit
  <2>7. 2 * b.errors + Cardinality(Handling') <= b.requests
    BY <1>3, <1>4, <2>5, <2>6
  <2>8. ~(2 * b.errors > b.requests)
    BY <1>3, <1>4, <2>5, <2>7
  <2>9. breaker' = b
    BY <1>1, <2>8
  <2>10. b.isOpen => AcceptRefused
    BY <1>2, <1>3, <2>1 DEF HandlingFit
  <2>11. AcceptRefused => AcceptRefused'
    BY <1>1 DEF AcceptRefused
  <2> QED BY <2>7, <2>9, <2>10, <2>11
<1> QED BY <1>7, <1>8 DEF HandlingFit

LEMMA RecordAcceptFit ==
    ASSUME Rows, LimitTables, LimitFacts, LimitRows, HandlingFit, NEW p \in Requests, RecordAccept(p)
    PROVE  HandlingFit'
<1> DEFINE b == [Checked EXCEPT !.accepts = @ + 1, !.requests = @ + 1]
           passed == b.accepts <= MaxRequests["accept"]
<1>1. /\ (\E r : Start(p, r)) /\ breaker' = (IF passed THEN b ELSE Trip(b))
      /\ Note(AcceptKey, passed)
      /\ generation' = NextGeneration /\ straddled' = straddled /\ clock' = clock
  BY DEF RecordAccept, accessVars, AcceptKey
<1>2. Checked \in BreakerType /\ (Checked.isOpen => breaker.isOpen) /\ Checked.requests \in Nat /\ Checked.errors \in Nat
  BY CheckedFacts DEF BreakerType
<1>3. b.requests = Checked.requests + 1 /\ b.errors = Checked.errors /\ b.isOpen = Checked.isOpen
  BY <1>2 DEF BreakerType
<1>4. Trip(b).requests = b.requests /\ Trip(b).errors = b.errors
  <2>1. b \in [{"isOpen", "trippedAt", "requests", "errors", "accepts", "since"} -> {b.isOpen, b.trippedAt, b.requests, b.errors, b.accepts, b.since}]
    BY <1>2 DEF b, BreakerType
  <2> HIDE DEF b
  <2> QED BY <2>1 DEF Trip
<1> HIDE DEF b
<1>5. breaker'.requests = Checked.requests + 1 /\ breaker'.errors = Checked.errors
  BY <1>1, <1>3, <1>4
<1>6. PICK r : Begins(p, r)
  BY <1>1, StartBegins
<1>7. OthersKeep(p) /\ proc[p] = Idle
  BY <1>6 DEF Begins
<1>8. LimitTables' /\ NotesOne
  BY RecordAcceptMoves DEF LimitsMoved
<1>9. Handling' \subseteq (IF Checked = breaker THEN Handling ELSE {}) \cup {p}
  <2>1. ASSUME NEW q \in Handling', q # p PROVE Checked = breaker /\ q \in Handling
    <3>1. proc[q] = proc'[q] /\ proc[q].op = "limitAccept" /\ proc[q].seen = generation' /\ q \in Requests
      BY <1>7, <2>1 DEF Handling, OthersKeep
    <3>2. LimitRow(proc[q])
      BY <3>1 DEF LimitRows
    <3>3. generation' <= generation
      BY <3>1, <3>2 DEF LimitRow
    <3>4. generation' = generation /\ Checked = breaker
      BY <1>1, <3>3, NextGenerationFacts DEF LimitTables
    <3> QED BY <3>1, <3>4 DEF Handling
  <2> QED BY <2>1
<1> DEFINE before == IF Checked = breaker THEN Handling ELSE {}
<1>10. IsFiniteSet(before) /\ Cardinality(before) \in Nat
  BY FS_EmptySet, FS_CardinalityType DEF HandlingFit
<1>11. IsFiniteSet(Handling') /\ Cardinality(Handling') \in Nat /\ Cardinality(Handling') <= Cardinality(before) + 1
  <2> HIDE DEF before
  <2>0. Handling' \subseteq before \cup {p}
    BY <1>9 DEF before
  <2>1. IsFiniteSet(before \cup {p}) /\ Cardinality(before \cup {p}) <= Cardinality(before) + 1 /\ Cardinality(before \cup {p}) \in Nat
    <3>1. IsFiniteSet(before \cup {p}) /\ Cardinality(before \cup {p}) = (IF p \in before THEN Cardinality(before) ELSE Cardinality(before) + 1)
      BY <1>10, FS_AddElement
    <3> QED BY <1>10, <3>1
  <2>2. IsFiniteSet(Handling') /\ Cardinality(Handling') <= Cardinality(before \cup {p}) /\ Cardinality(Handling') \in Nat
    BY <2>0, <2>1, FS_Subset, FS_CardinalityType
  <2> QED BY <1>10, <2>1, <2>2
<1>12. ASSUME ~straddled
       PROVE  2 * breaker'.errors + Cardinality(Handling') <= breaker'.requests
  <2>1. CASE Checked = breaker
    <3>1. 2 * Checked.errors + Cardinality(Handling) <= Checked.requests /\ before = Handling
      BY <1>12, <2>1 DEF HandlingFit
    <3> HIDE DEF before
    <3> QED BY <1>2, <1>5, <1>10, <1>11, <3>1
  <2>2. CASE Checked # breaker
    <3>1. Checked.errors = 0 /\ Checked.requests = 0 /\ Cardinality(before) = 0
      BY <2>2, CheckedFacts, FS_EmptySet
    <3> HIDE DEF before
    <3> QED BY <1>5, <1>11, <3>1
  <2> QED BY <2>1, <2>2
<1>13. ASSUME ~straddled, breaker'.isOpen PROVE AcceptRefused'
  <2>1. CASE passed
    <3>1. breaker.isOpen
      BY <1>1, <1>2, <1>3, <1>13, <2>1
    <3> QED BY <1>8, <1>13, <3>1, RefusedStays DEF HandlingFit
  <2>2. CASE ~passed
    <3>0. AcceptKey \in AnswerKeys /\ AcceptKey.kind = "accept"
      BY DEF AcceptKey, AnswerKeys, Counted, Key
    <3>1. Note(AcceptKey, FALSE)
      <4>1. passed \in BOOLEAN
        OBVIOUS
      <4> HIDE DEF passed
      <4>2. passed = FALSE
        BY <2>2, <4>1
      <4> QED BY <1>1, <4>2
    <3>2. /\ Len(answers) + 1 \in DOMAIN answers'
          /\ answers'[Len(answers) + 1] = [key |-> AcceptKey, at |-> clock, passed |-> FALSE]
      <4>1. /\ DOMAIN answers' = 1..(Len(answers) + 1) /\ Len(answers) \in Nat
            /\ answers'[Len(answers) + 1] = [key |-> AcceptKey, at |-> clock, passed |-> FALSE]
        BY <3>0, <3>1, NoteFacts
      <4> QED BY <4>1
    <3> QED BY <3>0, <3>2 DEF AcceptRefused
  <2> QED BY <2>1, <2>2
<1> QED BY <1>1, <1>11, <1>12, <1>13 DEF HandlingFit

-----------------------------------------------------------------------------
(* The invariant of the limits                                                *)

LimitInv ==
    /\ LimitTables /\ LimitFacts /\ LimitRows
    /\ PassedFit /\ AskedFit /\ HandlingFit /\ RefusedAskedOften

LEMMA LimitsBegin ==
    ASSUME RequestsInit, LimitsInit, clock = 0
    PROVE  LimitInv
<1>1. /\ proc = [p \in Requests |-> Idle] /\ faults = 0
      /\ redis = [k \in Keys2 |-> Zero] /\ redisAvailable = TRUE /\ counts = [k \in Keys2 |-> Zero]
      /\ breaker = Closed /\ failedAttempts = [c \in Clients |-> {}]
      /\ answers = <<>> /\ resets = 0 /\ generation = 0 /\ straddled = FALSE
  BY DEF RequestsInit, LimitsInit
<1>2. Closed = [isOpen |-> FALSE, trippedAt |-> None, requests |-> 0, errors |-> 0, accepts |-> 0, since |-> 0]
  BY DEF Closed
<1>3. Zero = [count |-> 0, until |-> None] /\ Zero \in CounterType
  BY DEF Zero, CounterType
<1>4. answers \in Seq(AnswerType) /\ DOMAIN answers = {}
  BY <1>1
<1>5. LimitTables
  BY <1>1, <1>2, <1>3, <1>4 DEF LimitTables, BreakerType
<1>6. LimitFacts
  BY <1>1, <1>2, <1>3 DEF LimitFacts
<1>7. \A p \in Requests : proc[p].op = "idle"
  BY <1>1, IdleRow
<1>8. LimitRows
  BY <1>7 DEF LimitRows, LimitRow, Expires
<1>9. PassedFit /\ RefusedAskedOften
  BY <1>4 DEF PassedFit, RefusedAskedOften
<1>10. AskedFit
  <2>1. breaker.accepts = 0
    BY <1>1, <1>2
  <2>2. Cardinality(AskedFor(AcceptKey, breaker.since)) \in Nat
    BY <1>5, AskedFinite
  <2>3. breaker.accepts <= Cardinality(AskedFor(AcceptKey, breaker.since))
    BY <2>1, <2>2
  <2> QED BY <1>1, <1>3, <2>3 DEF AskedFit
<1>11. HandlingFit
  <2>1. Handling = {}
    BY <1>7 DEF Handling
  <2>2. IsFiniteSet(Handling) /\ Cardinality(Handling) = 0
    BY <2>1, FS_EmptySet
  <2> QED BY <1>1, <1>2, <2>2 DEF HandlingFit
<1> QED BY <1>5, <1>6, <1>8, <1>9, <1>10, <1>11 DEF LimitInv

LEMMA LimitsGather ==
    ASSUME LimitInv, LimitsMoved, AskedMoved, HandlingFit', alone' => alone, clock' >= clock, faults' >= faults, resets' >= resets
    PROVE  LimitInv'
<1>1. /\ LimitTables' /\ LimitFacts' /\ LimitRows' /\ NotesOne /\ RoomMoves /\ AskedFit' /\ RefusedWell
  BY DEF LimitsMoved, AskedMoved
<1>2. clock' \in Nat /\ faults' \in Nat /\ resets' \in Nat
  BY <1>1 DEF LimitTables
<1>3. PassedFit'
  BY <1>1, <1>2, FitKept DEF LimitInv
<1>4. RefusedAskedOften'
  BY <1>1, <1>2, RefusedKept DEF LimitInv
<1> QED BY <1>1, <1>3, <1>4 DEF LimitInv

LEMMA CountingKept ==
    ASSUME Rows, Lonely, LimitInv, NEW p \in Requests, NEW k \in Keys2, proc[p].op = "limited", proc[p].key = k, OthersKeep(p),
           Incr(p) \/ Expire(p) \/ RedisFails(p) \/ CountInMemory(p)
    PROVE  LimitInv'
<1>1. /\ clock' = clock /\ faults' >= faults /\ resets' = resets /\ alone' = alone /\ generation' = generation
      /\ breaker' = breaker /\ straddled' = straddled /\ (Finish(p) \/ \E s : Goto(p, s))
  BY DEF LimitInv, LimitTables, Incr, Expire, RedisFails, CountInMemory, accessVars, Quiet, Calm, Decide
<1>2. LimitsMoved
  BY IncrMoves, ExpireMoves, RedisFailsMoves, MemoryMoves DEF LimitInv
<1>3. AskedMoved
  <2>1. RedisFails(p) => AskedMoved
    <3>1. RedisFails(p) => answers' = answers /\ faults' = faults + 1 /\ failedAttempts' = failedAttempts /\ breaker' = breaker
      BY DEF RedisFails
    <3> QED BY <3>1, FailureAsked DEF LimitInv
  <2> QED BY <2>1, IncrAsked, ExpireAsked, MemoryAsked DEF LimitInv
<1>4. HandlingFit'
  <2>1. proc'[p].op # "limitAccept"
    <3>1. Finish(p) => proc'[p] = Idle
      BY FinishEnds DEF Ends
    <3>2. ASSUME NEW s, Goto(p, s) PROVE proc'[p].op = "limited"
      BY <3>2, GotoGoes DEF GoesTo, Rows
    <3> QED BY <1>1, <3>1, <3>2, IdleRow
  <2>2. NotesOne
    BY <1>2 DEF LimitsMoved
  <2> QED BY <1>1, <2>1, <2>2, OthersFit DEF LimitInv
<1> QED BY <1>1, <1>2, <1>3, <1>4, LimitsGather DEF LimitInv, LimitTables

LEMMA LimitsKept ==
    ASSUME Rows, Lonely, LimitInv, LimitMoves
    PROVE  LimitInv'
<1>1. CASE LimitsStill
  <2>1. clock' >= clock /\ faults' >= faults /\ (alone' => alone) /\ resets' = resets /\ generation' = generation
        /\ breaker' = breaker /\ straddled' = straddled
    BY <1>1 DEF LimitsStill, limitVars
  <2>2. LimitsMoved
    BY <1>1, StillMoves DEF LimitInv
  <2>3. AskedMoved
    BY <1>1, StillAsked DEF LimitInv
  <2>4. HandlingFit'
    <3>1. Handling' \subseteq Handling
      <4>1. \A q \in Requests : proc'[q] = proc[q] \/ proc'[q].op \notin LimitOps
        BY <1>1 DEF LimitsStill
      <4> QED BY <2>1, <4>1 DEF Handling, LimitOps
    <3> QED BY <2>1, <2>2, <3>1, HandlingShrinks DEF LimitInv, LimitsMoved
  <2> QED BY <2>1, <2>2, <2>3, <2>4, LimitsGather DEF LimitInv, LimitTables
<1>2. ASSUME NEW p \in Requests, UNCHANGED <<limitVars, clock, faults>>, OthersKeep(p), proc[p] = Idle,
             alone' => alone /\ \A q \in Requests : proc[q] = Idle,
             LimitRow(proc'[p]), proc'[p].op = "limited", proc'[p].step # "expire"
      PROVE  LimitInv'
  <2>1. /\ clock' = clock /\ faults' = faults /\ (alone' => alone) /\ resets' = resets /\ generation' = generation
        /\ breaker' = breaker /\ straddled' = straddled /\ answers' = answers /\ failedAttempts' = failedAttempts /\ redis' = redis
    BY <1>2 DEF limitVars
  <2>2. LimitsMoved
    BY <1>2, CallMoves DEF LimitInv
  <2>3. AskedMoved
    BY <1>2, <2>1, CallAsked, IdleRow DEF LimitInv
  <2>4. HandlingFit'
    BY <1>2, <2>1, <2>2, OthersFit DEF LimitInv, LimitsMoved
  <2> QED BY <2>1, <2>2, <2>3, <2>4, LimitsGather DEF LimitInv, LimitTables
<1>3. ASSUME NEW p \in Requests, RecordAccept(p) PROVE LimitInv'
  <2>1. clock' = clock /\ faults' = faults /\ (alone' => alone) /\ resets' = resets
    <3>1. (\E r : Start(p, r)) /\ clock' = clock /\ resets' = resets
      BY <1>3 DEF RecordAccept, accessVars
    <3> QED BY <3>1, StartBegins DEF Begins
  <2>2. LimitsMoved /\ AskedMoved /\ HandlingFit'
    BY <1>3, RecordAcceptMoves, RecordAcceptAsked, RecordAcceptFit DEF LimitInv
  <2> QED BY <2>1, <2>2, LimitsGather DEF LimitInv, LimitTables
<1>4. ASSUME NEW p \in Requests, AcceptAnswers(p) PROVE LimitInv'
  <2>1. /\ clock' = clock /\ faults' = faults /\ (alone' => alone) /\ resets' = resets /\ generation' = generation
        /\ breaker' = breaker /\ straddled' = straddled /\ answers' = answers /\ failedAttempts' = failedAttempts
        /\ redis' = redis /\ Finish(p) /\ proc[p].op = "limitAccept"
    BY <1>4 DEF AcceptAnswers, limitVars, accessVars, Quiet, Calm, At
  <2>2. OthersKeep(p) /\ proc'[p].op # "limitAccept"
    BY <2>1, FinishEnds, IdleRow DEF Ends
  <2>3. LimitsMoved
    BY <1>4, AcceptAnswersMoves DEF LimitInv
  <2>4. AskedMoved
    BY <2>1, <2>2, CallAsked DEF LimitInv
  <2>5. HandlingFit'
    BY <2>1, <2>2, <2>3, OthersFit DEF LimitInv, LimitsMoved
  <2> QED BY <2>1, <2>3, <2>4, <2>5, LimitsGather DEF LimitInv, LimitTables
<1>5. ASSUME NEW p \in Requests, NEW is5xx \in BOOLEAN, RecordError(p, is5xx) PROVE LimitInv'
  <2>1. clock' = clock /\ faults' = faults /\ alone' = alone /\ resets' = resets
    BY <1>5 DEF RecordError, accessVars, Quiet, Calm
  <2>2. LimitsMoved /\ AskedMoved /\ HandlingFit'
    BY <1>5, RecordErrorMoves, RecordErrorAsked, RecordErrorFit DEF LimitInv
  <2> QED BY <2>1, <2>2, LimitsGather DEF LimitInv, LimitTables
<1>6. ASSUME NEW p \in Requests, NEW c \in Clients, AdminRefused(p, c) PROVE LimitInv'
  <2>1. /\ Start(p, [op |-> "idle"]) /\ clock' = clock /\ resets' = resets /\ generation' = generation /\ breaker' = breaker
        /\ straddled' = straddled
    BY <1>6 DEF AdminRefused, accessVars
  <2>2. OthersKeep(p) /\ proc'[p].op # "limitAccept" /\ faults' = faults /\ (alone' => alone)
    <3>1. Begins(p, [op |-> "idle"])
      BY <2>1, StartBegins
    <3> QED BY <3>1 DEF Begins, With
  <2>3. LimitsMoved /\ AskedMoved
    BY <1>6, AdminRefusedMoves, AdminAsked DEF LimitInv
  <2>4. HandlingFit'
    BY <2>1, <2>2, <2>3, OthersFit DEF LimitInv, LimitsMoved
  <2> QED BY <2>1, <2>2, <2>3, <2>4, LimitsGather DEF LimitInv, LimitTables
<1>7. ASSUME NEW p \in Requests, NEW c \in Clients, GetBreakerStatus(p, c) \/ ResetBreaker(p, c) PROVE LimitInv'
  <2>1. Start(p, [op |-> "idle"]) /\ clock' = clock /\ resets' >= resets
    BY <1>7 DEF GetBreakerStatus, ResetBreaker, accessVars, LimitInv, LimitTables
  <2>2. faults' = faults /\ (alone' => alone)
    BY <2>1, StartBegins DEF Begins
  <2>3. LimitsMoved /\ AskedMoved /\ HandlingFit'
    BY <1>7, OperatorMoves, OperatorAsked, OperatorFit DEF LimitInv
  <2> QED BY <2>1, <2>2, <2>3, LimitsGather DEF LimitInv, LimitTables
<1>8. CASE Restart /\ ForgetLimits /\ clock' = clock
  <2>1. /\ faults' = faults + 1 /\ alone' = alone /\ resets' = resets /\ answers' = answers
        /\ failedAttempts' = [c \in Clients |-> {}] /\ breaker' = Closed
    BY <1>8 DEF Restart, ForgetLimits
  <2>2. LimitsMoved /\ AskedMoved
    BY <1>8, <2>1, RestartMoves, FailureAsked DEF LimitInv
  <2>3. HandlingFit'
    <3>1. Handling' = {}
      BY <1>8, RestartEnds, IdleRow DEF Handling
    <3>2. Closed.errors = 0 /\ Closed.requests = 0 /\ Closed.isOpen = FALSE
      BY DEF Closed
    <3> QED BY <2>1, <3>1, <3>2, AnewFit
  <2>4. faults' >= faults
    BY <2>1 DEF LimitInv, LimitTables
  <2> QED BY <1>8, <2>1, <2>2, <2>3, <2>4, LimitsGather DEF LimitInv, LimitTables
<1> QED BY <1>1, <1>2, <1>3, <1>4, <1>5, <1>6, <1>7, <1>8, CountingKept, LimitCases DEF LimitInv

LEMMA LimitsSafe ==
    ASSUME LimitInv
    PROVE  RefusedAskedOften /\ PassedAreBounded /\ ErrorsAreHalf
<1>1. RefusedAskedOften
  BY DEF LimitInv
<1>2. PassedAreBounded
  <2> SUFFICES ASSUME NEW n \in DOMAIN answers, NEW key, key = answers[n].key, key.kind # "admin"
               PROVE  Cardinality({m \in n..Len(answers) : /\ answers[m].key = key /\ answers[m].passed
                                                 /\ answers[m].at < answers[n].at + Window[key.kind]})
                          <= (Periods(key.kind) + 2 * faults + resets) * MaxRequests[key.kind]
    BY DEF PassedAreBounded
  <2>1. answers[n] \in AnswerType
    BY DEF LimitInv, LimitTables
  <2>2. key \in AnswerKeys /\ answers[n].at \in Nat
    BY <2>1 DEF AnswerType
  <2>3. key \in Counted /\ Window[key.kind] \in Nat /\ key.kind \in {"ip", "wallet", "accept"}
    BY <2>2, KindFacts
  <2>4. PICK T \in Nat : T = answers[n].at + Window[key.kind]
    BY <2>2, <2>3
  <2>5. Cardinality(Passing(key, n, T)) + Room(key, T) <= Quota(key.kind)
    BY <2>4 DEF LimitInv, PassedFit
  <2>6. Room(key, T) \in Nat /\ Cardinality(Passing(key, n, T)) \in Nat /\ Quota(key.kind) \in Nat
    BY <2>3, RoomFits, PassingFinite, BudgetFloor DEF LimitInv, LimitTables
  <2>7. Cardinality(Passing(key, n, T)) <= Quota(key.kind)
    BY <2>5, <2>6
  <2>8. Passing(key, n, T) = {m \in n..Len(answers) : /\ answers[m].key = key /\ answers[m].passed
                                                 /\ answers[m].at < answers[n].at + Window[key.kind]}
    BY <2>4 DEF Passing
  <2> QED BY <2>7, <2>8 DEF Quota
<1>3. ErrorsAreHalf
  <2> SUFFICES ASSUME ~straddled PROVE 2 * breaker.errors <= breaker.requests /\ (breaker.isOpen => AcceptRefused)
    BY DEF ErrorsAreHalf, AcceptRefused
  <2>1. 2 * breaker.errors + Cardinality(Handling) <= breaker.requests /\ Cardinality(Handling) \in Nat
    BY FS_CardinalityType DEF LimitInv, HandlingFit
  <2>2. breaker.errors \in Nat /\ breaker.requests \in Nat
    BY DEF LimitInv, LimitTables, BreakerType
  <2> QED BY <2>1, <2>2 DEF LimitInv, HandlingFit
<1> QED BY <1>1, <1>2, <1>3
=============================================================================
