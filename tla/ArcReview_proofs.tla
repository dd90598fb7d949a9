-------------------------- MODULE ArcReview_proofs --------------------------
(***************************************************************************)
(* Theorems about the escrow of ideas and about the review of tasks, for   *)
(* all values of their constants.                                          *)
(*                                                                         *)
(* AdvancedArcEscrow.  ArcInv is inductive: besides the types and          *)
(* MoneyAccounted it says what the status of a milestone tells of its      *)
(* amount, of what it has released and of its dispute (LifeOf).  The sums  *)
(* over ideas and milestones follow a step through MovesOneMilestone.      *)
(*                                                                         *)
(* ReviewSystem, for any order of calls.  Each contract has an invariant   *)
(* of its own, inductive by itself: what one contract calls in another is  *)
(* an operation of the other.                                              *)
(***************************************************************************)
EXTENDS AdvancedArcEscrow, ReviewSystem, SumTheorems

-----------------------------------------------------------------------------
(* AdvancedArcEscrow: arithmetic *)

\* Part of an amount is at most the amount.
LEMMA FeeFits ==
    ASSUME NEW a \in Nat, NEW bps \in Nat, bps <= BPS
    PROVE  Fee(a, bps) \in Nat /\ Fee(a, bps) <= a /\ Fee(a, bps) * BPS <= a * bps
<1>1. a * bps \in Nat /\ a * bps <= a * 10000
  BY ProductGrows DEF BPS
<1>2. Fee(a, bps) \in Nat /\ 10000 * Fee(a, bps) <= a * bps
  BY <1>1, Quotient DEF Fee, BPS
<1> QED
  BY <1>1, <1>2 DEF BPS

Shares == [worker : Nat, staker : Nat, treasury : Nat, poster : Nat]

\* Fees within their rates.
FeesFit(s) ==
    s.staker * BPS <= Sum4(s) * StakerBPS /\ s.treasury * BPS <= Sum4(s) * TreasuryBPS

\* The split of an amount is all of it, and its fees are within their rates.
LEMMA SplitIsAll ==
    ASSUME NEW amount \in Nat
    PROVE  Split(amount) \in Shares /\ Sum4(Split(amount)) = amount /\ FeesFit(Split(amount))
<1>0. StakerBPS \in Nat /\ TreasuryBPS \in Nat /\ StakerBPS <= BPS /\ TreasuryBPS <= BPS
  BY DEF BPS, StakerBPS, TreasuryBPS
<1>1. /\ Fee(amount, StakerBPS) \in Nat /\ 10000 * Fee(amount, StakerBPS) <= amount * 900
      /\ Fee(amount, TreasuryBPS) \in Nat /\ 10000 * Fee(amount, TreasuryBPS) <= amount * 1000
  <2>1. /\ Fee(amount, StakerBPS) \in Nat /\ Fee(amount, StakerBPS) * BPS <= amount * StakerBPS
        /\ Fee(amount, TreasuryBPS) \in Nat
        /\ Fee(amount, TreasuryBPS) * BPS <= amount * TreasuryBPS
    BY <1>0, FeeFits
  <2> QED BY <2>1 DEF BPS, StakerBPS, TreasuryBPS
<1> DEFINE a == Fee(amount, StakerBPS)
           b == Fee(amount, TreasuryBPS)
<1>2. a + b <= amount
  BY <1>1
<1>3. Split(amount) = [worker |-> amount - a - b, staker |-> a, treasury |-> b, poster |-> 0]
  BY DEF Split
<1> HIDE DEF a, b
<1>4. a \in Nat /\ b \in Nat /\ 10000 * a <= amount * 900 /\ 10000 * b <= amount * 1000
  BY <1>1 DEF a, b
<1> QED
  BY <1>2, <1>3, <1>4 DEF Shares, Sum4, FeesFit, BPS, StakerBPS, TreasuryBPS

\* What a resolution awards is the whole amount, with fees within their rates.
LEMMA AwardIsAll ==
    ASSUME ArcTypeOK, NEW m \in Milestones, NEW bps \in Nat,
           NEW resolution \in {"WorkerWins", "PosterWins", "Split"},
           resolution = "Split" => bps <= BPS
    PROVE  /\ Award(m, resolution, bps) \in Shares
           /\ Sum4(Award(m, resolution, bps)) = milestones[m].amount
           /\ FeesFit(Award(m, resolution, bps))
<1> DEFINE amount == milestones[m].amount
           s == Split(amount)
<1>1. amount \in Nat
  BY DEF ArcTypeOK, MilestoneType
<1>2. s \in Shares /\ Sum4(s) = amount /\ FeesFit(s) /\ s.poster = 0
  BY <1>1, SplitIsAll DEF Split
<1>3. CASE resolution = "WorkerWins"
  BY <1>2, <1>3 DEF Award
<1>4. CASE resolution = "PosterWins"
  BY <1>1, <1>4 DEF Award, Nothing, Shares, Sum4, FeesFit, BPS, StakerBPS, TreasuryBPS
<1>5. CASE resolution = "Split"
  <2> DEFINE share == Fee(s.worker, bps)
             t == [worker |-> share, staker |-> s.staker,
                   treasury |-> s.treasury, poster |-> s.worker - share]
  <2>1. share \in Nat /\ share <= s.worker
    BY <1>2, <1>5, FeeFits DEF Shares
  <2>2. Award(m, resolution, bps) = t
    BY <1>2, <1>5 DEF Award, Shares
  <2>a. s \in Shares /\ Sum4(s) = amount /\ FeesFit(s) /\ s.poster = 0
    BY <1>2
  <2> HIDE DEF share, s
  <2>3. /\ t \in Shares /\ t.worker = share /\ t.poster = s.worker - share
        /\ t.staker = s.staker /\ t.treasury = s.treasury
    BY <2>a, <2>1 DEF Shares
  <2>4. Sum4(t) = Sum4(s)
    BY <2>a, <2>1, <2>3 DEF Shares, Sum4
  <2> QED BY <2>a, <2>2, <2>3, <2>4 DEF FeesFit
<1> QED
  BY <1>3, <1>4, <1>5

\* Adding shares adds what they come to.
LEMMA SharesAdd ==
    ASSUME NEW s \in Shares, NEW t \in Shares, FeesFit(s), FeesFit(t)
    PROVE  Add(s, t) \in Shares /\ Sum4(Add(s, t)) = Sum4(s) + Sum4(t) /\ FeesFit(Add(s, t))
<1>1. Add(s, t) = [worker |-> s.worker + t.worker, staker |-> s.staker + t.staker,
                   treasury |-> s.treasury + t.treasury, poster |-> s.poster + t.poster]
  BY DEF Add, Shares
<1> QED
  BY <1>1 DEF Shares, Sum4, FeesFit, BPS, StakerBPS, TreasuryBPS
-----------------------------------------------------------------------------
(* The inductive invariant *)

\* What the status of a milestone tells of its idea, its amount, what it has
\* released and its dispute.
LifeOf(m) ==
    LET f == milestones[m]  d == milestoneDisputes[m]  IN
    /\ f.status = "None" => f.amount = 0
    /\ f.status # "None" => f.idea \in Ideas /\ f.amount > 0
    /\ f.status \notin {"Approved", "Released"} => f.released = 0
    /\ f.status = "Approved" => f.startTime <= timestamp
    /\ f.released <= f.amount
    /\ d.resolved => f.status \in {"Released", "Refunded"}
    /\ DisputeOpen(m) => f.status = "Disputed"

Good(m) == LifeOf(m) /\ PaidRight(m) /\ WithinSchedule(m)

ArcInv ==
    /\ ArcTypeOK
    /\ \A m \in Milestones : Good(m)
    /\ IdeasKeepApart
    /\ CounterLagsByRefunds

-----------------------------------------------------------------------------
(* Vesting *)

\* What has vested beyond what was released is at most the amount, and while it
\* is less, within the schedule.
LEMMA VestedBounds ==
    ASSUME ArcTypeOK, NEW m \in Milestones, LifeOf(m), InState(m, "Approved"),
           Vested(m) > milestones[m].released
    PROVE  /\ Vested(m) \in Nat /\ Vested(m) <= milestones[m].amount
           /\ Vested(m) < milestones[m].amount => OnSchedule(m, Vested(m))
<1> DEFINE f == milestones[m]
           v == f.vesting
           elapsed == timestamp - f.startTime
           atCliff == f.amount \div 4
           rest == v.duration - v.cliff
           after == elapsed - v.cliff
<1>1. /\ f.amount \in Nat /\ f.released \in Nat /\ f.startTime \in Nat /\ timestamp \in Nat
      /\ v.duration \in Nat /\ v.cliff \in Nat /\ v.linear \in BOOLEAN
  BY DEF ArcTypeOK, MilestoneType, Vesting
<1>2. elapsed \in Nat
  BY <1>1 DEF LifeOf, InState
<1>3. CASE f.startTime = 0 \/ v.duration = 0 \/ elapsed >= v.duration
  <2>1. Vested(m) = f.amount
    BY <1>1, <1>3 DEF Vested
  <2> QED BY <1>1, <2>1
<1>4. CASE ~(f.startTime = 0 \/ v.duration = 0 \/ elapsed >= v.duration)
  <2>1. elapsed >= v.cliff
    BY <1>1, <1>4 DEF Vested
  <2>2. CASE v.linear
    <3>1. Vested(m) = (f.amount * elapsed) \div v.duration
      BY <1>1, <1>4, <2>1, <2>2 DEF Vested
    <3> HIDE DEF f, v, elapsed
    <3>2. f.amount * elapsed \in Nat /\ v.duration \in Nat \ {0}
      BY <1>1, <1>2, <1>4, ProductGrows
    <3>3. Vested(m) \in Nat /\ v.duration * Vested(m) <= f.amount * elapsed
      BY <3>1, <3>2, Quotient
    <3>4. f.amount * elapsed <= f.amount * v.duration
      BY <1>1, <1>2, <1>4, ProductGrows
    <3>5. Vested(m) <= f.amount
      <4> SUFFICES ASSUME Vested(m) >= f.amount + 1 PROVE FALSE
        BY <1>1, <3>3
      <4>1. v.duration * (f.amount + 1) <= v.duration * Vested(m)
        BY <1>1, <3>3, ProductGrows
      <4>2. v.duration * (f.amount + 1) = f.amount * v.duration + v.duration
        BY <1>1
      <4>3. v.duration > 0 /\ f.amount * v.duration \in Nat /\ v.duration * Vested(m) \in Nat
        BY <1>1, <3>2, <3>3, ProductGrows
      <4> QED BY <1>1, <3>2, <3>3, <3>4, <4>1, <4>2, <4>3
    <3>6. OnSchedule(m, Vested(m))
      <4>1. Vested(m) * v.duration <= f.amount * elapsed
        BY <1>1, <3>3
      <4> QED BY <2>1, <2>2, <4>1 DEF OnSchedule, f, v, elapsed
    <3> QED BY <3>3, <3>5, <3>6 DEF f
  <2>3. CASE ~v.linear
    <3> DEFINE more == ((f.amount - atCliff) * after) \div rest
    <3>1. Vested(m) = atCliff + more
      BY <1>1, <1>4, <2>1, <2>3 DEF Vested
    <3>2. after \in Nat /\ rest \in Nat \ {0} /\ after <= rest
      BY <1>1, <1>2, <1>4, <2>1
    <3>3. atCliff \in Nat /\ 4 * atCliff <= f.amount
      BY <1>1, Quotient
    <3>a. f.amount \in Nat
      BY <1>1
    <3> HIDE DEF f, v, elapsed, rest, after, atCliff
    <3> DEFINE left == f.amount - atCliff
    <3>4. left \in Nat
      BY <3>a, <3>3
    <3>5. left * after \in Nat /\ left * after <= left * rest /\ left * rest \in Nat
      BY <3>2, <3>4, ProductGrows
    <3>6. more \in Nat /\ rest * more <= left * after
      <4> HIDE DEF left
      <4>1. (left * after) \div rest \in Nat
            /\ rest * ((left * after) \div rest) <= left * after
        BY <3>2, <3>5, Quotient
      <4> QED BY <4>1 DEF left
    <3> HIDE DEF more
    <3>7. more <= left
      <4> SUFFICES ASSUME more >= left + 1 PROVE FALSE
        BY <3>4, <3>6
      <4> HIDE DEF left
      <4>1. rest * (left + 1) <= rest * more /\ rest * more \in Nat
        BY <3>2, <3>4, <3>6, ProductGrows
      <4>2. rest * (left + 1) = left * rest + rest
        BY <3>2, <3>4
      <4> QED BY <3>2, <3>5, <3>6, <4>1, <4>2
    <3>8. Vested(m) \in Nat /\ Vested(m) <= f.amount
      BY <3>a, <3>1, <3>3, <3>6, <3>7
    <3>9. 4 * (Vested(m) * rest) <= f.amount * (rest + 3 * after)
      <4>1. Vested(m) * rest = atCliff * rest + rest * more
        BY <3>1, <3>2, <3>3, <3>6
      <4>2. rest * more <= f.amount * after - atCliff * after
        BY <3>a, <3>2, <3>3, <3>6
      <4>3. (rest - after) * (4 * atCliff) <= (rest - after) * f.amount
        <5>1. rest - after \in Nat /\ 4 * atCliff \in Nat
          BY <3>2, <3>3
        <5> QED BY <5>1, <3>3, <3>a, ProductGrows
      <4>4. (rest - after) * (4 * atCliff) = 4 * (atCliff * rest) - 4 * (atCliff * after)
        BY <3>2, <3>3
      <4>5. (rest - after) * f.amount = f.amount * rest - f.amount * after
        BY <3>2, <3>a
      <4>6. f.amount * (rest + 3 * after) = f.amount * rest + 3 * (f.amount * after)
        BY <3>2, <3>a
      <4>7. /\ f.amount * rest \in Int /\ f.amount * after \in Int
            /\ atCliff * rest \in Int /\ atCliff * after \in Int /\ rest * more \in Int
        BY <3>2, <3>3, <3>6, <3>a
      <4> QED BY <4>1, <4>2, <4>3, <4>4, <4>5, <4>6, <4>7
    <3> QED BY <2>1, <2>3, <3>8, <3>9 DEF OnSchedule, f, v, elapsed, rest, after
  <2> QED BY <2>2, <2>3
<1> QED
  BY <1>3, <1>4

\* Time only adds to what may have been released.
LEMMA SchedulesGrow ==
    ASSUME ArcTypeOK, NEW m \in Milestones, WithinSchedule(m), LifeOf(m),
           milestones'[m] = milestones[m], timestamp' = timestamp + 1
    PROVE  WithinSchedule(m)'
<1> SUFFICES ASSUME InState(m, "Approved"), milestones[m].released > 0
             PROVE  OnSchedule(m, milestones[m].released)'
  BY DEF WithinSchedule, InState
<1> DEFINE f == milestones[m]
           v == f.vesting
           elapsed == timestamp - f.startTime
           rest == v.duration - v.cliff
           after == elapsed - v.cliff
<1>1. /\ f.amount \in Nat /\ f.released \in Nat /\ f.startTime \in Nat /\ timestamp \in Nat
      /\ v.duration \in Nat /\ v.cliff \in Nat /\ v.linear \in BOOLEAN
  BY DEF ArcTypeOK, MilestoneType, Vesting
<1>2. OnSchedule(m, f.released)
  BY DEF WithinSchedule
<1>3. timestamp' - f.startTime = elapsed + 1 /\ elapsed \in Int /\ rest \in Int /\ after \in Int
  BY <1>1
<1>4. timestamp' - f.startTime >= v.cliff
  BY <1>1, <1>2 DEF OnSchedule
<1>5. CASE v.linear
  <2>1. f.released * v.duration <= f.amount * elapsed
    BY <1>2, <1>5 DEF OnSchedule
  <2>2. f.amount * (elapsed + 1) = f.amount * elapsed + f.amount
    BY <1>1, <1>3
  <2>3. f.released * v.duration <= f.amount * (timestamp' - f.startTime)
    BY <1>1, <1>3, <2>1, <2>2
  <2> QED BY <1>4, <1>5, <2>3 DEF OnSchedule
<1>6. CASE ~v.linear
  <2>1. 4 * (f.released * rest) <= f.amount * (rest + 3 * after)
    BY <1>2, <1>6 DEF OnSchedule
  <2>2. f.amount * (rest + 3 * (after + 1)) = f.amount * (rest + 3 * after) + 3 * f.amount
    BY <1>1, <1>3
  <2>3. timestamp' - f.startTime - v.cliff = after + 1
    BY <1>1
  <2>4. 4 * (f.released * rest) <= f.amount * (rest + 3 * (timestamp' - f.startTime - v.cliff))
    BY <1>1, <1>3, <2>1, <2>2, <2>3
  <2> QED BY <1>4, <1>6, <2>4 DEF OnSchedule
<1> QED
  BY <1>1, <1>5, <1>6

-----------------------------------------------------------------------------
(* Sums over ideas and milestones *)

\* The terms of the sums are naturals.
LEMMA Terms ==
    ASSUME ArcTypeOK, NEW m \in Milestones, LifeOf(m)
    PROVE  /\ Owed(m) \in Nat /\ PaidOut(m) \in Nat /\ Returned(m) \in Nat
           /\ \A i \in Ideas : TakenFrom(i, m) \in Nat
<1>1. /\ milestones[m].amount \in Nat /\ milestones[m].released \in Nat
      /\ milestones[m].released <= milestones[m].amount
      /\ paid[m] \in Shares
  BY DEF ArcTypeOK, MilestoneType, LifeOf, Shares
<1>2. Owed(m) \in Nat
  BY <1>1 DEF Owed
<1>3. PaidOut(m) \in Nat
  BY <1>1 DEF PaidOut, Sum4, Shares
<1>4. Returned(m) \in Nat
  BY <1>1 DEF Returned
<1> QED
  BY <1>2, <1>3, <1>4 DEF TakenFrom

TermsOf(n) ==
    /\ Owed(n) \in Nat /\ PaidOut(n) \in Nat /\ Returned(n) \in Nat
    /\ \A i \in Ideas : TakenFrom(i, n) \in Nat

AllLive == ArcTypeOK /\ \A n \in Milestones : LifeOf(n)

\* The same of the next state.
LEMMA TermsNext == AllLive' => (\A n \in Milestones : TermsOf(n))'
<1>1. AllLive => \A n \in Milestones : TermsOf(n)
  BY Terms DEF AllLive, TermsOf
<1> QED
  BY <1>1, PTL

\* Between two states that are alike but for milestone m and the balance of its
\* idea k, no money changes hands unless it is paid.
OnlyMoves(m, k) ==
    /\ \A n \in Milestones \ {m} :
          milestones'[n] = milestones[n] /\ milestoneDisputes'[n] = milestoneDisputes[n] /\ paid'[n] = paid[n]
    /\ \A i \in Ideas \ {k} : ideas'[i] = ideas[i]
    /\ ideas'[k].funded = ideas[k].funded
    /\ withdrawn' = withdrawn
    /\ milestones[m].idea = k /\ milestones'[m].idea = k

\* A step of one milestone that moves its money only between what is available,
\* owed and paid keeps every idea's account and the contract's.
LEMMA MovesOneMilestone ==
    ASSUME ArcTypeOK, \A n \in Milestones : LifeOf(n), IdeasKeepApart, CounterLagsByRefunds,
           ArcTypeOK', \A n \in Milestones : LifeOf(n)',
           NEW m \in Milestones, NEW k \in Ideas, OnlyMoves(m, k),
           ideas'[k].available + Owed(m)' + PaidOut(m)'
             = ideas[k].available + Owed(m) + PaidOut(m),
           held' - held = ideas'[k].available - ideas[k].available + Owed(m)' - Owed(m),
           totalEscrowed' - totalEscrowed = held' - held - Returned(m)' + Returned(m)
    PROVE  IdeasKeepApart' /\ CounterLagsByRefunds'
<1>1. \A n \in Milestones :
        /\ Owed(n) \in Int /\ PaidOut(n) \in Int /\ Returned(n) \in Int
        /\ Owed(n)' \in Int /\ PaidOut(n)' \in Int /\ Returned(n)' \in Int
        /\ \A i \in Ideas : TakenFrom(i, n) \in Int /\ TakenFrom(i, n)' \in Int
  <2> SUFFICES ASSUME NEW n \in Milestones
               PROVE  /\ Owed(n) \in Int /\ PaidOut(n) \in Int /\ Returned(n) \in Int
                      /\ Owed(n)' \in Int /\ PaidOut(n)' \in Int /\ Returned(n)' \in Int
                      /\ \A i \in Ideas : TakenFrom(i, n) \in Int /\ TakenFrom(i, n)' \in Int
    OBVIOUS
  <2>1. LifeOf(n) /\ LifeOf(n)'
    OBVIOUS
  <2>2. /\ Owed(n) \in Nat /\ PaidOut(n) \in Nat /\ Returned(n) \in Nat
        /\ \A i \in Ideas : TakenFrom(i, n) \in Nat
    BY <2>1, Terms
  <2>3. TermsOf(n)'
    BY TermsNext DEF AllLive
  <2> QED BY <2>1, <2>2, <2>3 DEF TermsOf
<1>2. \A n \in Milestones \ {m} :
        /\ Owed(n)' = Owed(n) /\ PaidOut(n)' = PaidOut(n) /\ Returned(n)' = Returned(n)
        /\ \A i \in Ideas : TakenFrom(i, n)' = TakenFrom(i, n)
  BY DEF OnlyMoves, Owed, PaidOut, Returned, ReturnedToIdea, InState, TakenFrom
<1>3. /\ \A i \in Ideas : ideas[i].available \in Int /\ ideas[i].funded \in Int
      /\ \A i \in Ideas : ideas'[i].available \in Int /\ ideas'[i].funded \in Int
      /\ \A i \in Ideas : withdrawn[i] \in Int
      /\ held \in Int /\ totalEscrowed \in Int /\ held' \in Int /\ totalEscrowed' \in Int
  BY DEF ArcTypeOK
<1>f. IsFiniteSet(Milestones) /\ IsFiniteSet(Ideas)
  BY AccountsAssumption
<1>4. IdeasKeepApart'
  <2> SUFFICES ASSUME NEW i \in Ideas
               PROVE  (ideas[i].funded = ideas[i].available + withdrawn[i]
                         + SumFunctionOnSet([n \in Milestones |-> TakenFrom(i, n)], Milestones))'
    BY DEF IdeasKeepApart
  <2> DEFINE F == [n \in Milestones |-> TakenFrom(i, n)]
             G == [n \in Milestones |-> TakenFrom(i, n)']
  <2>1. /\ \A n \in Milestones : F[n] \in Int /\ G[n] \in Int
        /\ \A n \in Milestones \ {m} : G[n] = F[n]
    BY <1>1, <1>2
  <2>2. F[m] = TakenFrom(i, m) /\ G[m] = TakenFrom(i, m)'
    OBVIOUS
  <2>3. ideas[i].funded = ideas[i].available + withdrawn[i] + SumFunctionOnSet(F, Milestones)
    BY DEF IdeasKeepApart
  <2>4. SumFunctionOnSet(G, Milestones) = SumFunctionOnSet(F, Milestones) - F[m] + G[m]
    <3> HIDE DEF F, G
    <3> QED BY <1>f, <2>1, SumOfOneChange
  <2>5. SumFunctionOnSet(F, Milestones) \in Int
    <3> HIDE DEF F, G
    <3> QED BY <1>f, <2>1, SumType
  <2>6. ideas'[i].funded = ideas'[i].available + withdrawn'[i] + SumFunctionOnSet(G, Milestones)
    <3> HIDE DEF F, G
    <3>1. CASE i = k
      <4>1. TakenFrom(i, m) = Owed(m) + PaidOut(m) /\ TakenFrom(i, m)' = Owed(m)' + PaidOut(m)'
        BY <3>1 DEF OnlyMoves, TakenFrom
      <4>2. ideas'[i].funded = ideas[i].funded /\ withdrawn' = withdrawn
        BY <3>1 DEF OnlyMoves
      <4>3. SumFunctionOnSet(G, Milestones)
              = SumFunctionOnSet(F, Milestones) + ideas[i].available - ideas'[i].available
        BY <1>1, <1>3, <2>2, <2>4, <2>5, <3>1, <4>1
      <4> QED BY <1>3, <2>3, <2>5, <4>2, <4>3
    <3>2. CASE i # k
      <4>1. TakenFrom(i, m) = 0 /\ TakenFrom(i, m)' = 0
        BY <3>2 DEF OnlyMoves, TakenFrom
      <4>2. ideas'[i] = ideas[i] /\ withdrawn' = withdrawn
        BY <3>2 DEF OnlyMoves
      <4> QED BY <1>3, <2>2, <2>3, <2>4, <2>5, <4>1, <4>2
    <3> QED BY <3>1, <3>2
  <2> QED BY <2>6
<1>5. CounterLagsByRefunds'
  <2> DEFINE A == [i \in Ideas |-> ideas[i].available]
             A1 == [i \in Ideas |-> ideas'[i].available]
             W == [n \in Milestones |-> Owed(n)]
             W1 == [n \in Milestones |-> Owed(n)']
             R == [n \in Milestones |-> Returned(n)]
             R1 == [n \in Milestones |-> Returned(n)']
  <2>1. /\ \A i \in Ideas : A[i] \in Int /\ A1[i] \in Int
        /\ \A i \in Ideas \ {k} : A1[i] = A[i]
    BY <1>3 DEF OnlyMoves
  <2>2. /\ \A n \in Milestones : W[n] \in Int /\ W1[n] \in Int
        /\ \A n \in Milestones \ {m} : W1[n] = W[n]
    BY <1>1, <1>2
  <2>3. /\ \A n \in Milestones : R[n] \in Int /\ R1[n] \in Int
        /\ \A n \in Milestones \ {m} : R1[n] = R[n]
    BY <1>1, <1>2
  <2>4. /\ A[k] = ideas[k].available /\ A1[k] = ideas'[k].available
        /\ W[m] = Owed(m) /\ W1[m] = Owed(m)' /\ R[m] = Returned(m) /\ R1[m] = Returned(m)'
    OBVIOUS
  <2>5. /\ held = SumFunctionOnSet(A, Ideas) + SumFunctionOnSet(W, Milestones)
        /\ totalEscrowed = held - SumFunctionOnSet(R, Milestones)
    BY DEF CounterLagsByRefunds, Obligations
  <2>6. held' = SumFunctionOnSet(A1, Ideas) + SumFunctionOnSet(W1, Milestones)
        /\ totalEscrowed' = held' - SumFunctionOnSet(R1, Milestones)
    <3> HIDE DEF A, A1, W, W1, R, R1
    <3>1. SumFunctionOnSet(A1, Ideas) = SumFunctionOnSet(A, Ideas) - A[k] + A1[k]
          /\ SumFunctionOnSet(A, Ideas) \in Int
      BY <1>f, <2>1, SumOfOneChange, SumType
    <3>2. SumFunctionOnSet(W1, Milestones) = SumFunctionOnSet(W, Milestones) - W[m] + W1[m]
          /\ SumFunctionOnSet(W, Milestones) \in Int
      BY <1>f, <2>2, SumOfOneChange, SumType
    <3>3. SumFunctionOnSet(R1, Milestones) = SumFunctionOnSet(R, Milestones) - R[m] + R1[m]
          /\ SumFunctionOnSet(R, Milestones) \in Int
      BY <1>f, <2>3, SumOfOneChange, SumType
    <3> QED BY <1>1, <1>3, <2>4, <2>5, <3>1, <3>2, <3>3
  <2> QED BY <2>6 DEF CounterLagsByRefunds, Obligations
<1> QED
  BY <1>4, <1>5

-----------------------------------------------------------------------------
(* Steps of one milestone *)

\* A milestone that nothing touches stays good.
LEMMA GoodStays ==
    ASSUME NEW n \in Milestones, Good(n), timestamp' = timestamp,
           milestones'[n] = milestones[n], milestoneDisputes'[n] = milestoneDisputes[n], paid'[n] = paid[n]
    PROVE  Good(n)'
<1>1. LifeOf(n)'
  BY DEF Good, LifeOf, DisputeOpen
<1>2. PaidRight(n)'
  BY DEF Good, PaidRight, PaidOut, Returned, ReturnedToIdea, InState
<1>3. WithinSchedule(n)'
  BY DEF Good, WithinSchedule, InState, OnSchedule
<1> QED
  BY <1>1, <1>2, <1>3 DEF Good

\* What is to be shown of a step of one milestone.
LEMMA MilestoneStep ==
    ASSUME ArcInv, ArcTypeOK', NEW m \in Milestones, NEW k \in Ideas, OnlyMoves(m, k),
           timestamp' = timestamp, Good(m)',
           ideas'[k].available + Owed(m)' + PaidOut(m)'
             = ideas[k].available + Owed(m) + PaidOut(m),
           held' - held = ideas'[k].available - ideas[k].available + Owed(m)' - Owed(m),
           totalEscrowed' - totalEscrowed = held' - held - Returned(m)' + Returned(m)
    PROVE  ArcInv'
<1>1. \A n \in Milestones : Good(n)'
  <2> SUFFICES ASSUME NEW n \in Milestones, n # m PROVE Good(n)'
    OBVIOUS
  <2>1. Good(n) /\ milestones'[n] = milestones[n] /\ milestoneDisputes'[n] = milestoneDisputes[n]
        /\ paid'[n] = paid[n]
    BY DEF ArcInv, OnlyMoves
  <2> QED BY <2>1, GoodStays
<1>2. ArcTypeOK /\ (\A n \in Milestones : LifeOf(n)) /\ IdeasKeepApart /\ CounterLagsByRefunds
  BY DEF ArcInv, Good
<1>3. \A n \in Milestones : LifeOf(n)'
  BY <1>1 DEF Good
<1>4. IdeasKeepApart' /\ CounterLagsByRefunds'
  BY <1>2, <1>3, MovesOneMilestone
<1> QED
  BY <1>1, <1>4 DEF ArcInv

\* A step that changes neither the money nor what m has of it.
LEMMA QuietStep ==
    ASSUME ArcInv, NEW m \in Milestones,
           milestones' \in [Milestones -> MilestoneType],
           milestoneDisputes' \in [Milestones -> [raisedAt : Nat, deadline : Nat, resolved : BOOLEAN]],
           UNCHANGED <<ideas, money, config, timestamp, ownerCalls>>,
           \A n \in Milestones \ {m} : milestones'[n] = milestones[n] /\ milestoneDisputes'[n] = milestoneDisputes[n],
           milestones'[m].idea = milestones[m].idea,
           milestones'[m].amount = milestones[m].amount,
           milestones'[m].released = milestones[m].released,
           milestones[m].status \in {"Reserved", "Submitted", "UnderReview"},
           milestones'[m].status \in {"Submitted", "UnderReview", "Disputed", "Approved"},
           LifeOf(m)'
    PROVE  ArcInv'
<1>0. ArcTypeOK'
  BY DEF ArcInv, ArcTypeOK, money
<1> DEFINE k == milestones[m].idea
<1>1. k \in Ideas /\ milestones[m].released = 0
  BY DEF ArcInv, Good, LifeOf
<1>2. OnlyMoves(m, k)
  BY DEF OnlyMoves, money
<1>3. Owed(m)' = Owed(m) /\ PaidOut(m)' = PaidOut(m) /\ Returned(m) = 0 /\ Returned(m)' = 0
  BY DEF Owed, PaidOut, Returned, ReturnedToIdea, InState, Settled, money
<1>4. PaidRight(m)'
  BY <1>3 DEF ArcInv, Good, PaidRight, Settled, money
<1>5. WithinSchedule(m)'
  BY <1>1 DEF WithinSchedule
<1>6. ideas' = ideas /\ held' = held /\ totalEscrowed' = totalEscrowed /\ timestamp' = timestamp
  BY DEF money
<1>7. ArcTypeOK /\ Owed(m) \in Nat /\ PaidOut(m) \in Nat
  BY Terms DEF ArcInv, Good
<1>8. Good(m)'
  BY <1>4, <1>5 DEF Good
<1>9. /\ ideas'[k].available + Owed(m)' + PaidOut(m)'
           = ideas[k].available + Owed(m) + PaidOut(m)
      /\ held' - held = ideas'[k].available - ideas[k].available + Owed(m)' - Owed(m)
      /\ totalEscrowed' - totalEscrowed = held' - held - Returned(m)' + Returned(m)
  BY <1>1, <1>3, <1>6, <1>7 DEF ArcTypeOK
<1> HIDE DEF k
<1> QED
  BY <1>0, <1>1, <1>2, <1>6, <1>8, <1>9, MilestoneStep

\* A worker submits.
LEMMA SubmitKeeps ==
    ASSUME ArcInv, NEW m \in Milestones, NEW caller \in People, SubmitMilestone(caller, m)
    PROVE  ArcInv'
<1>1. milestones' \in [Milestones -> MilestoneType]
  <2>1. milestones \in [Milestones -> MilestoneType] /\ timestamp \in Nat
    BY DEF ArcInv, ArcTypeOK
  <2>2. [milestones[m] EXCEPT !.worker = caller, !.status = "Submitted"]
          \in MilestoneType
    BY <2>1 DEF SubmitMilestone, MilestoneType, Statuses
  <2> QED BY <2>1, <2>2 DEF SubmitMilestone
<1>2. LifeOf(m) /\ milestones \in [Milestones -> MilestoneType]
  BY DEF ArcInv, Good, ArcTypeOK
<1>3. LifeOf(m)'
  BY <1>2 DEF LifeOf, SubmitMilestone, InState, DisputeOpen, MilestoneType
<1> QED
  BY <1>1, <1>2, <1>3, QuietStep DEF ArcInv, ArcTypeOK, SubmitMilestone, InState, MilestoneType

\* A reviewer takes a submission.
LEMMA StartReviewKeeps ==
    ASSUME ArcInv, NEW m \in Milestones, NEW caller \in People, StartReview(caller, m)
    PROVE  ArcInv'
<1>1. milestones' \in [Milestones -> MilestoneType]
  <2>1. milestones \in [Milestones -> MilestoneType] /\ timestamp \in Nat
    BY DEF ArcInv, ArcTypeOK
  <2>2. [milestones[m] EXCEPT !.reviewer = caller, !.reviewAt = timestamp, !.status = "UnderReview"]
          \in MilestoneType
    BY <2>1 DEF StartReview, MilestoneType, Statuses
  <2> QED BY <2>1, <2>2 DEF StartReview
<1>2. LifeOf(m) /\ milestones \in [Milestones -> MilestoneType]
  BY DEF ArcInv, Good, ArcTypeOK
<1>3. LifeOf(m)'
  BY <1>2 DEF LifeOf, StartReview, InState, DisputeOpen, MilestoneType
<1> QED
  BY <1>1, <1>2, <1>3, QuietStep DEF ArcInv, ArcTypeOK, StartReview, InState, MilestoneType

\* Its reviewer approves it, and it starts to vest.
LEMMA ApproveKeeps ==
    ASSUME ArcInv, NEW m \in Milestones, NEW caller \in People, ApproveMilestone(caller, m)
    PROVE  ArcInv'
<1>1. milestones' \in [Milestones -> MilestoneType]
  <2>1. milestones \in [Milestones -> MilestoneType] /\ timestamp \in Nat
    BY DEF ArcInv, ArcTypeOK
  <2>2. [milestones[m] EXCEPT !.startTime = timestamp, !.status = "Approved"]
          \in MilestoneType
    BY <2>1 DEF ApproveMilestone, MilestoneType, Statuses
  <2> QED BY <2>1, <2>2 DEF ApproveMilestone
<1>2. LifeOf(m) /\ milestones \in [Milestones -> MilestoneType] /\ timestamp \in Nat
  BY DEF ArcInv, Good, ArcTypeOK
<1>3. LifeOf(m)'
  BY <1>2 DEF LifeOf, ApproveMilestone, InState, DisputeOpen, MilestoneType
<1> QED
  BY <1>1, <1>2, <1>3, QuietStep DEF ArcInv, ArcTypeOK, ApproveMilestone, InState, MilestoneType

\* A party disputes it.
LEMMA RaiseDisputeKeeps ==
    ASSUME ArcInv, NEW m \in Milestones, NEW caller \in People, RaiseDispute(caller, m)
    PROVE  ArcInv'
<1>1. /\ milestones' \in [Milestones -> MilestoneType]
      /\ milestoneDisputes' \in [Milestones -> [raisedAt : Nat, deadline : Nat, resolved : BOOLEAN]]
  <2>1. /\ milestones \in [Milestones -> MilestoneType]
        /\ milestoneDisputes \in [Milestones -> [raisedAt : Nat, deadline : Nat, resolved : BOOLEAN]]
        /\ timestamp \in Nat /\ timestamp + ResolutionTimeout \in Nat
    BY NumbersAssumption DEF ArcInv, ArcTypeOK
  <2>2. [milestones[m] EXCEPT !.status = "Disputed"] \in MilestoneType
    BY <2>1 DEF MilestoneType, Statuses
  <2> QED BY <2>1, <2>2 DEF RaiseDispute
<1>2. /\ LifeOf(m) /\ milestones \in [Milestones -> MilestoneType]
      /\ milestoneDisputes \in [Milestones -> [raisedAt : Nat, deadline : Nat, resolved : BOOLEAN]]
  BY DEF ArcInv, Good, ArcTypeOK
<1>3. LifeOf(m)'
  BY <1>2 DEF LifeOf, RaiseDispute, InState, DisputeOpen, MilestoneType
<1> QED
  BY <1>1, <1>2, <1>3, QuietStep DEF RaiseDispute, InState, MilestoneType

-----------------------------------------------------------------------------
(* Steps that pay *)

\* What a payment of shares s for milestone m does to the balances.
LEMMA PayMoves ==
    ASSUME ArcInv, NEW m \in Milestones, NEW s \in Shares, FeesFit(s), Pay(m, s)
    PROVE  /\ totalEscrowed' \in Nat /\ held' \in Nat
           /\ paid' \in [Milestones -> Shares] /\ withdrawn' = withdrawn
           /\ totalEscrowed' = totalEscrowed - Sum4(s) /\ held' = held - Sum4(s)
           /\ \A n \in Milestones \ {m} : paid'[n] = paid[n]
           /\ PaidOut(m)' = PaidOut(m) + Sum4(s)
           /\ FeesFit(paid'[m])
<1>1. Sum4(s) \in Nat
  BY DEF Shares, Sum4
<1>2. /\ totalEscrowed \in Nat /\ held \in Nat /\ paid \in [Milestones -> Shares]
      /\ FeesFit(paid[m])
  BY DEF ArcInv, ArcTypeOK, Shares, Good, PaidRight, PaidOut, FeesFit
<1>3. /\ Add(paid[m], s) \in Shares /\ FeesFit(Add(paid[m], s))
      /\ Sum4(Add(paid[m], s)) = Sum4(paid[m]) + Sum4(s)
  BY <1>2, SharesAdd
<1>4. paid' = [paid EXCEPT ![m] = Add(paid[m], s)]
  BY DEF Pay
<1>5. paid'[m] = Add(paid[m], s)
  BY <1>2, <1>4
<1>6. paid' \in [Milestones -> Shares] /\ \A n \in Milestones \ {m} : paid'[n] = paid[n]
  BY <1>2, <1>3, <1>4
<1>7. totalEscrowed' \in Nat /\ held' \in Nat
  BY <1>1, <1>2 DEF Pay
<1>8. PaidOut(m)' = PaidOut(m) + Sum4(s) /\ FeesFit(paid'[m])
  BY <1>3, <1>5 DEF PaidOut
<1> QED
  BY <1>6, <1>7, <1>8 DEF Pay

\* A step that pays for m what m is then owed less.
LEMMA PayingStep ==
    ASSUME ArcInv, NEW m \in Milestones, NEW s \in Shares, FeesFit(s), Pay(m, s),
           milestones' \in [Milestones -> MilestoneType],
           milestoneDisputes' \in [Milestones -> [raisedAt : Nat, deadline : Nat, resolved : BOOLEAN]],
           UNCHANGED <<ideas, config, timestamp, ownerCalls>>,
           \A n \in Milestones \ {m} : milestones'[n] = milestones[n] /\ milestoneDisputes'[n] = milestoneDisputes[n],
           milestones'[m].idea = milestones[m].idea,
           milestones'[m].amount = milestones[m].amount,
           milestones[m].status \in {"UnderReview", "Disputed", "Approved"},
           milestones'[m].status \in {"Approved", "Released", "AutoReleased", "Refunded"},
           milestones'[m].status = "Refunded" => milestoneDisputes'[m].resolved,
           milestones'[m].status = "Approved" => milestones'[m].released = milestones[m].released + Sum4(s),
           milestones'[m].status # "Approved" => milestones[m].released + Sum4(s) = milestones[m].amount,
           LifeOf(m)', WithinSchedule(m)'
    PROVE  ArcInv'
<1> DEFINE k == milestones[m].idea
<1>1. /\ totalEscrowed' \in Nat /\ held' \in Nat
      /\ paid' \in [Milestones -> Shares] /\ withdrawn' = withdrawn
      /\ totalEscrowed' = totalEscrowed - Sum4(s) /\ held' = held - Sum4(s)
      /\ \A n \in Milestones \ {m} : paid'[n] = paid[n]
      /\ PaidOut(m)' = PaidOut(m) + Sum4(s)
      /\ FeesFit(paid'[m])
  BY PayMoves
<1>2. ArcTypeOK /\ LifeOf(m) /\ PaidRight(m)
  BY DEF ArcInv, Good
<1>3. ArcTypeOK'
  BY <1>1, <1>2 DEF ArcTypeOK, Shares
<1>4. k \in Ideas /\ ideas[k].available \in Nat
  BY <1>2 DEF LifeOf, ArcTypeOK
<1>5. OnlyMoves(m, k)
  BY <1>1 DEF OnlyMoves
<1>6. /\ milestones[m].amount \in Nat /\ milestones[m].released \in Nat /\ Sum4(s) \in Nat
      /\ held \in Nat /\ totalEscrowed \in Nat
  BY <1>2 DEF ArcTypeOK, MilestoneType, Shares, Sum4
<1>7. Owed(m) = milestones[m].amount - milestones[m].released
  BY DEF Owed, Settled
<1>8. Owed(m)' = Owed(m) - Sum4(s)
  <2>1. CASE milestones'[m].status = "Approved"
    BY <1>6, <1>7, <2>1 DEF Owed, Settled
  <2>2. CASE milestones'[m].status # "Approved"
    BY <1>6, <1>7, <2>2 DEF Owed, Settled
  <2> QED BY <2>1, <2>2
<1>9. Returned(m) = 0 /\ Returned(m)' = 0
  BY DEF Returned, ReturnedToIdea, InState
<1>10. PaidOut(m) = milestones[m].released
  BY <1>2 DEF PaidRight, Settled
<1>11. PaidRight(m)'
  <2>1. PaidOut(m)' = IF milestones'[m].status \in Settled
                      THEN milestones'[m].amount - Returned(m)' ELSE milestones'[m].released
    <3>1. CASE milestones'[m].status = "Approved"
      BY <1>1, <1>10, <3>1 DEF Settled
    <3>2. CASE milestones'[m].status # "Approved"
      BY <1>1, <1>6, <1>9, <1>10, <3>2 DEF Settled
    <3> QED BY <3>1, <3>2
  <2>2. PaidOut(m)' = Sum4(paid'[m])
    BY DEF PaidOut
  <2> QED BY <1>1, <2>1, <2>2 DEF PaidRight, FeesFit
<1>12. Good(m)'
  BY <1>11 DEF Good
<1>13. /\ ideas'[k].available + Owed(m)' + PaidOut(m)'
            = ideas[k].available + Owed(m) + PaidOut(m)
       /\ held' - held = ideas'[k].available - ideas[k].available + Owed(m)' - Owed(m)
       /\ totalEscrowed' - totalEscrowed = held' - held - Returned(m)' + Returned(m)
  <2>1. Owed(m) \in Int /\ PaidOut(m) \in Int
    BY <1>6, <1>7, <1>10
  <2>2. ideas'[k].available = ideas[k].available
    OBVIOUS
  <2> QED BY <1>1, <1>4, <1>6, <1>8, <1>9, <2>1, <2>2
<1>14. timestamp' = timestamp
  OBVIOUS
<1> HIDE DEF k
<1> QED
  BY <1>3, <1>4, <1>5, <1>12, <1>13, <1>14, MilestoneStep

\* A release of what has vested.
LEMMA ReleaseKeeps ==
    ASSUME ArcInv, NEW m \in Milestones, ReleaseMilestone(m)
    PROVE  ArcInv'
<1> DEFINE f == milestones[m]
           x == Vested(m)
           s == Split(x - f.released)
<1>1. ArcTypeOK /\ LifeOf(m) /\ InState(m, "Approved") /\ x > f.released
  BY DEF ArcInv, Good, ReleaseMilestone
<1>2. x \in Nat /\ x <= f.amount /\ (x < f.amount => OnSchedule(m, x))
  BY <1>1, VestedBounds
<1>3. /\ f.released \in Nat /\ f.amount \in Nat /\ milestones \in [Milestones -> MilestoneType]
      /\ milestoneDisputes \in [Milestones -> [raisedAt : Nat, deadline : Nat, resolved : BOOLEAN]]
  BY <1>1 DEF ArcTypeOK, MilestoneType
<1>4. s \in Shares /\ FeesFit(s) /\ Sum4(s) = x - f.released
  <2>1. x - f.released \in Nat
    BY <1>1, <1>2, <1>3
  <2> QED BY <2>1, SplitIsAll
<1>5. /\ Pay(m, s)
      /\ milestones' = [milestones EXCEPT ![m].released = x,
                             ![m].status = IF x >= f.amount THEN "Released" ELSE @]
      /\ UNCHANGED <<ideas, milestoneDisputes, config, timestamp, ownerCalls>>
  BY DEF ReleaseMilestone
<1> HIDE DEF x, s
<1>6. /\ milestones' \in [Milestones -> MilestoneType]
      /\ \A n \in Milestones \ {m} : milestones'[n] = milestones[n]
      /\ milestones'[m].idea = f.idea /\ milestones'[m].amount = f.amount
      /\ milestones'[m].released = x /\ milestones'[m].startTime = f.startTime
      /\ milestones'[m].vesting = f.vesting
      /\ milestones'[m].status = IF x >= f.amount THEN "Released" ELSE "Approved"
  <2>1. f.status = "Approved"
    BY <1>1 DEF InState
  <2>2. /\ [f EXCEPT !.released = x, !.status = "Released"] \in MilestoneType
        /\ [f EXCEPT !.released = x] \in MilestoneType
    BY <1>2, <1>3 DEF MilestoneType, Statuses
  <2>3. CASE x >= f.amount
    <3>1. milestones' = [milestones EXCEPT ![m] = [f EXCEPT !.released = x, !.status = "Released"]]
      BY <1>3, <1>5, <2>3 DEF MilestoneType
    <3> QED BY <1>3, <2>2, <2>3, <3>1 DEF MilestoneType
  <2>4. CASE ~(x >= f.amount)
    <3>1. milestones' = [milestones EXCEPT ![m] = [f EXCEPT !.released = x, !.status = f.status]]
      BY <1>3, <1>5, <2>4 DEF MilestoneType
    <3> QED BY <1>3, <2>1, <2>2, <2>4, <3>1 DEF MilestoneType
  <2> QED BY <2>3, <2>4
<1>7. LifeOf(m)'
  BY <1>1, <1>2, <1>3, <1>5, <1>6 DEF LifeOf, InState, DisputeOpen
<1>8. WithinSchedule(m)'
  <2> SUFFICES ASSUME x < f.amount PROVE OnSchedule(m, milestones[m].released)'
    BY <1>2, <1>3, <1>6 DEF WithinSchedule, InState
  <2> QED BY <1>2, <1>5, <1>6 DEF OnSchedule
<1>9. f.status = "Approved" /\ milestoneDisputes' = milestoneDisputes
  BY <1>1, <1>5 DEF InState
<1>10. /\ milestones'[m].status = "Approved" => milestones'[m].released = f.released + Sum4(s)
       /\ milestones'[m].status # "Approved" => f.released + Sum4(s) = f.amount
       /\ milestones'[m].status \in {"Released", "Approved"}
  <2>1. f.released + Sum4(s) = x
    BY <1>2, <1>3, <1>4
  <2>2. x >= f.amount => x = f.amount
    BY <1>2, <1>3
  <2> QED BY <1>6, <2>1, <2>2
<1> QED
  BY <1>3, <1>4, <1>5, <1>6, <1>7, <1>8, <1>9, <1>10, PayingStep

\* The release of an overdue review, or of what has vested.
LEMMA AutoReleaseKeeps ==
    ASSUME ArcInv, NEW m \in Milestones, AutoReleaseMilestone(m)
    PROVE  ArcInv'
<1> SUFFICES ASSUME ~ReleaseMilestone(m) PROVE ArcInv'
  BY ReleaseKeeps
<1> DEFINE f == milestones[m]
           s == Split(f.amount)
<1>1. /\ f.status = "UnderReview" /\ Pay(m, s)
      /\ milestones' = [milestones EXCEPT ![m].status = "AutoReleased"]
      /\ UNCHANGED <<ideas, milestoneDisputes, config, timestamp, ownerCalls>>
  BY DEF AutoReleaseMilestone, InState
<1>2. ArcTypeOK /\ LifeOf(m)
  BY DEF ArcInv, Good
<1>3. /\ f.released = 0 /\ f.amount \in Nat /\ milestones \in [Milestones -> MilestoneType]
      /\ milestoneDisputes \in [Milestones -> [raisedAt : Nat, deadline : Nat, resolved : BOOLEAN]]
  BY <1>1, <1>2 DEF ArcTypeOK, MilestoneType, LifeOf
<1>4. s \in Shares /\ FeesFit(s) /\ Sum4(s) = f.amount
  BY <1>3, SplitIsAll
<1> HIDE DEF s
<1>5. /\ milestones' \in [Milestones -> MilestoneType]
      /\ \A n \in Milestones \ {m} : milestones'[n] = milestones[n]
      /\ milestones'[m] = [f EXCEPT !.status = "AutoReleased"]
  <2>1. [f EXCEPT !.status = "AutoReleased"] \in MilestoneType
    BY <1>3 DEF MilestoneType, Statuses
  <2> QED BY <1>1, <1>3, <2>1
<1>6. /\ milestones'[m].idea = f.idea /\ milestones'[m].amount = f.amount
      /\ milestones'[m].released = 0 /\ milestones'[m].status = "AutoReleased"
  BY <1>3, <1>5 DEF MilestoneType
<1>7. LifeOf(m)'
  BY <1>1, <1>2, <1>3, <1>6 DEF LifeOf, DisputeOpen
<1>8. WithinSchedule(m)'
  BY <1>6 DEF WithinSchedule, InState
<1>9. f.released + Sum4(s) = f.amount /\ milestoneDisputes' = milestoneDisputes
  BY <1>1, <1>3, <1>4
<1> QED
  BY <1>1, <1>3, <1>4, <1>5, <1>6, <1>7, <1>8, <1>9, PayingStep

\* The end of a dispute, by decision or by timeout.
LEMMA ResolveKeeps ==
    ASSUME ArcInv, NEW m \in Milestones, NEW bps \in Nat,
           NEW resolution \in {"WorkerWins", "PosterWins", "Split"},
           Resolve(m, resolution, bps)
    PROVE  ArcInv'
<1> DEFINE f == milestones[m]
           s == Award(m, resolution, bps)
           how == IF resolution = "PosterWins" THEN "Refunded" ELSE "Released"
<1>1. /\ DisputeOpen(m) /\ Pay(m, s)
      /\ resolution = "Split" => bps <= BPS
      /\ milestoneDisputes' = [milestoneDisputes EXCEPT ![m].resolved = TRUE]
      /\ milestones' = [milestones EXCEPT ![m].status = how]
      /\ UNCHANGED <<ideas, config, timestamp, ownerCalls>>
  BY DEF Resolve
<1>2. ArcTypeOK /\ LifeOf(m)
  BY DEF ArcInv, Good
<1>3. /\ f.status = "Disputed" /\ f.released = 0 /\ f.amount \in Nat
      /\ milestones \in [Milestones -> MilestoneType]
      /\ milestoneDisputes \in [Milestones -> [raisedAt : Nat, deadline : Nat, resolved : BOOLEAN]]
  BY <1>1, <1>2 DEF ArcTypeOK, MilestoneType, LifeOf
<1>4. s \in Shares /\ FeesFit(s) /\ Sum4(s) = f.amount
  BY <1>1, <1>2, AwardIsAll
<1> HIDE DEF s
<1>5. /\ milestones' \in [Milestones -> MilestoneType]
      /\ \A n \in Milestones \ {m} : milestones'[n] = milestones[n]
      /\ milestones'[m] = [f EXCEPT !.status = how]
  <2>1. [f EXCEPT !.status = how] \in MilestoneType
    BY <1>3 DEF MilestoneType, Statuses
  <2> QED BY <1>1, <1>3, <2>1
<1>6. /\ milestones'[m].idea = f.idea /\ milestones'[m].amount = f.amount
      /\ milestones'[m].released = 0 /\ milestones'[m].status = how
  BY <1>3, <1>5 DEF MilestoneType
<1>7. /\ milestoneDisputes' \in [Milestones -> [raisedAt : Nat, deadline : Nat, resolved : BOOLEAN]]
      /\ \A n \in Milestones \ {m} : milestoneDisputes'[n] = milestoneDisputes[n]
      /\ milestoneDisputes'[m].resolved
  BY <1>1, <1>3
<1>8. how \in {"Refunded", "Released"}
  OBVIOUS
<1> HIDE DEF how
<1>9. LifeOf(m)'
  BY <1>1, <1>2, <1>3, <1>6, <1>7, <1>8 DEF LifeOf, DisputeOpen
<1>10. WithinSchedule(m)'
  BY <1>6, <1>8 DEF WithinSchedule, InState
<1>11. f.released + Sum4(s) = f.amount
  BY <1>3, <1>4
<1> QED
  BY <1>1, <1>3, <1>4, <1>5, <1>6, <1>7, <1>8, <1>9, <1>10, <1>11, PayingStep

-----------------------------------------------------------------------------
(* Refund, and steps of one idea *)

\* A refund puts the amount back into the idea, and only the counter forgets it.
LEMMA RefundKeeps ==
    ASSUME ArcInv, NEW m \in Milestones, NEW caller \in People, RefundMilestone(caller, m)
    PROVE  ArcInv'
<1> DEFINE f == milestones[m]
           k == f.idea
<1>1. /\ f.status = "Reserved" /\ totalEscrowed >= f.amount
      /\ milestones' = [milestones EXCEPT ![m].status = "Refunded"]
      /\ ideas' = [ideas EXCEPT ![k].available = @ + f.amount]
      /\ totalEscrowed' = totalEscrowed - f.amount
      /\ UNCHANGED <<milestoneDisputes, held, paid, withdrawn, config, timestamp, ownerCalls>>
  BY DEF RefundMilestone, InState
<1>2. ArcTypeOK /\ LifeOf(m) /\ PaidRight(m)
  BY DEF ArcInv, Good
<1>3. /\ f.released = 0 /\ f.amount \in Nat /\ k \in Ideas /\ ~milestoneDisputes[m].resolved
      /\ milestones \in [Milestones -> MilestoneType]
      /\ ideas \in [Ideas -> [poster : Posters \cup {ZeroAddress}, funded : Nat, available : Nat]]
      /\ totalEscrowed \in Nat /\ held \in Nat
  BY <1>1, <1>2 DEF ArcTypeOK, MilestoneType, LifeOf
<1>4. /\ milestones' \in [Milestones -> MilestoneType]
      /\ \A n \in Milestones \ {m} : milestones'[n] = milestones[n]
      /\ milestones'[m] = [f EXCEPT !.status = "Refunded"]
  <2>1. [f EXCEPT !.status = "Refunded"] \in MilestoneType
    BY <1>3 DEF MilestoneType, Statuses
  <2> QED BY <1>1, <1>3, <2>1
<1>5. /\ milestones'[m].idea = k /\ milestones'[m].amount = f.amount
      /\ milestones'[m].released = 0 /\ milestones'[m].status = "Refunded"
  BY <1>3, <1>4 DEF MilestoneType
<1>6. /\ ideas' \in [Ideas -> [poster : Posters \cup {ZeroAddress}, funded : Nat, available : Nat]]
      /\ \A i \in Ideas \ {k} : ideas'[i] = ideas[i]
      /\ ideas'[k].funded = ideas[k].funded
      /\ ideas'[k].available = ideas[k].available + f.amount
      /\ ideas[k].available \in Nat
  <2> HIDE DEF f, k
  <2>1. ideas[k].available + f.amount \in Nat
    BY <1>3
  <2>2. ideas' = [ideas EXCEPT ![k] = [ideas[k] EXCEPT !.available = ideas[k].available + f.amount]]
    BY <1>1, <1>3
  <2> QED BY <1>3, <2>1, <2>2
<1>7. ArcTypeOK'
  <2>1. totalEscrowed' \in Nat
    BY <1>1, <1>3
  <2> QED BY <1>1, <1>2, <1>4, <1>6, <2>1 DEF ArcTypeOK
<1>8. LifeOf(m)'
  BY <1>1, <1>2, <1>3, <1>5 DEF LifeOf, DisputeOpen
<1>9. /\ Owed(m) = f.amount /\ Owed(m)' = 0 /\ Returned(m) = 0 /\ Returned(m)' = f.amount
      /\ PaidOut(m) = 0 /\ PaidOut(m)' = 0
  BY <1>1, <1>2, <1>3, <1>5
     DEF Owed, Returned, ReturnedToIdea, InState, PaidOut, PaidRight, Settled
<1>10. PaidRight(m)'
  <2>1. 0 = f.amount - f.amount
    BY <1>3
  <2>2. PaidOut(m)' = IF milestones'[m].status \in Settled
                      THEN milestones'[m].amount - Returned(m)' ELSE milestones'[m].released
    BY <1>5, <1>9, <2>1
  <2>3. paid'[m] = paid[m] /\ PaidOut(m)' = PaidOut(m)
    BY <1>1, <1>9
  <2> QED BY <1>2, <2>2, <2>3 DEF PaidRight
<1>11. WithinSchedule(m)'
  BY <1>5 DEF WithinSchedule, InState
<1>12. OnlyMoves(m, k)
  BY <1>1, <1>4, <1>5, <1>6 DEF OnlyMoves
<1>13. /\ ideas'[k].available + Owed(m)' + PaidOut(m)'
            = ideas[k].available + Owed(m) + PaidOut(m)
       /\ held' - held = ideas'[k].available - ideas[k].available + Owed(m)' - Owed(m)
       /\ totalEscrowed' - totalEscrowed = held' - held - Returned(m)' + Returned(m)
  BY <1>1, <1>3, <1>6, <1>9
<1>14. Good(m)' /\ timestamp' = timestamp
  BY <1>1, <1>8, <1>10, <1>11 DEF Good
<1> HIDE DEF k
<1> QED
  BY <1>3, <1>7, <1>12, <1>13, <1>14, MilestoneStep

\* A step that puts money into idea k or takes it out keeps every account, if
\* what comes in is available and what is no longer available is withdrawn.
LEMMA MovesOneIdea ==
    ASSUME ArcInv, ArcTypeOK', NEW k \in Ideas,
           UNCHANGED <<milestones, milestoneDisputes, paid, config, timestamp, ownerCalls>>,
           \A i \in Ideas \ {k} : ideas'[i] = ideas[i] /\ withdrawn'[i] = withdrawn[i],
           ideas'[k].funded - ideas[k].funded
             = ideas'[k].available - ideas[k].available + withdrawn'[k] - withdrawn[k],
           held' - held = ideas'[k].available - ideas[k].available,
           totalEscrowed' - totalEscrowed = ideas'[k].available - ideas[k].available
    PROVE  ArcInv'
<1>1. \A m \in Milestones : Good(m)'
  <2> SUFFICES ASSUME NEW m \in Milestones PROVE Good(m)'
    OBVIOUS
  <2>1. Good(m) /\ milestones'[m] = milestones[m] /\ milestoneDisputes'[m] = milestoneDisputes[m]
        /\ paid'[m] = paid[m] /\ timestamp' = timestamp
    BY DEF ArcInv
  <2> QED BY <2>1, GoodStays
<1>2. \A m \in Milestones :
        /\ Owed(m)' = Owed(m) /\ Returned(m)' = Returned(m)
        /\ \A i \in Ideas : TakenFrom(i, m)' = TakenFrom(i, m)
  BY DEF Owed, PaidOut, Returned, ReturnedToIdea, InState, TakenFrom
<1>3. ArcTypeOK /\ IdeasKeepApart /\ CounterLagsByRefunds /\ \A m \in Milestones : LifeOf(m)
  BY DEF ArcInv, Good
<1>4. IdeasKeepApart'
  <2> SUFFICES ASSUME NEW i \in Ideas
               PROVE  (ideas[i].funded = ideas[i].available + withdrawn[i]
                         + SumFunctionOnSet([m \in Milestones |-> TakenFrom(i, m)], Milestones))'
    BY DEF IdeasKeepApart
  <2>1. [m \in Milestones |-> TakenFrom(i, m)'] = [m \in Milestones |-> TakenFrom(i, m)]
    BY <1>2
  <2>2. ideas[i].funded = ideas[i].available + withdrawn[i]
          + SumFunctionOnSet([m \in Milestones |-> TakenFrom(i, m)], Milestones)
    BY <1>3 DEF IdeasKeepApart
  <2> DEFINE taken == SumFunctionOnSet([m \in Milestones |-> TakenFrom(i, m)], Milestones)
  <2>a. taken \in Int
    <3>1. \A m \in Milestones : [n \in Milestones |-> TakenFrom(i, n)][m] \in Int
      BY <1>3, Terms
    <3> QED BY <3>1, AccountsAssumption, SumType
  <2>b. /\ ideas[k].funded \in Int /\ ideas[k].available \in Int /\ withdrawn[k] \in Int
        /\ ideas'[k].funded \in Int /\ ideas'[k].available \in Int /\ withdrawn'[k] \in Int
    BY <1>3 DEF ArcTypeOK
  <2>3. ideas'[i].funded = ideas'[i].available + withdrawn'[i] + taken
    <3> HIDE DEF taken
    <3>0. ideas[i].funded = ideas[i].available + withdrawn[i] + taken
      BY <2>2 DEF taken
    <3>1. CASE i = k
      BY <2>a, <2>b, <3>0, <3>1
    <3>2. CASE i # k
      BY <3>0, <3>2
    <3> QED BY <3>1, <3>2
  <2> QED BY <2>1, <2>3
<1>5. CounterLagsByRefunds'
  <2> DEFINE A == [i \in Ideas |-> ideas[i].available]
             A1 == [i \in Ideas |-> ideas'[i].available]
             W == SumFunctionOnSet([m \in Milestones |-> Owed(m)], Milestones)
             R == SumFunctionOnSet([m \in Milestones |-> Returned(m)], Milestones)
  <2>1. [m \in Milestones |-> Owed(m)'] = [m \in Milestones |-> Owed(m)]
    BY <1>2
  <2>2. [m \in Milestones |-> Returned(m)'] = [m \in Milestones |-> Returned(m)]
    BY <1>2
  <2>3. held = SumFunctionOnSet(A, Ideas) + W /\ totalEscrowed = held - R
    BY <1>3 DEF CounterLagsByRefunds, Obligations
  <2>4. W \in Int /\ R \in Int
    <3>1. \A m \in Milestones : Owed(m) \in Int /\ Returned(m) \in Int
      BY <1>3, Terms
    <3>2. IsFiniteSet(Milestones)
      BY AccountsAssumption
    <3>3. \A m \in Milestones : /\ [n \in Milestones |-> Owed(n)][m] \in Int
                                /\ [n \in Milestones |-> Returned(n)][m] \in Int
      BY <3>1
    <3> QED BY <3>2, <3>3, SumType
  <2>5. /\ \A i \in Ideas : A[i] \in Int /\ A1[i] \in Int
        /\ \A i \in Ideas \ {k} : A1[i] = A[i]
        /\ A[k] = ideas[k].available /\ A1[k] = ideas'[k].available
    BY <1>3 DEF ArcTypeOK
  <2>6. held \in Int /\ held' \in Int /\ totalEscrowed \in Int /\ totalEscrowed' \in Int
    BY <1>3 DEF ArcTypeOK
  <2>7. held' = SumFunctionOnSet(A1, Ideas) + W /\ totalEscrowed' = held' - R
    <3> HIDE DEF A, A1, W, R
    <3>1. IsFiniteSet(Ideas)
      BY AccountsAssumption
    <3>2. SumFunctionOnSet(A1, Ideas) = SumFunctionOnSet(A, Ideas) - A[k] + A1[k]
          /\ SumFunctionOnSet(A, Ideas) \in Int
      BY <2>5, <3>1, SumOfOneChange, SumType
    <3>b. A[k] \in Int /\ A1[k] \in Int
      BY <2>5
    <3>c. held' = held + A1[k] - A[k]
      BY <2>5, <2>6, <3>b
    <3>a. totalEscrowed' = totalEscrowed + A1[k] - A[k]
      BY <2>5, <2>6, <3>b
    <3>3. held' = SumFunctionOnSet(A1, Ideas) + W
      BY <2>3, <2>4, <2>6, <3>2, <3>b, <3>c
    <3>4. totalEscrowed' = held' - R
      BY <2>3, <2>4, <2>6, <3>a, <3>b, <3>c
    <3> QED BY <3>3, <3>4
  <2> QED BY <2>1, <2>2, <2>7 DEF CounterLagsByRefunds, Obligations
<1> QED
  BY <1>1, <1>4, <1>5 DEF ArcInv

\* A poster funds an idea nobody has funded.
LEMMA FundKeeps ==
    ASSUME ArcInv, NEW i \in Ideas, NEW caller \in People, NEW amount \in Nat,
           FundIdea(caller, i, amount)
    PROVE  ArcInv'
<1>1. ArcTypeOK /\ ideas[i].funded = 0 /\ ideas[i].available = 0
  BY DEF ArcInv, FundIdea, NoIdea
<1>2. /\ ideas' = [ideas EXCEPT ![i] = [poster |-> caller, funded |-> amount, available |-> amount]]
      /\ totalEscrowed' = totalEscrowed + amount /\ held' = held + amount
      /\ UNCHANGED <<milestones, milestoneDisputes, paid, withdrawn, config, timestamp, ownerCalls>>
      /\ caller \in Posters
  BY DEF FundIdea
<1>3. /\ ideas \in [Ideas -> [poster : Posters \cup {ZeroAddress}, funded : Nat, available : Nat]]
      /\ totalEscrowed \in Nat /\ held \in Nat
  BY <1>1 DEF ArcTypeOK
<1>4. /\ ideas'[i].funded = amount /\ ideas'[i].available = amount
      /\ \A j \in Ideas \ {i} : ideas'[j] = ideas[j]
  BY <1>2, <1>3
<1>5. ArcTypeOK'
  <2>1. totalEscrowed' \in Nat /\ held' \in Nat
    BY <1>2, <1>3
  <2>2. ideas' \in [Ideas -> [poster : Posters \cup {ZeroAddress}, funded : Nat, available : Nat]]
    BY <1>2, <1>3
  <2> QED BY <1>1, <1>2, <2>1, <2>2 DEF ArcTypeOK
<1>7. ideas'[i].funded - ideas[i].funded
        = ideas'[i].available - ideas[i].available + withdrawn'[i] - withdrawn[i]
  <2>1. withdrawn[i] \in Nat /\ ideas[i].available \in Nat /\ ideas[i].funded \in Nat
    BY <1>1 DEF ArcTypeOK
  <2> QED BY <1>1, <1>2, <1>4, <2>1
<1>8. /\ held' - held = ideas'[i].available - ideas[i].available
      /\ totalEscrowed' - totalEscrowed = ideas'[i].available - ideas[i].available
  BY <1>1, <1>2, <1>3, <1>4
<1>9. \A j \in Ideas \ {i} : ideas'[j] = ideas[j] /\ withdrawn'[j] = withdrawn[j]
  BY <1>2, <1>4
<1> QED
  BY <1>2, <1>5, <1>7, <1>8, <1>9, MovesOneIdea

\* A poster withdraws what is available.
LEMMA WithdrawKeeps ==
    ASSUME ArcInv, NEW i \in Ideas, NEW caller \in People, NEW amount \in Nat,
           WithdrawAvailable(caller, i, amount)
    PROVE  ArcInv'
<1>1. ArcTypeOK
  BY DEF ArcInv
<1>2. /\ ideas[i].available >= amount /\ totalEscrowed >= amount /\ held >= amount
      /\ ideas' = [ideas EXCEPT ![i].available = @ - amount]
      /\ totalEscrowed' = totalEscrowed - amount /\ held' = held - amount
      /\ withdrawn' = [withdrawn EXCEPT ![i] = @ + amount]
      /\ UNCHANGED <<milestones, milestoneDisputes, paid, config, timestamp, ownerCalls>>
  BY DEF WithdrawAvailable
<1>3. /\ ideas \in [Ideas -> [poster : Posters \cup {ZeroAddress}, funded : Nat, available : Nat]]
      /\ totalEscrowed \in Nat /\ held \in Nat /\ withdrawn \in [Ideas -> Nat]
  BY <1>1 DEF ArcTypeOK
<1>4. ideas[i].available - amount \in Nat /\ withdrawn[i] + amount \in Nat
      /\ totalEscrowed' \in Nat /\ held' \in Nat
  BY <1>2, <1>3
<1>5. /\ ideas' \in [Ideas -> [poster : Posters \cup {ZeroAddress}, funded : Nat, available : Nat]]
      /\ withdrawn' \in [Ideas -> Nat]
      /\ ideas'[i].funded = ideas[i].funded
      /\ ideas'[i].available = ideas[i].available - amount
      /\ withdrawn'[i] = withdrawn[i] + amount
      /\ \A j \in Ideas \ {i} : ideas'[j] = ideas[j] /\ withdrawn'[j] = withdrawn[j]
  <2>1. ideas' = [ideas EXCEPT ![i] = [ideas[i] EXCEPT !.available = ideas[i].available - amount]]
    BY <1>2, <1>3
  <2> QED BY <1>2, <1>3, <1>4, <2>1
<1>6. ArcTypeOK'
  BY <1>1, <1>2, <1>4, <1>5 DEF ArcTypeOK
<1>8. ideas'[i].funded - ideas[i].funded
        = ideas'[i].available - ideas[i].available + withdrawn'[i] - withdrawn[i]
  <2>1. withdrawn[i] \in Nat /\ ideas[i].available \in Nat /\ ideas[i].funded \in Nat
    BY <1>1 DEF ArcTypeOK
  <2> QED BY <1>1, <1>2, <1>5, <2>1
<1>9. /\ held' - held = ideas'[i].available - ideas[i].available
      /\ totalEscrowed' - totalEscrowed = ideas'[i].available - ideas[i].available
  BY <1>2, <1>3, <1>5
<1> QED
  BY <1>2, <1>5, <1>6, <1>8, <1>9, MovesOneIdea

\* A poster reserves milestones from an idea.
LEMMA ReserveKeeps ==
    ASSUME ArcInv, NEW i \in Ideas, NEW caller \in People, NEW batch \in SUBSET Milestones,
           NEW amount \in Nat, NEW v \in Vesting, Reserve(caller, i, batch, amount, v)
    PROVE  ArcInv'
<1> DEFINE total == amount * Cardinality(batch)
           new == [NoMilestone EXCEPT !.idea = i, !.amount = amount,
                                      !.status = "Reserved", !.vesting = v]
<1>1. /\ amount > 0 /\ ideas[i].available >= total
      /\ \A m \in batch : milestones[m].status = "None"
      /\ ideas' = [ideas EXCEPT ![i].available = @ - total]
      /\ milestones' = [m \in Milestones |-> IF m \in batch THEN new ELSE milestones[m]]
      /\ UNCHANGED <<milestoneDisputes, totalEscrowed, held, paid, withdrawn, config, timestamp, ownerCalls>>
  BY DEF Reserve, ValidTerms, InState, money
<1>2. ArcTypeOK /\ IdeasKeepApart /\ CounterLagsByRefunds /\ \A m \in Milestones : Good(m)
  BY DEF ArcInv
<1>f. IsFiniteSet(Milestones) /\ IsFiniteSet(Ideas)
  BY AccountsAssumption
<1>3. total \in Nat
  <2>1. Cardinality(batch) \in Nat
    BY <1>f, FS_Subset, FS_CardinalityType
  <2> QED BY <2>1, ProductGrows
<1>4. /\ ideas \in [Ideas -> [poster : Posters \cup {ZeroAddress}, funded : Nat, available : Nat]]
      /\ milestones \in [Milestones -> MilestoneType]
      /\ held \in Nat /\ totalEscrowed \in Nat /\ withdrawn \in [Ideas -> Nat]
  BY <1>2 DEF ArcTypeOK
<1>5. /\ ideas' \in [Ideas -> [poster : Posters \cup {ZeroAddress}, funded : Nat, available : Nat]]
      /\ \A j \in Ideas : ideas'[j].funded = ideas[j].funded
      /\ ideas'[i].available = ideas[i].available - total
      /\ \A j \in Ideas \ {i} : ideas'[j] = ideas[j]
  <2> HIDE DEF total
  <2>1. ideas[i].available - total \in Nat
    BY <1>1, <1>3, <1>4
  <2>2. ideas' = [ideas EXCEPT ![i] = [ideas[i] EXCEPT !.available = ideas[i].available - total]]
    BY <1>1, <1>4
  <2> QED BY <1>4, <2>1, <2>2
<1>6. /\ new \in MilestoneType
      /\ new.idea = i /\ new.amount = amount /\ new.status = "Reserved" /\ new.released = 0
  BY DEF NoMilestone, MilestoneType, Statuses, Unvested
<1> HIDE DEF new, total
<1>7. /\ milestones' \in [Milestones -> MilestoneType]
      /\ \A m \in batch : milestones'[m] = new
      /\ \A m \in Milestones \ batch : milestones'[m] = milestones[m]
  BY <1>1, <1>4, <1>6
<1>8. ArcTypeOK'
  BY <1>1, <1>2, <1>5, <1>7 DEF ArcTypeOK
<1>9. \A m \in batch :
        /\ Owed(m) = 0 /\ Owed(m)' = amount /\ PaidOut(m) = 0 /\ PaidOut(m)' = 0
        /\ Returned(m) = 0 /\ Returned(m)' = 0
  <2> SUFFICES ASSUME NEW m \in batch
               PROVE  /\ Owed(m) = 0 /\ Owed(m)' = amount /\ PaidOut(m) = 0 /\ PaidOut(m)' = 0
                      /\ Returned(m) = 0 /\ Returned(m)' = 0
    OBVIOUS
  <2>1. milestones[m].status = "None" /\ milestones[m].released = 0 /\ PaidRight(m)
    BY <1>1, <1>2 DEF Good, LifeOf
  <2>2. Owed(m) = 0 /\ Returned(m) = 0
    BY <2>1 DEF Owed, Returned, ReturnedToIdea, InState
  <2>3. Owed(m)' = amount /\ Returned(m)' = 0
    BY <1>6, <1>7 DEF Owed, Returned, ReturnedToIdea, InState, Settled
  <2>4. PaidOut(m) = 0 /\ PaidOut(m)' = 0
    BY <1>1, <2>1 DEF PaidRight, PaidOut, Settled
  <2> QED BY <2>2, <2>3, <2>4
<1>10. \A m \in Milestones \ batch :
         /\ Owed(m)' = Owed(m) /\ Returned(m)' = Returned(m)
         /\ \A j \in Ideas : TakenFrom(j, m)' = TakenFrom(j, m)
  BY <1>1, <1>7 DEF Owed, PaidOut, Returned, ReturnedToIdea, InState, TakenFrom
<1>11. \A m \in Milestones :
         /\ Owed(m) \in Int /\ Returned(m) \in Int
         /\ \A j \in Ideas : TakenFrom(j, m) \in Int
  BY <1>2, Terms DEF Good
<1>12. \A m \in Milestones : Good(m)'
  <2> SUFFICES ASSUME NEW m \in Milestones PROVE Good(m)'
    OBVIOUS
  <2>1. CASE m \notin batch
    <3>1. Good(m) /\ milestones'[m] = milestones[m] /\ milestoneDisputes'[m] = milestoneDisputes[m]
          /\ paid'[m] = paid[m] /\ timestamp' = timestamp
      BY <1>1, <1>2, <1>7, <2>1
    <3> QED BY <3>1, GoodStays
  <2>2. CASE m \in batch
    <3>1. LifeOf(m) /\ milestones[m].status = "None" /\ milestones'[m] = new
          /\ milestoneDisputes' = milestoneDisputes /\ paid' = paid
      BY <1>1, <1>2, <1>7, <2>2 DEF Good
    <3>2. LifeOf(m)'
      BY <1>1, <1>6, <3>1 DEF LifeOf, DisputeOpen
    <3>3. PaidRight(m)'
      BY <1>2, <1>6, <1>9, <2>2, <3>1 DEF PaidRight, Good, Settled
    <3>4. WithinSchedule(m)'
      BY <1>6, <3>1 DEF WithinSchedule, InState
    <3> QED BY <3>2, <3>3, <3>4 DEF Good
  <2> QED BY <2>1, <2>2
<1>13. IdeasKeepApart'
  <2> SUFFICES ASSUME NEW j \in Ideas
               PROVE  (ideas[j].funded = ideas[j].available + withdrawn[j]
                         + SumFunctionOnSet([m \in Milestones |-> TakenFrom(j, m)], Milestones))'
    BY DEF IdeasKeepApart
  <2> DEFINE a == IF j = i THEN amount ELSE 0
             F == [m \in Milestones |-> TakenFrom(j, m)]
             D == [m \in Milestones |-> IF m \in batch THEN a ELSE 0]
             G == [m \in Milestones |-> TakenFrom(j, m)']
  <2>1. a \in Int
    OBVIOUS
  <2>2. \A m \in batch : TakenFrom(j, m) = 0 /\ TakenFrom(j, m)' = a
    BY <1>6, <1>7, <1>9 DEF TakenFrom
  <2>3. \A m \in Milestones : F[m] \in Int /\ D[m] \in Int /\ G[m] = F[m] + D[m]
    <3> HIDE DEF a
    <3> QED BY <1>10, <1>11, <2>1, <2>2
  <2>4. ideas[j].funded = ideas[j].available + withdrawn[j] + SumFunctionOnSet(F, Milestones)
    BY <1>2 DEF IdeasKeepApart
  <2>5. \A m \in Milestones : D[m] = IF m \in batch THEN a ELSE 0
    OBVIOUS
  <2>6. ideas'[j].funded = ideas'[j].available + withdrawn'[j] + SumFunctionOnSet(G, Milestones)
    <3> HIDE DEF F, D, G, a
    <3>1. SumFunctionOnSet(G, Milestones)
            = SumFunctionOnSet(F, Milestones) + SumFunctionOnSet(D, Milestones)
      BY <1>f, <2>3, SumOfSums
    <3>2. SumFunctionOnSet(D, Milestones) = a * Cardinality(batch)
      BY <1>f, <2>1, <2>5, SumOfBatch
    <3>3. SumFunctionOnSet(F, Milestones) \in Int
      BY <1>f, <2>3, SumType
    <3>4. CASE j = i
      <4>1. a * Cardinality(batch) = total
        BY <3>4 DEF a, total
      <4> QED BY <1>1, <1>3, <1>4, <1>5, <2>4, <3>1, <3>2, <3>3, <3>4, <4>1
    <3>5. CASE j # i
      <4>1. a * Cardinality(batch) = 0
        <5>1. Cardinality(batch) \in Nat /\ a = 0
          BY <1>f, <3>5, FS_Subset, FS_CardinalityType DEF a
        <5> QED BY <5>1
      <4> QED BY <1>1, <1>4, <1>5, <2>4, <3>1, <3>2, <3>3, <3>5, <4>1
    <3> QED BY <3>4, <3>5
  <2> QED BY <2>6
<1>14. CounterLagsByRefunds'
  <2> DEFINE A == [j \in Ideas |-> ideas[j].available]
             A1 == [j \in Ideas |-> ideas'[j].available]
             W == [m \in Milestones |-> Owed(m)]
             D == [m \in Milestones |-> IF m \in batch THEN amount ELSE 0]
             W1 == [m \in Milestones |-> Owed(m)']
             R == SumFunctionOnSet([m \in Milestones |-> Returned(m)], Milestones)
  <2>1. /\ \A j \in Ideas : A[j] \in Int /\ A1[j] \in Int
        /\ \A j \in Ideas \ {i} : A1[j] = A[j]
        /\ A[i] = ideas[i].available /\ A1[i] = ideas[i].available - total
    BY <1>4, <1>5
  <2>2. \A m \in Milestones : W[m] \in Int /\ D[m] \in Int /\ W1[m] = W[m] + D[m]
    BY <1>9, <1>10, <1>11
  <2>3. \A m \in Milestones : D[m] = IF m \in batch THEN amount ELSE 0
    OBVIOUS
  <2>4. [m \in Milestones |-> Returned(m)'] = [m \in Milestones |-> Returned(m)]
    BY <1>9, <1>10
  <2>5. held = SumFunctionOnSet(A, Ideas) + SumFunctionOnSet(W, Milestones)
        /\ totalEscrowed = held - R
    BY <1>2 DEF CounterLagsByRefunds, Obligations
  <2>6. held' = SumFunctionOnSet(A1, Ideas) + SumFunctionOnSet(W1, Milestones)
    <3> HIDE DEF A, A1, W, D, W1, R
    <3>1. SumFunctionOnSet(A1, Ideas) = SumFunctionOnSet(A, Ideas) - A[i] + A1[i]
          /\ SumFunctionOnSet(A, Ideas) \in Int
      BY <1>f, <2>1, SumOfOneChange, SumType
    <3>2. SumFunctionOnSet(W1, Milestones)
            = SumFunctionOnSet(W, Milestones) + SumFunctionOnSet(D, Milestones)
      BY <1>f, <2>2, SumOfSums
    <3>3. amount \in Int
      OBVIOUS
    <3>4. SumFunctionOnSet(D, Milestones) = total
      BY <1>f, <2>3, <3>3, SumOfBatch DEF total
    <3>5. SumFunctionOnSet(W, Milestones) \in Int
      BY <1>f, <2>2, SumType
    <3> QED BY <1>1, <1>3, <1>4, <2>1, <2>5, <3>1, <3>2, <3>4, <3>5
  <2>7. totalEscrowed' = held' - R
    BY <1>1, <2>5
  <2> QED BY <2>4, <2>6, <2>7 DEF CounterLagsByRefunds, Obligations
<1> QED
  BY <1>8, <1>12, <1>13, <1>14 DEF ArcInv

\* The owner's calls and the passing of time touch no money.
LEMMA ConfigureKeeps ==
    ASSUME ArcInv, Configure
    PROVE  ArcInv'
<1>1. /\ UNCHANGED <<ideas, milestones, milestoneDisputes, totalEscrowed, held, paid, withdrawn, timestamp>>
      /\ ownerCalls' = ownerCalls + 1
  BY DEF Configure, SetDisputeResolver, SetMilestoneTimeout, SetDisputeWindow, TransferEscrow,
         OwnerCall, money
<1>2. ArcTypeOK
  BY DEF ArcInv
<1>3. config' \in [owner : Governors, resolver : Governors, reviewTimeout : Nat, disputeWindow : Nat]
  <2>1. config \in [owner : Governors, resolver : Governors, reviewTimeout : Nat, disputeWindow : Nat]
    BY <1>2 DEF ArcTypeOK
  <2>2. Windows \subseteq Nat
    BY NumbersAssumption
  <2> QED
    BY <2>1, <2>2 DEF Configure, SetDisputeResolver, SetMilestoneTimeout, SetDisputeWindow,
                      TransferEscrow
<1>4. ArcTypeOK'
  BY <1>1, <1>2, <1>3 DEF ArcTypeOK
<1>5. \A m \in Milestones : Good(m)'
  <2> SUFFICES ASSUME NEW m \in Milestones PROVE Good(m)'
    OBVIOUS
  <2>1. Good(m) /\ milestones'[m] = milestones[m] /\ milestoneDisputes'[m] = milestoneDisputes[m]
        /\ paid'[m] = paid[m] /\ timestamp' = timestamp
    BY <1>1 DEF ArcInv
  <2> QED BY <2>1, GoodStays
<1>6. IdeasKeepApart' /\ CounterLagsByRefunds'
  BY <1>1 DEF ArcInv, IdeasKeepApart, CounterLagsByRefunds, Obligations, TakenFrom, Owed,
              PaidOut, Returned, ReturnedToIdea, InState
<1> QED
  BY <1>4, <1>5, <1>6 DEF ArcInv

LEMMA ElapseKeeps ==
    ASSUME ArcInv, Elapse
    PROVE  ArcInv'
<1>1. /\ UNCHANGED <<ideas, milestones, milestoneDisputes, totalEscrowed, held, paid, withdrawn, config, ownerCalls>>
      /\ timestamp' = timestamp + 1
  BY DEF Elapse, money
<1>2. ArcTypeOK
  BY DEF ArcInv
<1>3. ArcTypeOK'
  BY <1>1, <1>2 DEF ArcTypeOK
<1>4. \A m \in Milestones : Good(m)'
  <2> SUFFICES ASSUME NEW m \in Milestones PROVE Good(m)'
    OBVIOUS
  <2>1. Good(m) /\ milestones'[m] = milestones[m] /\ milestoneDisputes'[m] = milestoneDisputes[m]
        /\ paid'[m] = paid[m]
    BY <1>1 DEF ArcInv
  <2>2. LifeOf(m)'
    <3>1. milestones[m].startTime \in Nat /\ timestamp \in Nat
      BY <1>2 DEF ArcTypeOK, MilestoneType
    <3>2. milestones[m].startTime <= timestamp => milestones[m].startTime <= timestamp'
      BY <1>1, <3>1
    <3> QED BY <2>1, <3>2 DEF Good, LifeOf, DisputeOpen
  <2>3. PaidRight(m)'
    BY <2>1 DEF Good, PaidRight, PaidOut, Returned, ReturnedToIdea, InState
  <2>4. WithinSchedule(m)'
    BY <1>1, <1>2, <2>1, SchedulesGrow DEF Good
  <2> QED BY <2>2, <2>3, <2>4 DEF Good
<1>5. IdeasKeepApart' /\ CounterLagsByRefunds'
  BY <1>1 DEF ArcInv, IdeasKeepApart, CounterLagsByRefunds, Obligations, TakenFrom, Owed,
              PaidOut, Returned, ReturnedToIdea, InState
<1> QED
  BY <1>3, <1>4, <1>5 DEF ArcInv

-----------------------------------------------------------------------------
(* The theorems about AdvancedArcEscrow *)

\* The invariant holds at first.
LEMMA InitInv == ArcInit => ArcInv
<1> SUFFICES ASSUME ArcInit PROVE ArcInv
  OBVIOUS
<1>1. ArcTypeOK
  <2>1. NoMilestone \in MilestoneType
    BY DEF NoMilestone, MilestoneType, Statuses, Unvested, Vesting
  <2>2. /\ ReviewTimeout \in Nat /\ DisputeWindow \in Nat
        /\ Owner \in Governors /\ Resolver \in Governors
    BY AccountsAssumption, NumbersAssumption
  <2> QED BY <2>1, <2>2 DEF ArcInit, ArcTypeOK, NoIdea, NoDispute, Nothing
<1>2. \A m \in Milestones :
        /\ milestones[m] = NoMilestone /\ milestoneDisputes[m] = NoDispute /\ paid[m] = Nothing
  BY DEF ArcInit
<1>3. \A m \in Milestones : Owed(m) = 0 /\ PaidOut(m) = 0 /\ Returned(m) = 0
  BY <1>2 DEF Owed, PaidOut, Returned, ReturnedToIdea, InState, NoMilestone, Nothing, Sum4
<1>4. \A m \in Milestones : Good(m)
  <2> SUFFICES ASSUME NEW m \in Milestones PROVE Good(m)
    OBVIOUS
  <2>1. LifeOf(m)
    BY <1>2 DEF LifeOf, NoMilestone, NoDispute, DisputeOpen
  <2>2. PaidRight(m)
    BY <1>2, <1>3 DEF PaidRight, NoMilestone, Nothing, Settled, BPS, StakerBPS, TreasuryBPS
  <2>3. WithinSchedule(m)
    BY <1>2 DEF WithinSchedule, InState, NoMilestone
  <2> QED BY <2>1, <2>2, <2>3 DEF Good
<1>f. IsFiniteSet(Milestones) /\ IsFiniteSet(Ideas)
  BY AccountsAssumption
<1>5. \A i \in Ideas : ideas[i].funded = 0 /\ ideas[i].available = 0 /\ withdrawn[i] = 0
  BY DEF ArcInit, NoIdea
<1>6. IdeasKeepApart
  <2> SUFFICES ASSUME NEW i \in Ideas
               PROVE  ideas[i].funded = ideas[i].available + withdrawn[i]
                        + SumFunctionOnSet([m \in Milestones |-> TakenFrom(i, m)], Milestones)
    BY DEF IdeasKeepApart
  <2>1. \A m \in Milestones : [n \in Milestones |-> TakenFrom(i, n)][m] = 0
    BY <1>3 DEF TakenFrom
  <2>2. SumFunctionOnSet([m \in Milestones |-> TakenFrom(i, m)], Milestones) = 0
    BY <1>f, <2>1, SumOfZeros
  <2> QED BY <1>5, <2>2
<1>7. CounterLagsByRefunds
  <2>1. /\ \A m \in Milestones : [n \in Milestones |-> Owed(n)][m] = 0
        /\ \A m \in Milestones : [n \in Milestones |-> Returned(n)][m] = 0
        /\ \A i \in Ideas : [j \in Ideas |-> ideas[j].available][i] = 0
    BY <1>3, <1>5
  <2>2. /\ SumFunctionOnSet([m \in Milestones |-> Owed(m)], Milestones) = 0
        /\ SumFunctionOnSet([m \in Milestones |-> Returned(m)], Milestones) = 0
        /\ SumFunctionOnSet([i \in Ideas |-> ideas[i].available], Ideas) = 0
    BY <1>f, <2>1, SumOfZeros
  <2>3. held = 0 /\ totalEscrowed = 0
    BY DEF ArcInit
  <2> QED BY <2>2, <2>3 DEF CounterLagsByRefunds, Obligations
<1> QED
  BY <1>1, <1>4, <1>6, <1>7 DEF ArcInv

\* What a step can be.
ByMilestone(m) ==
    \/ \E caller \in People : SubmitMilestone(caller, m) \/ StartReview(caller, m)
                                \/ ApproveMilestone(caller, m) \/ RaiseDispute(caller, m)
    \/ AutoReleaseMilestone(m)
    \/ \E resolution \in {"WorkerWins", "PosterWins", "Split"}, bps \in Nat :
          Resolve(m, resolution, bps)
    \/ \E caller \in People : RefundMilestone(caller, m)

ByIdea(i) ==
    \E caller \in People :
       \/ \E amount \in Fundings : FundIdea(caller, i, amount)
       \/ \E batch \in SUBSET Milestones, amount \in Amounts, v \in Schedules :
             Reserve(caller, i, batch, amount, v)
       \/ \E amount \in Amounts : WithdrawAvailable(caller, i, amount)

\* Every step is one of them, or the owner's, or time's, or nothing.
LEMMA StepShape ==
    ASSUME [ArcNext]_arcVars
    PROVE  \/ \E m \in Milestones : ByMilestone(m)
           \/ \E i \in Ideas : ByIdea(i)
           \/ Configure \/ Elapse \/ UNCHANGED arcVars
<1>1. Payouts \subseteq Nat /\ 5000 \in Nat
  BY NumbersAssumption
<1>2. ASSUME NEW i \in Ideas, NEW caller \in People,
             \/ \E amount \in Fundings : FundIdea(caller, i, amount)
             \/ \E batch \in SUBSET Milestones \ {{}}, amount \in Amounts, v \in Schedules :
                   Reserve(caller, i, batch, amount, v)
             \/ \E amount \in Amounts : WithdrawAvailable(caller, i, amount)
      PROVE  ByIdea(i)
  BY <1>2 DEF ByIdea
<1>3. ASSUME NEW m \in Milestones, NEW caller \in People,
             \/ SubmitMilestone(caller, m) \/ StartReview(caller, m)
             \/ ApproveMilestone(caller, m) \/ RaiseDispute(caller, m)
             \/ \E bps \in Payouts, resolution \in {"WorkerWins", "PosterWins", "Split"} :
                   ResolveMilestone(caller, m, resolution, bps)
             \/ AutoResolveDispute(caller, m)
             \/ RefundMilestone(caller, m)
      PROVE  ByMilestone(m)
  <2>1. CASE \E bps \in Payouts, resolution \in {"WorkerWins", "PosterWins", "Split"} :
                ResolveMilestone(caller, m, resolution, bps)
    BY <1>1, <2>1 DEF ByMilestone, ResolveMilestone
  <2>2. CASE AutoResolveDispute(caller, m)
    BY <1>1, <2>2 DEF ByMilestone, AutoResolveDispute
  <2> QED BY <1>3, <2>1, <2>2 DEF ByMilestone
<1>4. ASSUME NEW m \in Milestones, AutoReleaseMilestone(m) PROVE ByMilestone(m)
  BY <1>4 DEF ByMilestone
<1> QED
  BY <1>2, <1>3, <1>4 DEF ArcNext

\* It is inductive.
LEMMA StepInv == ArcInv /\ [ArcNext]_arcVars => ArcInv'
<1> SUFFICES ASSUME ArcInv, [ArcNext]_arcVars PROVE ArcInv'
  OBVIOUS
<1>1. ASSUME NEW m \in Milestones, ByMilestone(m) PROVE ArcInv'
  BY <1>1, SubmitKeeps, StartReviewKeeps, ApproveKeeps, RaiseDisputeKeeps, AutoReleaseKeeps,
     ResolveKeeps, RefundKeeps DEF ByMilestone
<1>2. ASSUME NEW i \in Ideas, ByIdea(i) PROVE ArcInv'
  <2>1. Fundings \subseteq Nat /\ Amounts \subseteq Nat /\ Schedules \subseteq Vesting
    BY NumbersAssumption
  <2> QED BY <1>2, <2>1, FundKeeps, ReserveKeeps, WithdrawKeeps DEF ByIdea
<1>3. CASE UNCHANGED arcVars
  <2>1. /\ UNCHANGED <<ideas, milestones, milestoneDisputes, totalEscrowed, held, paid, withdrawn,
                       config, timestamp, ownerCalls>>
    BY <1>3 DEF arcVars
  <2>2. \A m \in Milestones : Good(m)'
    <3> SUFFICES ASSUME NEW m \in Milestones PROVE Good(m)'
      OBVIOUS
    <3>1. Good(m) /\ milestones'[m] = milestones[m] /\ milestoneDisputes'[m] = milestoneDisputes[m]
          /\ paid'[m] = paid[m] /\ timestamp' = timestamp
      BY <2>1 DEF ArcInv
    <3> QED BY <3>1, GoodStays
  <2>3. IdeasKeepApart' /\ CounterLagsByRefunds'
    BY <2>1 DEF ArcInv, IdeasKeepApart, CounterLagsByRefunds, Obligations, TakenFrom, Owed,
                PaidOut, Returned, ReturnedToIdea, InState
  <2>4. ArcTypeOK'
    BY <2>1 DEF ArcInv, ArcTypeOK
  <2> QED BY <2>2, <2>3, <2>4 DEF ArcInv
<1> QED
  BY <1>1, <1>2, <1>3, ConfigureKeeps, ElapseKeeps, StepShape

\* In every state of every behaviour the invariant holds.
THEOREM ArcInvHolds == ArcSpec => []ArcInv
  BY InitInv, StepInv, PTL DEF ArcSpec

\* Every slot holds a value of its type: no amount is ever taken below zero.
THEOREM ArcTyped == ArcSpec => []ArcTypeOK
<1>1. ArcInv => ArcTypeOK
  BY DEF ArcInv
<1> QED
  BY <1>1, ArcInvHolds, PTL

\* For any ideas, milestones, amounts and vesting terms, the money of each idea
\* is accounted for, the contract holds what it owes, its counter lags by the
\* refunds and by nothing else, and what a milestone has paid is what it should,
\* and not before its schedule allows (AdvancedArcEscrow.sol 396-826).
THEOREM ArcMoneyAccounted == ArcSpec => []MoneyAccounted
<1>1. ArcInv => MoneyAccounted
  BY DEF ArcInv, MoneyAccounted, Good, SettledInFull, NeverAheadOfSchedule
<1> QED
  BY <1>1, ArcInvHolds, PTL

-----------------------------------------------------------------------------
(* The refinement *)

\* The state of the abstract escrow, as KeepsPromise maps it.
Fate == [m \in Milestones |-> FateOf(milestones[m].status)]
Worth == [m \in Milestones |-> milestones[m].amount]
Out == [m \in Milestones |->
           IF milestones[m].status \in Settled THEN PaidOut(m) + Returned(m) ELSE 0]

\* A settled milestone has let go of its amount, one that is not of nothing.
LEMMA OutIsAll ==
    ASSUME ArcTypeOK, NEW m \in Milestones, PaidRight(m)
    PROVE  Out[m] = IF milestones[m].status \in Settled THEN Worth[m] ELSE 0
<1>1. milestones[m].amount \in Nat /\ (Returned(m) = milestones[m].amount \/ Returned(m) = 0)
  BY DEF ArcTypeOK, MilestoneType, Returned
<1>2. milestones[m].status \in Settled => PaidOut(m) + Returned(m) = milestones[m].amount
  BY <1>1 DEF PaidRight
<1> QED
  BY <1>2 DEF Out, Worth

OutsAreAll ==
    \A m \in Milestones : Out[m] = IF milestones[m].status \in Settled THEN Worth[m] ELSE 0

LEMMA OutsNext == ArcInv => OutsAreAll
  BY OutIsAll DEF ArcInv, Good, OutsAreAll

\* A step of one milestone leaves the others alone, and finds it neither free
\* nor settled.
LEMMA MilestoneEffect ==
    ASSUME ArcInv, NEW m \in Milestones, ByMilestone(m)
    PROVE  /\ \A n \in Milestones \ {m} : /\ milestones'[n] = milestones[n]
                                          /\ milestoneDisputes'[n] = milestoneDisputes[n] /\ paid'[n] = paid[n]
           /\ milestones'[m].amount = milestones[m].amount
           /\ milestones[m].status \in {"Reserved", "Submitted", "UnderReview", "Disputed", "Approved"}
           /\ milestones'[m].status # "None"
<1>1. /\ milestones \in [Milestones -> MilestoneType] /\ LifeOf(m)
      /\ \A n \in Milestones : n \in DOMAIN paid /\ n \in DOMAIN milestoneDisputes
      /\ paid = [n \in Milestones |-> paid[n]] /\ milestoneDisputes = [n \in Milestones |-> milestoneDisputes[n]]
  BY DEF ArcInv, Good, ArcTypeOK
<1>2. CASE \E caller \in People : SubmitMilestone(caller, m) \/ StartReview(caller, m)
                                    \/ ApproveMilestone(caller, m) \/ RaiseDispute(caller, m)
  BY <1>1, <1>2 DEF SubmitMilestone, StartReview, ApproveMilestone, RaiseDispute, InState,
                    MilestoneType, money
<1>3. CASE AutoReleaseMilestone(m)
  BY <1>1, <1>3 DEF AutoReleaseMilestone, ReleaseMilestone, Pay, InState, MilestoneType
<1>4. CASE \E resolution \in {"WorkerWins", "PosterWins", "Split"}, bps \in Nat :
              Resolve(m, resolution, bps)
  BY <1>1, <1>4 DEF Resolve, Pay, LifeOf, MilestoneType
<1>5. CASE \E caller \in People : RefundMilestone(caller, m)
  BY <1>1, <1>5 DEF RefundMilestone, InState, MilestoneType
<1> QED
  BY <1>2, <1>3, <1>4, <1>5 DEF ByMilestone

\* A function that changes at one place is its EXCEPT.
LEMMA OneUpdate ==
    ASSUME NEW f, NEW g, NEW m \in Milestones,
           f = [n \in Milestones |-> f[n]], g = [n \in Milestones |-> g[n]],
           \A n \in Milestones \ {m} : g[n] = f[n]
    PROVE  g = [f EXCEPT ![m] = g[m]]
  OBVIOUS

\* A milestone that keeps its state keeps its place in the abstract escrow.
LEMMA SameInTheAbstract ==
    ASSUME NEW n \in Milestones,
           milestones'[n] = milestones[n], milestoneDisputes'[n] = milestoneDisputes[n], paid'[n] = paid[n]
    PROVE  Fate'[n] = Fate[n] /\ Worth'[n] = Worth[n] /\ Out'[n] = Out[n]
<1>1. Fate'[n] = Fate[n] /\ Worth'[n] = Worth[n]
  BY DEF Fate, Worth
<1>2. PaidOut(n)' = PaidOut(n) /\ Returned(n)' = Returned(n)
  BY DEF PaidOut, Returned, ReturnedToIdea, InState
<1> QED
  BY <1>1, <1>2 DEF Out

LEMMA AbstractFunctions ==
    /\ Fate = [n \in Milestones |-> Fate[n]] /\ Worth = [n \in Milestones |-> Worth[n]]
    /\ Out = [n \in Milestones |-> Out[n]]
    /\ Fate' = [n \in Milestones |-> Fate'[n]] /\ Worth' = [n \in Milestones |-> Worth'[n]]
    /\ Out' = [n \in Milestones |-> Out'[n]]
  BY DEF Fate, Worth, Out

\* A step of one milestone holds its deposit or lets it go.
LEMMA MilestoneRefines ==
    ASSUME ArcInv, ArcInv', OutsAreAll, OutsAreAll', NEW m \in Milestones, ByMilestone(m)
    PROVE  \/ Fate' = Fate /\ Worth' = Worth /\ Out' = Out
           \/ \E how \in {"paid", "returned"} :
                 /\ Fate[m] = "held" /\ Fate' = [Fate EXCEPT ![m] = how]
                 /\ Out' = [Out EXCEPT ![m] = Worth[m]] /\ Worth' = Worth
<1>1. /\ \A n \in Milestones \ {m} : /\ milestones'[n] = milestones[n]
                                     /\ milestoneDisputes'[n] = milestoneDisputes[n] /\ paid'[n] = paid[n]
      /\ milestones'[m].amount = milestones[m].amount
      /\ milestones[m].status \in {"Reserved", "Submitted", "UnderReview", "Disputed", "Approved"}
      /\ milestones'[m].status # "None"
  BY MilestoneEffect
<1>2. \A n \in Milestones \ {m} : Fate'[n] = Fate[n] /\ Worth'[n] = Worth[n] /\ Out'[n] = Out[n]
  BY <1>1, SameInTheAbstract
<1>3. Worth'[m] = Worth[m] /\ Fate[m] = "held" /\ Out[m] = 0
  BY <1>1 DEF Worth, Fate, FateOf, Out, Settled
<1>4. Worth' = Worth
  BY <1>2, <1>3, AbstractFunctions
<1>5. Fate' = [Fate EXCEPT ![m] = Fate'[m]] /\ Out' = [Out EXCEPT ![m] = Out'[m]]
  <2>1. Fate' = [Fate EXCEPT ![m] = Fate'[m]]
    BY <1>2, AbstractFunctions, OneUpdate
  <2>2. Out' = [Out EXCEPT ![m] = Out'[m]]
    BY <1>2, AbstractFunctions, OneUpdate
  <2> QED BY <2>1, <2>2
<1>6. Out'[m] = IF milestones'[m].status \in Settled THEN Worth'[m] ELSE 0
  BY DEF OutsAreAll
<1>7. CASE milestones'[m].status \in Settled
  <2>1. Fate'[m] \in {"paid", "returned"}
    BY <1>7 DEF Fate, FateOf, Settled
  <2>2. Out'[m] = Worth[m]
    BY <1>3, <1>6, <1>7
  <2> QED BY <1>3, <1>4, <1>5, <2>1, <2>2
<1>8. CASE milestones'[m].status \notin Settled
  <2>1. Fate'[m] = "held"
    BY <1>1, <1>8 DEF Fate, FateOf, Settled
  <2>2. Out'[m] = 0
    BY <1>6, <1>8
  <2>3. \A n \in Milestones : Fate'[n] = Fate[n] /\ Out'[n] = Out[n]
    BY <1>2, <1>3, <2>1, <2>2
  <2> QED BY <1>4, <2>3, AbstractFunctions
<1> QED
  BY <1>7, <1>8

\* A reservation takes its batch.
LEMMA ReserveRefines ==
    ASSUME ArcInv, OutsAreAll, OutsAreAll', NEW i \in Ideas, NEW caller \in People,
           NEW batch \in SUBSET Milestones, NEW amount \in Nat, NEW v \in Vesting,
           Reserve(caller, i, batch, amount, v)
    PROVE  /\ \A m \in batch : Fate[m] = "none"
           /\ amount > 0
           /\ Fate' = [m \in Milestones |-> IF m \in batch THEN "held" ELSE Fate[m]]
           /\ Worth' = [m \in Milestones |-> IF m \in batch THEN amount ELSE Worth[m]]
           /\ Out' = Out
<1> DEFINE new == [NoMilestone EXCEPT !.idea = i, !.amount = amount,
                                      !.status = "Reserved", !.vesting = v]
<1>1. /\ amount > 0
      /\ \A m \in batch : milestones[m].status = "None"
      /\ milestones' = [m \in Milestones |-> IF m \in batch THEN new ELSE milestones[m]]
      /\ UNCHANGED <<milestoneDisputes, paid>>
  BY DEF Reserve, ValidTerms, InState, money
<1>2. new.amount = amount /\ new.status = "Reserved"
  BY DEF NoMilestone
<1> HIDE DEF new
<1>3. \A m \in Milestones \ batch :
        Fate'[m] = Fate[m] /\ Worth'[m] = Worth[m] /\ Out'[m] = Out[m]
  BY <1>1, SameInTheAbstract
<1>4. \A m \in batch :
        /\ Fate[m] = "none" /\ Fate'[m] = "held" /\ Worth'[m] = amount
        /\ Out[m] = 0 /\ Out'[m] = 0
  BY <1>1, <1>2 DEF Fate, FateOf, Worth, Out, Settled
<1>5. Fate' = [m \in Milestones |-> IF m \in batch THEN "held" ELSE Fate[m]]
  BY <1>3, <1>4, AbstractFunctions
<1>6. Worth' = [m \in Milestones |-> IF m \in batch THEN amount ELSE Worth[m]]
  BY <1>3, <1>4, AbstractFunctions
<1>7. Out' = Out
  <2>1. \A m \in Milestones : Out'[m] = Out[m]
    BY <1>3, <1>4
  <2> QED BY <2>1, AbstractFunctions
<1> QED
  BY <1>1, <1>4, <1>5, <1>6, <1>7

\* The contract keeps the promise of OneShotEscrow for every milestone: it is
\* reserved once and settled once, in full, for the parties or back to the
\* poster, whatever happened in between (AdvancedArcEscrow.sol 396-826).
THEOREM ArcImplementsOneShotEscrow == ArcSpec => KeepsPromise
<1>1. ArcInit => Promise!Init
  <2> SUFFICES ASSUME ArcInit PROVE Promise!Init
    OBVIOUS
  <2>1. \A m \in Milestones : milestones[m].status = "None" /\ milestones[m].amount = 0
    BY DEF ArcInit, NoMilestone
  <2> QED BY <2>1 DEF Promise!Init, FateOf, Settled
<1>2. (ArcInv => OutsAreAll)'
  BY OutsNext, PTL
<1>3. ArcInv /\ [ArcNext]_arcVars => [Promise!Next]_(Promise!vars)
  <2> SUFFICES ASSUME ArcInv, [ArcNext]_arcVars
               PROVE  Promise!Next \/ UNCHANGED Promise!vars
    OBVIOUS
  <2>1. ArcInv' /\ OutsAreAll /\ OutsAreAll'
    BY <1>2, StepInv, OutsNext
  <2>2. ASSUME Fate' = Fate, Worth' = Worth, Out' = Out PROVE UNCHANGED Promise!vars
    BY <2>2 DEF Promise!vars, Fate, Worth, Out
  <2>3. ASSUME UNCHANGED <<milestones, milestoneDisputes, paid>> PROVE UNCHANGED Promise!vars
    <3>1. \A n \in Milestones : Fate'[n] = Fate[n] /\ Worth'[n] = Worth[n] /\ Out'[n] = Out[n]
      BY <2>3, SameInTheAbstract
    <3>2. Fate' = Fate /\ Worth' = Worth /\ Out' = Out
      BY <3>1, AbstractFunctions
    <3> QED BY <2>2, <3>2
  <2>4. CASE \E m \in Milestones : ByMilestone(m)
    <3> PICK m \in Milestones : ByMilestone(m)
      BY <2>4
    <3>1. CASE Fate' = Fate /\ Worth' = Worth /\ Out' = Out
      BY <2>2, <3>1
    <3>2. CASE \E how \in {"paid", "returned"} :
                 /\ Fate[m] = "held" /\ Fate' = [Fate EXCEPT ![m] = how]
                 /\ Out' = [Out EXCEPT ![m] = Worth[m]] /\ Worth' = Worth
      <4> PICK how \in {"paid", "returned"} :
                 /\ Fate[m] = "held" /\ Fate' = [Fate EXCEPT ![m] = how]
                 /\ Out' = [Out EXCEPT ![m] = Worth[m]] /\ Worth' = Worth
        BY <3>2
      <4>1. Promise!Leave(m, how)
        BY DEF Promise!Leave, Fate, Worth, Out
      <4> QED BY <4>1 DEF Promise!Next
    <3> QED BY <2>1, <3>1, <3>2, MilestoneRefines
  <2>5. CASE \E i \in Ideas : ByIdea(i)
    <3> PICK i \in Ideas, caller \in People :
           \/ \E amount \in Fundings : FundIdea(caller, i, amount)
           \/ \E batch \in SUBSET Milestones, amount \in Amounts, v \in Schedules :
                 Reserve(caller, i, batch, amount, v)
           \/ \E amount \in Amounts : WithdrawAvailable(caller, i, amount)
      BY <2>5 DEF ByIdea
    <3>1. CASE \E batch \in SUBSET Milestones, amount \in Amounts, v \in Schedules :
                 Reserve(caller, i, batch, amount, v)
      <4> PICK batch \in SUBSET Milestones, amount \in Amounts, v \in Schedules :
             Reserve(caller, i, batch, amount, v)
        BY <3>1
      <4>1. amount \in Nat /\ v \in Vesting
        BY NumbersAssumption
      <4>2. /\ \A m \in batch : Fate[m] = "none"
            /\ amount > 0
            /\ Fate' = [m \in Milestones |-> IF m \in batch THEN "held" ELSE Fate[m]]
            /\ Worth' = [m \in Milestones |-> IF m \in batch THEN amount ELSE Worth[m]]
            /\ Out' = Out
        BY <2>1, <4>1, ReserveRefines
      <4>3. Promise!TakeBatch(batch, amount)
        BY <4>2 DEF Promise!TakeBatch, Fate, Worth, Out
      <4> QED BY <4>3 DEF Promise!Next
    <3>2. CASE \/ \E amount \in Fundings : FundIdea(caller, i, amount)
               \/ \E amount \in Amounts : WithdrawAvailable(caller, i, amount)
      <4>1. UNCHANGED <<milestones, milestoneDisputes, paid>>
        BY <3>2 DEF FundIdea, WithdrawAvailable
      <4> QED BY <2>3, <4>1
    <3> QED BY <3>1, <3>2
  <2>6. CASE Configure \/ Elapse \/ UNCHANGED arcVars
    <3>1. UNCHANGED <<milestones, milestoneDisputes, paid>>
      BY <2>6 DEF Configure, SetDisputeResolver, SetMilestoneTimeout, SetDisputeWindow,
                  TransferEscrow, OwnerCall, Elapse, money, arcVars
    <3> QED BY <2>3, <3>1
  <2> QED BY <2>4, <2>5, <2>6, StepShape
<1> QED
  BY <1>1, <1>3, ArcInvHolds, PTL DEF ArcSpec, KeepsPromise, Promise!Spec

-----------------------------------------------------------------------------
(* ReviewSystem: the invariants *)

RolesInv == roles \in [Contracts -> RoleType] /\ scene \in DOMAIN MaxCalls /\ now \in Nat

QueueInv == QueueTypeOK /\ ReviewsCounted

\* The balance is exactly the bonds, what is pending and the fees not claimed.
Bonded(all) == [r \in Reviewers |-> all[r].bond + all[r].pending]
RSMInv == RSMTypeOK /\ rsmBalance = SumFunctionOnSet(Bonded(reviewers), Reviewers) + feeFund

Staked(all) == [w \in Workers |-> all[w].staked + all[w].pending]
WSMInv == WSMTypeOK /\ wsmBalance = SumFunctionOnSet(Staked(workers), Workers)

\* A probation that runs has been announced, and lasts its grace period from then.
CredentialInv ==
    /\ CredentialTypeOK
    /\ \A r \in Reviewers :
          LET c == creds[r] IN
          /\ ~c.minted => c.tier = 0
          /\ c.announced <= now
          /\ c.probation # 0 => c.announced # NotYet /\ c.probation >= c.announced + GracePeriod

\* The balance is exactly the bonds of the pending disputes and the funds given, less
\* what jurors were paid.
DisputeType ==
    [task : Tasks, worker : Workers, reviewer : Reviewers, bond : Nat, deadline : Nat,
     state : Verdicts \cup {"pending"}, jury : Seq(Jurors), uphold : SUBSET Jurors,
     reject : SUBSET Jurors]

DRType == [jurors : Nat, quorumBps : Bps, window : Nat, bond : Nat, slashBps : Bps,
           rsm : BOOLEAN, wsm : BOOLEAN]

Held(b) == IF b.state = "pending" THEN b.bond ELSE 0

PendingBond(all) == [d \in 1..Len(all) |-> Held(all[d])]

DisputeInv ==
    /\ DisputeTypeOK /\ OneOpenDispute
    /\ dr \in DRType /\ rewarded \in Int
    /\ drBalance + rewarded = SumFunctionOnSet(PendingBond(disputes), 1..Len(disputes))

ReviewInv == RolesInv /\ QueueInv /\ RSMInv /\ WSMInv /\ CredentialInv /\ DisputeInv

-----------------------------------------------------------------------------
(* ReviewerQueue *)

QueueType == [tasks : Seq(Tasks), index : [Tasks -> Nat], active : Nat, slips : Nat]

\* The index entry of t, if there is one, is the place of t.
InPlace(tasks, index, t) == index[t] # 0 => index[t] <= Len(tasks) /\ tasks[index[t]] = t

Indexed(q) ==
    /\ q.active + q.slips = Len(q.tasks)
    /\ \A t \in Tasks : InPlace(q.tasks, q.index, t)

\* Appending a task gives it the last index.
LEMMA PushedFits ==
    ASSUME NEW q \in QueueType, Indexed(q), NEW t \in Tasks
    PROVE  /\ Pushed(q, t) \in QueueType /\ Indexed(Pushed(q, t))
           /\ Pushed(q, t).index[t] # 0
           /\ \A u \in Tasks : q.index[u] # 0 => Pushed(q, t).index[u] # 0
<1> DEFINE n == Len(q.tasks)
           s == Append(q.tasks, t)
           x == [q.index EXCEPT ![t] = n + 1]
           a == q.active + 1
           p == Pushed(q, t)
<1>1. /\ q.tasks \in Seq(Tasks) /\ q.index \in [Tasks -> Nat] /\ q.active \in Nat /\ q.slips \in Nat
      /\ n \in Nat
  BY DEF QueueType
<1>2. p = [q EXCEPT !.tasks = s, !.index = x, !.active = a]
  BY <1>1 DEF Pushed, QueueType
<1>3. s \in Seq(Tasks) /\ x \in [Tasks -> Nat] /\ a \in Nat
  BY <1>1
<1>4. p \in QueueType /\ p.tasks = s /\ p.index = x /\ p.active = a /\ p.slips = q.slips
  <2> HIDE DEF p, s, x, a
  <2> QED BY <1>2, <1>3 DEF QueueType
<1>5. Len(s) = n + 1 /\ s[n + 1] = t /\ \A i \in 1..n : s[i] = q.tasks[i]
  BY <1>1
<1>6. \A u \in Tasks : x[u] = IF u = t THEN n + 1 ELSE q.index[u]
  BY <1>1
<1> HIDE DEF s, x
<1>7. ASSUME NEW u \in Tasks PROVE InPlace(s, x, u)
  <2>1. CASE u = t
    BY <1>1, <1>5, <1>6, <2>1 DEF InPlace
  <2>2. CASE u # t /\ q.index[u] # 0
    <3>1. q.index[u] \in 1..n /\ q.tasks[q.index[u]] = u
      BY <1>1, <2>2 DEF Indexed, InPlace
    <3> QED BY <1>1, <1>5, <1>6, <2>2, <3>1 DEF InPlace
  <2>3. CASE u # t /\ q.index[u] = 0
    BY <1>6, <2>3 DEF InPlace
  <2> QED BY <2>1, <2>2, <2>3
<1>8. Indexed(p)
  <2>1. p.active + p.slips = Len(p.tasks)
    <3>1. q.active + q.slips = n
      BY DEF Indexed
    <3> HIDE DEF p, n
    <3> QED BY <1>1, <1>4, <1>5, <3>1
  <2>2. \A u \in Tasks : InPlace(p.tasks, p.index, u)
    <3> HIDE DEF p
    <3> QED BY <1>4, <1>7
  <2> HIDE DEF p
  <2> QED BY <2>1, <2>2 DEF Indexed
<1> QED
  BY <1>1, <1>4, <1>6, <1>8 DEF p

\* Removing a task by swap-and-pop keeps the index of every other.
LEMMA RemovedFits ==
    ASSUME NEW q \in QueueType, Indexed(q), NEW t \in Tasks, q.active > 0
    PROVE  /\ Removed(q, t) \in QueueType /\ Indexed(Removed(q, t))
           /\ \A u \in Tasks \ {t} : q.index[u] # 0 => Removed(q, t).index[u] # 0
<1> DEFINE n == Len(q.tasks)
           i == q.index[t]
           last == q.tasks[n]
           a == q.active - 1
           r == Removed(q, t)
<1>1. /\ q.tasks \in Seq(Tasks) /\ q.index \in [Tasks -> Nat] /\ q.active \in Nat /\ q.slips \in Nat
      /\ n \in Nat /\ i \in Nat /\ a \in Nat
  BY DEF QueueType
<1>2. CASE i = 0
  <2> DEFINE b == q.slips + 1
  <2>1. r = [q EXCEPT !.active = a, !.slips = b]
    BY <1>2 DEF Removed
  <2>2. b \in Nat
    BY <1>1
  <2>3. /\ r \in QueueType /\ r.tasks = q.tasks /\ r.index = q.index
        /\ r.active = a /\ r.slips = b
    <3> HIDE DEF a, b, r
    <3> QED BY <1>1, <2>1, <2>2 DEF QueueType
  <2>4. Indexed(r)
    <3>1. q.active + q.slips = n
      BY DEF Indexed
    <3> HIDE DEF r
    <3>2. r.active + r.slips = Len(r.tasks)
      <4>1. Len(r.tasks) = n /\ r.active = q.active - 1 /\ r.slips = q.slips + 1
        BY <2>3
      <4>2. q.active \in Nat /\ q.slips \in Nat /\ n \in Nat
        BY <1>1
      <4> HIDE DEF n
      <4> QED BY <3>1, <4>1, <4>2
    <3> QED BY <2>3, <3>2 DEF Indexed
  <2> QED BY <1>2, <2>3, <2>4
<1>3. CASE i # 0
  <2>1. i \in 1..n /\ q.tasks[i] = t /\ n >= 1
    BY <1>1, <1>3 DEF Indexed, InPlace
  <2>2. last \in Tasks
    BY <1>1, <2>1
  <2> DEFINE moved == [q.tasks EXCEPT ![i] = last]
             front == SubSeq(moved, 1, n - 1)
             x == [[q.index EXCEPT ![last] = i] EXCEPT ![t] = 0]
  <2>3. moved \in Seq(Tasks) /\ Len(moved) = n
    <3>1. q.tasks \in [1..n -> Tasks]
      BY <1>1
    <3>2. moved \in [1..n -> Tasks]
      <4> HIDE DEF last, i, n
      <4> QED BY <2>2, <3>1
    <3> HIDE DEF moved
    <3> QED BY <1>1, <3>2
  <2>4. \A k \in 1..n : moved[k] = IF k = i THEN last ELSE q.tasks[k]
    <3>1. q.tasks \in [1..n -> Tasks]
      BY <1>1
    <3> HIDE DEF last, i, n
    <3> QED BY <3>1
  <2>5. front \in Seq(Tasks) /\ Len(front) = n - 1 /\ \A k \in 1..(n - 1) : front[k] = moved[k]
    <3> HIDE DEF moved
    <3> QED BY <1>1, <2>1, <2>3
  <2>6. x \in [Tasks -> Nat]
    BY <1>1, <2>2
  <2>7. \A u \in Tasks : x[u] = IF u = t THEN 0 ELSE IF u = last THEN i ELSE q.index[u]
    <3> HIDE DEF last, i
    <3> QED BY <1>1, <2>2
  <2>8. r = [q EXCEPT !.tasks = front, !.index = x, !.active = a]
    BY <1>1, <1>3, <2>3 DEF Removed, Front, Last, QueueType
  <2>9. /\ r \in QueueType /\ r.tasks = front /\ r.index = x
        /\ r.active = a /\ r.slips = q.slips
    <3>1. front \in Seq(Tasks)
      BY <2>5
    <3>2. a \in Nat
      BY <1>1
    <3> HIDE DEF a, r, front, x
    <3> QED BY <2>6, <2>8, <3>1, <3>2 DEF QueueType
  <2> HIDE DEF r, front, moved, x
  <2>10. ASSUME NEW u \in Tasks PROVE InPlace(front, x, u)
    <3>1. CASE u = t
      BY <2>7, <3>1 DEF InPlace
    <3>2. CASE u # t /\ u = last
      <4>1. x[u] = i /\ i # n
        BY <2>1, <2>7, <3>2
      <4>2. i \in 1..(n - 1)
        BY <1>1, <2>1, <4>1
      <4>3. front[i] = moved[i] /\ moved[i] = last
        BY <2>1, <2>4, <2>5, <4>2
      <4> QED BY <1>1, <2>5, <3>2, <4>1, <4>2, <4>3 DEF InPlace
    <3>3. CASE u # t /\ u # last /\ q.index[u] # 0
      <4>1. x[u] = q.index[u] /\ q.index[u] \in 1..n /\ q.tasks[q.index[u]] = u
        BY <1>1, <2>7, <3>3 DEF Indexed, InPlace
      <4>2. q.index[u] # n /\ q.index[u] # i
        BY <2>1, <3>3, <4>1
      <4>3. q.index[u] \in 1..(n - 1)
        BY <1>1, <4>1, <4>2
      <4>4. front[q.index[u]] = u
        BY <2>4, <2>5, <4>1, <4>2, <4>3
      <4> QED BY <1>1, <2>5, <4>1, <4>3, <4>4 DEF InPlace
    <3>4. CASE u # t /\ u # last /\ q.index[u] = 0
      BY <2>7, <3>4 DEF InPlace
    <3> QED BY <3>1, <3>2, <3>3, <3>4
  <2>11. Indexed(r)
    <3>1. r.active + r.slips = Len(r.tasks)
      BY <1>1, <2>5, <2>9 DEF Indexed
    <3> QED BY <2>9, <2>10, <3>1 DEF Indexed
  <2>12. \A u \in Tasks \ {t} : q.index[u] # 0 => r.index[u] # 0
    BY <2>1, <2>7, <2>9
  <2> QED BY <2>9, <2>11, <2>12 DEF r
<1> QED
  BY <1>2, <1>3

\* A state of the queue's two tables: every reviewer's array fits its index, and running
\* reviews have an index.
Fits(as, qs) ==
    /\ as \in [Tasks -> [reviewer : Reviewers \cup {NoOne}, at : Nat,
                         completed : BOOLEAN, timedOut : BOOLEAN]]
    /\ qs \in [Reviewers -> QueueType]
    /\ \A r \in Reviewers :
          /\ Indexed(qs[r])
          /\ \A t \in Tasks : /\ as[t].reviewer = r /\ as[t].reviewer # NoOne
                              /\ ~as[t].completed /\ ~as[t].timedOut
                              => qs[r].index[t] # 0

\* QueueInv, as the facts the lemmas above keep.
LEMMA QueueInvIsFits ==
    QueueInv <=> /\ Fits(assignments, queues)
                 /\ rq \in [timeout : Nat, maxActive : Nat, gated : BOOLEAN]
                 /\ verified \subseteq Reviewers
  BY DEF QueueInv, QueueTypeOK, ReviewsCounted, Fits, Indexed, InPlace, QueueType, Unfinished

\* The same after a step.
LEMMA QueueInvIsFitsNext ==
    QueueInv' <=> /\ Fits(assignments', queues')
                  /\ rq' \in [timeout : Nat, maxActive : Nat, gated : BOOLEAN]
                  /\ verified' \subseteq Reviewers
  BY DEF QueueInv, QueueTypeOK, ReviewsCounted, Fits, Indexed, InPlace, QueueType, Unfinished

\* A reviewer drawn for t gets it.
LEMMA AssignedFits ==
    ASSUME NEW as, NEW qs, Fits(as, qs), NEW t \in Tasks, NEW r \in Reviewers, now \in Nat
    PROVE  Fits([as EXCEPT ![t] = [NoReview EXCEPT !.reviewer = r, !.at = now]],
                [qs EXCEPT ![r] = Pushed(@, t)])
<1> DEFINE AType == [reviewer : Reviewers \cup {NoOne}, at : Nat,
                     completed : BOOLEAN, timedOut : BOOLEAN]
           new == [NoReview EXCEPT !.reviewer = r, !.at = now]
           q == Pushed(qs[r], t)
           as2 == [as EXCEPT ![t] = new]
           qs2 == [qs EXCEPT ![r] = q]
<1>1. /\ qs[r] \in QueueType /\ Indexed(qs[r])
      /\ as \in [Tasks -> AType] /\ qs \in [Reviewers -> QueueType]
  BY DEF Fits
<1>2. new \in AType /\ new.reviewer = r
  BY DEF NoReview
<1>3. /\ q \in QueueType /\ Indexed(q) /\ q.index[t] # 0
      /\ \A u \in Tasks : qs[r].index[u] # 0 => q.index[u] # 0
  BY <1>1, PushedFits
<1> HIDE DEF new, q, AType
<1>4. as2 \in [Tasks -> AType] /\ qs2 \in [Reviewers -> QueueType]
  BY <1>1, <1>2, <1>3
<1>5. ASSUME NEW s \in Reviewers PROVE Indexed(qs2[s])
  BY <1>1, <1>3 DEF Fits
<1>6. ASSUME NEW s \in Reviewers, NEW u \in Tasks,
             as2[u].reviewer = s, as2[u].reviewer # NoOne, ~as2[u].completed, ~as2[u].timedOut
      PROVE  qs2[s].index[u] # 0
  <2>1. CASE u = t
    BY <1>1, <1>2, <1>3, <1>6, <2>1
  <2>2. CASE u # t
    <3>1. qs[s].index[u] # 0
      BY <1>1, <1>6, <2>2 DEF Fits
    <3> QED BY <1>1, <1>3, <3>1
  <2> QED BY <2>1, <2>2
<1> QED
  BY <1>4, <1>5, <1>6 DEF Fits, q, new, AType

\* A review that ends, or is about to be drawn again, leaves the array of its reviewer.
LEMMA RemovedStillFits ==
    ASSUME NEW as, NEW qs, Fits(as, qs), NEW t \in Tasks, NEW r \in Reviewers, qs[r].active > 0
    PROVE  Fits([as EXCEPT ![t].completed = TRUE], [qs EXCEPT ![r] = Removed(@, t)])
<1> DEFINE AType == [reviewer : Reviewers \cup {NoOne}, at : Nat,
                     completed : BOOLEAN, timedOut : BOOLEAN]
           new == [as[t] EXCEPT !.completed = TRUE]
           q == Removed(qs[r], t)
           as2 == [as EXCEPT ![t] = new]
           qs2 == [qs EXCEPT ![r] = q]
<1>1. /\ qs[r] \in QueueType /\ Indexed(qs[r])
      /\ as \in [Tasks -> AType] /\ qs \in [Reviewers -> QueueType]
  BY DEF Fits
<1>2. new \in AType /\ new.completed
  BY <1>1
<1>3. /\ q \in QueueType /\ Indexed(q)
      /\ \A u \in Tasks \ {t} : qs[r].index[u] # 0 => q.index[u] # 0
  BY <1>1, RemovedFits
<1> HIDE DEF new, q, AType
<1>4. as2 \in [Tasks -> AType] /\ qs2 \in [Reviewers -> QueueType]
  BY <1>1, <1>2, <1>3
<1>5. ASSUME NEW s \in Reviewers PROVE Indexed(qs2[s])
  BY <1>1, <1>3 DEF Fits
<1>6. ASSUME NEW s \in Reviewers, NEW u \in Tasks,
             as2[u].reviewer = s, as2[u].reviewer # NoOne, ~as2[u].completed, ~as2[u].timedOut
      PROVE  qs2[s].index[u] # 0
  <2>1. u # t
    BY <1>1, <1>2, <1>6
  <2>2. qs[s].index[u] # 0
    BY <1>1, <1>6, <2>1 DEF Fits
  <2> QED BY <1>1, <1>3, <2>1, <2>2
<1> QED
  BY <1>4, <1>5, <1>6 DEF Fits, q, new, AType

\* Removing a reviewer empties his array and marks what he was reviewing.
LEMMA WithoutFits ==
    ASSUME QueueInv, NEW r \in Reviewers, QueueWithout(r)
    PROVE  Fits(assignments', queues')
<1> DEFINE AType == [reviewer : Reviewers \cup {NoOne}, at : Nat,
                     completed : BOOLEAN, timedOut : BOOLEAN]
           q == queues[r]
           listed == ToSet(q.tasks)
           index == [t \in Tasks |-> IF t \in listed THEN 0 ELSE q.index[t]]
           empty == [EmptyQueue EXCEPT !.index = index]
<1>1. /\ Fits(assignments, queues) /\ q \in QueueType /\ Indexed(q)
      /\ assignments \in [Tasks -> AType] /\ queues \in [Reviewers -> QueueType]
      /\ q.tasks \in Seq(Tasks) /\ q.index \in [Tasks -> Nat]
  BY QueueInvIsFits DEF Fits, QueueType
<1>2. \A t \in Tasks : q.index[t] # 0 => t \in listed
  <2> SUFFICES ASSUME NEW t \in Tasks, q.index[t] # 0 PROVE t \in listed
    OBVIOUS
  <2>1. q.index[t] \in Nat /\ q.index[t] <= Len(q.tasks) /\ q.tasks[q.index[t]] = t
    BY <1>1 DEF Indexed, InPlace
  <2>2. q.index[t] \in DOMAIN q.tasks
    BY <1>1, <2>1
  <2> QED BY <2>1, <2>2 DEF ToSet
<1>3. index \in [Tasks -> Nat] /\ \A t \in Tasks : index[t] = 0
  BY <1>1, <1>2
<1>4. empty = [tasks |-> <<>>, index |-> index, active |-> 0, slips |-> 0]
  BY DEF EmptyQueue
<1>5. queues' = [queues EXCEPT ![r] = empty]
  BY DEF QueueWithout
<1>6. assignments' = [t \in Tasks |->
          IF t \in listed /\ Unfinished(t) /\ assignments[t].reviewer = r
          THEN [assignments[t] EXCEPT !.timedOut = TRUE] ELSE assignments[t]]
  BY DEF QueueWithout
<1> HIDE DEF empty, index, listed
<1>7. empty \in QueueType /\ Indexed(empty)
  BY <1>3, <1>4 DEF QueueType, Indexed, InPlace
<1>8. ASSUME NEW t \in Tasks
      PROVE  /\ assignments'[t] \in AType
             /\ assignments'[t].reviewer = assignments[t].reviewer
             /\ assignments'[t].completed = assignments[t].completed
             /\ ~assignments'[t].timedOut =>
                  /\ ~assignments[t].timedOut
                  /\ ~(t \in listed /\ Unfinished(t) /\ assignments[t].reviewer = r)
  <2>1. assignments[t] \in AType
    BY <1>1
  <2>2. CASE t \in listed /\ Unfinished(t) /\ assignments[t].reviewer = r
    BY <1>6, <2>1, <2>2
  <2>3. CASE ~(t \in listed /\ Unfinished(t) /\ assignments[t].reviewer = r)
    BY <1>6, <2>1, <2>3
  <2> QED BY <2>2, <2>3
<1>9. assignments' \in [Tasks -> AType]
  BY <1>6, <1>8
<1>10. ASSUME NEW s \in Reviewers, NEW t \in Tasks,
              assignments'[t].reviewer = s, assignments'[t].reviewer # NoOne,
              ~assignments'[t].completed, ~assignments'[t].timedOut
       PROVE  queues'[s].index[t] # 0
  <2>1. queues[s].index[t] # 0
    BY <1>1, <1>8, <1>10 DEF Fits
  <2>2. s # r
    BY <1>2, <1>8, <1>10, <2>1 DEF Unfinished
  <2> QED BY <1>1, <1>5, <2>1, <2>2
<1>11. queues' \in [Reviewers -> QueueType] /\ \A s \in Reviewers : Indexed(queues'[s])
  BY <1>1, <1>5, <1>7 DEF Fits
<1> QED
  BY <1>9, <1>10, <1>11 DEF Fits

\* Initially nobody has a task.
LEMMA InitQueue == Init => QueueInv
<1> SUFFICES ASSUME Init PROVE QueueInv
  OBVIOUS
<1> USE DEF Init, QueueInit
<1>1. \A r \in Reviewers : queues[r] \in QueueType /\ Indexed(queues[r])
  BY DEF QueueType, Indexed, InPlace, EmptyQueue
<1>2. \A t \in Tasks : assignments[t] = NoReview
  OBVIOUS
<1>3. Fits(assignments, queues)
  BY <1>1, <1>2 DEF Fits, NoReview
<1>4. rq \in [timeout : Nat, maxActive : Nat, gated : BOOLEAN] /\ verified \subseteq Reviewers
  BY ReviewAssumption
<1> QED
  BY <1>3, <1>4, QueueInvIsFits

\* Every call of the queue keeps its invariant.
LEMMA QueueCallKeeps == QueueInv /\ RolesInv /\ QueueCall => QueueInv'
<1> SUFFICES ASSUME QueueInv, RolesInv, NEW caller \in Officers, NEW t \in Tasks, NEW r \in Reviewers,
                    \/ \E list \in SUBSET Reviewers, worker \in Reviewers \cup {NoOne} :
                          AssignReview(caller, t, list, worker, Bond)
                    \/ \E list \in SUBSET Reviewers : ReassignTimedOut(caller, t, list, Bond)
                    \/ CompleteReview(caller, t, r)
                    \/ RemoveEligibleReviewer(caller, r)
                    \/ SetVerified(r)
             PROVE  QueueInv'
  BY DEF QueueCall
<1>1. /\ Fits(assignments, queues) /\ now \in Nat /\ verified \subseteq Reviewers
      /\ rq \in [timeout : Nat, maxActive : Nat, gated : BOOLEAN]
  BY QueueInvIsFits DEF RolesInv
<1>2. ASSUME NEW list \in SUBSET Reviewers, NEW worker \in Reviewers \cup {NoOne},
             AssignReview(caller, t, list, worker, Bond)
      PROVE  QueueInv'
  <2>1. PICK s \in Drawable(queues, list, worker, Bond) :
          /\ assignments' = [assignments EXCEPT ![t] = [NoReview EXCEPT !.reviewer = s, !.at = now]]
          /\ queues' = [queues EXCEPT ![s] = Pushed(@, t)]
    BY <1>2 DEF AssignReview
  <2>2. s \in Reviewers
    BY DEF Drawable
  <2>3. Fits(assignments', queues')
    BY <1>1, <2>1, <2>2, AssignedFits
  <2> QED BY <1>1, <1>2, <2>3, QueueInvIsFitsNext DEF AssignReview
<1>3. ASSUME NEW list \in SUBSET Reviewers, ReassignTimedOut(caller, t, list, Bond)
      PROVE  QueueInv'
  <2> DEFINE old == assignments[t].reviewer
             as == [assignments EXCEPT ![t].completed = TRUE]
             qs == [queues EXCEPT ![old] = Removed(@, t)]
  <2>1. PICK s \in Drawable(qs, list, NoOne, Bond) :
          /\ assignments' = [assignments EXCEPT ![t] = [NoReview EXCEPT !.reviewer = s, !.at = now]]
          /\ queues' = [qs EXCEPT ![s] = Pushed(@, t)]
    BY <1>3 DEF ReassignTimedOut
  <2>2. s \in Reviewers
    BY DEF Drawable
  <2>3. old \in Reviewers /\ queues[old].active > 0
    BY <1>1, <1>3 DEF ReassignTimedOut, Unfinished, Fits
  <2>4. Fits(as, qs)
    BY <1>1, <2>3, RemovedStillFits
  <2>5. assignments' = [as EXCEPT ![t] = [NoReview EXCEPT !.reviewer = s, !.at = now]]
    BY <1>1, <2>1 DEF Fits
  <2> HIDE DEF as, qs
  <2>6. Fits([as EXCEPT ![t] = [NoReview EXCEPT !.reviewer = s, !.at = now]],
             [qs EXCEPT ![s] = Pushed(@, t)])
    BY <1>1, <2>2, <2>4, AssignedFits
  <2>7. Fits(assignments', queues')
    BY <2>1, <2>5, <2>6
  <2> QED BY <1>1, <1>3, <2>7, QueueInvIsFitsNext DEF ReassignTimedOut
<1>4. CASE CompleteReview(caller, t, r)
  <2>1. Fits(assignments', queues')
    BY <1>1, <1>4, RemovedStillFits DEF CompleteReview
  <2> QED BY <1>1, <1>4, <2>1, QueueInvIsFitsNext DEF CompleteReview
<1>5. CASE RemoveEligibleReviewer(caller, r)
  <2>1. Fits(assignments', queues')
    BY <1>5, WithoutFits DEF RemoveEligibleReviewer
  <2> QED BY <1>1, <1>5, <2>1, QueueInvIsFitsNext DEF RemoveEligibleReviewer
<1>6. CASE SetVerified(r)
  BY <1>1, <1>6, QueueInvIsFitsNext DEF SetVerified
<1> QED
  BY <1>2, <1>3, <1>4, <1>5, <1>6

\* So does a slash, by whichever contract.
LEMMA SlashKeepsQueue ==
    ASSUME QueueInv, NEW r \in Reviewers, NEW amount, SlashReviewer(r, amount)
    PROVE  QueueInv'
<1>1. Fits(assignments', queues')
  <2>1. CASE QueueWithout(r)
    BY <2>1, WithoutFits
  <2>2. CASE UNCHANGED <<assignments, queues>>
    BY <2>2, QueueInvIsFits
  <2> QED BY <2>1, <2>2 DEF SlashReviewer
<1> QED
  BY <1>1, QueueInvIsFits, QueueInvIsFitsNext DEF SlashReviewer

-----------------------------------------------------------------------------
(* ReviewerStakeManager *)

BondType == [bond : Nat, eligible : BOOLEAN, reviews : Nat, fees : Nat,
             pending : Nat, availableAt : Nat, lockedUntil : Nat]

TotalBonded == SumFunctionOnSet(Bonded(reviewers), Reviewers)

\* The total of bonds and pending unstakes is a natural.
LEMMA BondsAreSummed == RSMTypeOK => TotalBonded \in Nat
<1> SUFFICES ASSUME RSMTypeOK PROVE TotalBonded \in Nat
  OBVIOUS
<1> DEFINE f == Bonded(reviewers)
<1>1. \A r \in Reviewers : f[r] \in Nat
  BY DEF Bonded, RSMTypeOK
<1> HIDE DEF f
<1>2. SumFunctionOnSet(f, Reviewers) \in Nat
  BY <1>1, SumOfNaturals, ReviewAssumption
<1> QED
  BY <1>2 DEF TotalBonded, f

\* A reviewer's entry of the right type, and what it adds to the total.
LEMMA OneBondChanges ==
    ASSUME RSMTypeOK, NEW r \in Reviewers, NEW b \in BondType, reviewers' = [reviewers EXCEPT ![r] = b]
    PROVE  /\ reviewers' \in [Reviewers -> BondType]
           /\ TotalBonded \in Nat /\ TotalBonded' \in Nat
           /\ TotalBonded' = TotalBonded - (reviewers[r].bond + reviewers[r].pending) + (b.bond + b.pending)
           /\ reviewers[r].bond + reviewers[r].pending <= TotalBonded
<1>1. reviewers \in [Reviewers -> BondType]
  BY DEF RSMTypeOK, BondType
<1>2. reviewers' \in [Reviewers -> BondType]
  BY <1>1
<1> DEFINE f == Bonded(reviewers)
           g == Bonded(reviewers')
<1>3. \A s \in Reviewers : f[s] \in Nat /\ f[s] = reviewers[s].bond + reviewers[s].pending
  BY <1>1 DEF Bonded, BondType
<1>4. \A s \in Reviewers : g[s] \in Nat /\ g[s] = reviewers'[s].bond + reviewers'[s].pending
  BY <1>2 DEF Bonded, BondType
<1>5. \A s \in Reviewers \ {r} : g[s] = f[s]
  BY <1>1, <1>3, <1>4
<1>6. g[r] = b.bond + b.pending
  BY <1>1, <1>4
<1>7. IsFiniteSet(Reviewers)
  BY ReviewAssumption
<1>8. TotalBonded = SumFunctionOnSet(f, Reviewers) /\ TotalBonded' = SumFunctionOnSet(g, Reviewers)
  BY DEF TotalBonded
<1> HIDE DEF f, g
<1>9. \A s \in Reviewers : f[s] \in Int /\ g[s] \in Int
  BY <1>3, <1>4
<1>10. SumFunctionOnSet(g, Reviewers) = SumFunctionOnSet(f, Reviewers) - f[r] + g[r]
  BY <1>5, <1>7, <1>9, SumOfOneChange
<1>11. /\ SumFunctionOnSet(f, Reviewers) \in Nat /\ SumFunctionOnSet(g, Reviewers) \in Nat
       /\ SumFunctionOnSet(f, Reviewers) >= f[r]
  BY <1>3, <1>4, <1>7, SumOfNaturals
<1> QED
  BY <1>2, <1>3, <1>6, <1>8, <1>10, <1>11

\* RSMInv with its types named.
LEMMA RSMParts ==
    RSMInv <=> /\ reviewers \in [Reviewers -> BondType]
               /\ rsm \in [minBond : Nat, feeBps : Nat, cooldown : Nat, queue : BOOLEAN]
               /\ rsmBalance \in Nat /\ feeFund \in Int /\ rsmBalance = TotalBonded + feeFund
  BY DEF RSMInv, RSMTypeOK, BondType, TotalBonded

\* The same after a step.
LEMMA RSMPartsNext ==
    RSMInv' <=> /\ reviewers' \in [Reviewers -> BondType]
                /\ rsm' \in [minBond : Nat, feeBps : Nat, cooldown : Nat, queue : BOOLEAN]
                /\ rsmBalance' \in Nat /\ feeFund' \in Int /\ rsmBalance' = TotalBonded' + feeFund'
  BY DEF RSMInv, RSMTypeOK, BondType, TotalBonded

\* A call that changes one entry keeps the invariant if it moves as much INTEL.
LEMMA BookedBond ==
    ASSUME RSMInv, NEW r \in Reviewers, NEW b \in BondType, reviewers' = [reviewers EXCEPT ![r] = b],
           rsm' = rsm, rsmBalance' \in Nat, feeFund' \in Int,
           rsmBalance' - feeFund' - (b.bond + b.pending)
             = rsmBalance - feeFund - (reviewers[r].bond + reviewers[r].pending)
    PROVE  RSMInv'
<1>1. RSMTypeOK
  BY DEF RSMInv
<1>2. /\ reviewers' \in [Reviewers -> BondType]
      /\ TotalBonded \in Nat /\ TotalBonded' \in Nat
      /\ TotalBonded' = TotalBonded - (reviewers[r].bond + reviewers[r].pending) + (b.bond + b.pending)
  BY <1>1, OneBondChanges
<1>3. reviewers[r].bond + reviewers[r].pending \in Nat /\ b.bond + b.pending \in Nat
  BY RSMParts DEF BondType
<1>4. rsmBalance' = TotalBonded' + feeFund'
  BY <1>2, <1>3, RSMParts
<1> QED
  BY <1>2, <1>4, RSMParts, RSMPartsNext

\* A slash takes from bond and balance the same amount.
LEMMA SlashKeepsBonds ==
    ASSUME RSMInv, RolesInv, NEW caller, NEW r \in Reviewers, NEW amount \in Nat,
           CanSlashReviewer(caller, r, amount), SlashReviewer(r, amount)
    PROVE  RSMInv'
<1> DEFINE old == reviewers[r]
           below == old.bond - amount < rsm.minBond
           left == old.bond - amount
           locked == now + SlashLockWindow
           still == old.eligible /\ ~below
           b == [old EXCEPT !.bond = left, !.lockedUntil = locked, !.eligible = still]
<1>1. old \in BondType /\ rsmBalance \in Nat /\ feeFund \in Int
  BY RSMParts
<1>2. left \in Nat /\ locked \in Nat /\ still \in BOOLEAN /\ rsmBalance - amount \in Nat
  BY <1>1, ReviewAssumption DEF CanSlashReviewer, RolesInv, BondType
<1>3. /\ reviewers' = [reviewers EXCEPT ![r] = b] /\ rsmBalance' = rsmBalance - amount
      /\ rsm' = rsm /\ feeFund' = feeFund
  BY RSMParts DEF SlashReviewer
<1>4. b \in BondType /\ b.bond = left /\ b.pending = old.pending
  <2> HIDE DEF left, locked, still, old
  <2> QED BY <1>1, <1>2 DEF BondType
<1>5. left + old.pending = old.bond + old.pending - amount
  BY <1>1 DEF BondType
<1> QED
  <2> HIDE DEF b, old
  <2>1. rsmBalance' - feeFund' - (b.bond + b.pending) = rsmBalance - feeFund - (old.bond + old.pending)
    BY <1>1, <1>3, <1>4, <1>5 DEF BondType
  <2> QED BY <1>1, <1>2, <1>3, <1>4, <2>1, BookedBond DEF old

\* Nobody has a bond at first.
LEMMA InitBonds == Init => RSMInv
<1> SUFFICES ASSUME Init PROVE RSMInv
  OBVIOUS
<1> USE DEF Init, RSMInit
<1>1. reviewers \in [Reviewers -> BondType]
  BY DEF NoBond, BondType
<1>2. TotalBonded = 0
  <2> DEFINE f == Bonded(reviewers)
  <2>1. \A r \in Reviewers : f[r] = 0
    BY DEF Bonded, NoBond
  <2> HIDE DEF f
  <2>2. SumFunctionOnSet(f, Reviewers) = 0
    BY <2>1, SumOfZeros, ReviewAssumption
  <2> QED BY <2>2 DEF TotalBonded, f
<1>3. rsm \in [minBond : Nat, feeBps : Nat, cooldown : Nat, queue : BOOLEAN]
  BY ReviewAssumption
<1> QED
  BY <1>1, <1>2, <1>3, RSMParts

\* Amounts that are named in a call are naturals.
LEMMA ValuesAreNat == RolesInv => Values[scene] \subseteq Nat
  BY ReviewAssumption DEF RolesInv

\* Registering adds to bond and balance the same amount.
LEMMA RegisterKeeps == RSMInv /\ RolesInv /\ RegisterCall => RSMInv'
<1> SUFFICES ASSUME RSMInv, RolesInv, NEW r \in Reviewers, NEW amount \in Nat,
                    RegisterAsReviewer(r, amount)
             PROVE  RSMInv'
  BY ValuesAreNat DEF RegisterCall
<1> DEFINE old == reviewers[r]
           more == old.bond + amount
           ok == more >= rsm.minBond
           b == [old EXCEPT !.bond = more, !.eligible = ok]
<1>1. old \in BondType /\ old.bond \in Nat /\ rsmBalance \in Nat /\ feeFund \in Int /\ rsm.minBond \in Nat
  BY RSMParts DEF BondType
<1>2. more \in Nat /\ ok \in BOOLEAN
  BY <1>1
<1>3. /\ reviewers' = [reviewers EXCEPT ![r] = b] /\ rsmBalance' = rsmBalance + amount
      /\ rsm' = rsm /\ feeFund' = feeFund
  BY RSMParts DEF RegisterAsReviewer
<1>4. b \in BondType /\ b.bond = more /\ b.pending = old.pending /\ old.pending \in Nat
  <2> HIDE DEF more, ok, old
  <2> QED BY <1>1, <1>2 DEF BondType
<1> HIDE DEF b
<1>5. rsmBalance' - feeFund' - (b.bond + b.pending) = rsmBalance - feeFund - (old.bond + old.pending)
  <2> HIDE DEF old
  <2> QED BY <1>1, <1>3, <1>4
<1>6. rsmBalance' \in Nat /\ feeFund' \in Int
  BY <1>1, <1>3
<1> QED
  BY <1>3, <1>4, <1>5, <1>6, BookedBond

\* A request moves INTEL from bond to pending, and paying it out takes it from both sides.
LEMMA UnstakeKeeps == RSMInv /\ RolesInv /\ UnstakeCall => RSMInv'
<1> SUFFICES ASSUME RSMInv, RolesInv, NEW r \in Reviewers,
                    FinalizeUnstake(r) \/ \E amount \in Nat : RequestUnstake(r, amount)
             PROVE  RSMInv'
  BY ValuesAreNat DEF UnstakeCall
<1> DEFINE old == reviewers[r]
<1>1. /\ old \in BondType /\ old.bond \in Nat /\ old.pending \in Nat /\ old.eligible \in BOOLEAN
      /\ rsmBalance \in Nat /\ feeFund \in Int /\ rsm.minBond \in Nat /\ rsm.cooldown \in Nat
      /\ now \in Nat /\ SlashLockWindow \in Nat
  BY RSMParts, ReviewAssumption DEF BondType, RolesInv
<1>2. ASSUME NEW amount \in Nat, RequestUnstake(r, amount) PROVE RSMInv'
  <2> DEFINE left == old.bond - amount
             more == old.pending + amount
             at == now + rsm.cooldown
             locked == now + SlashLockWindow
             ok == old.eligible /\ left >= rsm.minBond
             b == [old EXCEPT !.bond = left, !.pending = more, !.availableAt = at,
                              !.lockedUntil = locked, !.eligible = ok]
  <2>a. ok \in BOOLEAN
    OBVIOUS
  <2>b. old.bond >= amount
    BY <1>2 DEF RequestUnstake
  <2>1. left \in Nat /\ more \in Nat /\ at \in Nat /\ locked \in Nat /\ ok \in BOOLEAN
        /\ left + more = old.bond + old.pending
    <3> HIDE DEF ok, old
    <3> QED BY <1>1, <2>a, <2>b
  <2>2. /\ reviewers' = [reviewers EXCEPT ![r] = b] /\ rsmBalance' = rsmBalance
        /\ rsm' = rsm /\ feeFund' = feeFund
    BY <1>2 DEF RequestUnstake
  <2>3. b \in BondType /\ b.bond = left /\ b.pending = more
    <3> HIDE DEF more, ok, old, left, at, locked
    <3> QED BY <1>1, <2>1 DEF BondType
  <2> HIDE DEF b, left, more, at, locked, ok
  <2> QED BY <1>1, <2>1, <2>2, <2>3, BookedBond
<1>3. CASE FinalizeUnstake(r)
  <2> DEFINE b == [old EXCEPT !.pending = 0, !.availableAt = 0]
  <2>1. /\ reviewers' = [reviewers EXCEPT ![r] = b] /\ rsmBalance' = rsmBalance - old.pending
        /\ rsmBalance >= old.pending /\ rsm' = rsm /\ feeFund' = feeFund
    BY <1>3, RSMParts DEF FinalizeUnstake
  <2>2. b \in BondType /\ b.bond = old.bond /\ b.pending = 0
    <3> HIDE DEF old
    <3> QED BY <1>1 DEF BondType
  <2> HIDE DEF b
  <2>3. rsmBalance' \in Nat /\ feeFund' \in Int
    BY <1>1, <2>1
  <2>4. rsmBalance' - feeFund' - (b.bond + b.pending) = rsmBalance - feeFund - (old.bond + old.pending)
    <3> HIDE DEF old
    <3> QED BY <1>1, <2>1, <2>2
  <2> QED BY <2>1, <2>2, <2>3, <2>4, BookedBond
<1> QED
  BY <1>2, <1>3

\* A recorded review earns a fee that is not owed out of the bonds.
LEMMA RecordKeeps == RSMInv /\ RolesInv /\ RecordCall => RSMInv'
<1> SUFFICES ASSUME RSMInv, RolesInv, NEW caller \in Officers, NEW r \in Reviewers, NEW v \in Nat,
                    RecordReview(caller, r, v)
             PROVE  RSMInv'
  BY ValuesAreNat DEF RecordCall
<1> DEFINE old == reviewers[r]
           n == old.reviews + 1
           fee == (v * rsm.feeBps) \div 10000
           f == old.fees + fee
           b == [old EXCEPT !.reviews = n, !.fees = f]
<1>1. /\ old \in BondType /\ old.reviews \in Nat /\ old.fees \in Nat
      /\ rsmBalance \in Nat /\ feeFund \in Int /\ rsm.feeBps \in Nat
  BY RSMParts DEF BondType
<1>2. fee \in Nat
  <2>1. v * rsm.feeBps \in Nat
    BY <1>1
  <2> QED BY <2>1, Quotient
<1>3. n \in Nat /\ f \in Nat
  <2> HIDE DEF fee
  <2> QED BY <1>1, <1>2
<1>4. /\ reviewers' = [reviewers EXCEPT ![r] = b] /\ rsmBalance' = rsmBalance
      /\ rsm' = rsm /\ feeFund' = feeFund
  BY DEF RecordReview
<1>5. b \in BondType /\ b.bond = old.bond /\ b.pending = old.pending
  <2> HIDE DEF n, f, old
  <2> QED BY <1>1, <1>3 DEF BondType
<1> HIDE DEF b
<1> QED
  BY <1>1, <1>4, <1>5, BookedBond

\* A fee claimed or deposited moves the balance and the fee fund alike.
LEMMA FeeKeeps == RSMInv /\ RolesInv /\ FeeCall => RSMInv'
<1> SUFFICES ASSUME RSMInv, RolesInv,
                    \/ \E r \in Reviewers : ClaimReviewFees(r)
                    \/ \E caller \in Officers, amount \in Nat : DepositFees(caller, amount)
             PROVE  RSMInv'
  BY ValuesAreNat DEF FeeCall
<1>1. ASSUME NEW r \in Reviewers, ClaimReviewFees(r) PROVE RSMInv'
  <2> DEFINE old == reviewers[r]
             b == [old EXCEPT !.fees = 0]
  <2>1. /\ old \in BondType /\ old.bond \in Nat /\ old.pending \in Nat /\ old.fees \in Nat
        /\ rsmBalance \in Nat /\ feeFund \in Int
    BY RSMParts DEF BondType
  <2>2. /\ reviewers' = [reviewers EXCEPT ![r] = b] /\ rsmBalance' = rsmBalance - old.fees
        /\ rsmBalance >= old.fees /\ rsm' = rsm /\ feeFund' = feeFund - old.fees
    BY <1>1, RSMParts DEF ClaimReviewFees
  <2>3. b \in BondType /\ b.bond = old.bond /\ b.pending = old.pending
    <3> HIDE DEF old
    <3> QED BY <2>1 DEF BondType
  <2> HIDE DEF b
  <2>4. rsmBalance' \in Nat /\ feeFund' \in Int
    BY <2>1, <2>2
  <2>5. rsmBalance' - feeFund' - (b.bond + b.pending) = rsmBalance - feeFund - (old.bond + old.pending)
    <3> HIDE DEF old
    <3> QED BY <2>1, <2>2, <2>3
  <2> QED BY <2>2, <2>3, <2>4, <2>5, BookedBond
<1>2. ASSUME NEW caller \in Officers, NEW amount \in Nat, DepositFees(caller, amount) PROVE RSMInv'
  <2>1. /\ reviewers' = reviewers /\ rsm' = rsm /\ rsmBalance' = rsmBalance + amount
        /\ feeFund' = feeFund + amount
    BY <1>2 DEF DepositFees
  <2>2. TotalBonded \in Int
    BY BondsAreSummed DEF RSMInv
  <2>3. TotalBonded' = TotalBonded
    BY <2>1 DEF TotalBonded
  <2> QED BY <2>1, <2>2, <2>3, RSMParts, RSMPartsNext
<1> QED
  BY <1>1, <1>2

\* What the owner sets is of its type, and moves no INTEL.
LEMMA RSMAdminKeeps == RSMInv /\ RolesInv /\ RSMAdmin => RSMInv'
<1> SUFFICES ASSUME RSMInv, RolesInv, RSMAdmin PROVE RSMInv'
  OBVIOUS
<1>1. /\ UNCHANGED <<reviewers, rsmBalance, feeFund>>
      /\ rsm' \in [minBond : Nat, feeBps : Nat, cooldown : Nat, queue : BOOLEAN]
  BY RSMParts, ValuesAreNat DEF RSMAdmin, RolesCall, SetMinReviewerBond, SetReviewerFeeShareBps,
     SetUnstakeCooldown, SetReviewerQueue, rsmVars
<1>2. TotalBonded' = TotalBonded
  BY <1>1 DEF TotalBonded
<1> QED
  BY <1>1, <1>2, RSMParts, RSMPartsNext

-----------------------------------------------------------------------------
(* WorkerStakeManager *)

StakeType == [staked : Nat, pending : Nat, availableAt : Nat, lockedUntil : Nat]

SettingType == [cooldown : Nat, treasuryBps : 0..10000]

TotalStaked == SumFunctionOnSet(Staked(workers), Workers)

\* WSMInv with its types named.
LEMMA WSMParts ==
    WSMInv <=> /\ workers \in [Workers -> StakeType]
               /\ wsm \in SettingType
               /\ wsmBalance \in Nat /\ wsmBalance = TotalStaked
  BY DEF WSMInv, WSMTypeOK, StakeType, SettingType, TotalStaked

\* The same after a step.
LEMMA WSMPartsNext ==
    WSMInv' <=> /\ workers' \in [Workers -> StakeType]
                /\ wsm' \in SettingType
                /\ wsmBalance' \in Nat /\ wsmBalance' = TotalStaked'
  BY DEF WSMInv, WSMTypeOK, StakeType, SettingType, TotalStaked

\* A worker's entry of the right type, and what it adds to the total.
LEMMA OneStakeChanges ==
    ASSUME WSMTypeOK, NEW w \in Workers, NEW b \in StakeType, workers' = [workers EXCEPT ![w] = b]
    PROVE  /\ workers' \in [Workers -> StakeType] /\ TotalStaked \in Nat
           /\ TotalStaked' = TotalStaked - (workers[w].staked + workers[w].pending) + (b.staked + b.pending)
<1>1. workers \in [Workers -> StakeType]
  BY DEF WSMTypeOK, StakeType
<1>2. workers' \in [Workers -> StakeType]
  BY <1>1
<1> DEFINE f == Staked(workers)
           g == Staked(workers')
<1>3. \A v \in Workers : f[v] \in Nat /\ f[v] = workers[v].staked + workers[v].pending
  BY <1>1 DEF Staked, StakeType
<1>4. \A v \in Workers : g[v] \in Nat /\ g[v] = workers'[v].staked + workers'[v].pending
  BY <1>2 DEF Staked, StakeType
<1>5. \A v \in Workers \ {w} : g[v] = f[v]
  BY <1>1, <1>3, <1>4
<1>6. g[w] = b.staked + b.pending
  BY <1>1, <1>4
<1>7. TotalStaked = SumFunctionOnSet(f, Workers) /\ TotalStaked' = SumFunctionOnSet(g, Workers)
  BY DEF TotalStaked
<1> HIDE DEF f, g
<1>8. \A v \in Workers : f[v] \in Int /\ g[v] \in Int
  BY <1>3, <1>4
<1>9. SumFunctionOnSet(g, Workers) = SumFunctionOnSet(f, Workers) - f[w] + g[w]
  BY <1>5, <1>8, SumOfOneChange, ReviewAssumption
<1>10. SumFunctionOnSet(f, Workers) \in Nat
  BY <1>3, SumOfNaturals, ReviewAssumption
<1> QED
  BY <1>2, <1>3, <1>6, <1>7, <1>9, <1>10

\* A call that changes one entry keeps the invariant if it moves as much INTEL.
LEMMA BookedStake ==
    ASSUME WSMInv, NEW w \in Workers, NEW b \in StakeType, workers' = [workers EXCEPT ![w] = b],
           wsm' = wsm, wsmBalance' \in Nat,
           wsmBalance' - (b.staked + b.pending)
             = wsmBalance - (workers[w].staked + workers[w].pending)
    PROVE  WSMInv'
<1>1. WSMTypeOK
  BY DEF WSMInv
<1>2. /\ workers' \in [Workers -> StakeType] /\ TotalStaked \in Nat
      /\ TotalStaked' = TotalStaked - (workers[w].staked + workers[w].pending) + (b.staked + b.pending)
  BY <1>1, OneStakeChanges
<1>3. workers[w].staked + workers[w].pending \in Nat /\ b.staked + b.pending \in Nat
  BY WSMParts DEF StakeType
<1>4. wsmBalance' = TotalStaked'
  BY <1>2, <1>3, WSMParts
<1> QED
  BY <1>2, <1>4, WSMParts, WSMPartsNext

\* A slash takes its amount from stake and pending together, and from the balance.
LEMMA SlashKeepsStakes ==
    ASSUME WSMInv, RolesInv, NEW caller, NEW w \in Workers, NEW amount \in Nat,
           CanSlashWorker(caller, w, amount), SlashWorker(w, amount)
    PROVE  WSMInv'
<1> DEFINE old == workers[w]
           part == IF old.staked >= amount THEN amount ELSE old.staked
           left == old.staked - part
           rest == old.pending - (amount - part)
           locked == now + WorkerLockWindow
           b == [old EXCEPT !.staked = left, !.pending = rest, !.lockedUntil = locked]
<1>1. /\ old \in StakeType /\ old.staked \in Nat /\ old.pending \in Nat /\ wsmBalance \in Nat
      /\ now \in Nat /\ WorkerLockWindow \in Nat
  BY WSMParts, ReviewAssumption DEF StakeType, SettingType, RolesInv
<1>2. amount <= old.staked + old.pending /\ wsmBalance >= amount
  BY DEF CanSlashWorker
<1>3. /\ left \in Nat /\ rest \in Nat /\ locked \in Nat /\ wsmBalance - amount \in Nat
      /\ left + rest = old.staked + old.pending - amount
  <2> HIDE DEF old
  <2>1. CASE old.staked >= amount
    BY <1>1, <1>2, <2>1
  <2>2. CASE ~(old.staked >= amount)
    BY <1>1, <1>2, <2>2
  <2> QED BY <2>1, <2>2
<1>4. Slashed(old, amount) = b
  BY DEF Slashed
<1>5. workers' = [workers EXCEPT ![w] = b] /\ wsmBalance' = wsmBalance - amount /\ wsm' = wsm
  <2> HIDE DEF b
  <2> QED BY <1>4 DEF SlashWorker
<1>6. b \in StakeType /\ b.staked = left /\ b.pending = rest
  <2> HIDE DEF left, rest, locked, old
  <2> QED BY <1>1, <1>3 DEF StakeType
<1> HIDE DEF b, left, rest, locked, part
<1>7. wsmBalance' - (b.staked + b.pending) = wsmBalance - (old.staked + old.pending)
  <2>1. wsmBalance' = wsmBalance - amount
    BY <1>5
  <2> HIDE DEF old
  <2> QED BY <1>1, <1>3, <1>6, <2>1
<1> QED
  BY <1>3, <1>5, <1>6, <1>7, BookedStake

\* Nobody has a stake at first.
LEMMA InitStakes == Init => WSMInv
<1> SUFFICES ASSUME Init PROVE WSMInv
  OBVIOUS
<1> USE DEF Init, WSMInit
<1>1. workers \in [Workers -> StakeType]
  BY DEF NoStake, StakeType
<1>2. TotalStaked = 0
  <2> DEFINE f == Staked(workers)
  <2>1. \A w \in Workers : f[w] = 0
    BY DEF Staked, NoStake
  <2> HIDE DEF f
  <2>2. SumFunctionOnSet(f, Workers) = 0
    BY <2>1, SumOfZeros, ReviewAssumption
  <2> QED BY <2>2 DEF TotalStaked, f
<1>3. wsm \in SettingType
  BY ReviewAssumption DEF SettingType
<1> QED
  BY <1>1, <1>2, <1>3, WSMParts

\* Every call of a worker, and a slash, moves as much INTEL as it books.
LEMMA WSMCallKeeps == WSMInv /\ RolesInv /\ WSMCall => WSMInv'
<1> SUFFICES ASSUME WSMInv, RolesInv, NEW w \in Workers, NEW amount \in Nat,
                    \/ WorkerStake(w, amount)
                    \/ WorkerRequestUnstake(w, amount)
                    \/ WorkerFinalizeUnstake(w)
                    \/ \E caller \in Officers : WorkerSlash(caller, w, amount)
             PROVE  WSMInv'
  BY ValuesAreNat DEF WSMCall
<1> DEFINE old == workers[w]
<1>1. /\ old \in StakeType /\ old.staked \in Nat /\ old.pending \in Nat /\ wsmBalance \in Nat
      /\ now \in Nat /\ WorkerLockWindow \in Nat /\ wsm.cooldown \in Nat
  BY WSMParts, ReviewAssumption DEF StakeType, SettingType, RolesInv
<1>2. CASE WorkerStake(w, amount)
  <2> DEFINE more == old.staked + amount
             b == [old EXCEPT !.staked = more]
  <2>1. workers' = [workers EXCEPT ![w] = b] /\ wsmBalance' = wsmBalance + amount /\ wsm' = wsm
    BY <1>2, WSMParts DEF WorkerStake
  <2>2. more \in Nat
    BY <1>1
  <2>3. b \in StakeType /\ b.staked = more /\ b.pending = old.pending
    <3> HIDE DEF more, old
    <3> QED BY <1>1, <2>2 DEF StakeType
  <2> HIDE DEF b
  <2>4. wsmBalance' \in Nat /\ wsmBalance' - (b.staked + b.pending) = wsmBalance - (old.staked + old.pending)
    <3> HIDE DEF old
    <3> QED BY <1>1, <2>1, <2>3
  <2> QED BY <2>1, <2>3, <2>4, BookedStake
<1>3. CASE WorkerRequestUnstake(w, amount)
  <2> DEFINE left == old.staked - amount
             more == old.pending + amount
             at == now + wsm.cooldown
             locked == now + WorkerLockWindow
             b == [staked |-> left, pending |-> more, availableAt |-> at, lockedUntil |-> locked]
  <2>1. workers' = [workers EXCEPT ![w] = b] /\ wsmBalance' = wsmBalance /\ wsm' = wsm
    BY <1>3, WSMParts DEF WorkerRequestUnstake
  <2>2. old.staked >= amount
    BY <1>3 DEF WorkerRequestUnstake
  <2>3. /\ left \in Nat /\ more \in Nat /\ at \in Nat /\ locked \in Nat
        /\ left + more = old.staked + old.pending
    <3> HIDE DEF old
    <3> QED BY <1>1, <2>2
  <2>4. b \in StakeType /\ b.staked = left /\ b.pending = more
    <3> HIDE DEF left, more, at, locked
    <3> QED BY <2>3 DEF StakeType
  <2> HIDE DEF b, left, more, at, locked
  <2> QED BY <1>1, <2>1, <2>3, <2>4, BookedStake
<1>4. CASE WorkerFinalizeUnstake(w)
  <2> DEFINE b == [old EXCEPT !.pending = 0, !.availableAt = 0]
  <2>1. /\ workers' = [workers EXCEPT ![w] = b] /\ wsmBalance' = wsmBalance - old.pending
        /\ wsmBalance >= old.pending /\ wsm' = wsm
    <3>1. workers \in [Workers -> StakeType]
      BY WSMParts
    <3> QED BY <1>4, <3>1 DEF WorkerFinalizeUnstake
  <2>2. b \in StakeType /\ b.staked = old.staked /\ b.pending = 0
    <3> HIDE DEF old
    <3> QED BY <1>1 DEF StakeType
  <2> HIDE DEF b
  <2>3. wsmBalance' \in Nat /\ wsmBalance' - (b.staked + b.pending) = wsmBalance - (old.staked + old.pending)
    <3> HIDE DEF old
    <3> QED BY <1>1, <2>1, <2>2
  <2> QED BY <2>1, <2>2, <2>3, BookedStake
<1>5. ASSUME NEW caller \in Officers, WorkerSlash(caller, w, amount) PROVE WSMInv'
  BY <1>5, SlashKeepsStakes DEF WorkerSlash
<1> QED
  BY <1>2, <1>3, <1>4, <1>5

\* What the owner sets is of its type, and moves no INTEL.
LEMMA WSMAdminKeeps == WSMInv /\ RolesInv /\ WSMAdmin => WSMInv'
<1> SUFFICES ASSUME WSMInv, RolesInv, WSMAdmin PROVE WSMInv'
  OBVIOUS
<1>1. /\ UNCHANGED <<workers, wsmBalance>>
      /\ wsm' \in SettingType
  BY WSMParts DEF SettingType, WSMAdmin, RolesCall, SetCooldown, SetSlashSplit, wsmVars
<1>2. TotalStaked' = TotalStaked
  BY <1>1 DEF TotalStaked
<1>3. /\ workers' \in [Workers -> StakeType]
      /\ wsmBalance' \in Nat /\ wsmBalance' = TotalStaked'
  BY <1>1, <1>2, WSMParts
<1> QED
  BY <1>1, <1>3, WSMPartsNext

-----------------------------------------------------------------------------
(* ReviewerCredential *)

CredentialType ==
    [minted : BOOLEAN, tier : 0..3, slashes : Nat, probation : Nat, tokens : SUBSET (0..3),
     announced : Nat \cup {NotYet}]

\* What CredentialInv says of one reviewer at time t.
Sound(c, t) ==
    /\ c \in CredentialType
    /\ c.tokens = IF c.minted THEN {c.tier} ELSE {}
    /\ ~c.minted => c.tier = 0
    /\ c.announced <= t
    /\ c.probation # 0 => c.announced # NotYet /\ c.probation >= c.announced + GracePeriod

\* CredentialInv, reviewer by reviewer.
LEMMA CredentialParts ==
    CredentialInv <=> creds = [r \in Reviewers |-> creds[r]] /\ \A r \in Reviewers : Sound(creds[r], now)
  BY DEF CredentialInv, CredentialTypeOK, Sound, CredentialType

\* The same after a step.
LEMMA CredentialPartsNext ==
    CredentialInv' <=> creds' = [r \in Reviewers |-> creds'[r]]
                       /\ \A r \in Reviewers : Sound(creds'[r], now')
  BY DEF CredentialInv, CredentialTypeOK, Sound, CredentialType

\* The tier computed is one of four.
LEMMA TierInRange ==
    ASSUME NEW reviews, NEW slashCount
    PROVE  ComputeTier(reviews, slashCount) \in 0..3
<1> DEFINE fits == {i \in 1..3 : /\ reviews > 0
                                 /\ reviews >= MinReviews[i]
                                 /\ (slashCount * 10000) \div reviews <= MaxSlashBps[i]}
<1>1. fits \subseteq 1..3
  OBVIOUS
<1>2. ComputeTier(reviews, slashCount) = CHOOSE i \in fits \cup {0} : \A j \in fits : i >= j
  BY DEF ComputeTier
<1> HIDE DEF fits
<1>3. \E i \in fits \cup {0} : \A j \in fits : i >= j
  <2>1. CASE 3 \in fits
    BY <1>1, <2>1
  <2>2. CASE 3 \notin fits /\ 2 \in fits
    BY <1>1, <2>2
  <2>3. CASE 3 \notin fits /\ 2 \notin fits /\ 1 \in fits
    BY <1>1, <2>3
  <2>4. CASE 3 \notin fits /\ 2 \notin fits /\ 1 \notin fits
    BY <1>1, <2>4
  <2> QED BY <2>1, <2>2, <2>3, <2>4
<1>4. ComputeTier(reviews, slashCount) \in fits \cup {0}
  BY <1>2, <1>3
<1>5. 1..3 \subseteq 0..3 /\ 0 \in 0..3
  OBVIOUS
<1> QED
  BY <1>1, <1>4, <1>5

\* A new tier starts without a probation.
LEMMA UpdatedIsSound ==
    ASSUME NEW c, NEW t \in Nat, Sound(c, t), c.minted, NEW tier \in 0..3
    PROVE  Sound(UpdateTier(c, tier), t) /\ UpdateTier(c, tier).tier = tier
<1> DEFINE u == UpdateTier(c, tier)
           owned == (c.tokens \ {c.tier}) \cup {tier}
<1>1. c \in CredentialType /\ c.tokens = {c.tier}
  BY DEF Sound
<1>2. owned = {tier} /\ owned \in SUBSET (0..3)
  BY <1>1
<1>3. u = [c EXCEPT !.tier = tier, !.tokens = owned, !.probation = 0, !.announced = NotYet]
  BY DEF UpdateTier
<1>4. NotYet \in Nat \cup {NotYet} /\ NotYet <= t
  BY DEF NotYet
<1>5. /\ u \in CredentialType /\ u.tier = tier /\ u.tokens = owned /\ u.probation = 0
      /\ u.announced = NotYet /\ u.minted = c.minted
  <2> HIDE DEF u, owned
  <2> QED BY <1>1, <1>2, <1>3, <1>4 DEF CredentialType
<1> HIDE DEF u
<1>6. Sound(u, t)
  BY <1>2, <1>4, <1>5 DEF Sound
<1> QED
  BY <1>5, <1>6 DEF u

\* An evaluation leaves a credential sound, and lowers no tier before its time.
LEMMA EvaluationIsSound ==
    ASSUME RolesInv, NEW c, Sound(c, now), c.minted, NEW tier \in 0..3
    PROVE  /\ Sound(Evaluation(c, tier), now) /\ Evaluation(c, tier).minted
           /\ Evaluation(c, tier).tier < c.tier =>
                 c.announced # NotYet /\ now >= c.announced + GracePeriod
<1> DEFINE e == Evaluation(c, tier)
<1>1. /\ c \in CredentialType /\ c.tier \in 0..3 /\ c.probation \in Nat /\ now \in Nat
      /\ GracePeriod \in Nat /\ c.announced \in Nat \cup {NotYet}
  BY ReviewAssumption DEF Sound, CredentialType, RolesInv
<1>2. CASE tier = c.tier
  BY <1>1, <1>2 DEF Evaluation
<1>3. CASE tier > c.tier
  <2>1. e = UpdateTier(c, tier)
    BY <1>1, <1>3 DEF Evaluation
  <2>2. Sound(e, now) /\ e.tier = tier
    BY <1>1, <2>1, UpdatedIsSound
  <2>3. e.minted
    BY <1>1, <2>1 DEF UpdateTier, CredentialType
  <2> QED BY <1>1, <1>3, <2>2, <2>3
<1>4. CASE tier < c.tier /\ c.probation = 0
  <2> DEFINE until == now + GracePeriod
             first == IF c.announced = NotYet THEN now ELSE c.announced
  <2>1. e = [c EXCEPT !.probation = until, !.announced = first]
    BY <1>1, <1>4 DEF Evaluation
  <2>2. until \in Nat /\ first \in Nat /\ first <= now /\ until >= first + GracePeriod
    BY <1>1 DEF Sound
  <2>3. /\ e \in CredentialType /\ e.probation = until /\ e.announced = first
        /\ e.tier = c.tier /\ e.tokens = c.tokens /\ e.minted = c.minted
    <3> HIDE DEF until, first, e
    <3> QED BY <1>1, <2>1, <2>2 DEF CredentialType
  <2> HIDE DEF e, until, first
  <2>4. first # NotYet
    BY <2>2 DEF NotYet
  <2>5. Sound(e, now)
    BY <2>2, <2>3, <2>4 DEF Sound
  <2> QED BY <1>1, <2>3, <2>5 DEF e
<1>5. CASE tier < c.tier /\ c.probation # 0 /\ now < c.probation
  BY <1>1, <1>5 DEF Evaluation
<1>6. CASE tier < c.tier /\ c.probation # 0 /\ ~(now < c.probation)
  <2>1. e = UpdateTier(c, tier)
    BY <1>1, <1>6 DEF Evaluation
  <2>2. Sound(e, now) /\ e.tier = tier
    BY <1>1, <2>1, UpdatedIsSound
  <2>3. e.minted
    BY <1>1, <2>1 DEF UpdateTier, CredentialType
  <2>4. c.announced # NotYet /\ c.probation >= c.announced + GracePeriod
    BY <1>6 DEF Sound
  <2>5. now >= c.announced + GracePeriod
    BY <1>1, <1>6, <2>4
  <2> QED BY <2>2, <2>3, <2>4, <2>5
<1> QED
  BY <1>1, <1>2, <1>3, <1>4, <1>5, <1>6

\* Time keeps a credential sound.
LEMMA SoundLater ==
    ASSUME NEW c, NEW t \in Nat, Sound(c, t)
    PROVE  Sound(c, t + 1)
<1>1. c.announced \in Nat \cup {NotYet} /\ c.announced <= t
  BY DEF Sound, CredentialType
<1>2. c.announced <= t + 1
  BY <1>1 DEF NotYet
<1> QED
  BY <1>2 DEF Sound

\* No token is minted at first.
LEMMA InitCredentials == Init => CredentialInv
<1> SUFFICES ASSUME Init PROVE CredentialInv
  OBVIOUS
<1>1. creds = [r \in Reviewers |-> NoCredential] /\ now = 0
  BY DEF Init, CredentialInit
<1>2. Sound(NoCredential, 0)
  BY DEF Sound, CredentialType, NoCredential, NotYet
<1> QED
  BY <1>1, <1>2, CredentialParts

\* A tier has not fallen for r, or the grace period had passed.
Fair(r) ==
    creds'[r].tier < creds[r].tier =>
        creds[r].announced # NotYet /\ now >= creds[r].announced + GracePeriod

\* Every call keeps credentials sound, and lowers a tier only when that was announced.
LEMMA CredentialCallKeeps ==
    CredentialInv /\ RolesInv /\ CredentialCall /\ now' = now
      => CredentialInv' /\ \A r \in Reviewers : Fair(r)
<1> SUFFICES ASSUME CredentialInv, RolesInv, now' = now, NEW caller \in Officers, NEW r \in Reviewers,
                    \/ MintInitialCredential(caller, r)
                    \/ \E more \in 0..1 : EvaluateAndUpdateTier(caller, r, creds[r].slashes + more)
             PROVE  CredentialInv' /\ \A s \in Reviewers : Fair(s)
  BY DEF CredentialCall
<1> DEFINE old == creds[r]
<1>1. /\ creds = [s \in Reviewers |-> creds[s]] /\ \A s \in Reviewers : Sound(creds[s], now)
      /\ Sound(old, now) /\ old \in CredentialType /\ now \in Nat
  BY CredentialParts DEF Sound, RolesInv
<1>2. ASSUME NEW c, Sound(c, now), creds' = [creds EXCEPT ![r] = c],
             c.tier < old.tier => old.announced # NotYet /\ now >= old.announced + GracePeriod
      PROVE  CredentialInv' /\ \A s \in Reviewers : Fair(s)
  <2>1. \A s \in Reviewers : creds'[s] = IF s = r THEN c ELSE creds[s]
    BY <1>1, <1>2
  <2>2. creds' = [s \in Reviewers |-> creds'[s]]
    BY <1>1, <1>2
  <2>3. \A s \in Reviewers : Sound(creds'[s], now')
    BY <1>1, <1>2, <2>1
  <2>4. \A s \in Reviewers \ {r} : Fair(s)
    <3> SUFFICES ASSUME NEW s \in Reviewers \ {r} PROVE ~(creds[s].tier < creds[s].tier)
      BY <2>1 DEF Fair
    <3>1. creds[s].tier \in 0..3
      BY <1>1 DEF Sound, CredentialType
    <3> QED BY <3>1
  <2>5. Fair(r)
    BY <1>2, <2>1 DEF Fair
  <2> QED BY <2>2, <2>3, <2>4, <2>5, CredentialPartsNext
<1>3. CASE MintInitialCredential(caller, r)
  <2> DEFINE owned == old.tokens \cup {0}
             c == [old EXCEPT !.minted = TRUE, !.tier = 0, !.slashes = 0, !.tokens = owned]
  <2>1. creds' = [creds EXCEPT ![r] = c] /\ ~old.minted
    BY <1>1, <1>3 DEF MintInitialCredential
  <2>2. owned = {0} /\ owned \in SUBSET (0..3) /\ old.tier = 0
    BY <1>1, <2>1 DEF Sound
  <2>3. /\ c \in CredentialType /\ c.minted /\ c.tier = 0 /\ c.tokens = owned
        /\ c.probation = old.probation /\ c.announced = old.announced
    <3> HIDE DEF owned, old
    <3> QED BY <1>1, <2>2 DEF CredentialType
  <2> HIDE DEF c, owned, old
  <2>4. Sound(c, now)
    BY <1>1, <2>2, <2>3 DEF Sound
  <2>5. ~(c.tier < old.tier)
    BY <2>2, <2>3
  <2> QED BY <1>2, <2>1, <2>4, <2>5 DEF old
<1>4. ASSUME NEW more \in 0..1, EvaluateAndUpdateTier(caller, r, old.slashes + more)
      PROVE  CredentialInv' /\ \A s \in Reviewers : Fair(s)
  <2> DEFINE n == old.slashes + more
             tier == ComputeTier(reviewers[r].reviews, n)
             e == Evaluation(old, tier)
             c == [e EXCEPT !.slashes = n]
  <2>1. old.minted /\ creds' = [creds EXCEPT ![r] = c]
    BY <1>4 DEF EvaluateAndUpdateTier
  <2>2. n \in Nat
    BY <1>1 DEF CredentialType
  <2>3. tier \in 0..3
    BY TierInRange
  <2> HIDE DEF tier, n, old
  <2>4. /\ Sound(e, now) /\ e.minted
        /\ e.tier < old.tier => old.announced # NotYet /\ now >= old.announced + GracePeriod
    BY <1>1, <2>1, <2>3, EvaluationIsSound
  <2> HIDE DEF e
  <2>5. /\ c \in CredentialType /\ c.tier = e.tier /\ c.tokens = e.tokens /\ c.minted = e.minted
        /\ c.probation = e.probation /\ c.announced = e.announced
    <3>1. e \in CredentialType
      BY <2>4 DEF Sound
    <3> QED BY <2>2, <3>1 DEF CredentialType
  <2> HIDE DEF c
  <2>6. Sound(c, now)
    BY <2>4, <2>5 DEF Sound
  <2> QED BY <1>2, <2>1, <2>4, <2>5, <2>6 DEF old
<1> QED
  BY <1>3, <1>4

-----------------------------------------------------------------------------
(* DisputeResolution *)

\* DisputeInv with its types named.
LEMMA DisputeParts ==
    DisputeInv <=>
      /\ disputes \in Seq(DisputeType) /\ taskDisputeId \in [Tasks -> 0..Len(disputes)]
      /\ drBalance \in Nat /\ rewarded \in Int /\ dr \in DRType /\ OneOpenDispute
      /\ drBalance + rewarded = SumFunctionOnSet(PendingBond(disputes), 1..Len(disputes))
  BY DEF DisputeInv, DisputeTypeOK, DisputeType

\* The same after a step.
LEMMA DisputePartsNext ==
    DisputeInv' <=>
      /\ disputes' \in Seq(DisputeType) /\ taskDisputeId' \in [Tasks -> 0..Len(disputes')]
      /\ drBalance' \in Nat /\ rewarded' \in Int /\ dr' \in DRType /\ OneOpenDispute'
      /\ drBalance' + rewarded' = SumFunctionOnSet(PendingBond(disputes'), 1..Len(disputes'))
  BY DEF DisputeInv, DisputeTypeOK, DisputeType

\* The sum of the bonds of pending disputes is an integer.
LEMMA PendingType ==
    ASSUME NEW all \in Seq(DisputeType)
    PROVE  /\ Len(all) \in Nat /\ IsFiniteSet(1..Len(all))
           /\ \A d \in 1..Len(all) : all[d] \in DisputeType /\ PendingBond(all)[d] \in Int
           /\ SumFunctionOnSet(PendingBond(all), 1..Len(all)) \in Int
<1> DEFINE f == PendingBond(all)
<1>1. Len(all) \in Nat /\ \A d \in 1..Len(all) : all[d] \in DisputeType
  OBVIOUS
<1>2. \A d \in 1..Len(all) : f[d] \in Int
  BY <1>1 DEF PendingBond, Held, DisputeType
<1>3. IsFiniteSet(1..Len(all))
  BY <1>1, FS_Interval
<1> HIDE DEF f
<1>4. SumFunctionOnSet(f, 1..Len(all)) \in Int
  BY <1>2, <1>3, SumType
<1> QED
  BY <1>1, <1>2, <1>3, <1>4 DEF f

\* One place of many changes.
LEMMA SumOverPlaces ==
    ASSUME NEW f, NEW g, NEW n \in Nat, NEW d \in 1..n,
           \A e \in 1..n : f[e] \in Int /\ g[e] \in Int, \A e \in 1..n \ {d} : g[e] = f[e]
    PROVE  SumFunctionOnSet(g, 1..n) = SumFunctionOnSet(f, 1..n) - f[d] + g[d]
<1> DEFINE places == 1..n
<1>1. IsFiniteSet(places)
  BY FS_Interval
<1> HIDE DEF places
<1>2. SumFunctionOnSet(g, places) = SumFunctionOnSet(f, places) - f[d] + g[d]
  BY <1>1, SumOfOneChange DEF places
<1> QED
  BY <1>2 DEF places

Replaced(all, d, b) == [all EXCEPT ![d] = b]

\* Replacing one dispute.
LEMMA OneDisputeChanges ==
    ASSUME NEW all \in Seq(DisputeType), NEW d \in 1..Len(all), NEW b \in DisputeType
    PROVE  /\ Replaced(all, d, b) \in Seq(DisputeType) /\ Len(Replaced(all, d, b)) = Len(all)
           /\ \A e \in 1..Len(all) : Replaced(all, d, b)[e] = IF e = d THEN b ELSE all[e]
           /\ SumFunctionOnSet(PendingBond(Replaced(all, d, b)), 1..Len(Replaced(all, d, b)))
                = SumFunctionOnSet(PendingBond(all), 1..Len(all))
                  - Held(all[d]) + Held(b)
           /\ Held(all[d]) \in Int /\ Held(b) \in Int
<1> DEFINE n == Len(all)
           new == Replaced(all, d, b)
           f == PendingBond(all)
           g == PendingBond(new)
<1>1. all \in [1..n -> DisputeType] /\ n \in Nat
  OBVIOUS
<1>2. new \in [1..n -> DisputeType]
  <2> HIDE DEF n
  <2> QED BY <1>1 DEF Replaced
<1>3. new \in Seq(DisputeType) /\ Len(new) = n
  BY <1>1, <1>2
<1>4. \A e \in 1..n : new[e] = IF e = d THEN b ELSE all[e]
  <2> HIDE DEF n
  <2> QED BY <1>1 DEF Replaced
<1> HIDE DEF new
<1>5. f[d] = Held(all[d])
  BY DEF PendingBond
<1>6. g[d] = Held(b)
  BY <1>3, <1>4 DEF PendingBond
<1>7. \A e \in 1..n \ {d} : g[e] = f[e]
  BY <1>3, <1>4 DEF PendingBond
<1>8. /\ IsFiniteSet(1..n) /\ \A e \in 1..n : f[e] \in Int /\ g[e] \in Int
  BY <1>3, PendingType
<1> HIDE DEF f, g
<1>9. SumFunctionOnSet(g, 1..n) = SumFunctionOnSet(f, 1..n) - f[d] + g[d]
  BY <1>1, <1>7, <1>8, SumOverPlaces
<1>10. Held(all[d]) \in Int /\ Held(b) \in Int
  BY <1>5, <1>6, <1>8
<1> QED
  BY <1>3, <1>4, <1>5, <1>6, <1>9, <1>10 DEF f, g, new

\* The open disputes of a task, as OneOpenDispute counts them.
Open(all, t) ==
    {d \in 1..Len(all) : all[d].task = t /\ all[d].state \notin {"rejected", "expired"}}

\* OneOpenDispute in terms of Open.
LEMMA OneOpen ==
    OneOpenDispute <=> \A t \in Tasks : Open(disputes, t) = {taskDisputeId[t]} \ {0}
  BY DEF OneOpenDispute, Open

\* The same after a step.
LEMMA OneOpenNext ==
    OneOpenDispute' <=> \A t \in Tasks : Open(disputes', t) = {taskDisputeId'[t]} \ {0}
  BY DEF OneOpenDispute, Open

\* A jury or a vote changes nothing about who owes what.
LEMMA SameStanding ==
    ASSUME DisputeInv, NEW d \in 1..Len(disputes), NEW b \in DisputeType,
           b.task = disputes[d].task, b.state = disputes[d].state, b.bond = disputes[d].bond,
           disputes' = [disputes EXCEPT ![d] = b],
           UNCHANGED <<taskDisputeId, dr, drBalance, rewarded>>
    PROVE  DisputeInv'
<1>1. /\ disputes \in Seq(DisputeType) /\ disputes[d] \in DisputeType
      /\ OneOpenDispute /\ taskDisputeId \in [Tasks -> 0..Len(disputes)]
      /\ drBalance + rewarded = SumFunctionOnSet(PendingBond(disputes), 1..Len(disputes))
  BY DisputeParts
<1> DEFINE new == disputes'
           sum == SumFunctionOnSet(PendingBond(disputes), 1..Len(disputes))
<1>2. /\ new \in Seq(DisputeType) /\ Len(new) = Len(disputes)
      /\ \A e \in 1..Len(disputes) : new[e] = IF e = d THEN b ELSE disputes[e]
      /\ SumFunctionOnSet(PendingBond(new), 1..Len(new)) = sum - Held(disputes[d]) + Held(b)
      /\ Held(disputes[d]) \in Int
  <2>1. new = Replaced(disputes, d, b)
    BY DEF Replaced
  <2> DEFINE other == Replaced(disputes, d, b)
  <2>2. /\ other \in Seq(DisputeType) /\ Len(other) = Len(disputes)
        /\ \A e \in 1..Len(disputes) : other[e] = IF e = d THEN b ELSE disputes[e]
    BY <1>1, OneDisputeChanges, ZenonT(30)
  <2>3. /\ SumFunctionOnSet(PendingBond(other), 1..Len(other))
             = SumFunctionOnSet(PendingBond(disputes), 1..Len(disputes)) - Held(disputes[d]) + Held(b)
        /\ Held(disputes[d]) \in Int
    BY <1>1, OneDisputeChanges, ZenonT(30)
  <2>4. new = other
    BY <2>1
  <2> HIDE DEF new, other
  <2> QED BY <2>2, <2>3, <2>4
<1>3. sum \in Int /\ Held(b) = Held(disputes[d])
  BY <1>1, PendingType DEF Held
<1>4. SumFunctionOnSet(PendingBond(new), 1..Len(new)) = sum
  <2> HIDE DEF sum, new
  <2> QED BY <1>2, <1>3
<1>5. \A t \in Tasks : Open(new, t) = Open(disputes, t)
  BY <1>2 DEF Open
<1>6. OneOpenDispute'
  BY <1>1, <1>5, OneOpen, OneOpenNext
<1> QED
  BY <1>1, <1>2, <1>4, <1>6, DisputeParts, DisputePartsNext

\* A new dispute brings its bond and locks a task that was free.
LEMMA OpenKeeps ==
    ASSUME DisputeInv, NEW t \in Tasks, NEW w \in Workers, NEW r \in Reviewers, OpenDispute(t, w, r)
    PROVE  DisputeInv'
<1> DEFINE n == Len(disputes)
           b == [task |-> t, worker |-> w, reviewer |-> r, bond |-> dr.bond,
                 deadline |-> 0, state |-> "pending", jury |-> <<>>, uphold |-> {}, reject |-> {}]
           new == disputes'
           f == PendingBond(disputes)
           g == PendingBond(new)
<1>1. /\ disputes \in Seq(DisputeType) /\ taskDisputeId \in [Tasks -> 0..n] /\ n \in Nat
      /\ OneOpenDispute /\ dr \in DRType /\ dr.bond \in Nat /\ drBalance \in Nat /\ rewarded \in Int
      /\ drBalance + rewarded = SumFunctionOnSet(f, 1..n)
  <2>1. DisputeInv /\ Len(disputes) \in Nat
    BY DisputeParts
  <2>2. dr.bond \in Nat
    BY DisputeParts DEF DRType
  <2> QED BY <2>1, <2>2, DisputeParts
<1>2. b \in DisputeType /\ b.state = "pending" /\ b.bond = dr.bond /\ b.task = t
  BY <1>1 DEF DisputeType
<1>3. /\ new = Append(disputes, b) /\ taskDisputeId[t] = 0
      /\ taskDisputeId' = [taskDisputeId EXCEPT ![t] = n + 1]
      /\ drBalance' = drBalance + dr.bond /\ dr' = dr /\ rewarded' = rewarded
  BY DEF OpenDispute
<1> HIDE DEF b
<1>4. /\ new \in Seq(DisputeType) /\ Len(new) = n + 1 /\ new[n + 1] = b
      /\ \A d \in 1..n : new[d] = disputes[d]
  BY <1>1, <1>2, <1>3
<1> HIDE DEF new
<1>5. 1..(n + 1) = (1..n) \cup {n + 1} /\ n + 1 \notin 1..n /\ IsFiniteSet(1..n)
  <2>1. n \in Nat
    BY <1>1
  <2> HIDE DEF n
  <2> QED BY <2>1, FS_Interval
<1>6. g[n + 1] = dr.bond
  <2>1. n + 1 \in 1..(n + 1)
    BY <1>1
  <2>2. g[n + 1] = Held(new[n + 1])
    BY <1>4, <2>1 DEF PendingBond
  <2> QED BY <1>2, <1>4, <2>2 DEF Held
<1>7. \A d \in 1..n : g[d] = f[d]
  BY <1>1, <1>4 DEF PendingBond
<1>8. \A d \in 1..(n + 1) : g[d] \in Int
  BY <1>4, PendingType
<1>9. SumFunctionOnSet(f, 1..n) \in Int
  BY <1>1, PendingType
<1> HIDE DEF f, g, n
<1>10. SumFunctionOnSet(g, 1..(n + 1)) = g[n + 1] + SumFunctionOnSet(g, 1..n)
  BY <1>5, <1>8, SumGrows
<1>11. SumFunctionOnSet(g, 1..n) = SumFunctionOnSet(f, 1..n)
  BY <1>5, <1>7, SumOfEquals
<1>12. drBalance' + rewarded' = SumFunctionOnSet(g, 1..(n + 1))
  BY <1>1, <1>3, <1>6, <1>9, <1>10, <1>11
<1>13. ASSUME NEW u \in Tasks PROVE Open(new, u) = {taskDisputeId'[u]} \ {0}
  <2>1. Open(new, u) = Open(disputes, u) \cup (IF u = t THEN {n + 1} ELSE {})
    BY <1>2, <1>4, <1>5 DEF Open, n
  <2>2. Open(disputes, u) = {taskDisputeId[u]} \ {0}
    BY <1>1, OneOpen
  <2>3. taskDisputeId'[u] = IF u = t THEN n + 1 ELSE taskDisputeId[u]
    BY <1>1, <1>3
  <2> QED BY <1>1, <1>3, <2>1, <2>2, <2>3
<1>14. OneOpenDispute'
  BY <1>13, OneOpenNext DEF new
<1>15. taskDisputeId' \in [Tasks -> 0..(n + 1)]
  <2>1. 0..n \subseteq 0..(n + 1) /\ n + 1 \in 0..(n + 1)
    BY <1>1
  <2> QED BY <1>1, <1>3, <2>1
<1>16. drBalance' \in Nat /\ rewarded' \in Int /\ dr' \in DRType
  BY <1>1, <1>3
<1> QED
  BY <1>4, <1>12, <1>14, <1>15, <1>16, DisputePartsNext DEF g, new

\* Closing a pending dispute pays what the books say, and unlocks its task when the
\* dispute was lost or expired.
LEMMA CloseKeeps ==
    ASSUME DisputeInv, NEW d \in 1..Len(disputes), Pending(d), NEW verdict \in Verdicts,
           Payout(d, verdict) \in Int, Close(d, verdict)
    PROVE  DisputeInv'
<1> DEFINE old == disputes[d]
           t == old.task
           b == [old EXCEPT !.state = verdict]
           new == disputes'
           n == Len(disputes)
           sum == SumFunctionOnSet(PendingBond(disputes), 1..n)
           pay == Payout(d, verdict)
<1>1. /\ disputes \in Seq(DisputeType) /\ taskDisputeId \in [Tasks -> 0..n] /\ n \in Nat
      /\ OneOpenDispute /\ drBalance \in Nat /\ rewarded \in Int /\ dr \in DRType
      /\ drBalance + rewarded = sum /\ old \in DisputeType /\ old.state = "pending"
  BY DisputeParts DEF Pending
<1>2. b \in DisputeType /\ b.state = verdict /\ b.task = t /\ t \in Tasks /\ old.bond \in Nat
  <2> HIDE DEF old
  <2> QED BY <1>1 DEF DisputeType
<1>3. verdict # "pending"
  BY DEF Verdicts
<1>4. /\ new = [disputes EXCEPT ![d] = b]
      /\ taskDisputeId' = IF verdict \in {"rejected", "expired"}
                          THEN [taskDisputeId EXCEPT ![t] = 0] ELSE taskDisputeId
      /\ drBalance >= pay /\ drBalance' = drBalance - pay
      /\ rewarded' = rewarded + pay - old.bond /\ dr' = dr
  BY DEF Close
<1> HIDE DEF b, pay
<1>5. /\ new \in Seq(DisputeType) /\ Len(new) = n
      /\ \A e \in 1..n : new[e] = IF e = d THEN b ELSE disputes[e]
      /\ SumFunctionOnSet(PendingBond(new), 1..Len(new))
           = sum - Held(old) + Held(b)
  <2>1. new = Replaced(disputes, d, b)
    BY <1>4 DEF Replaced
  <2> DEFINE other == Replaced(disputes, d, b)
  <2>0. disputes \in Seq(DisputeType) /\ d \in 1..Len(disputes) /\ b \in DisputeType
    BY <1>1, <1>2
  <2>2. /\ other \in Seq(DisputeType) /\ Len(other) = Len(disputes)
        /\ \A e \in 1..Len(disputes) : other[e] = IF e = d THEN b ELSE disputes[e]
    BY <2>0, OneDisputeChanges
  <2>3. /\ SumFunctionOnSet(PendingBond(other), 1..Len(other))
             = SumFunctionOnSet(PendingBond(disputes), 1..Len(disputes)) - Held(disputes[d]) + Held(b)
        /\ Held(disputes[d]) \in Int
    BY <2>0, OneDisputeChanges
  <2>4. new = other
    BY <2>1
  <2> HIDE DEF new, other
  <2> QED BY <2>2, <2>3, <2>4
<1>6. sum \in Int
  BY <1>1, PendingType
<1>7. pay \in Int
  BY DEF pay
<1> HIDE DEF sum, new
<1>8. SumFunctionOnSet(PendingBond(new), 1..Len(new)) = sum - old.bond
  <2>1. Held(old) = old.bond /\ Held(b) = 0
    BY <1>1, <1>2, <1>3 DEF Held
  <2> HIDE DEF old
  <2> QED BY <1>2, <1>5, <1>6, <2>1
<1>9. /\ drBalance' + rewarded' = sum - old.bond /\ drBalance' \in Nat /\ rewarded' \in Int
  <2> HIDE DEF old
  <2>1. drBalance - pay \in Nat /\ rewarded + pay - old.bond \in Int
    BY <1>1, <1>2, <1>4, <1>7
  <2>2. (drBalance - pay) + (rewarded + pay - old.bond) = sum - old.bond
    <3> DEFINE bond == old.bond
    <3>1. bond \in Int /\ drBalance \in Int /\ rewarded \in Int /\ drBalance + rewarded = sum
      BY <1>1, <1>2
    <3> HIDE DEF bond
    <3>2. (drBalance - pay) + (rewarded + pay - bond) = (drBalance + rewarded) - bond
      BY <1>7, <3>1
    <3> QED BY <3>1, <3>2 DEF bond
  <2> QED BY <1>4, <2>1, <2>2
<1>10. ASSUME NEW u \in Tasks PROVE Open(new, u) = {taskDisputeId'[u]} \ {0}
  <2>1. Open(disputes, u) = {taskDisputeId[u]} \ {0}
    BY <1>1, OneOpen
  <2>2. CASE u # t
    <3>1. Open(new, u) = Open(disputes, u)
      BY <1>2, <1>5, <2>2 DEF Open
    <3>2. taskDisputeId'[u] = taskDisputeId[u]
      BY <1>1, <1>4, <2>2
    <3> QED BY <2>1, <3>1, <3>2
  <2>3. CASE u = t /\ verdict \in {"rejected", "expired"}
    <3>1. d \in Open(disputes, u)
      BY <1>1, <2>3 DEF Open
    <3>2. Open(new, u) = Open(disputes, u) \ {d}
      BY <1>2, <1>5, <2>3 DEF Open
    <3>3. taskDisputeId'[u] = 0
      BY <1>1, <1>2, <1>4, <2>3
    <3> QED BY <2>1, <3>1, <3>2, <3>3
  <2>4. CASE u = t /\ verdict \notin {"rejected", "expired"}
    <3>1. Open(new, u) = Open(disputes, u)
      BY <1>1, <1>2, <1>5, <2>4 DEF Open
    <3>2. taskDisputeId'[u] = taskDisputeId[u]
      BY <1>4, <2>4
    <3> QED BY <2>1, <3>1, <3>2
  <2> QED BY <2>2, <2>3, <2>4
<1>11. OneOpenDispute'
  BY <1>10, OneOpenNext DEF new
<1>12. taskDisputeId' \in [Tasks -> 0..n]
  <2>1. 0 \in 0..n
    BY <1>1
  <2> HIDE DEF n, old
  <2> QED BY <1>1, <1>4, <2>1
<1> QED
  BY <1>1, <1>4, <1>5, <1>8, <1>9, <1>11, <1>12, DisputePartsNext DEF new

\* There is no dispute at first.
LEMMA InitDisputes == Init => DisputeInv
<1> SUFFICES ASSUME Init PROVE DisputeInv
  OBVIOUS
<1>1. PICK wired \in BOOLEAN, funds \in Funds : DRInit(DisputeParams, wired, funds)
  BY DEF Init
<1>2. /\ disputes = <<>> /\ taskDisputeId = [t \in Tasks |-> 0]
      /\ drBalance = funds /\ rewarded = -funds /\ funds \in Nat
  BY <1>1, ReviewAssumption DEF DRInit
<1>3. disputes \in Seq(DisputeType) /\ Len(disputes) = 0
  BY <1>2
<1>4. 1..Len(disputes) = {} /\ 0..Len(disputes) = {0}
  BY <1>3
<1>5. taskDisputeId \in [Tasks -> 0..Len(disputes)]
  BY <1>2, <1>4
<1>6. dr \in DRType
  <2> DEFINE p == DisputeParams
  <2>1. p \in [jurors : Nat, quorumBps : Bps, window : Nat, bond : Nat, slashBps : Bps]
    BY ReviewAssumption DEF ParamType
  <2>2. dr = [jurors |-> p.jurors, quorumBps |-> p.quorumBps, window |-> p.window,
              bond |-> p.bond, slashBps |-> p.slashBps, rsm |-> wired, wsm |-> wired]
    BY <1>1 DEF DRInit
  <2> HIDE DEF p
  <2> QED BY <2>1, <2>2 DEF DRType
<1>7. OneOpenDispute
  BY <1>2, <1>4 DEF OneOpenDispute
<1>8. SumFunctionOnSet(PendingBond(disputes), 1..Len(disputes)) = 0
  BY <1>4, SumOfNothing
<1>9. drBalance \in Nat /\ rewarded \in Int /\ drBalance + rewarded = 0
  BY <1>2
<1> QED
  BY <1>3, <1>5, <1>6, <1>7, <1>8, <1>9, DisputeParts

\* Naming a jury keeps the invariant, whatever votes were cast before.
LEMMA JuryKeeps ==
    ASSUME DisputeInv, RolesInv, NEW caller, NEW d \in 1..Len(disputes),
           NEW jury \in [1..dr.jurors -> Jurors], SelectJury(caller, d, jury)
    PROVE  DisputeInv'
<1> DEFINE old == disputes[d]
           n == Len(disputes)
           until == now + dr.window
           b == [old EXCEPT !.jury = jury, !.deadline = until]
<1>1. disputes \in [1..n -> DisputeType] /\ old \in DisputeType
  BY DisputeParts
<1>2. jury \in Seq(Jurors)
  <2>1. dr.jurors \in Nat
    BY DisputeParts DEF DRType
  <2> QED BY <2>1
<1>3. until \in Nat
  <2>1. dr.window \in Nat /\ now \in Nat
    BY DisputeParts DEF DRType, RolesInv
  <2> QED BY <2>1
<1>4. disputes' = [disputes EXCEPT ![d] = b] /\ UNCHANGED <<taskDisputeId, dr, drBalance, rewarded>>
  <2> HIDE DEF n, until
  <2> QED BY <1>1 DEF SelectJury, until
<1>5. b \in DisputeType /\ b.task = old.task /\ b.state = old.state /\ b.bond = old.bond
  <2> HIDE DEF old, until
  <2> QED BY <1>1, <1>2, <1>3 DEF DisputeType
<1> HIDE DEF b
<1> QED
  BY <1>4, <1>5, SameStanding

\* So does a vote.
LEMMA VoteKeeps ==
    ASSUME DisputeInv, NEW juror \in Jurors, NEW d \in 1..Len(disputes), NEW uphold \in BOOLEAN,
           CastVote(juror, d, uphold)
    PROVE  DisputeInv'
<1> DEFINE old == disputes[d]
           n == Len(disputes)
<1>1. disputes \in [1..n -> DisputeType] /\ old \in DisputeType
  BY DisputeParts
<1>2. CASE uphold
  <2> DEFINE more == old.uphold \cup {juror}
             b == [old EXCEPT !.uphold = more]
  <2>1. disputes' = [disputes EXCEPT ![d] = b] /\ UNCHANGED <<taskDisputeId, dr, drBalance, rewarded>>
    <3> HIDE DEF n
    <3> QED BY <1>1, <1>2 DEF CastVote
  <2>2. more \in SUBSET Jurors
    BY <1>1 DEF DisputeType
  <2>3. b \in DisputeType /\ b.task = old.task /\ b.state = old.state /\ b.bond = old.bond
    <3> HIDE DEF old, more
    <3> QED BY <1>1, <2>2 DEF DisputeType
  <2> HIDE DEF b
  <2> QED BY <2>1, <2>3, SameStanding
<1>3. CASE ~uphold
  <2> DEFINE more == old.reject \cup {juror}
             b == [old EXCEPT !.reject = more]
  <2>1. disputes' = [disputes EXCEPT ![d] = b] /\ UNCHANGED <<taskDisputeId, dr, drBalance, rewarded>>
    <3> HIDE DEF n
    <3> QED BY <1>1, <1>3 DEF CastVote
  <2>2. more \in SUBSET Jurors
    BY <1>1 DEF DisputeType
  <2>3. b \in DisputeType /\ b.task = old.task /\ b.state = old.state /\ b.bond = old.bond
    <3> HIDE DEF old, more
    <3> QED BY <1>1, <2>2 DEF DisputeType
  <2> HIDE DEF b
  <2> QED BY <2>1, <2>3, SameStanding
<1> QED
  BY <1>2, <1>3

\* Opening a dispute, naming a jury and voting keep the invariant.
LEMMA DisputeCallKeeps == DisputeInv /\ RolesInv /\ DisputeCall => DisputeInv'
  BY OpenKeeps, JuryKeeps, VoteKeeps DEF DisputeCall, Opened

\* The parties of a dispute, and its bond.
LEMMA DisputeFields ==
    ASSUME DisputeInv, NEW d \in 1..Len(disputes)
    PROVE  /\ disputes[d].reviewer \in Reviewers /\ disputes[d].worker \in Workers
           /\ disputes[d].bond \in Nat
<1> DEFINE b == disputes[d]
<1>1. b \in DisputeType
  BY DisputeParts
<1> HIDE DEF b
<1>2. b.reviewer \in Reviewers /\ b.worker \in Workers /\ b.bond \in Nat
  BY <1>1 DEF DisputeType
<1> QED
  BY <1>2 DEF b

\* What a verdict pays is an amount; the share of a juror is of those who rejected, and
\* there are some.
LEMMA PayoutType ==
    ASSUME DisputeInv, NEW d \in 1..Len(disputes), NEW verdict \in Verdicts
    PROVE  Payout(d, verdict) \in Int
<1> DEFINE b == disputes[d]
<1>1. b \in DisputeType
  BY DisputeParts
<1>2. b.bond \in Nat /\ b.jury \in Seq(Jurors) /\ b.reject \in SUBSET Jurors
  BY <1>1 DEF DisputeType
<1>3. CASE ~(verdict = "rejected" /\ b.reject # {})
  BY <1>2, <1>3 DEF Payout
<1>4. CASE verdict = "rejected" /\ b.reject # {}
  <2> DEFINE S == {i \in DOMAIN b.jury : b.jury[i] \in b.reject}
             seats == Cardinality(S)
             perJuror == b.bond \div Cardinality(b.reject)
  <2>1. IsFiniteSet(DOMAIN b.jury)
    <3> DEFINE last == Len(b.jury)
    <3>1. last \in Nat /\ DOMAIN b.jury = 1..last
      BY <1>2
    <3> HIDE DEF last
    <3> QED BY <3>1, FS_Interval
  <2>2. IsFiniteSet(S) /\ IsFiniteSet(b.reject)
    BY <1>2, <2>1, FS_Subset, ReviewAssumption
  <2>3. seats \in Nat
    BY <2>2, FS_CardinalityType
  <2>4. Cardinality(b.reject) \in Nat \ {0}
    BY <1>4, <2>2, FS_CardinalityType, FS_EmptySet
  <2>5. perJuror \in Nat
    <3> DEFINE voters == Cardinality(b.reject)
               bond == b.bond
    <3>1. voters \in Nat \ {0} /\ bond \in Nat
      BY <1>2, <2>4
    <3> HIDE DEF voters, bond
    <3>2. bond \div voters \in Nat
      BY <3>1
    <3> QED BY <3>2 DEF voters, bond
  <2>6. Rewards(d) = IF seats = 0 THEN 0
                     ELSE IF seats * perJuror > b.bond THEN seats * perJuror ELSE b.bond
    BY DEF Rewards
  <2> HIDE DEF seats, perJuror
  <2>7. seats * perJuror \in Nat
    BY <2>3, <2>5
  <2>8. Rewards(d) \in Nat
    BY <1>2, <2>6, <2>7
  <2> HIDE DEF b
  <2> QED BY <1>2, <1>4, <2>8 DEF Payout, b
<1> QED
  BY <1>3, <1>4

\* What a verdict slashes is an amount too.
LEMMA SlashedAmountType ==
    ASSUME DisputeInv, RSMInv, NEW d \in 1..Len(disputes), NEW verdict \in Verdicts
    PROVE  SlashedAmount(d, verdict) \in Nat
<1> DEFINE bps == dr.slashBps
           bond == reviewers[disputes[d].reviewer].bond
<1>1. disputes[d].bond \in Nat /\ disputes[d].reviewer \in Reviewers
  BY DisputeFields
<1>2. bps \in Nat
  <2>1. dr \in DRType
    BY DisputeParts
  <2>2. bps \in Bps
    BY <2>1 DEF DRType
  <2> HIDE DEF bps
  <2> QED BY <2>2 DEF Bps
<1>3. bond \in Nat
  BY <1>1, RSMParts DEF BondType
<1> DEFINE share == (bond * bps) \div 10000
<1>4. share \in Nat
  <2> HIDE DEF bond, bps
  <2>1. bond * bps \in Nat
    BY <1>2, <1>3
  <2> QED BY <2>1
<1>5. SlashedAmount(d, verdict) = IF verdict = "reviewer fault" THEN share ELSE disputes[d].bond
  BY DEF SlashedAmount
<1> HIDE DEF share
<1> QED
  BY <1>1, <1>4, <1>5

\* What no call touches stays as it was.
LEMMA SameQueue == QueueInv /\ UNCHANGED queueVars => QueueInv'
  BY QueueInvIsFits, QueueInvIsFitsNext DEF queueVars

\* The same of the bonds.
LEMMA SameBonds == RSMInv /\ UNCHANGED rsmVars => RSMInv'
<1> SUFFICES ASSUME RSMInv, UNCHANGED rsmVars PROVE RSMInv'
  OBVIOUS
<1>1. TotalBonded' = TotalBonded
  BY DEF TotalBonded, rsmVars
<1> QED
  BY <1>1, RSMParts, RSMPartsNext DEF rsmVars

\* The same of the stakes.
LEMMA SameStakes == WSMInv /\ UNCHANGED wsmVars => WSMInv'
<1> SUFFICES ASSUME WSMInv, UNCHANGED wsmVars PROVE WSMInv'
  OBVIOUS
<1>1. TotalStaked' = TotalStaked
  BY DEF TotalStaked, wsmVars
<1> QED
  BY <1>1, WSMParts, WSMPartsNext DEF wsmVars

\* A verdict's slashes are slashes like any other, at either stake manager, or none.
LEMMA SlashesKeep ==
    ASSUME QueueInv, RSMInv, WSMInv, DisputeInv, RolesInv,
           NEW d \in 1..Len(disputes), NEW verdict \in Verdicts, Slashes(d, verdict)
    PROVE  QueueInv' /\ RSMInv' /\ WSMInv'
<1> DEFINE r == disputes[d].reviewer
           w == disputes[d].worker
           amount == SlashedAmount(d, verdict)
<1>1. r \in Reviewers /\ w \in Workers
  BY DisputeFields
<1>2. amount \in Nat
  BY SlashedAmountType
<1>3. /\ \/ CanSlashReviewer("disputes", r, amount) /\ SlashReviewer(r, amount)
         \/ UNCHANGED <<queueVars, rsmVars>>
      /\ \/ CanSlashWorker("disputes", w, amount) /\ SlashWorker(w, amount)
         \/ UNCHANGED wsmVars
  BY DEF Slashes
<1> HIDE DEF r, w, amount
<1>4. QueueInv' /\ RSMInv'
  <2>1. CASE CanSlashReviewer("disputes", r, amount) /\ SlashReviewer(r, amount)
    <3>1. QueueInv'
      BY <1>1, <2>1, SlashKeepsQueue
    <3>2. RSMInv'
      BY <1>1, <1>2, <2>1, SlashKeepsBonds
    <3> QED BY <3>1, <3>2
  <2>2. CASE UNCHANGED <<queueVars, rsmVars>>
    BY <2>2, SameQueue, SameBonds
  <2> QED BY <1>3, <2>1, <2>2
<1>5. WSMInv'
  <2>1. CASE CanSlashWorker("disputes", w, amount) /\ SlashWorker(w, amount)
    BY <1>1, <1>2, <2>1, SlashKeepsStakes
  <2>2. CASE UNCHANGED wsmVars
    BY <2>2, SameStakes
  <2> QED BY <1>3, <2>1, <2>2
<1> QED
  BY <1>4, <1>5

\* The same of the disputes.
LEMMA SameDisputes == DisputeInv /\ UNCHANGED disputeVars => DisputeInv'
<1> SUFFICES ASSUME DisputeInv, UNCHANGED disputeVars PROVE DisputeInv'
  OBVIOUS
<1>1. OneOpenDispute'
  BY DisputeParts, OneOpen, OneOpenNext DEF disputeVars
<1> QED
  BY <1>1, DisputeParts, DisputePartsNext DEF disputeVars

\* The same of the credentials.
LEMMA SameCredentials == CredentialInv /\ UNCHANGED <<creds, now>> => CredentialInv'
  BY CredentialParts, CredentialPartsNext

\* The same of the roles.
LEMMA SameRoles == RolesInv /\ UNCHANGED <<roles, scene, now>> => RolesInv'
  BY DEF RolesInv

\* A verdict keeps every invariant, whether the slashes are made or refused.
LEMMA VerdictKeeps ==
    QueueInv /\ RSMInv /\ WSMInv /\ DisputeInv /\ RolesInv /\ VerdictCall
      => QueueInv' /\ RSMInv' /\ WSMInv' /\ DisputeInv'
<1> SUFFICES ASSUME QueueInv, RSMInv, WSMInv, DisputeInv, RolesInv, NEW d \in 1..Len(disputes),
                    \/ \E caller \in Officers, fault \in BOOLEAN : ResolveDispute(caller, d, fault)
                    \/ ExpireDispute(d)
             PROVE  QueueInv' /\ RSMInv' /\ WSMInv' /\ DisputeInv'
  BY DEF VerdictCall
<1>1. PICK verdict \in Verdicts : Pending(d) /\ Close(d, verdict) /\ Slashes(d, verdict)
  <2>1. \A fault \in BOOLEAN : Verdict(d, fault) \in Verdicts
    BY DEF Verdict, Verdicts
  <2>2. ASSUME NEW caller \in Officers, NEW fault \in BOOLEAN, ResolveDispute(caller, d, fault)
        PROVE  /\ Pending(d) /\ Close(d, Verdict(d, fault)) /\ Slashes(d, Verdict(d, fault))
    BY <2>2 DEF ResolveDispute
  <2>3. ASSUME ExpireDispute(d)
        PROVE  Pending(d) /\ Close(d, "expired") /\ Slashes(d, "expired") /\ "expired" \in Verdicts
    BY <2>3 DEF ExpireDispute, Verdicts
  <2> QED BY <2>1, <2>2, <2>3
<1>2. Payout(d, verdict) \in Int
  BY PayoutType
<1>3. DisputeInv'
  BY <1>1, <1>2, CloseKeeps
<1>4. QueueInv' /\ RSMInv' /\ WSMInv'
  BY <1>1, SlashesKeep
<1> QED
  BY <1>3, <1>4

\* The owner's parameters are of their types.
LEMMA DisputeAdminKeeps ==
    ASSUME DisputeInv, NEW caller,
           \/ SetDisputeParams(caller, NewDisputeParams)
           \/ \E set \in BOOLEAN : SetStakeManagers(caller, set)
    PROVE  DisputeInv'
<1>1. dr \in DRType
  BY DisputeParts
<1>2. dr' \in DRType
  <2>1. ASSUME SetDisputeParams(caller, NewDisputeParams) PROVE dr' \in DRType
    <3>0. \E x \in DOMAIN NewDisputeParams : dr' = [dr EXCEPT ![x] = NewDisputeParams[x]]
      BY <2>1, Zenon DEF SetDisputeParams
    <3> DEFINE p == NewDisputeParams
    <3>1. /\ p \in ParamType
          /\ DOMAIN p = {"jurors", "quorumBps", "window", "bond", "slashBps"}
      BY ReviewAssumption DEF ParamType
    <3>2. PICK field \in DOMAIN p : dr' = [dr EXCEPT ![field] = p[field]]
      BY <3>0
    <3> HIDE DEF p
    <3>3. CASE field = "jurors"
      BY <1>1, <3>1, <3>2, <3>3 DEF ParamType, DRType
    <3>4. CASE field = "quorumBps"
      BY <1>1, <3>1, <3>2, <3>4 DEF ParamType, DRType
    <3>5. CASE field = "window"
      BY <1>1, <3>1, <3>2, <3>5 DEF ParamType, DRType
    <3>6. CASE field = "bond"
      BY <1>1, <3>1, <3>2, <3>6 DEF ParamType, DRType
    <3>7. CASE field = "slashBps"
      BY <1>1, <3>1, <3>2, <3>7 DEF ParamType, DRType
    <3> QED BY <3>1, <3>3, <3>4, <3>5, <3>6, <3>7
  <2>2. ASSUME NEW set \in BOOLEAN, SetStakeManagers(caller, set) PROVE dr' \in DRType
    <3>1. dr' = [dr EXCEPT !.rsm = set] \/ dr' = [dr EXCEPT !.wsm = set]
      BY <2>2 DEF SetStakeManagers
    <3>2. CASE dr' = [dr EXCEPT !.rsm = set]
      BY <1>1, <3>2 DEF DRType
    <3>3. CASE dr' = [dr EXCEPT !.wsm = set]
      BY <1>1, <3>3 DEF DRType
    <3> QED BY <3>1, <3>2, <3>3
  <2> QED BY <2>1, <2>2
<1>3. UNCHANGED <<disputes, taskDisputeId, drBalance, rewarded>>
  BY DEF SetDisputeParams, SetStakeManagers
<1>4. OneOpenDispute'
  BY <1>3, DisputeParts, OneOpen, OneOpenNext
<1> QED
  BY <1>2, <1>3, <1>4, DisputeParts, DisputePartsNext

-----------------------------------------------------------------------------
(* Roles *)

\* Every contract starts with the deployer as its owner.
LEMMA InitRoles == Init => RolesInv
<1> SUFFICES ASSUME Init PROVE RolesInv
  OBVIOUS
<1>1. PICK wired \in BOOLEAN :
        RolesInit([c \in Contracts |->
            IF ~wired THEN {}
            ELSE CASE c = "queue" -> {"rsm"}
                   [] c \in {"rsm", "wsm"} -> {"disputes"}
                   [] OTHER -> {}])
  BY DEF Init
<1> DEFINE ops == [c \in Contracts |->
            IF ~wired THEN {}
            ELSE CASE c = "queue" -> {"rsm"}
                   [] c \in {"rsm", "wsm"} -> {"disputes"}
                   [] OTHER -> {}]
<1>2. ops \in [Contracts -> SUBSET (Officers \cup Contracts)]
  <2>1. {} \in SUBSET (Officers \cup Contracts)
    OBVIOUS
  <2>2. {"rsm"} \in SUBSET (Officers \cup Contracts) /\ {"disputes"} \in SUBSET (Officers \cup Contracts)
    BY ReviewAssumption
  <2> SUFFICES ASSUME NEW c \in Contracts PROVE ops[c] \in {{}, {"rsm"}, {"disputes"}}
    BY <2>1, <2>2
  <2> QED OBVIOUS
<1> HIDE DEF ops
<1>3. \A c \in Contracts :
        [owner |-> Deployer, pendingOwner |-> NoOne, operators |-> ops[c]] \in RoleType
  BY <1>2, ReviewAssumption DEF RoleType
<1>4. roles = [c \in Contracts |-> [owner |-> Deployer, pendingOwner |-> NoOne, operators |-> ops[c]]]
  BY <1>1 DEF RolesInit, ops
<1> QED
  BY <1>3, <1>4 DEF RolesInv, Init

\* Naming operators and handing over ownership leave every contract with one owner.
LEMMA RolesKeep ==
    ASSUME RolesInv, NEW c \in Contracts, NEW caller \in Officers, UNCHANGED <<scene, now>>,
           SetOperator(c, caller) \/ TransferOwnership(c, caller) \/ AcceptOwnership(c, caller)
    PROVE  RolesInv'
<1> DEFINE old == roles[c]
<1>1. roles \in [Contracts -> RoleType] /\ old \in RoleType
  BY DEF RolesInv
<1>2. ASSUME NEW b \in RoleType, roles' = [roles EXCEPT ![c] = b] PROVE RolesInv'
  BY <1>1, <1>2 DEF RolesInv
<1>3. CASE SetOperator(c, caller)
  <2>1. PICK op \in Officers \cup Contracts :
          \/ roles' = [roles EXCEPT ![c].operators = @ \cup {op}]
          \/ roles' = [roles EXCEPT ![c].operators = @ \ {op}]
    BY <1>3 DEF SetOperator
  <2>2. PICK s \in SUBSET (Officers \cup Contracts) : roles' = [roles EXCEPT ![c].operators = s]
    <3>1. old.operators \in SUBSET (Officers \cup Contracts)
      BY <1>1 DEF RoleType
    <3>2. /\ old.operators \cup {op} \in SUBSET (Officers \cup Contracts)
          /\ old.operators \ {op} \in SUBSET (Officers \cup Contracts)
      BY <3>1
    <3> QED BY <1>1, <2>1, <3>2
  <2> DEFINE b == [old EXCEPT !.operators = s]
  <2>3. b \in RoleType
    <3> HIDE DEF old
    <3> QED BY <1>1 DEF RoleType
  <2>4. roles' = [roles EXCEPT ![c] = b]
    BY <2>2
  <2> QED BY <1>2, <2>3, <2>4
<1>4. CASE TransferOwnership(c, caller)
  <2>1. PICK a \in Officers : roles' = [roles EXCEPT ![c].pendingOwner = a]
    BY <1>4 DEF TransferOwnership
  <2> DEFINE b == [old EXCEPT !.pendingOwner = a]
  <2>2. b \in RoleType
    <3> HIDE DEF old
    <3> QED BY <1>1 DEF RoleType
  <2>3. roles' = [roles EXCEPT ![c] = b]
    BY <2>1
  <2> QED BY <1>2, <2>2, <2>3
<1>5. CASE AcceptOwnership(c, caller)
  <2> DEFINE b == [old EXCEPT !.owner = caller, !.pendingOwner = NoOne]
  <2>1. b \in RoleType
    <3> HIDE DEF old
    <3> QED BY <1>1 DEF RoleType
  <2>2. roles' = [roles EXCEPT ![c] = b]
    BY <1>1, <1>5 DEF AcceptOwnership
  <2> QED BY <1>2, <2>1, <2>2
<1> QED
  BY <1>3, <1>4, <1>5

\* Every contract is among those whose roles are kept.
LEMMA RolesCallKeeps ==
    ASSUME RolesInv, NEW caller \in Officers, UNCHANGED <<scene, now>>,
           \E c \in {"queue", "rsm", "credential", "wsm", "disputes"} :
              SetOperator(c, caller) \/ TransferOwnership(c, caller) \/ AcceptOwnership(c, caller)
    PROVE  RolesInv'
  BY RolesKeep, ReviewAssumption

-----------------------------------------------------------------------------
(* The five together *)

\* A user's or an operator's call keeps every invariant, and no tier falls unannounced.
LEMMA CallKeeps == ReviewInv /\ Call => ReviewInv' /\ \A r \in Reviewers : creds' = creds \/ Fair(r)
<1> SUFFICES ASSUME ReviewInv, Call
             PROVE  ReviewInv' /\ \A r \in Reviewers : creds' = creds \/ Fair(r)
  OBVIOUS
<1> USE DEF ReviewInv
<1>1. UNCHANGED <<now, scene>>
  BY DEF Call
<1>2. ASSUME UNCHANGED roles PROVE RolesInv'
  BY <1>1, <1>2, SameRoles
<1>3. ASSUME UNCHANGED creds PROVE CredentialInv'
  BY <1>1, <1>3, SameCredentials
<1>4. CASE RegisterCall
  BY <1>2, <1>3, <1>4, RegisterKeeps, SameQueue, SameStakes, SameDisputes DEF RegisterCall
<1>5. CASE UnstakeCall
  BY <1>2, <1>3, <1>5, UnstakeKeeps, SameQueue, SameStakes, SameDisputes DEF UnstakeCall
<1>6. CASE RecordCall
  BY <1>2, <1>3, <1>6, RecordKeeps, SameQueue, SameStakes, SameDisputes DEF RecordCall
<1>7. CASE FeeCall
  BY <1>2, <1>3, <1>7, FeeKeeps, SameQueue, SameStakes, SameDisputes DEF FeeCall
<1>8. CASE SlashCall
  <2>1. PICK caller \in Officers, r \in Reviewers, amount \in Values[scene] : Slash(caller, r, amount)
    BY <1>8 DEF SlashCall
  <2>2. amount \in Nat
    BY ValuesAreNat
  <2>3. QueueInv' /\ RSMInv'
    BY <2>1, <2>2, SlashKeepsQueue, SlashKeepsBonds DEF Slash
  <2> QED BY <1>2, <1>3, <1>8, <2>3, SameStakes, SameDisputes DEF SlashCall
<1>9. CASE QueueCall
  BY <1>2, <1>3, <1>9, QueueCallKeeps, SameBonds, SameStakes, SameDisputes DEF QueueCall
<1>10. CASE CredentialCall
  BY <1>1, <1>2, <1>10, CredentialCallKeeps, SameQueue, SameBonds, SameStakes, SameDisputes
     DEF CredentialCall
<1>11. CASE WSMCall
  BY <1>2, <1>3, <1>11, WSMCallKeeps, SameQueue, SameBonds, SameDisputes DEF WSMCall
<1>12. CASE DisputeCall
  BY <1>2, <1>3, <1>12, DisputeCallKeeps, SameQueue, SameBonds, SameStakes DEF DisputeCall
<1>13. CASE VerdictCall
  BY <1>2, <1>3, <1>13, VerdictKeeps DEF VerdictCall
<1>14. CASE AcceptCall
  <2>1. /\ UNCHANGED <<queueVars, rsmVars, wsmVars, creds, disputeVars>>
        /\ \E caller \in Officers :
              \E c \in {"queue", "rsm", "credential", "wsm", "disputes"} : AcceptOwnership(c, caller)
    BY <1>14 DEF AcceptCall, RolesCall, QueueAcceptOwnership, RSMAcceptOwnership,
       CredentialAcceptOwnership, WSMAcceptOwnership, DisputesAcceptOwnership
  <2>2. RolesInv'
    BY <1>1, <2>1, RolesCallKeeps
  <2> QED BY <1>3, <2>1, <2>2, SameQueue, SameBonds, SameStakes, SameDisputes
<1> QED
  BY <1>4, <1>5, <1>6, <1>7, <1>8, <1>9, <1>10, <1>11, <1>12, <1>13, <1>14 DEF Call

\* A call of an owner changes the settings of one contract, or the roles.
LEMMA AdminKeeps == ReviewInv /\ Admin => ReviewInv' /\ creds' = creds
<1> SUFFICES ASSUME ReviewInv, Admin
             PROVE  ReviewInv' /\ creds' = creds
  OBVIOUS
<1> USE DEF ReviewInv
<1> DEFINE Ops(c) == \E caller \in Officers : SetOperator(c, caller) \/ TransferOwnership(c, caller)
           Rest == UNCHANGED <<queueVars, rsmVars, wsmVars, creds, disputeVars>>
<1>1. UNCHANGED <<now, scene>>
  BY DEF Admin
<1>2. ASSUME UNCHANGED roles PROVE RolesInv'
  BY <1>1, <1>2, SameRoles
<1>3. ASSUME UNCHANGED creds PROVE CredentialInv'
  BY <1>1, <1>3, SameCredentials
<1>4. ASSUME Rest, NEW c \in {"queue", "rsm", "credential", "wsm", "disputes"}, Ops(c)
      PROVE  ReviewInv' /\ creds' = creds
  <2>1. RolesInv'
    BY <1>1, <1>4, RolesCallKeeps
  <2> QED BY <1>3, <1>4, <2>1, SameQueue, SameBonds, SameStakes, SameDisputes
<1> HIDE DEF Ops, Rest
<1>5. CASE RSMAdmin
  <2>1. \/ UNCHANGED <<queueVars, wsmVars, creds, disputeVars, roles>>
        \/ Rest /\ Ops("rsm")
    BY <1>5 DEF RSMAdmin, RolesCall, RSMSetOperator, RSMTransferOwnership, Ops, Rest
  <2>2. CASE UNCHANGED <<queueVars, wsmVars, creds, disputeVars, roles>>
    BY <1>2, <1>3, <1>5, <2>2, RSMAdminKeeps, SameQueue, SameStakes, SameDisputes
  <2> QED BY <1>4, <2>1, <2>2
<1>6. CASE QueueAdmin
  <2>1. \/ \E caller \in Officers :
              /\ \/ \E x \in 0..1 : SetReviewTimeout(caller, x) \/ SetMaxActiveReviews(caller, x)
                 \/ \E gated \in BOOLEAN : SetIdentityGate(caller, gated)
              /\ UNCHANGED <<rsmVars, wsmVars, creds, disputeVars, roles>>
        \/ Rest /\ Ops("queue")
    BY <1>6 DEF QueueAdmin, RolesCall, QueueSetOperator, QueueTransferOwnership, Ops, Rest
  <2>2. CASE \E caller \in Officers :
                /\ \/ \E x \in 0..1 : SetReviewTimeout(caller, x) \/ SetMaxActiveReviews(caller, x)
                   \/ \E gated \in BOOLEAN : SetIdentityGate(caller, gated)
                /\ UNCHANGED <<rsmVars, wsmVars, creds, disputeVars, roles>>
    <3>1. /\ UNCHANGED <<assignments, queues, verified, rsmVars, wsmVars, creds, disputeVars, roles>>
          /\ rq' \in [timeout : Nat, maxActive : Nat, gated : BOOLEAN]
      BY <2>2, QueueInvIsFits DEF SetReviewTimeout, SetMaxActiveReviews, SetIdentityGate
    <3>2. QueueInv'
      BY <3>1, QueueInvIsFits, QueueInvIsFitsNext
    <3> QED BY <1>2, <1>3, <3>1, <3>2, SameBonds, SameStakes, SameDisputes
  <2> QED BY <1>4, <2>1, <2>2
<1>7. CASE CredentialAdmin
  <2>1. Rest /\ Ops("credential")
    BY <1>7 DEF CredentialAdmin, RolesCall, CredentialSetOperator, CredentialTransferOwnership, Ops, Rest
  <2> QED BY <1>4, <2>1
<1>8. CASE WSMAdmin
  <2>1. \/ UNCHANGED <<queueVars, rsmVars, creds, disputeVars, roles>>
        \/ Rest /\ Ops("wsm")
    BY <1>8 DEF WSMAdmin, RolesCall, WSMSetOperator, WSMTransferOwnership, Ops, Rest
  <2>2. CASE UNCHANGED <<queueVars, rsmVars, creds, disputeVars, roles>>
    BY <1>2, <1>3, <1>8, <2>2, WSMAdminKeeps, SameQueue, SameBonds, SameDisputes
  <2> QED BY <1>4, <2>1, <2>2
<1>9. CASE DisputeAdmin
  <2>1. \/ \E caller \in Officers :
              /\ \/ SetDisputeParams(caller, NewDisputeParams)
                 \/ \E set \in BOOLEAN : SetStakeManagers(caller, set)
              /\ UNCHANGED <<queueVars, rsmVars, wsmVars, creds, roles>>
        \/ Rest /\ Ops("disputes")
    BY <1>9 DEF DisputeAdmin, RolesCall, DisputesSetOperator, DisputesTransferOwnership, Ops, Rest
  <2>2. ASSUME NEW caller \in Officers,
               \/ SetDisputeParams(caller, NewDisputeParams)
               \/ \E set \in BOOLEAN : SetStakeManagers(caller, set),
               UNCHANGED <<queueVars, rsmVars, wsmVars, creds, roles>>
        PROVE  ReviewInv' /\ creds' = creds
    <3>1. DisputeInv'
      BY <2>2, DisputeAdminKeeps
    <3> QED BY <1>2, <1>3, <2>2, <3>1, SameQueue, SameBonds, SameStakes
  <2> QED BY <1>4, <2>1, <2>2
<1> QED
  BY <1>5, <1>6, <1>7, <1>8, <1>9 DEF Admin

\* Time only runs credentials' probations down.
LEMMA TickKeeps == ReviewInv /\ Tick => ReviewInv' /\ creds' = creds
<1> SUFFICES ASSUME ReviewInv, Tick PROVE ReviewInv' /\ creds' = creds
  OBVIOUS
<1> USE DEF ReviewInv, Tick
<1>1. RolesInv'
  BY DEF RolesInv
<1>2. CredentialInv'
  <2>1. now \in Nat /\ now' = now + 1 /\ creds' = creds
    BY DEF RolesInv
  <2>2. \A r \in Reviewers : Sound(creds[r], now')
    BY <2>1, CredentialParts, SoundLater
  <2> QED BY <2>1, <2>2, CredentialParts, CredentialPartsNext
<1> QED
  BY <1>1, <1>2, SameQueue, SameBonds, SameStakes, SameDisputes

\* The invariants hold together in every state.
LEMMA ReviewInvHolds == Spec => []ReviewInv
<1>1. Init => ReviewInv
  BY InitRoles, InitQueue, InitBonds, InitStakes, InitCredentials, InitDisputes DEF ReviewInv
<1>2. ReviewInv /\ [Next]_vars => ReviewInv'
  <2>1. ReviewInv /\ UNCHANGED vars => ReviewInv'
    BY SameRoles, SameQueue, SameBonds, SameStakes, SameCredentials, SameDisputes DEF ReviewInv, vars
  <2> QED BY <2>1, CallKeeps, AdminKeeps, TickKeeps DEF Next
<1> QED BY <1>1, <1>2, PTL DEF Spec

\* Every slot of the five contracts holds a value of its type; a reviewer has the one
\* token of the present tier or, before the mint, none (ReviewerCredential.sol).
THEOREM ReviewTyped == Spec => []ReviewTypeOK
<1>1. ReviewInv => ReviewTypeOK
  BY DEF ReviewInv, RolesInv, QueueInv, RSMInv, CredentialInv, WSMInv, DisputeInv, ReviewTypeOK
<1> QED BY <1>1, ReviewInvHolds, PTL

\* The queue's counts, indices and assignments agree after any assignment, timeout,
\* completion, removal and slash, and a task has one open dispute at most
\* (ReviewerQueue.sol, DisputeResolution.sol).
THEOREM ReviewsAreKept == Spec => []ReviewsKept
<1>1. ReviewInv => ReviewsKept
  BY DEF ReviewInv, QueueInv, DisputeInv, ReviewsKept
<1> QED BY <1>1, ReviewInvHolds, PTL

\* The two stake managers and DisputeResolution can pay what they owe, but for the fees
\* claimed beyond those deposited and the jurors' rewards beyond the funds given.
THEOREM EveryoneIsCovered == Spec => []EveryoneCovered
<1>1. RSMInv => BondsCovered
  <2> SUFFICES ASSUME RSMInv PROVE BondsCovered
    OBVIOUS
  <2>1. TotalBonded \in Nat /\ feeFund \in Int /\ rsmBalance = TotalBonded + feeFund
    BY RSMParts, BondsAreSummed DEF RSMInv
  <2>2. SumFunction([r \in Reviewers |-> reviewers[r].bond + reviewers[r].pending]) = TotalBonded
    BY DEF SumFunction, TotalBonded, Bonded
  <2> QED BY <2>1, <2>2 DEF BondsCovered
<1>2. WSMInv => StakesCovered
  <2> SUFFICES ASSUME WSMInv PROVE StakesCovered
    OBVIOUS
  <2>1. SumFunction([w \in Workers |-> workers[w].staked + workers[w].pending]) = TotalStaked
    BY DEF SumFunction, TotalStaked, Staked
  <2> QED BY <2>1, WSMParts DEF StakesCovered
<1>3. DisputeInv => DisputeBondsCovered
  <2> SUFFICES ASSUME DisputeInv PROVE DisputeBondsCovered
    OBVIOUS
  <2> DEFINE f == [d \in 1..Len(disputes) |-> IF Pending(d) THEN disputes[d].bond ELSE 0]
  <2>1. f = PendingBond(disputes)
    BY DEF PendingBond, Held, Pending
  <2>2. SumFunction(f) = SumFunctionOnSet(PendingBond(disputes), 1..Len(disputes))
    <3>1. DOMAIN f = 1..Len(disputes)
      OBVIOUS
    <3> HIDE DEF f
    <3> QED BY <2>1, <3>1 DEF SumFunction
  <2>3. drBalance \in Nat /\ rewarded \in Int /\ drBalance + rewarded = SumFunction(f)
    BY <2>2, DisputeParts
  <2> HIDE DEF f
  <2>4. drBalance + (IF rewarded > 0 THEN rewarded ELSE 0) >= SumFunction(f)
    BY <2>3
  <2> QED BY <2>4 DEF DisputeBondsCovered, f
<1>4. ReviewInv => EveryoneCovered
  BY <1>1, <1>2, <1>3 DEF ReviewInv, EveryoneCovered
<1> QED BY <1>4, ReviewInvHolds, PTL

\* A reviewer's tier never falls but after a grace period that an evaluation announced
\* since the tier was reached (ReviewerCredential.sol, evaluateAndUpdateTier).
THEOREM DowngradesAnnounced == Spec => DowngradeAnnounced
<1>1. ReviewInv /\ [Next]_vars =>
        [\A r \in Reviewers :
            creds'[r].tier < creds[r].tier =>
                creds[r].announced # NotYet /\ now >= creds[r].announced + GracePeriod]_creds
  <2>1. ReviewInv /\ [Next]_vars => \A r \in Reviewers : creds' = creds \/ Fair(r)
    BY CallKeeps, AdminKeeps, TickKeeps DEF Next, vars
  <2> QED BY <2>1 DEF Fair
<1> QED BY <1>1, ReviewInvHolds, PTL DEF Spec, DowngradeAnnounced
=============================================================================
