------------------------- MODULE IntelStaking_proofs -------------------------
(***************************************************************************)
(* Theorems about IntelStaking, for all wallets, amounts, parameters and   *)
(* precisions.  What a wallet has accrued beyond its debt, Excess, is kept *)
(* as a multiple of 1 / PRECISION, so that nothing is lost to rounding in  *)
(* the invariant; the rounded properties follow from the exact ones.  A    *)
(* call works on books it may first bring into the current epoch, so the   *)
(* invariant is stated of books b, and shown of those a call starts from.  *)
(***************************************************************************)
EXTENDS IntelStaking, SumTheorems

EpochType == [n : Nat, start : Nat, capLeft : Nat, cap : Nat, lifted : BOOLEAN]

BooksType ==
    [acc : [Assets -> Nat], pool : [Assets -> Nat], epoch : EpochType,
     edge : [Wallets -> [Assets -> Int]]]

\* What wallet w has accrued of asset a beyond its debt, in parts of PRECISION.
Excess(b, w, a) == stakers[w].staked * b.acc[a] - PRECISION * stakers[w].debt[a]

\* Debts never run ahead, and what a wallet was paid and has accrued is at most
\* its part and one unit for each time its debts were set anew.
WalletOK(b, w, a) ==
    /\ Excess(b, w, a) >= 0
    /\ PRECISION * b.edge[w][a] + Scale * Excess(b, w, a) <= PRECISION * (Scale * syncs[w])

\* The contract holds the stakes, the pool and all excess, but for the dust.
AssetOK(b, a) ==
    PRECISION * (balance[a] + SumOf(syncs)) >=
        PRECISION * (Principal(a) + b.pool[a]) + SumOf([w \in Wallets |-> Excess(b, w, a)])

UsedIn(n, w) == IF stakers[w].lastEpoch = n THEN stakers[w].used ELSE 0

\* No wallet has used an epoch to come; while the cap is not lifted there is one,
\* and what is left of it is what the wallets have not used.
CapOK(b) ==
    /\ \A w \in Wallets : stakers[w].lastEpoch <= b.epoch.n
    /\ ~b.epoch.lifted =>
          /\ params.epochCap > 0
          /\ SumOf([w \in Wallets |-> UsedIn(b.epoch.n, w)]) + b.epoch.capLeft = b.epoch.cap

BooksOK(b) ==
    /\ b \in BooksType
    /\ \A w \in Wallets, a \in Assets : WalletOK(b, w, a)
    /\ \A a \in Assets : AssetOK(b, a)
    /\ CapOK(b)

\* What is pending waits for every cooldown asked for, unless one was shortened.
WaitOK(w) ==
    ~shortened => /\ locked[w] <= now + params.cooldown
                  /\ stakers[w].pending > 0 => locked[w] <= stakers[w].availableAt

\* What does not depend on the books.
Static ==
    /\ TypeOK
    /\ totalStaked = SumOf([w \in Wallets |-> stakers[w].staked])
    /\ totalStaked <= MaxStaked

StakingInv ==
    /\ Static
    /\ BooksOK(Books)
    /\ \A w \in Wallets : WaitOK(w)

-----------------------------------------------------------------------------
(* Distribution *)

\* One wallet's part of a distribution of q, x per share: the accumulator gives
\* it at most what its edge gives up.
LEMMA WalletShare ==
    ASSUME NEW P \in Nat, NEW S \in Nat, NEW T \in Nat, NEW u \in Nat, S = T * u,
           NEW s \in Nat, NEW A \in Nat, NEW d \in Nat, NEW q \in Nat, NEW x \in Nat,
           T * x <= q * P,
           NEW e \in Int, NEW y \in Int, P * e + S * (s * A - P * d) <= y
    PROVE  /\ s * (A + x) - P * d = (s * A - P * d) + s * x
           /\ s * x \in Nat
           /\ P * (e - (u * q) * s) + S * (s * (A + x) - P * d) <= y
<1>1. s * (A + x) = s * A + s * x /\ s * x \in Nat /\ s * A \in Nat /\ P * d \in Nat
  <2>1. s * (A + x) = s * A + s * x
    OBVIOUS
  <2> QED BY <2>1, ProductGrows
<1> DEFINE X == s * A - P * d
           z == (u * q) * s
           r == u * s
<1>2. s * (A + x) - P * d = X + s * x /\ X \in Int
  BY <1>1
<1>3. r \in Nat /\ T * x \in Nat /\ q * P \in Nat /\ z \in Nat
  <2>1. u * q \in Nat
    BY ProductGrows
  <2>2. z \in Nat
    BY <2>1, ProductGrows
  <2>3. r \in Nat /\ T * x \in Nat /\ q * P \in Nat
    BY ProductGrows
  <2> QED BY <2>2, <2>3
<1>4. S * (s * x) = r * (T * x)
  OBVIOUS
<1>5. P * z = r * (q * P)
  OBVIOUS
<1>6. r * (T * x) <= r * (q * P) /\ r * (T * x) \in Nat /\ r * (q * P) \in Nat
  <2> HIDE DEF r
  <2> QED BY <1>3, ProductGrows
<1> HIDE DEF X, z, r
<1>7. S * (X + s * x) = S * X + S * (s * x)
  BY <1>1, <1>2
<1>8. P * (e - z) = P * e - P * z
  BY <1>3
<1>9. P * e + S * X <= y
  BY DEF X
<1>10. P * e \in Int /\ S * X \in Int
  BY <1>2
<1>11. P * (e - z) + S * (X + s * x) <= y
  BY <1>4, <1>5, <1>6, <1>7, <1>8, <1>9, <1>10
<1> QED
  BY <1>1, <1>2, <1>11 DEF X, z

\* The types a call relies on.
LEMMA Typed ==
    ASSUME TypeOK, NEW w \in Wallets, NEW a \in Assets
    PROVE  /\ stakers[w].staked \in Nat /\ stakers[w].pending \in Nat
           /\ stakers[w].debt[a] \in Nat /\ syncs[w] \in Nat
           /\ stakers[w].availableAt \in Nat /\ stakers[w].used \in Nat
           /\ stakers[w].lastEpoch \in Nat
           /\ balance[a] \in Nat /\ totalStaked \in Nat /\ now \in Nat
           /\ PRECISION \in Nat \ {0} /\ Scale \in Nat \ {0}
  BY NumbersAssumption DEF TypeOK, StakerType

\* The books before a distribution of q units of a, and after.
Sharing(b, b2, a, q) ==
    /\ b2.acc[a] = b.acc[a] + PerShare(q)
    /\ \A c \in Assets \ {a} : b2.acc[c] = b.acc[c]
    /\ b2.edge = Shared(b.edge, a, q)

\* A distribution keeps every wallet within its part, and accrues at most q.
LEMMA SharingKeeps ==
    ASSUME Static, totalStaked > 0,
           NEW b \in BooksType, NEW b2 \in BooksType, NEW a \in Assets, NEW q \in Nat,
           Sharing(b, b2, a, q), \A w \in Wallets, c \in Assets : WalletOK(b, w, c)
    PROVE  /\ \A w \in Wallets, c \in Assets : WalletOK(b2, w, c)
           /\ SumOf([w \in Wallets |-> Excess(b2, w, a)])
                <= SumOf([w \in Wallets |-> Excess(b, w, a)]) + PRECISION * q
           /\ \A w \in Wallets, c \in Assets \ {a} : Excess(b2, w, c) = Excess(b, w, c)
<1> DEFINE x == PerShare(q)
           u == Scale \div totalStaked
<1>1. totalStaked \in Nat \ {0} /\ PRECISION \in Nat /\ Scale \in Nat /\ u \in Nat
      /\ Scale = totalStaked * u
  <2>1. totalStaked \in Nat \ {0} /\ PRECISION \in Nat /\ Scale \in Nat /\ MaxStaked \in Nat
    BY NumbersAssumption DEF Static, TypeOK
  <2>2. u \in Nat
    BY <2>1, Quotient
  <2>3. totalStaked \in 1..MaxStaked
    BY <2>1 DEF Static
  <2> QED BY <2>1, <2>2, <2>3, NumbersAssumption DEF u
<1>2. x \in Nat /\ totalStaked * x <= q * PRECISION
  <2>1. q * PRECISION \in Nat
    BY <1>1, ProductGrows
  <2> QED BY <1>1, <2>1, Quotient DEF PerShare
<1> HIDE DEF x, u
<1>3. \A w \in Wallets, c \in Assets \ {a} :
        Excess(b2, w, c) = Excess(b, w, c) /\ b2.edge[w][c] = b.edge[w][c]
  <2> SUFFICES ASSUME NEW w \in Wallets, NEW c \in Assets \ {a}
               PROVE  Excess(b2, w, c) = Excess(b, w, c) /\ b2.edge[w][c] = b.edge[w][c]
    OBVIOUS
  <2>1. b.edge[w] \in [Assets -> Int]
    BY DEF BooksType
  <2>2. b2.edge[w] = [b.edge[w] EXCEPT ![a] = @ - (u * q) * stakers[w].staked]
    BY DEF Sharing, Shared, u
  <2>3. b2.edge[w][c] = b.edge[w][c]
    BY <2>1, <2>2
  <2> QED BY <2>3 DEF Sharing, Excess
<1>4. \A w \in Wallets :
        /\ Excess(b2, w, a) = Excess(b, w, a) + stakers[w].staked * x
        /\ stakers[w].staked * x \in Nat
        /\ Excess(b, w, a) \in Nat
        /\ WalletOK(b2, w, a)
  <2> SUFFICES ASSUME NEW w \in Wallets
               PROVE  /\ Excess(b2, w, a) = Excess(b, w, a) + stakers[w].staked * x
                      /\ stakers[w].staked * x \in Nat
                      /\ Excess(b, w, a) \in Nat
                      /\ WalletOK(b2, w, a)
    OBVIOUS
  <2> DEFINE s == stakers[w].staked
             A == b.acc[a]
             d == stakers[w].debt[a]
             e == b.edge[w][a]
             y == PRECISION * (Scale * syncs[w])
  <2>1. s \in Nat /\ A \in Nat /\ d \in Nat /\ e \in Int /\ syncs[w] \in Nat
        /\ b.edge[w] \in [Assets -> Int]
    BY Typed DEF BooksType, Static
  <2>2. y \in Int
    <3>1. Scale * syncs[w] \in Nat
      BY <1>1, <2>1, ProductGrows
    <3> QED BY <1>1, <3>1
  <2>3. b2.edge[w] = [b.edge[w] EXCEPT ![a] = @ - (u * q) * stakers[w].staked]
    BY DEF Sharing, Shared, u
  <2>4. b2.edge[w][a] = e - (u * q) * s
    BY <2>1, <2>3
  <2>5. b2.acc[a] = A + x
    BY DEF Sharing, x
  <2>6. WalletOK(b, w, a)
    OBVIOUS
  <2>7. PRECISION * e + Scale * (s * A - PRECISION * d) <= y
    BY <2>6 DEF WalletOK, Excess
  <2>8. Excess(b, w, a) = s * A - PRECISION * d /\ Excess(b, w, a) >= 0
    BY <2>6 DEF Excess, WalletOK
  <2>9. Excess(b2, w, a) = s * (A + x) - PRECISION * d
    BY <2>5 DEF Excess
  <2>a. PRECISION * b2.edge[w][a] + Scale * Excess(b2, w, a)
          = PRECISION * (e - (u * q) * s) + Scale * (s * (A + x) - PRECISION * d)
    BY <2>4, <2>9
  <2>b. WalletOK(b2, w, a) <=>
          /\ Excess(b2, w, a) >= 0
          /\ PRECISION * b2.edge[w][a] + Scale * Excess(b2, w, a) <= y
    BY DEF WalletOK
  <2> HIDE DEF s, A, d, e, y
  <2>10. /\ s * (A + x) - PRECISION * d = (s * A - PRECISION * d) + s * x
         /\ s * x \in Nat
         /\ PRECISION * (e - (u * q) * s) + Scale * (s * (A + x) - PRECISION * d) <= y
    BY <1>1, <1>2, <2>1, <2>2, <2>7, WalletShare
  <2>11. s * A \in Int /\ PRECISION * d \in Int
    BY <1>1, <2>1
  <2>12. Excess(b, w, a) \in Nat /\ Excess(b2, w, a) = Excess(b, w, a) + s * x
         /\ Excess(b2, w, a) >= 0
    BY <2>8, <2>9, <2>10, <2>11
  <2>13. WalletOK(b2, w, a)
    BY <2>10, <2>12, <2>a, <2>b
  <2> QED BY <2>10, <2>12, <2>13 DEF s
<1>5. \A w \in Wallets, c \in Assets : WalletOK(b2, w, c)
  <2> SUFFICES ASSUME NEW w \in Wallets, NEW c \in Assets, c # a PROVE WalletOK(b2, w, c)
    BY <1>4
  <2>1. WalletOK(b, w, c) /\ Excess(b2, w, c) = Excess(b, w, c) /\ b2.edge[w][c] = b.edge[w][c]
    BY <1>3
  <2> QED BY <2>1 DEF WalletOK
<1>6. SumOf([w \in Wallets |-> Excess(b2, w, a)])
        <= SumOf([w \in Wallets |-> Excess(b, w, a)]) + PRECISION * q
  <2> DEFINE F == [w \in Wallets |-> Excess(b, w, a)]
             G == [w \in Wallets |-> stakers[w].staked * x]
             H == [w \in Wallets |-> Excess(b2, w, a)]
             K == [w \in Wallets |-> stakers[w].staked]
  <2>1. \A w \in Wallets : F[w] \in Int /\ G[w] \in Int /\ H[w] = F[w] + G[w]
    BY <1>4
  <2>2. \A w \in Wallets : K[w] \in Int /\ G[w] = x * K[w]
    <3>1. \A w \in Wallets : stakers[w].staked \in Nat
      BY Typed DEF Static
    <3> QED BY <1>2, <3>1
  <2>3. totalStaked = SumFunctionOnSet(K, Wallets)
    BY DEF SumOf, Static
  <2>4. SumFunctionOnSet(H, Wallets) <= SumFunctionOnSet(F, Wallets) + PRECISION * q
    <3> HIDE DEF F, G, H, K
    <3>1. IsFiniteSet(Wallets)
      BY AccountsAssumption
    <3>2. SumFunctionOnSet(H, Wallets) = SumFunctionOnSet(F, Wallets) + SumFunctionOnSet(G, Wallets)
      BY <2>1, <3>1, SumOfSums
    <3>3. SumFunctionOnSet(G, Wallets) = x * totalStaked
      BY <1>2, <2>2, <2>3, <3>1, SumOfMultiples
    <3>4. SumFunctionOnSet(F, Wallets) \in Int
      BY <2>1, <3>1, SumType
    <3>5. x * totalStaked = totalStaked * x /\ PRECISION * q = q * PRECISION
          /\ totalStaked * x \in Int /\ q * PRECISION \in Int
      BY <1>1, <1>2
    <3> QED BY <1>2, <3>2, <3>3, <3>4, <3>5
  <2> QED BY <2>4 DEF SumOf
<1> QED
  BY <1>3, <1>5, <1>6

\* After a distribution the books are of their type.
LEMMA SharingTyped ==
    ASSUME Static, totalStaked > 0, NEW b \in BooksType, NEW a \in Assets, NEW q \in Nat
    PROVE  PerShare(q) \in Nat /\ Shared(b.edge, a, q) \in [Wallets -> [Assets -> Int]]
<1>1. totalStaked \in Nat \ {0} /\ PRECISION \in Nat /\ Scale \in Nat
  BY NumbersAssumption DEF Static, TypeOK
<1>2. PerShare(q) \in Nat
  <2>1. q * PRECISION \in Nat
    BY <1>1, ProductGrows
  <2> QED BY <1>1, <2>1, Quotient DEF PerShare
<1> DEFINE u == Scale \div totalStaked
<1>3. u \in Nat
  BY <1>1, Quotient
<1> HIDE DEF u
<1>4. \A w \in Wallets : (u * q) * stakers[w].staked \in Int
  <2> SUFFICES ASSUME NEW w \in Wallets PROVE (u * q) * stakers[w].staked \in Int
    OBVIOUS
  <2>1. u * q \in Nat /\ stakers[w].staked \in Nat
    BY <1>3, ProductGrows DEF Static, TypeOK, StakerType
  <2> QED BY <2>1, ProductGrows
<1>5. \A w \in Wallets :
        [b.edge[w] EXCEPT ![a] = @ - (u * q) * stakers[w].staked] \in [Assets -> Int]
  <2> SUFFICES ASSUME NEW w \in Wallets
               PROVE  [b.edge[w] EXCEPT ![a] = @ - (u * q) * stakers[w].staked] \in [Assets -> Int]
    OBVIOUS
  <2> DEFINE z == (u * q) * stakers[w].staked
  <2>1. z \in Int /\ b.edge[w] \in [Assets -> Int]
    BY <1>4 DEF BooksType
  <2> HIDE DEF z
  <2>2. [b.edge[w] EXCEPT ![a] = @ - z] \in [Assets -> Int]
    BY <2>1
  <2> QED BY <2>2 DEF z
<1> QED
  BY <1>2, <1>5 DEF Shared, u

\* The sums of the invariant are integers.
LEMMA SumsTyped ==
    ASSUME Static, NEW b \in BooksType, NEW a \in Assets,
           \A w \in Wallets, c \in Assets : WalletOK(b, w, c)
    PROVE  /\ SumOf([w \in Wallets |-> Excess(b, w, a)]) \in Nat
           /\ SumOf(syncs) \in Nat /\ Principal(a) \in Nat
           /\ balance[a] \in Nat /\ b.pool[a] \in Nat /\ PRECISION \in Nat \ {0}
<1>1. IsFiniteSet(Wallets)
  BY AccountsAssumption
<1>2. \A w \in Wallets : [v \in Wallets |-> Excess(b, v, a)][w] \in Nat
  <2> SUFFICES ASSUME NEW w \in Wallets PROVE Excess(b, w, a) \in Nat
    OBVIOUS
  <2>1. /\ stakers[w].staked \in Nat /\ b.acc[a] \in Nat /\ PRECISION \in Nat
        /\ stakers[w].debt[a] \in Nat
    BY Typed DEF BooksType, Static
  <2>2. stakers[w].staked * b.acc[a] \in Nat /\ PRECISION * stakers[w].debt[a] \in Nat
    BY <2>1, ProductGrows
  <2>3. Excess(b, w, a) >= 0
    BY DEF WalletOK
  <2> QED BY <2>2, <2>3 DEF Excess
<1>3. SumOf([w \in Wallets |-> Excess(b, w, a)]) \in Nat
  BY <1>1, <1>2, SumOfNaturals DEF SumOf
<1>4. \A w \in Wallets : syncs[w] \in Nat
  BY DEF Static, TypeOK
<1>5. SumOf(syncs) \in Nat
  BY <1>1, <1>4, SumOfNaturals DEF SumOf
<1>6. \A w \in Wallets : [v \in Wallets |-> stakers[v].staked + stakers[v].pending][w] \in Nat
  BY Typed DEF Static
<1>7. Principal(a) \in Nat
  <2>1. SumOf([v \in Wallets |-> stakers[v].staked + stakers[v].pending]) \in Nat
    BY <1>1, <1>6, SumOfNaturals DEF SumOf
  <2> QED BY <2>1 DEF Principal
<1> QED
  BY <1>3, <1>5, <1>7, NumbersAssumption DEF Static, TypeOK, BooksType

\* Less in the pool and no more excess leaves an asset in order.
LEMMA AssetStays ==
    ASSUME NEW P \in Nat, NEW bal \in Nat, NEW ys \in Nat, NEW pr \in Nat,
           NEW p \in Nat, NEW p2 \in Nat, NEW q \in Nat, p2 + q <= p,
           NEW X \in Int, NEW X2 \in Int, X2 <= X + P * q,
           P * (bal + ys) >= P * (pr + p) + X
    PROVE  P * (bal + ys) >= P * (pr + p2) + X2
<1>1. P * (pr + p2 + q) <= P * (pr + p)
  BY ProductGrows
<1>2. P * (pr + p2 + q) = P * (pr + p2) + P * q
  OBVIOUS
<1> QED
  BY <1>1, <1>2

\* _advanceEpoch's flush keeps the books in order, of INTEL and of ETH, whether
\* the pool is distributed, kept or dropped.
LEMMA FlushKeeps ==
    ASSUME Static, NEW b, BooksOK(b), NEW a \in Assets
    PROVE  BooksOK(Flush(b, a))
<1>1. /\ b \in BooksType /\ CapOK(b)
      /\ \A w \in Wallets, c \in Assets : WalletOK(b, w, c)
      /\ \A c \in Assets : AssetOK(b, c)
  BY DEF BooksOK
<1>2. CASE b.pool[a] = 0 \/ totalStaked = 0
  BY <1>2 DEF Flush
<1> DEFINE q == b.pool[a]
           sum == b.acc[a] + PerShare(q)
<1>3. q \in Nat
  BY <1>1 DEF BooksType
<1>4. ASSUME ~(b.pool[a] = 0 \/ totalStaked = 0), a = "eth" /\ sum > AccCap
      PROVE  BooksOK(Flush(b, a))
  <2> DEFINE b2 == [b EXCEPT !.pool = [@ EXCEPT ![a] = 0]]
  <2>1. Flush(b, a) = b2
    BY <1>4 DEF Flush
  <2>2. /\ b2 \in BooksType /\ b2.acc = b.acc /\ b2.edge = b.edge /\ b2.epoch = b.epoch
        /\ b2.pool[a] = 0 /\ \A c \in Assets \ {a} : b2.pool[c] = b.pool[c]
    BY <1>1 DEF BooksType
  <2> HIDE DEF b2
  <2>3. \A w \in Wallets, c \in Assets : WalletOK(b2, w, c) /\ Excess(b2, w, c) = Excess(b, w, c)
    BY <1>1, <2>2 DEF WalletOK, Excess
  <2>4. CapOK(b2)
    BY <1>1, <2>2 DEF CapOK
  <2>5. \A c \in Assets : AssetOK(b2, c)
    <3> SUFFICES ASSUME NEW c \in Assets PROVE AssetOK(b2, c)
      OBVIOUS
    <3>1. [w \in Wallets |-> Excess(b2, w, c)] = [w \in Wallets |-> Excess(b, w, c)]
      BY <2>3
    <3>2. AssetOK(b, c)
      BY <1>1
    <3>3. CASE c # a
      BY <2>2, <3>1, <3>2, <3>3 DEF AssetOK
    <3>4. CASE c = a
      <4> DEFINE X == SumOf([w \in Wallets |-> Excess(b, w, c)])
      <4>1. /\ X \in Nat /\ SumOf(syncs) \in Nat /\ Principal(c) \in Nat
            /\ balance[c] \in Nat /\ b.pool[c] \in Nat /\ PRECISION \in Nat
        BY <1>1, SumsTyped
      <4>2. PRECISION * (balance[c] + SumOf(syncs)) >= PRECISION * (Principal(c) + b.pool[c]) + X
        BY <3>2 DEF AssetOK
      <4>3. X <= X + PRECISION * 0 /\ X \in Int /\ 0 \in Nat /\ 0 + 0 <= b.pool[c]
        BY <4>1
      <4> HIDE DEF X
      <4>4. PRECISION * (balance[c] + SumOf(syncs)) >= PRECISION * (Principal(c) + 0) + X
        BY <4>1, <4>2, <4>3, AssetStays
      <4> QED BY <2>2, <3>1, <3>4, <4>4 DEF AssetOK, X
    <3> QED BY <3>3, <3>4
  <2> QED BY <2>1, <2>2, <2>3, <2>4, <2>5 DEF BooksOK
<1>5. ASSUME ~(b.pool[a] = 0 \/ totalStaked = 0), ~(a = "eth" /\ sum > AccCap)
      PROVE  BooksOK(Flush(b, a))
  <2> DEFINE b2 == [b EXCEPT !.acc = [@ EXCEPT ![a] = sum], !.pool = [@ EXCEPT ![a] = 0],
                             !.edge = Shared(b.edge, a, q)]
  <2>1. Flush(b, a) = b2
    BY <1>5 DEF Flush
  <2>2. totalStaked > 0
    BY <1>5 DEF Static, TypeOK
  <2>3. PerShare(q) \in Nat /\ Shared(b.edge, a, q) \in [Wallets -> [Assets -> Int]]
    <3> HIDE DEF q
    <3> QED BY <1>1, <1>3, <2>2, SharingTyped
  <2>4. sum \in Nat
    BY <1>1, <2>3 DEF BooksType
  <2>5. /\ b2 \in BooksType /\ b2.acc[a] = sum /\ b2.epoch = b.epoch
        /\ \A c \in Assets \ {a} : b2.acc[c] = b.acc[c] /\ b2.pool[c] = b.pool[c]
        /\ b2.pool[a] = 0 /\ b2.edge = Shared(b.edge, a, q)
    <3> DEFINE ed == Shared(b.edge, a, q)
    <3>1. ed \in [Wallets -> [Assets -> Int]]
      BY <2>3
    <3>2. b2 = [acc |-> [b.acc EXCEPT ![a] = sum], pool |-> [b.pool EXCEPT ![a] = 0],
                epoch |-> b.epoch, edge |-> ed]
      <4> HIDE DEF sum, q
      <4>1. /\ b = [acc |-> b.acc, pool |-> b.pool, epoch |-> b.epoch, edge |-> b.edge]
            /\ DOMAIN b = {"acc", "pool", "epoch", "edge"}
        BY <1>1 DEF BooksType
      <4>2. DOMAIN b2 = {"acc", "pool", "epoch", "edge"}
        BY <4>1
      <4>3. b2.acc = [b.acc EXCEPT ![a] = sum] /\ b2.pool = [b.pool EXCEPT ![a] = 0]
            /\ b2.epoch = b.epoch /\ b2.edge = ed
        BY <4>1
      <4>4. b2 = [i \in {"acc", "pool", "epoch", "edge"} |-> b2[i]]
        BY <4>2
      <4> HIDE DEF b2, ed
      <4> QED BY <4>3, <4>4
    <3>3. [b.acc EXCEPT ![a] = sum] \in [Assets -> Nat] /\ [b.pool EXCEPT ![a] = 0] \in [Assets -> Nat]
      BY <1>1, <2>4 DEF BooksType
    <3>4. [b.acc EXCEPT ![a] = sum][a] = sum /\ [b.pool EXCEPT ![a] = 0][a] = 0
      BY <1>1 DEF BooksType
    <3>5. \A c \in Assets \ {a} : /\ [b.acc EXCEPT ![a] = sum][c] = b.acc[c]
                                  /\ [b.pool EXCEPT ![a] = 0][c] = b.pool[c]
      BY <1>1 DEF BooksType
    <3> HIDE DEF sum, ed, b2
    <3>6. b2 \in BooksType
      BY <1>1, <3>1, <3>2, <3>3 DEF BooksType
    <3> QED BY <3>2, <3>4, <3>5, <3>6 DEF ed
  <2> HIDE DEF b2
  <2>6. Sharing(b, b2, a, q)
    BY <2>5 DEF Sharing
  <2>7. /\ \A w \in Wallets, c \in Assets : WalletOK(b2, w, c)
        /\ SumOf([w \in Wallets |-> Excess(b2, w, a)])
                <= SumOf([w \in Wallets |-> Excess(b, w, a)]) + PRECISION * q
        /\ \A w \in Wallets, c \in Assets \ {a} : Excess(b2, w, c) = Excess(b, w, c)
    <3> HIDE DEF q
    <3> QED BY <1>1, <1>3, <2>2, <2>5, <2>6, SharingKeeps
  <2>8. CapOK(b2)
    BY <1>1, <2>5 DEF CapOK
  <2>9. \A c \in Assets : AssetOK(b2, c)
    <3> SUFFICES ASSUME NEW c \in Assets PROVE AssetOK(b2, c)
      OBVIOUS
    <3>2. AssetOK(b, c)
      BY <1>1
    <3>3. CASE c # a
      <4>1. [w \in Wallets |-> Excess(b2, w, c)] = [w \in Wallets |-> Excess(b, w, c)]
        BY <2>7, <3>3
      <4> QED BY <2>5, <3>2, <3>3, <4>1 DEF AssetOK
    <3>4. CASE c = a
      <4> DEFINE X == SumOf([w \in Wallets |-> Excess(b, w, a)])
                 X2 == SumOf([w \in Wallets |-> Excess(b2, w, a)])
      <4>1. /\ X \in Nat /\ SumOf(syncs) \in Nat /\ Principal(a) \in Nat
            /\ balance[a] \in Nat /\ b.pool[a] \in Nat /\ PRECISION \in Nat
        BY <1>1, SumsTyped
      <4>2. X2 \in Nat
        BY <2>5, <2>7, SumsTyped
      <4>3. PRECISION * (balance[a] + SumOf(syncs)) >= PRECISION * (Principal(a) + b.pool[a]) + X
        BY <3>2, <3>4 DEF AssetOK
      <4>4. X2 <= X + PRECISION * q /\ X \in Int /\ X2 \in Int /\ 0 \in Nat /\ 0 + q <= b.pool[a]
        BY <1>3, <2>7, <4>1, <4>2
      <4> HIDE DEF X, X2, q
      <4>5. PRECISION * (balance[a] + SumOf(syncs)) >= PRECISION * (Principal(a) + 0) + X2
        BY <1>3, <4>1, <4>3, <4>4, AssetStays
      <4> QED BY <2>5, <3>4, <4>5 DEF AssetOK, X2
    <3> QED BY <3>3, <3>4
  <2> QED BY <2>1, <2>5, <2>7, <2>8, <2>9 DEF BooksOK
<1> QED
  BY <1>2, <1>4, <1>5

\* A new epoch starts with its whole cap, and nobody has used any of it.
LEMMA NextEpochKeeps ==
    ASSUME Static, NEW b, BooksOK(b)
    PROVE  BooksOK(NextEpoch(b))
<1> DEFINE b2 == NextEpoch(b)
<1>1. /\ b \in BooksType /\ CapOK(b)
      /\ \A w \in Wallets, c \in Assets : WalletOK(b, w, c)
      /\ \A c \in Assets : AssetOK(b, c)
  BY DEF BooksOK
<1>2. params \in ParamType /\ now \in Nat /\ b.epoch \in EpochType
  BY <1>1 DEF Static, TypeOK, BooksType
<1>3. /\ b2.acc = b.acc /\ b2.pool = b.pool /\ b2.edge = b.edge
      /\ b2.epoch = [n |-> b.epoch.n + 1, start |-> now, capLeft |-> params.epochCap,
                     cap |-> params.epochCap, lifted |-> params.epochCap = 0]
      /\ b2 \in BooksType
  <2>1. [n |-> b.epoch.n + 1, start |-> now, capLeft |-> params.epochCap,
         cap |-> params.epochCap, lifted |-> params.epochCap = 0] \in EpochType
    BY <1>2 DEF EpochType, ParamType
  <2> QED BY <1>1, <2>1 DEF NextEpoch, BooksType
<1> HIDE DEF b2
<1>4. \A w \in Wallets, c \in Assets : WalletOK(b2, w, c) /\ Excess(b2, w, c) = Excess(b, w, c)
  BY <1>1, <1>3 DEF WalletOK, Excess
<1>5. \A c \in Assets : AssetOK(b2, c)
  BY <1>1, <1>3, <1>4 DEF AssetOK
<1>6. CapOK(b2)
  <2>1. \A w \in Wallets : stakers[w].lastEpoch \in Nat /\ stakers[w].lastEpoch <= b.epoch.n
    BY <1>1 DEF CapOK, Static, TypeOK, StakerType
  <2>2. b2.epoch.n = b.epoch.n + 1 /\ b.epoch.n \in Nat
    BY <1>2, <1>3 DEF EpochType
  <2>3. \A w \in Wallets : stakers[w].lastEpoch <= b2.epoch.n /\ stakers[w].lastEpoch # b2.epoch.n
    BY <2>1, <2>2
  <2>4. SumOf([w \in Wallets |-> UsedIn(b2.epoch.n, w)]) = 0
    <3>1. \A w \in Wallets : [v \in Wallets |-> UsedIn(b2.epoch.n, v)][w] = 0
      BY <2>3 DEF UsedIn
    <3> QED BY <3>1, AccountsAssumption, SumOfZeros DEF SumOf
  <2>5. params.epochCap \in Nat
    BY <1>2 DEF ParamType
  <2>6. b2.epoch.capLeft = params.epochCap /\ b2.epoch.cap = params.epochCap
        /\ b2.epoch.lifted = (params.epochCap = 0)
    BY <1>3
  <2>7. ASSUME ~b2.epoch.lifted PROVE params.epochCap > 0
    <3>1. params.epochCap # 0
      BY <2>6, <2>7
    <3> QED BY <2>5, <3>1
  <2>8. SumOf([w \in Wallets |-> UsedIn(b2.epoch.n, w)]) + b2.epoch.capLeft = b2.epoch.cap
    BY <2>4, <2>5, <2>6
  <2> QED BY <2>3, <2>7, <2>8 DEF CapOK
<1> QED
  BY <1>3, <1>4, <1>5, <1>6 DEF BooksOK, b2

\* The books a call starts from are in order.
LEMMA CurrentKeeps ==
    ASSUME StakingInv
    PROVE  BooksOK(Advanced) /\ BooksOK(Current)
<1>1. Static /\ BooksOK(Books)
  BY DEF StakingInv
<1>2. "intel" \in Assets /\ "eth" \in Assets
  BY DEF Assets
<1>3. BooksOK(Flush(Books, "intel"))
  BY <1>1, <1>2, FlushKeeps
<1>4. BooksOK(Flush(Flush(Books, "intel"), "eth"))
  BY <1>1, <1>2, <1>3, FlushKeeps
<1>5. BooksOK(Advanced)
  BY <1>1, <1>4, NextEpochKeeps DEF Advanced
<1> QED
  BY <1>1, <1>5 DEF Current

-----------------------------------------------------------------------------
(* Settlement *)

\* What is due to a wallet is not negative, and setting its debt anew leaves less
\* than one unit of excess.
LEMMA Dues ==
    ASSUME NEW P \in Nat \ {0}, NEW x \in Nat, NEW d \in Nat, P * d <= x
    PROVE  /\ x \div P \in Nat /\ x \div P - d \in Nat
           /\ P * (x \div P - d) <= x - P * d
           /\ x - P * (x \div P) \in Nat /\ x - P * (x \div P) <= P
<1> DEFINE z == x \div P
<1>1. z \in Nat /\ P * z <= x /\ x - P * z <= P
  OBVIOUS
<1>2. P * z \in Nat /\ P * d \in Nat
  BY <1>1, ProductGrows
<1> HIDE DEF z
<1>3. d <= z
  <2> SUFFICES ASSUME z + 1 <= d PROVE FALSE
    BY <1>1
  <2>1. z + 1 \in Nat /\ P * (z + 1) <= P * d
    BY <1>1, ProductGrows
  <2>2. P * (z + 1) = P * z + P
    BY <1>1
  <2>3. x < P * z + P
    BY <1>1 DEF z
  <2> QED BY <1>1, <1>2, <2>1, <2>2, <2>3
<1>4. P * (z - d) = P * z - P * d
  BY <1>1
<1> QED
  BY <1>1, <1>2, <1>3, <1>4 DEF z

\* A wallet that is paid its due and whose debt is set anew is at most one unit
\* further ahead.
LEMMA SyncWallet ==
    ASSUME NEW P \in Nat \ {0}, NEW S \in Nat, NEW y \in Nat, NEW e \in Int,
           NEW X \in Nat, NEW due \in Nat, P * due <= X, NEW X2 \in Nat, X2 <= P,
           P * e + S * X <= P * (S * y)
    PROVE  P * (e + S * due) + S * X2 <= P * (S * (y + 1))
<1>1. S * (P * due) <= S * X /\ P * due \in Nat
  BY ProductGrows
<1>2. S * X2 <= S * P
  BY ProductGrows
<1>3. P * (e + S * due) = P * e + S * (P * due)
  OBVIOUS
<1>4. P * (S * (y + 1)) = P * (S * y) + S * P
  OBVIOUS
<1> QED
  BY <1>1, <1>2, <1>3, <1>4

\* Paid its due, its debt where it then stands, a wallet is as far as it was.
LEMMA ClaimWallet ==
    ASSUME NEW P \in Nat, NEW S \in Nat, NEW y \in Int, NEW e \in Int,
           NEW X \in Int, NEW due \in Nat, P * e + S * X <= y
    PROVE  P * (e + S * due) + S * (X - P * due) <= y
<1>1. P * (e + S * due) = P * e + S * (P * due)
  OBVIOUS
<1>2. S * (X - P * due) = S * X - S * (P * due)
  OBVIOUS
<1>3. P * e \in Int /\ S * X \in Int /\ S * (P * due) \in Int
  OBVIOUS
<1> QED
  BY <1>1, <1>2, <1>3

\* The contract pays no more than the excess it sheds.
LEMMA PaidFromExcess ==
    ASSUME NEW P \in Nat, NEW bal \in Int, NEW ys \in Int, NEW pr \in Int, NEW p \in Int,
           NEW X \in Int, NEW bal2 \in Int, NEW ys2 \in Int, NEW pr2 \in Int, NEW X2 \in Int,
           NEW due \in Int, NEW more \in Int, NEW dust \in Int,
           bal2 = bal - due + more, pr2 = pr + more, ys2 = ys + dust,
           X2 <= X - P * due + P * dust,
           P * (bal + ys) >= P * (pr + p) + X
    PROVE  P * (bal2 + ys2) >= P * (pr2 + p) + X2
<1>1. P * (bal2 + ys2) = P * (bal + ys) - P * due + P * more + P * dust
  <2>1. bal2 + ys2 = (bal + ys) - due + more + dust
    OBVIOUS
  <2> QED BY <2>1
<1>2. P * (pr2 + p) = P * (pr + p) + P * more
  <2>1. pr2 + p = (pr + p) + more
    OBVIOUS
  <2> QED BY <2>1
<1>3. /\ P * (bal + ys) \in Int /\ P * (pr + p) \in Int /\ P * due \in Int
      /\ P * more \in Int /\ P * dust \in Int
  OBVIOUS
<1> QED
  BY <1>1, <1>2, <1>3

\* What a claim comes to, over books in order.
LEMMA ClaimIsDue ==
    ASSUME Static, NEW b, BooksOK(b), NEW w \in Wallets, NEW a \in Assets
    PROVE  /\ Accrued(b, w, a) \in Nat
           /\ Claim(b, w, a) = Accrued(b, w, a) - stakers[w].debt[a]
           /\ Claim(b, w, a) \in Nat
           /\ Excess(b, w, a) \in Nat
           /\ PRECISION * Claim(b, w, a) <= Excess(b, w, a)
           /\ stakers[w].staked * b.acc[a] - PRECISION * Accrued(b, w, a)
                = Excess(b, w, a) - PRECISION * Claim(b, w, a)
<1> DEFINE x == stakers[w].staked * b.acc[a]
           d == stakers[w].debt[a]
<1>1. x \in Nat /\ d \in Nat /\ PRECISION \in Nat \ {0}
  <2>1. stakers[w].staked \in Nat /\ b.acc[a] \in Nat
    BY Typed DEF BooksOK, BooksType, Static
  <2> QED BY <2>1, ProductGrows, Typed DEF Static
<1>2. Excess(b, w, a) = x - PRECISION * d /\ Excess(b, w, a) >= 0
  BY DEF BooksOK, WalletOK, Excess
<1>3. Accrued(b, w, a) = x \div PRECISION
  BY DEF Accrued
<1> HIDE DEF x, d
<1>4. PRECISION * d <= x /\ PRECISION * d \in Nat
  <2>1. PRECISION * d \in Nat
    BY <1>1, ProductGrows
  <2> QED BY <1>1, <1>2, <2>1
<1>5. /\ x \div PRECISION \in Nat /\ x \div PRECISION - d \in Nat
      /\ PRECISION * (x \div PRECISION - d) <= x - PRECISION * d
  BY <1>1, <1>4, Dues
<1>6. Claim(b, w, a) = Accrued(b, w, a) - d
  BY <1>3, <1>5 DEF Claim, d
<1>7. x - PRECISION * (x \div PRECISION) = x - PRECISION * d - PRECISION * (x \div PRECISION - d)
  <2>1. PRECISION * (x \div PRECISION - d) = PRECISION * (x \div PRECISION) - PRECISION * d
    BY <1>1, <1>5
  <2> QED BY <1>1, <1>4, <1>5, <2>1
<1>8. Excess(b, w, a) \in Nat
  BY <1>1, <1>2, <1>4
<1> QED
  BY <1>1, <1>2, <1>3, <1>5, <1>6, <1>7, <1>8 DEF x, d

\* A change of one wallet's stake and pending amounts, and of the principal by it.
StakeMoves(w) ==
    /\ stakers' \in [Wallets -> StakerType]
    /\ \A v \in Wallets \ {w} : stakers'[v] = stakers[v]
    /\ stakers'[w].used = stakers[w].used /\ stakers'[w].lastEpoch = stakers[w].lastEpoch

\* what the step adds to w's part of the principal
Added(w) == stakers'[w].staked + stakers'[w].pending - stakers[w].staked - stakers[w].pending

\* The principal changes by what is added.
LEMMA PrincipalMoves ==
    ASSUME TypeOK, NEW w \in Wallets, StakeMoves(w), NEW a \in Assets
    PROVE  /\ Added(w) \in Int
           /\ Principal(a)' = Principal(a) + IF a = "intel" THEN Added(w) ELSE 0
<1> DEFINE F == [v \in Wallets |-> stakers[v].staked + stakers[v].pending]
           G == [v \in Wallets |-> stakers'[v].staked + stakers'[v].pending]
<1>1. /\ \A v \in Wallets : F[v] \in Int /\ G[v] \in Int
      /\ \A v \in Wallets \ {w} : G[v] = F[v]
      /\ G[w] - F[w] = Added(w) /\ Added(w) \in Int
  <2>1. \A v \in Wallets : stakers[v].staked \in Nat /\ stakers[v].pending \in Nat
    BY Typed
  <2>2. \A v \in Wallets : stakers'[v].staked \in Nat /\ stakers'[v].pending \in Nat
    BY DEF StakeMoves, StakerType
  <2> QED BY <2>1, <2>2 DEF StakeMoves, Added
<1>2. Principal(a) = IF a = "intel" THEN SumFunctionOnSet(F, Wallets) ELSE 0
  BY DEF Principal, SumOf
<1>3. Principal(a)' = IF a = "intel" THEN SumFunctionOnSet(G, Wallets) ELSE 0
  BY DEF Principal, SumOf
<1> HIDE DEF F, G
<1>4. SumFunctionOnSet(G, Wallets) = SumFunctionOnSet(F, Wallets) - F[w] + G[w]
      /\ SumFunctionOnSet(F, Wallets) \in Int
  BY <1>1, AccountsAssumption, SumOfOneChange, SumType
<1> QED
  BY <1>1, <1>2, <1>3, <1>4

\* A step of one wallet changes one term of the sum of excess.
LEMMA ExcessMoves ==
    ASSUME NEW w \in Wallets, NEW a \in Assets, NEW b,
           \A v \in Wallets : Excess(b, v, a) \in Int /\ Excess(Books, v, a)' \in Int,
           \A v \in Wallets \ {w} : Excess(Books, v, a)' = Excess(b, v, a)
    PROVE  /\ SumOf([v \in Wallets |-> Excess(Books, v, a)])'
                = SumOf([v \in Wallets |-> Excess(b, v, a)]) - Excess(b, w, a) + Excess(Books, w, a)'
           /\ SumOf([v \in Wallets |-> Excess(b, v, a)]) \in Int
<1> DEFINE F == [v \in Wallets |-> Excess(b, v, a)]
           G == [v \in Wallets |-> Excess(Books, v, a)']
<1>1. /\ \A v \in Wallets : F[v] \in Int /\ G[v] \in Int
      /\ \A v \in Wallets \ {w} : G[v] = F[v]
      /\ F[w] = Excess(b, w, a) /\ G[w] = Excess(Books, w, a)'
  OBVIOUS
<1>2. SumFunctionOnSet(G, Wallets) = SumFunctionOnSet(F, Wallets) - F[w] + G[w]
      /\ SumFunctionOnSet(F, Wallets) \in Int
  <2> HIDE DEF F, G
  <2> QED BY <1>1, AccountsAssumption, SumOfOneChange, SumType
<1> QED
  BY <1>1, <1>2 DEF SumOf

\* What a settlement of w for amount due of each asset does to the books.
LEMMA BooksAfter ==
    ASSUME Static, NEW b, BooksOK(b), NEW w \in Wallets,
           acc' = b.acc, pool' = b.pool, epoch' = b.epoch,
           edge' \in [Wallets -> [Assets -> Int]],
           \A v \in Wallets \ {w} : edge'[v] = b.edge[v]
    PROVE  /\ Books' \in BooksType
           /\ Books'.acc = b.acc /\ Books'.pool = b.pool /\ Books'.epoch = b.epoch
           /\ Books'.edge = edge'
<1>1. Books' = [acc |-> b.acc, pool |-> b.pool, epoch |-> b.epoch, edge |-> edge']
  BY DEF Books
<1>2. b.acc \in [Assets -> Nat] /\ b.pool \in [Assets -> Nat] /\ b.epoch \in EpochType
  BY DEF BooksOK, BooksType
<1> QED
  BY <1>1, <1>2 DEF BooksType

\* One more setting of a debt adds one to their number.
LEMMA SyncsGrow ==
    ASSUME TypeOK, NEW w \in Wallets, syncs' = [syncs EXCEPT ![w] = @ + 1]
    PROVE  SumOf(syncs)' = SumOf(syncs) + 1
<1> DEFINE G == syncs'
<1>1. \A v \in Wallets : syncs[v] \in Int /\ G[v] \in Int
  BY DEF TypeOK
<1>2. \A v \in Wallets \ {w} : G[v] = syncs[v]
  BY DEF TypeOK
<1>3. G[w] = syncs[w] + 1
  BY DEF TypeOK
<1>4. SumOf(syncs)' = SumFunctionOnSet(G, Wallets)
  BY DEF SumOf
<1> HIDE DEF G
<1>5. SumFunctionOnSet(G, Wallets) = SumFunctionOnSet(syncs, Wallets) - syncs[w] + G[w]
  BY <1>1, <1>2, AccountsAssumption, SumOfOneChange
<1>6. SumFunctionOnSet(syncs, Wallets) \in Int
  BY <1>1, AccountsAssumption, SumType
<1> QED
  BY <1>1, <1>3, <1>4, <1>5, <1>6 DEF SumOf

\* A wallet that is paid and whose debts are set anew, whatever its stake becomes.
LEMMA SyncKeeps ==
    ASSUME Static, NEW b, BooksOK(b), NEW w \in Wallets, StakeMoves(w), SettleBoth(b, w),
           stakers'[w].debt = DebtsAt(b, stakers'[w].staked),
           \A a \in Assets : balance'[a] = balance[a] - Claim(b, w, a)
                                           + IF a = "intel" THEN Added(w) ELSE 0,
           syncs' = [syncs EXCEPT ![w] = @ + 1], params' = params
    PROVE  BooksOK(Books)'
<1>1. /\ b \in BooksType /\ CapOK(b) /\ TypeOK
      /\ \A v \in Wallets, c \in Assets : WalletOK(b, v, c)
      /\ \A c \in Assets : AssetOK(b, c)
  BY DEF BooksOK, Static
<1>2. \A a \in Assets : Claim(b, w, a) \in Nat
  BY ClaimIsDue
<1>3. /\ acc' = b.acc /\ pool' = b.pool /\ epoch' = b.epoch
      /\ edge' = Paid(Paid(b.edge, w, "intel", Claim(b, w, "intel")), w, "eth", Claim(b, w, "eth"))
  BY <1>1 DEF SettleBoth, SetBooks, BooksType
<1>4. /\ edge' \in [Wallets -> [Assets -> Int]]
      /\ \A v \in Wallets \ {w} : edge'[v] = b.edge[v]
      /\ \A a \in Assets : edge'[w][a] = b.edge[w][a] + Scale * Claim(b, w, a)
  <2> DEFINE i == Scale * Claim(b, w, "intel")
             e == Scale * Claim(b, w, "eth")
  <2>1. i \in Int /\ e \in Int
    <3>1. Claim(b, w, "intel") \in Nat /\ Claim(b, w, "eth") \in Nat /\ Scale \in Nat
      BY <1>2, NumbersAssumption DEF Assets
    <3> QED BY <3>1, ProductGrows
  <2>2. b.edge \in [Wallets -> [{"intel", "eth"} -> Int]]
    BY <1>1 DEF BooksType, Assets
  <2>3. edge' = [[b.edge EXCEPT ![w]["intel"] = @ + i] EXCEPT ![w]["eth"] = @ + e]
    BY <1>3 DEF Paid
  <2>4. \A a \in Assets : Scale * Claim(b, w, a) = IF a = "intel" THEN i ELSE e
    BY DEF Assets
  <2> HIDE DEF i, e
  <2>5. /\ edge' \in [Wallets -> [{"intel", "eth"} -> Int]]
        /\ \A v \in Wallets \ {w} : edge'[v] = b.edge[v]
        /\ edge'[w]["intel"] = b.edge[w]["intel"] + i
        /\ edge'[w]["eth"] = b.edge[w]["eth"] + e
    BY <2>1, <2>2, <2>3
  <2> QED BY <2>4, <2>5 DEF Assets
<1>5. /\ Books' \in BooksType
      /\ Books'.acc = b.acc /\ Books'.pool = b.pool /\ Books'.epoch = b.epoch
      /\ Books'.edge = edge'
  BY <1>3, <1>4, BooksAfter
<1>6. \A v \in Wallets \ {w}, a \in Assets :
        /\ Excess(Books, v, a)' = Excess(b, v, a)
        /\ WalletOK(Books, v, a)'
  <2> SUFFICES ASSUME NEW v \in Wallets \ {w}, NEW a \in Assets
               PROVE  /\ Excess(Books, v, a)' = Excess(b, v, a)
                      /\ WalletOK(Books, v, a)'
    OBVIOUS
  <2>1. stakers'[v] = stakers[v] /\ syncs'[v] = syncs[v] /\ WalletOK(b, v, a)
    BY <1>1 DEF StakeMoves, TypeOK
  <2>2. Excess(Books, v, a)' = Excess(b, v, a)
    BY <1>5, <2>1 DEF Excess
  <2> QED BY <1>4, <1>5, <2>1, <2>2 DEF WalletOK
<1>7. \A a \in Assets :
        /\ Excess(Books, w, a)' \in Nat /\ Excess(Books, w, a)' <= PRECISION
        /\ WalletOK(Books, w, a)'
  <2> SUFFICES ASSUME NEW a \in Assets
               PROVE  /\ Excess(Books, w, a)' \in Nat /\ Excess(Books, w, a)' <= PRECISION
                      /\ WalletOK(Books, w, a)'
    OBVIOUS
  <2> DEFINE x == stakers'[w].staked * b.acc[a]
             X == Excess(b, w, a)
             X2 == Excess(Books, w, a)'
             due == Claim(b, w, a)
             e == b.edge[w][a]
             y == syncs[w]
  <2>1. /\ x \in Nat /\ e \in Int /\ y \in Nat /\ PRECISION \in Nat \ {0} /\ Scale \in Nat
    <3>1. stakers'[w].staked \in Nat /\ b.acc[a] \in Nat
      BY <1>1 DEF StakeMoves, StakerType, BooksType
    <3>2. e \in Int /\ y \in Nat
      BY <1>1 DEF BooksType, TypeOK
    <3> QED BY <3>1, <3>2, ProductGrows, NumbersAssumption
  <2>2. stakers'[w].debt[a] = x \div PRECISION
    BY DEF DebtsAt
  <2>3. X2 = x - PRECISION * (x \div PRECISION)
    BY <1>5, <2>2 DEF Excess
  <2>4. X2 \in Nat /\ X2 <= PRECISION
    <3> HIDE DEF x, X2
    <3>1. PRECISION * 0 <= x /\ 0 \in Nat
      BY <2>1
    <3> QED BY <2>1, <2>3, <3>1, Dues
  <2>5. X \in Nat /\ due \in Nat /\ PRECISION * due <= X
    BY ClaimIsDue
  <2>6. PRECISION * e + Scale * X <= PRECISION * (Scale * y)
    BY <1>1 DEF WalletOK
  <2>7. edge'[w][a] = e + Scale * due /\ syncs'[w] = y + 1
    BY <1>1, <1>4 DEF TypeOK
  <2>8. WalletOK(Books, w, a)' <=>
          /\ X2 >= 0
          /\ PRECISION * (e + Scale * due) + Scale * X2 <= PRECISION * (Scale * (y + 1))
    BY <1>5, <2>7 DEF WalletOK
  <2> HIDE DEF x, X, X2, due, e, y
  <2>9. PRECISION * (e + Scale * due) + Scale * X2 <= PRECISION * (Scale * (y + 1))
    BY <2>1, <2>4, <2>5, <2>6, SyncWallet
  <2>10. WalletOK(Books, w, a)'
    BY <2>4, <2>8, <2>9
  <2> QED BY <2>4, <2>10 DEF X2
<1>8. \A a \in Assets : AssetOK(Books, a)'
  <2> SUFFICES ASSUME NEW a \in Assets PROVE AssetOK(Books, a)'
    OBVIOUS
  <2> DEFINE X == SumOf([v \in Wallets |-> Excess(b, v, a)])
             X2 == SumOf([v \in Wallets |-> Excess(Books, v, a)])'
             more == IF a = "intel" THEN Added(w) ELSE 0
             due == Claim(b, w, a)
             ys == SumOf(syncs)
             ys2 == SumOf(syncs)'
             x == Excess(b, w, a)
             x2 == Excess(Books, w, a)'
  <2>1. /\ X \in Nat /\ ys \in Nat /\ Principal(a) \in Nat
        /\ balance[a] \in Nat /\ b.pool[a] \in Nat /\ PRECISION \in Nat \ {0}
    BY <1>1, SumsTyped
  <2>2. /\ X2 = X - x + x2 /\ X \in Int
    <3>1. \A v \in Wallets : Excess(b, v, a) \in Int
      BY ClaimIsDue
    <3>2. \A v \in Wallets : Excess(Books, v, a)' \in Int
      BY <1>6, <1>7, <3>1
    <3>3. \A v \in Wallets \ {w} : Excess(Books, v, a)' = Excess(b, v, a)
      BY <1>6
    <3> QED BY <3>1, <3>2, <3>3, ExcessMoves
  <2>3. /\ x \in Nat /\ due \in Nat /\ PRECISION * due <= x
        /\ x2 \in Nat /\ x2 <= PRECISION
    BY <1>7, ClaimIsDue
  <2>4. ys2 = ys + 1
    BY <1>1, SyncsGrow
  <2>5. more \in Int /\ Principal(a)' = Principal(a) + more
    BY <1>1, PrincipalMoves
  <2>6. balance'[a] = balance[a] - due + more
    OBVIOUS
  <2>7. PRECISION * (balance[a] + ys) >= PRECISION * (Principal(a) + b.pool[a]) + X
    BY <1>1 DEF AssetOK
  <2>8. AssetOK(Books, a)' <=>
          PRECISION * (balance'[a] + ys2) >= PRECISION * (Principal(a)' + b.pool[a]) + X2
    BY <1>5 DEF AssetOK
  <2> HIDE DEF X, X2, more, due, ys, ys2, x, x2
  <2>9. X2 <= X - PRECISION * due + PRECISION * 1 /\ X2 \in Int
    BY <2>1, <2>2, <2>3
  <2>10. /\ balance[a] \in Int /\ ys \in Int /\ Principal(a) \in Int /\ b.pool[a] \in Int
         /\ due \in Int /\ 1 \in Int /\ balance'[a] \in Int /\ ys2 \in Int /\ Principal(a)' \in Int
         /\ PRECISION \in Nat
    BY <2>1, <2>3, <2>4, <2>5, <2>6
  <2>11. PRECISION * (balance'[a] + ys2) >= PRECISION * (Principal(a)' + b.pool[a]) + X2
    BY <2>2, <2>4, <2>5, <2>6, <2>7, <2>9, <2>10, PaidFromExcess
  <2> QED BY <2>8, <2>11
<1>9. CapOK(Books)'
  <2>1. \A v \in Wallets : stakers'[v].used = stakers[v].used /\ stakers'[v].lastEpoch = stakers[v].lastEpoch
    BY DEF StakeMoves
  <2>2. [v \in Wallets |-> UsedIn(b.epoch.n, v)'] = [v \in Wallets |-> UsedIn(b.epoch.n, v)]
    BY <2>1 DEF UsedIn
  <2>3. Books'.epoch = b.epoch
    BY <1>5
  <2>4. [v \in Wallets |-> UsedIn(Books.epoch.n, v)]' = [v \in Wallets |-> UsedIn(b.epoch.n, v)]
    BY <2>1, <2>3 DEF UsedIn
  <2> QED BY <1>1, <2>1, <2>3, <2>4 DEF CapOK
<1> QED
  BY <1>5, <1>6, <1>7, <1>8, <1>9 DEF BooksOK

-----------------------------------------------------------------------------
(* Staking and unstaking *)

\* The total staked moves with the stake of one wallet.
LEMMA TotalMoves ==
    ASSUME Static, NEW w \in Wallets, StakeMoves(w)
    PROVE  /\ SumOf([v \in Wallets |-> stakers[v].staked])'
                = totalStaked - stakers[w].staked + stakers'[w].staked
           /\ stakers[w].staked <= totalStaked
<1> DEFINE F == [v \in Wallets |-> stakers[v].staked]
           G == [v \in Wallets |-> stakers'[v].staked]
<1>1. /\ \A v \in Wallets : F[v] \in Nat /\ G[v] \in Nat
      /\ \A v \in Wallets \ {w} : G[v] = F[v]
      /\ G[w] = stakers'[w].staked /\ F[w] = stakers[w].staked
  <2>1. TypeOK /\ "intel" \in Assets
    BY DEF Static, Assets
  <2>2. \A v \in Wallets : stakers[v].staked \in Nat
    BY <2>1, Typed
  <2>3. \A v \in Wallets : stakers'[v].staked \in Nat
    BY DEF StakeMoves, StakerType
  <2> QED BY <2>2, <2>3 DEF StakeMoves
<1>2. totalStaked = SumFunctionOnSet(F, Wallets)
  BY DEF Static, SumOf
<1>3. SumOf([v \in Wallets |-> stakers[v].staked])' = SumFunctionOnSet(G, Wallets)
  BY DEF SumOf
<1> HIDE DEF F, G
<1>4. SumFunctionOnSet(G, Wallets) = SumFunctionOnSet(F, Wallets) - F[w] + G[w]
  <2>1. \A v \in Wallets : F[v] \in Int /\ G[v] \in Int
    BY <1>1
  <2> QED BY <1>1, <2>1, AccountsAssumption, SumOfOneChange
<1>5. SumFunctionOnSet(F, Wallets) >= F[w]
  BY <1>1, AccountsAssumption, SumOfNaturals
<1>6. SumFunctionOnSet(F, Wallets) \in Nat
  BY <1>1, AccountsAssumption, SumOfNaturals
<1> QED
  BY <1>1, <1>2, <1>3, <1>4, <1>5, <1>6

\* Debts set anew are natural numbers.
LEMMA DebtsTyped ==
    ASSUME NEW b \in BooksType, NEW s \in Nat
    PROVE  DebtsAt(b, s) \in [Assets -> Nat]
<1> SUFFICES ASSUME NEW a \in Assets PROVE (s * b.acc[a]) \div PRECISION \in Nat
  BY DEF DebtsAt
<1>1. s * b.acc[a] \in Nat /\ PRECISION \in Nat \ {0}
  BY ProductGrows, NumbersAssumption DEF BooksType
<1> QED
  BY <1>1, Quotient

\* A synced step keeps the types of what it moves.
LEMMA SyncTyped ==
    ASSUME Static, NEW b, BooksOK(b), NEW w \in Wallets, StakeMoves(w), SettleBoth(b, w),
           \A a \in Assets : balance'[a] = balance[a] - Claim(b, w, a)
                                           + IF a = "intel" THEN Added(w) ELSE 0,
           Added(w) \in Nat, balance' = [a \in Assets |-> balance'[a]],
           BooksOK(Books)', syncs' = [syncs EXCEPT ![w] = @ + 1],
           UNCHANGED <<params, govern, now, adminCalls, deposits>>,
           totalStaked' \in Nat, locked' \in [Wallets -> Nat]
    PROVE  TypeOK'
<1>1. balance' \in [Assets -> Nat]
  <2> SUFFICES ASSUME NEW a \in Assets PROVE balance'[a] \in Nat
    OBVIOUS
  <2>1. balance[a] >= Claim(b, w, a) /\ Claim(b, w, a) \in Nat /\ balance[a] \in Nat
    BY ClaimIsDue DEF SettleBoth, Static, TypeOK
  <2> QED BY <2>1
<1>2. /\ acc' \in [Assets -> Nat] /\ pool' \in [Assets -> Nat]
      /\ epoch' \in [n : Nat, start : Nat, capLeft : Nat, cap : Nat, lifted : BOOLEAN]
      /\ edge' \in [Wallets -> [Assets -> Int]]
  BY DEF BooksOK, BooksType, Books, EpochType
<1>3. syncs' \in [Wallets -> Nat]
  BY DEF Static, TypeOK
<1> QED
  BY <1>1, <1>2, <1>3 DEF Static, TypeOK, StakeMoves, govern

\* A wallet stakes.
LEMMA StakeKeeps ==
    ASSUME StakingInv, NEW w \in Wallets, NEW amount \in Nat, Stake(w, amount)
    PROVE  StakingInv'
<1> DEFINE b == Current
           s == stakers[w]
           new == amount + IF s.newStakeEpoch = b.epoch.n THEN s.newStake ELSE 0
           t == [s EXCEPT !.staked = s.staked + amount,
                          !.debt = DebtsAt(b, s.staked + amount),
                          !.newStake = new,
                          !.newStakeEpoch = b.epoch.n,
                          !.bonusAt = now + BonusDelay]
<1>1. Static /\ BooksOK(b) /\ b \in BooksType /\ TypeOK
  BY CurrentKeeps DEF StakingInv, BooksOK, Static
<1>2. /\ SettleBoth(b, w)
      /\ totalStaked + amount <= MaxStaked
      /\ balance' = [a \in Assets |-> balance[a] - Claim(b, w, a) + IF a = "intel" THEN amount ELSE 0]
      /\ totalStaked' = totalStaked + amount
      /\ syncs' = [syncs EXCEPT ![w] = @ + 1]
      /\ UNCHANGED <<params, govern, now, adminCalls, deposits, locked>>
  BY DEF Stake
<1>3. stakers \in [Wallets -> StakerType] /\ s \in StakerType
  BY <1>1 DEF TypeOK
<1>4. stakers' = [stakers EXCEPT ![w] = t]
  BY <1>3 DEF Stake, StakerType
<1>5. /\ s.staked + amount \in Nat /\ DebtsAt(b, s.staked + amount) \in [Assets -> Nat]
      /\ new \in Nat /\ b.epoch.n \in Nat /\ now + BonusDelay \in Nat
  <2>1. s.staked \in Nat /\ s.newStake \in Nat /\ now \in Nat /\ b.epoch.n \in Nat /\ BonusDelay \in Nat
    BY <1>1, <1>3, NumbersAssumption DEF TypeOK, StakerType, BooksType, EpochType
  <2>2. s.staked + amount \in Nat /\ new \in Nat /\ now + BonusDelay \in Nat
    BY <2>1
  <2> HIDE DEF b
  <2> QED BY <1>1, <2>1, <2>2, DebtsTyped
<1> HIDE DEF b, new
<1>6. /\ t \in StakerType /\ t.staked = s.staked + amount /\ t.pending = s.pending
      /\ t.availableAt = s.availableAt /\ t.debt = DebtsAt(b, t.staked)
      /\ t.used = s.used /\ t.lastEpoch = s.lastEpoch
  BY <1>3, <1>5 DEF StakerType
<1> HIDE DEF t
<1>7. stakers'[w] = t /\ StakeMoves(w)
  BY <1>3, <1>4, <1>6 DEF StakeMoves
<1>8. Added(w) = amount
  <2>1. s.staked \in Nat /\ s.pending \in Nat
    BY <1>3 DEF StakerType
  <2> QED BY <1>6, <1>7, <2>1 DEF Added
<1>9. /\ \A a \in Assets : balance'[a] = balance[a] - Claim(b, w, a)
                                           + IF a = "intel" THEN Added(w) ELSE 0
      /\ balance' = [a \in Assets |-> balance'[a]]
  BY <1>2, <1>8
<1>10. stakers'[w].debt = DebtsAt(b, stakers'[w].staked)
  BY <1>6, <1>7
<1>11. BooksOK(Books)'
  BY <1>1, <1>2, <1>7, <1>9, <1>10, SyncKeeps
<1>12. totalStaked' \in Nat /\ locked' \in [Wallets -> Nat] /\ totalStaked' <= MaxStaked
  BY <1>1, <1>2 DEF TypeOK
<1>13. TypeOK'
  <2>1. Added(w) \in Nat
    BY <1>8
  <2> QED BY <1>1, <1>2, <1>7, <1>9, <1>11, <1>12, <2>1, SyncTyped
<1>14. totalStaked' = SumOf([v \in Wallets |-> stakers[v].staked])'
  <2>1. s.staked \in Nat /\ totalStaked \in Nat
    BY <1>1, <1>3 DEF TypeOK, StakerType
  <2>2. SumOf([v \in Wallets |-> stakers[v].staked])' = totalStaked - s.staked + t.staked
    BY <1>1, <1>7, TotalMoves
  <2> QED BY <1>2, <1>6, <2>1, <2>2
<1>15. \A v \in Wallets : WaitOK(v)'
  <2> SUFFICES ASSUME NEW v \in Wallets PROVE WaitOK(v)'
    OBVIOUS
  <2>1. stakers'[v].pending = stakers[v].pending /\ stakers'[v].availableAt = stakers[v].availableAt
    BY <1>6, <1>7 DEF StakeMoves
  <2>2. WaitOK(v)
    BY DEF StakingInv
  <2> QED BY <1>2, <2>1, <2>2 DEF WaitOK, govern
<1> QED
  BY <1>11, <1>12, <1>13, <1>14, <1>15 DEF StakingInv, Static

\* A wallet asks for part of its stake back.
LEMMA RequestKeeps ==
    ASSUME StakingInv, NEW w \in Wallets, NEW amount \in Nat, RequestUnstake(w, amount)
    PROVE  StakingInv'
<1> DEFINE b == Current
           s == stakers[w]
           until == now + params.cooldown
           t == [s EXCEPT !.staked = s.staked - amount,
                          !.pending = s.pending + amount,
                          !.availableAt = until,
                          !.debt = DebtsAt(b, s.staked - amount)]
<1>1. Static /\ BooksOK(b) /\ b \in BooksType /\ TypeOK
  BY CurrentKeeps DEF StakingInv, BooksOK, Static
<1>2. /\ SettleBoth(b, w) /\ s.staked >= amount
      /\ totalStaked >= amount
      /\ balance' = [a \in Assets |-> balance[a] - Claim(b, w, a)]
      /\ totalStaked' = totalStaked - amount
      /\ syncs' = [syncs EXCEPT ![w] = @ + 1]
      /\ locked' = [locked EXCEPT ![w] = IF until > @ THEN until ELSE @]
      /\ UNCHANGED <<params, govern, now, adminCalls, deposits>>
  BY DEF RequestUnstake, RequestWith
<1>3. stakers \in [Wallets -> StakerType] /\ s \in StakerType
  BY <1>1 DEF TypeOK
<1>4. stakers' = [stakers EXCEPT ![w] = t]
  BY <1>3 DEF RequestUnstake, RequestWith, StakerType
<1>5. /\ s.staked - amount \in Nat /\ DebtsAt(b, s.staked - amount) \in [Assets -> Nat]
      /\ s.pending + amount \in Nat /\ until \in Nat
  <2>1. s.staked \in Nat /\ s.pending \in Nat /\ now \in Nat /\ params.cooldown \in Nat
    BY <1>1, <1>3 DEF TypeOK, StakerType, ParamType
  <2>2. s.staked - amount \in Nat /\ s.pending + amount \in Nat /\ until \in Nat
    BY <1>2, <2>1
  <2> HIDE DEF b
  <2> QED BY <1>1, <2>1, <2>2, DebtsTyped
<1>u. until = now + params.cooldown
  OBVIOUS
<1> HIDE DEF b, until
<1>6. /\ t \in StakerType /\ t.staked = s.staked - amount /\ t.pending = s.pending + amount
      /\ t.availableAt = until /\ t.debt = DebtsAt(b, t.staked)
      /\ t.used = s.used /\ t.lastEpoch = s.lastEpoch
  BY <1>3, <1>5 DEF StakerType
<1> HIDE DEF t
<1>7. stakers'[w] = t /\ StakeMoves(w)
  BY <1>3, <1>4, <1>6 DEF StakeMoves
<1>8. Added(w) = 0
  <2>1. s.staked \in Nat /\ s.pending \in Nat
    BY <1>3 DEF StakerType
  <2> QED BY <1>6, <1>7, <2>1 DEF Added
<1>9. /\ \A a \in Assets : balance'[a] = balance[a] - Claim(b, w, a)
                                           + IF a = "intel" THEN Added(w) ELSE 0
      /\ balance' = [a \in Assets |-> balance'[a]]
  <2> SUFFICES ASSUME NEW a \in Assets
               PROVE  balance'[a] = balance[a] - Claim(b, w, a)
                                      + IF a = "intel" THEN Added(w) ELSE 0
    BY <1>2
  <2>1. balance[a] \in Nat /\ Claim(b, w, a) \in Nat
    BY <1>1, ClaimIsDue DEF TypeOK
  <2> QED BY <1>2, <1>8, <2>1
<1>10. stakers'[w].debt = DebtsAt(b, stakers'[w].staked)
  BY <1>6, <1>7
<1>11. BooksOK(Books)'
  <2>1. params' = params
    BY <1>2
  <2> QED BY <1>1, <1>2, <1>7, <1>9, <1>10, <2>1, SyncKeeps
<1>12. totalStaked' \in Nat /\ locked' \in [Wallets -> Nat] /\ totalStaked' <= MaxStaked
  <2>1. locked \in [Wallets -> Nat] /\ totalStaked \in Nat /\ MaxStaked \in Nat
    BY <1>1, NumbersAssumption DEF TypeOK
  <2>2. totalStaked <= MaxStaked
    BY <1>1 DEF Static
  <2>3. locked' \in [Wallets -> Nat]
    BY <1>2, <1>5, <2>1
  <2> QED BY <1>2, <2>1, <2>2, <2>3
<1>13. TypeOK'
  <2>1. Added(w) \in Nat
    BY <1>8
  <2> QED BY <1>1, <1>2, <1>7, <1>9, <1>11, <1>12, <2>1, SyncTyped
<1>14. totalStaked' = SumOf([v \in Wallets |-> stakers[v].staked])'
  <2>1. s.staked \in Nat /\ totalStaked \in Nat
    BY <1>1, <1>3 DEF TypeOK, StakerType
  <2>2. SumOf([v \in Wallets |-> stakers[v].staked])' = totalStaked - s.staked + t.staked
    BY <1>1, <1>7, TotalMoves
  <2> QED BY <1>2, <1>6, <2>1, <2>2
<1>15. \A v \in Wallets : WaitOK(v)'
  <2> SUFFICES ASSUME NEW v \in Wallets, ~shortened
               PROVE  /\ locked'[v] <= until
                      /\ stakers'[v].pending > 0 => locked'[v] <= stakers'[v].availableAt
    BY <1>2, <1>u DEF WaitOK, govern
  <2>1. WaitOK(v) /\ locked \in [Wallets -> Nat]
    BY <1>1 DEF StakingInv, TypeOK
  <2>2. locked[v] <= until /\ (stakers[v].pending > 0 => locked[v] <= stakers[v].availableAt)
    BY <1>u, <2>1 DEF WaitOK
  <2>3. CASE v = w
    <3>1. locked'[v] = IF until > locked[v] THEN until ELSE locked[v]
      BY <1>2, <2>1, <2>3
    <3>2. locked'[v] <= until
      BY <1>5, <2>1, <2>2, <3>1
    <3> QED BY <1>6, <1>7, <2>3, <3>2
  <2>4. CASE v # w
    BY <1>2, <1>7, <2>1, <2>2, <2>4 DEF StakeMoves
  <2> QED BY <2>3, <2>4
<1> QED
  BY <1>11, <1>12, <1>13, <1>14, <1>15 DEF StakingInv, Static

\* A step that leaves yield, debts and stakes alone, and moves of an asset what it
\* moves of the principal, keeps the yield in order.
LEMMA QuietKeeps ==
    ASSUME Static, BooksOK(Books), UNCHANGED <<acc, pool, edge, syncs>>, epoch' \in EpochType,
           \A v \in Wallets : stakers'[v].staked = stakers[v].staked /\ stakers'[v].debt = stakers[v].debt,
           NEW more \in [Assets -> Int],
           \A a \in Assets : /\ balance'[a] = balance[a] + more[a]
                             /\ Principal(a)' = Principal(a) + more[a]
    PROVE  /\ Books' \in BooksType /\ Books'.epoch = epoch'
           /\ \A v \in Wallets, a \in Assets : WalletOK(Books, v, a)'
           /\ \A a \in Assets : AssetOK(Books, a)'
<1>1. /\ Books \in BooksType
      /\ \A w \in Wallets, c \in Assets : WalletOK(Books, w, c)
      /\ \A c \in Assets : AssetOK(Books, c)
  BY DEF BooksOK
<1>2. /\ Books' = [acc |-> acc, pool |-> pool, epoch |-> epoch', edge |-> edge]
      /\ Books.acc = acc /\ Books.pool = pool /\ Books.edge = edge
  BY DEF Books
<1>3. Books' \in BooksType
  BY <1>1, <1>2 DEF BooksType
<1>4. \A v \in Wallets, a \in Assets :
        Excess(Books, v, a)' = Excess(Books, v, a) /\ WalletOK(Books, v, a)'
  BY <1>1, <1>2 DEF Excess, WalletOK
<1>5. \A a \in Assets : AssetOK(Books, a)'
  <2> SUFFICES ASSUME NEW a \in Assets PROVE AssetOK(Books, a)'
    OBVIOUS
  <2> DEFINE X == SumOf([v \in Wallets |-> Excess(Books, v, a)])
             ys == SumOf(syncs)
             m == more[a]
             zero == 0
  <2>1. /\ X \in Nat /\ ys \in Nat /\ Principal(a) \in Nat
        /\ balance[a] \in Nat /\ Books.pool[a] \in Nat /\ PRECISION \in Nat
    BY <1>1, SumsTyped
  <2>2. PRECISION * (balance[a] + ys) >= PRECISION * (Principal(a) + Books.pool[a]) + X
    BY <1>1 DEF AssetOK
  <2>3. SumOf([v \in Wallets |-> Excess(Books, v, a)])' = X
    <3>1. [v \in Wallets |-> Excess(Books, v, a)]' = [v \in Wallets |-> Excess(Books, v, a)]
      BY <1>4
    <3> QED BY <3>1 DEF SumOf
  <2>4. SumOf(syncs)' = ys
    BY DEF SumOf
  <2>5. AssetOK(Books, a)' <=>
          PRECISION * (balance'[a] + ys) >= PRECISION * (Principal(a)' + Books.pool[a]) + X
    BY <1>2, <2>3, <2>4 DEF AssetOK
  <2>6. m \in Int /\ balance'[a] = balance[a] - zero + m /\ Principal(a)' = Principal(a) + m
        /\ zero \in Int
    BY <2>1
  <2>7. balance'[a] \in Int /\ Principal(a)' \in Int /\ X \in Int /\ ys = ys + zero
        /\ X <= X - PRECISION * zero + PRECISION * zero /\ ys \in Int
    BY <2>1, <2>6
  <2> HIDE DEF X, ys, m, zero
  <2>8. PRECISION * (balance'[a] + ys) >= PRECISION * (Principal(a)' + Books.pool[a]) + X
    BY <2>1, <2>2, <2>6, <2>7, PaidFromExcess
  <2> QED BY <2>5, <2>8
<1> QED
  BY <1>2, <1>3, <1>4, <1>5

\* A wallet withdraws what it has waited for.
LEMMA UnstakeKeeps ==
    ASSUME StakingInv, NEW w \in Wallets, Unstake(w)
    PROVE  StakingInv'
<1> DEFINE s == stakers[w]
           t == [s EXCEPT !.pending = 0, !.availableAt = 0]
           more == [a \in Assets |-> IF a = "intel" THEN -s.pending ELSE 0]
<1>1. Static /\ BooksOK(Books) /\ TypeOK /\ CapOK(Books)
  BY DEF StakingInv, BooksOK, Static
<1>2. /\ balance["intel"] >= s.pending
      /\ balance' = [balance EXCEPT !["intel"] = @ - s.pending]
      /\ locked' = [locked EXCEPT ![w] = 0]
      /\ UNCHANGED <<totalStaked, acc, pool, epoch, params, govern, now, adminCalls,
                     deposits, edge, syncs>>
  BY DEF Unstake
<1>3. stakers \in [Wallets -> StakerType] /\ s \in StakerType
  BY <1>1 DEF TypeOK
<1>4. stakers' = [stakers EXCEPT ![w] = t]
  BY <1>3 DEF Unstake, StakerType
<1>6. /\ t \in StakerType /\ t.staked = s.staked /\ t.pending = 0 /\ t.availableAt = 0
      /\ t.debt = s.debt /\ t.used = s.used /\ t.lastEpoch = s.lastEpoch
  BY <1>3 DEF StakerType
<1> HIDE DEF t
<1>7. stakers'[w] = t /\ StakeMoves(w)
  BY <1>3, <1>4, <1>6 DEF StakeMoves
<1>8. s.pending \in Nat /\ s.staked \in Nat
  BY <1>3 DEF StakerType
<1>9. Added(w) = -s.pending
  BY <1>6, <1>7, <1>8 DEF Added
<1>10. more \in [Assets -> Int] /\ balance \in [Assets -> Nat]
  BY <1>1, <1>8 DEF TypeOK
<1>11. \A a \in Assets : /\ balance'[a] = balance[a] + more[a]
                         /\ Principal(a)' = Principal(a) + more[a]
  <2> SUFFICES ASSUME NEW a \in Assets
               PROVE  /\ balance'[a] = balance[a] + more[a]
                      /\ Principal(a)' = Principal(a) + more[a]
    OBVIOUS
  <2>1. Principal(a)' = Principal(a) + IF a = "intel" THEN Added(w) ELSE 0
    BY <1>1, <1>7, PrincipalMoves
  <2>2. balance'[a] = balance[a] + more[a]
    BY <1>2, <1>8, <1>10
  <2> QED BY <1>9, <2>1, <2>2
<1>12. \A v \in Wallets : /\ stakers'[v].staked = stakers[v].staked /\ stakers'[v].debt = stakers[v].debt
                          /\ stakers'[v].used = stakers[v].used /\ stakers'[v].lastEpoch = stakers[v].lastEpoch
  BY <1>6, <1>7 DEF StakeMoves
<1>13. epoch' \in EpochType /\ epoch' = epoch /\ UNCHANGED <<acc, pool, edge, syncs>>
  BY <1>1, <1>2 DEF TypeOK, EpochType
<1>14. /\ Books' \in BooksType /\ Books'.epoch = epoch'
       /\ \A v \in Wallets, a \in Assets : WalletOK(Books, v, a)'
       /\ \A a \in Assets : AssetOK(Books, a)'
  <2> HIDE DEF more
  <2> QED BY <1>1, <1>10, <1>11, <1>12, <1>13, QuietKeeps
<1>15. CapOK(Books)'
  <2>1. Books'.epoch = Books.epoch
    BY <1>13, <1>14 DEF Books
  <2>2. [v \in Wallets |-> UsedIn(Books.epoch.n, v)]' = [v \in Wallets |-> UsedIn(Books.epoch.n, v)]
    BY <1>12, <2>1 DEF UsedIn
  <2> QED BY <1>1, <1>2, <1>12, <2>1, <2>2 DEF CapOK
<1>16. TypeOK'
  <2>1. balance' \in [Assets -> Nat]
    BY <1>2, <1>8, <1>10 DEF Assets
  <2>2. locked' \in [Wallets -> Nat]
    BY <1>1, <1>2 DEF TypeOK
  <2> QED BY <1>1, <1>2, <1>7, <2>1, <2>2 DEF TypeOK, StakeMoves, govern
<1>17. SumOf([v \in Wallets |-> stakers[v].staked])' = SumOf([v \in Wallets |-> stakers[v].staked])
  <2>1. [v \in Wallets |-> stakers[v].staked]' = [v \in Wallets |-> stakers[v].staked]
    BY <1>12
  <2> QED BY <2>1 DEF SumOf
<1>18. Static'
  BY <1>1, <1>2, <1>16, <1>17 DEF Static
<1>19. \A v \in Wallets : WaitOK(v)'
  <2> SUFFICES ASSUME NEW v \in Wallets, ~shortened
               PROVE  /\ locked'[v] <= now + params.cooldown
                      /\ stakers'[v].pending > 0 => locked'[v] <= stakers'[v].availableAt
    BY <1>2 DEF WaitOK, govern
  <2>1. WaitOK(v) /\ locked \in [Wallets -> Nat] /\ now \in Nat /\ params.cooldown \in Nat
    BY <1>1 DEF StakingInv, TypeOK, ParamType
  <2>2. CASE v = w
    BY <1>2, <1>6, <1>7, <2>1, <2>2
  <2>3. CASE v # w
    BY <1>2, <1>7, <2>1, <2>3 DEF StakeMoves, WaitOK
  <2> QED BY <2>2, <2>3
<1> QED
  BY <1>14, <1>15, <1>18, <1>19 DEF StakingInv, BooksOK

-----------------------------------------------------------------------------
(* Yield *)

\* A wallet claims what is due to it of one asset.
LEMMA ClaimYieldKeeps ==
    ASSUME StakingInv, NEW w \in Wallets, NEW a \in Assets, ClaimYield(w, a)
    PROVE  StakingInv'
<1> DEFINE b == Current
           s == stakers[w]
           due == Claim(b, w, a)
           t == [s EXCEPT !.debt = [@ EXCEPT ![a] = Accrued(b, w, a)]]
<1>1. /\ Static /\ BooksOK(b) /\ b \in BooksType /\ TypeOK /\ CapOK(b)
      /\ \A v \in Wallets, c \in Assets : WalletOK(b, v, c)
      /\ \A c \in Assets : AssetOK(b, c)
  BY CurrentKeeps DEF StakingInv, BooksOK, Static
<1>2. /\ balance[a] >= due
      /\ SetBooks([b EXCEPT !.edge = Paid(@, w, a, due)])
      /\ balance' = [balance EXCEPT ![a] = @ - due]
      /\ stakers' = [stakers EXCEPT ![w].debt[a] = Accrued(b, w, a)]
      /\ UNCHANGED <<totalStaked, params, govern, now, adminCalls, deposits, syncs, locked>>
  BY DEF ClaimYield
<1> HIDE DEF b
<1>3. stakers \in [Wallets -> StakerType] /\ s \in StakerType
  BY <1>1 DEF TypeOK
<1>4. /\ Accrued(b, w, a) \in Nat /\ due = Accrued(b, w, a) - s.debt[a] /\ due \in Nat
      /\ Excess(b, w, a) \in Nat /\ PRECISION * due <= Excess(b, w, a)
      /\ s.staked * b.acc[a] - PRECISION * Accrued(b, w, a) = Excess(b, w, a) - PRECISION * due
  BY <1>1, ClaimIsDue
<1>5. /\ t \in StakerType /\ t.staked = s.staked /\ t.pending = s.pending
      /\ t.availableAt = s.availableAt /\ t.used = s.used /\ t.lastEpoch = s.lastEpoch
      /\ t.debt[a] = Accrued(b, w, a) /\ \A c \in Assets \ {a} : t.debt[c] = s.debt[c]
  BY <1>3, <1>4 DEF StakerType
<1>6. stakers' = [stakers EXCEPT ![w] = t]
  BY <1>2, <1>3 DEF StakerType
<1> HIDE DEF t, due
<1>7. stakers'[w] = t /\ stakers' \in [Wallets -> StakerType] /\ \A v \in Wallets \ {w} : stakers'[v] = stakers[v]
  BY <1>3, <1>5, <1>6
<1>8. /\ acc' = b.acc /\ pool' = b.pool /\ epoch' = b.epoch
      /\ edge' = Paid(b.edge, w, a, due)
  BY <1>1, <1>2 DEF SetBooks, BooksType
<1>9. /\ edge' \in [Wallets -> [Assets -> Int]]
      /\ \A v \in Wallets \ {w} : edge'[v] = b.edge[v]
      /\ edge'[w][a] = b.edge[w][a] + Scale * due
      /\ \A c \in Assets \ {a} : edge'[w][c] = b.edge[w][c]
  <2> DEFINE z == Scale * due
  <2>1. z \in Int
    BY <1>4, NumbersAssumption, ProductGrows
  <2>2. edge' = [b.edge EXCEPT ![w][a] = @ + z] /\ b.edge \in [Wallets -> [Assets -> Int]]
    BY <1>1, <1>8 DEF Paid, BooksType
  <2> HIDE DEF z
  <2>3. /\ edge' \in [Wallets -> [Assets -> Int]]
        /\ \A v \in Wallets \ {w} : edge'[v] = b.edge[v]
        /\ edge'[w][a] = b.edge[w][a] + z
        /\ \A c \in Assets \ {a} : edge'[w][c] = b.edge[w][c]
    BY <2>1, <2>2
  <2> QED BY <2>3 DEF z
<1>10. /\ Books' \in BooksType
       /\ Books'.acc = b.acc /\ Books'.pool = b.pool /\ Books'.epoch = b.epoch
       /\ Books'.edge = edge'
  BY <1>1, <1>8, <1>9, BooksAfter
<1>11. \A v \in Wallets, c \in Assets : v # w \/ c # a =>
         /\ Excess(Books, v, c)' = Excess(b, v, c)
         /\ WalletOK(Books, v, c)'
  <2> SUFFICES ASSUME NEW v \in Wallets, NEW c \in Assets, v # w \/ c # a
               PROVE  /\ Excess(Books, v, c)' = Excess(b, v, c)
                      /\ WalletOK(Books, v, c)'
    OBVIOUS
  <2>1. syncs' = syncs /\ WalletOK(b, v, c)
    BY <1>1, <1>2
  <2>2. stakers'[v].staked = stakers[v].staked /\ stakers'[v].debt[c] = stakers[v].debt[c]
        /\ edge'[v][c] = b.edge[v][c]
    BY <1>5, <1>7, <1>9
  <2>3. Excess(Books, v, c)' = Excess(b, v, c)
    BY <1>10, <2>2 DEF Excess
  <2> QED BY <1>10, <2>1, <2>2, <2>3 DEF WalletOK
<1>12. /\ Excess(Books, w, a)' = Excess(b, w, a) - PRECISION * due
       /\ Excess(Books, w, a)' \in Nat
       /\ WalletOK(Books, w, a)'
  <2> DEFINE X == Excess(b, w, a)
             X2 == Excess(Books, w, a)'
             e == b.edge[w][a]
             y == PRECISION * (Scale * syncs[w])
  <2>1. X2 = X - PRECISION * due
    BY <1>4, <1>5, <1>7, <1>10 DEF Excess
  <2>2. PRECISION \in Nat /\ Scale \in Nat /\ e \in Int /\ y \in Int
    <3>1. syncs[w] \in Nat /\ e \in Int /\ PRECISION \in Nat /\ Scale \in Nat
      BY <1>1, NumbersAssumption DEF BooksType, TypeOK
    <3>2. Scale * syncs[w] \in Nat
      BY <3>1, ProductGrows
    <3> QED BY <3>1, <3>2
  <2>3. X \in Nat /\ PRECISION * due \in Nat /\ X2 \in Nat
    <3>1. PRECISION * due \in Nat
      BY <1>4, <2>2, ProductGrows
    <3> QED BY <1>4, <2>1, <3>1
  <2>4. PRECISION * e + Scale * X <= y
    BY <1>1 DEF WalletOK
  <2>5. edge'[w][a] = e + Scale * due /\ syncs' = syncs
    BY <1>2, <1>9
  <2>6. WalletOK(Books, w, a)' <=>
          X2 >= 0 /\ PRECISION * (e + Scale * due) + Scale * X2 <= y
    BY <1>10, <2>5 DEF WalletOK
  <2> HIDE DEF X, X2, e, y
  <2>7. PRECISION * (e + Scale * due) + Scale * (X - PRECISION * due) <= y
    BY <1>4, <2>2, <2>3, <2>4, ClaimWallet
  <2>8. X2 >= 0
    BY <2>3
  <2>9. PRECISION * (e + Scale * due) + Scale * X2 <= y
    BY <2>1, <2>7
  <2> QED BY <2>1, <2>3, <2>6, <2>8, <2>9 DEF X, X2
<1>13. \A v \in Wallets, c \in Assets : WalletOK(Books, v, c)'
  BY <1>11, <1>12
<1>14. \A c \in Assets : Principal(c)' = Principal(c)
  <2>1. \A v \in Wallets : stakers'[v].staked = stakers[v].staked /\ stakers'[v].pending = stakers[v].pending
    BY <1>5, <1>7
  <2>2. [v \in Wallets |-> stakers[v].staked + stakers[v].pending]'
          = [v \in Wallets |-> stakers[v].staked + stakers[v].pending]
    BY <2>1
  <2> QED BY <2>2 DEF Principal, SumOf
<1>15. SumOf(syncs)' = SumOf(syncs)
  BY <1>2 DEF SumOf
<1>16. \A c \in Assets \ {a} : AssetOK(Books, c)'
  <2> SUFFICES ASSUME NEW c \in Assets \ {a} PROVE AssetOK(Books, c)'
    OBVIOUS
  <2>1. [v \in Wallets |-> Excess(Books, v, c)]' = [v \in Wallets |-> Excess(b, v, c)]
    BY <1>11
  <2>2. SumOf([v \in Wallets |-> Excess(Books, v, c)])' = SumOf([v \in Wallets |-> Excess(b, v, c)])
    BY <2>1 DEF SumOf
  <2>3. balance'[c] = balance[c] /\ AssetOK(b, c)
    BY <1>1, <1>2 DEF TypeOK
  <2> QED BY <1>10, <1>14, <1>15, <2>2, <2>3 DEF AssetOK
<1>17. AssetOK(Books, a)'
  <2> DEFINE X == SumOf([v \in Wallets |-> Excess(b, v, a)])
             X2 == SumOf([v \in Wallets |-> Excess(Books, v, a)])'
             ys == SumOf(syncs)
             zero == 0
             x == Excess(b, w, a)
             x2 == Excess(Books, w, a)'
  <2>1. /\ X \in Nat /\ ys \in Nat /\ Principal(a) \in Nat
        /\ balance[a] \in Nat /\ b.pool[a] \in Nat /\ PRECISION \in Nat
    BY <1>1, SumsTyped
  <2>2. /\ X2 = X - x + x2 /\ X \in Int
    <3>1. \A v \in Wallets : Excess(b, v, a) \in Int
      BY <1>1, ClaimIsDue
    <3>2. \A v \in Wallets : Excess(b, v, a) \in Int /\ Excess(Books, v, a)' \in Int
      BY <1>11, <1>12, <3>1
    <3>3. \A v \in Wallets \ {w} : Excess(Books, v, a)' = Excess(b, v, a)
      BY <1>11
    <3> QED BY <3>2, <3>3, ExcessMoves
  <2>3. x \in Nat /\ due \in Nat /\ x2 = x - PRECISION * due /\ PRECISION * due \in Int
    BY <1>4, <1>12, <2>1
  <2>4. balance'[a] = balance[a] - due + zero /\ zero \in Int /\ balance'[a] \in Int
    BY <1>1, <1>2, <2>1, <2>3 DEF TypeOK
  <2>5. PRECISION * (balance[a] + ys) >= PRECISION * (Principal(a) + b.pool[a]) + X
    BY <1>1 DEF AssetOK
  <2>6. AssetOK(Books, a)' <=>
          PRECISION * (balance'[a] + ys) >= PRECISION * (Principal(a) + b.pool[a]) + X2
    BY <1>10, <1>14, <1>15 DEF AssetOK
  <2>7. ys = ys + zero /\ Principal(a) = Principal(a) + zero
    BY <2>1
  <2> HIDE DEF X, X2, ys, x, x2
  <2>8. X2 <= X - PRECISION * due + PRECISION * zero /\ X2 \in Int
    BY <2>1, <2>2, <2>3
  <2> HIDE DEF zero
  <2>9. balance[a] \in Int /\ ys \in Int /\ Principal(a) \in Int /\ b.pool[a] \in Int /\ due \in Int
    BY <2>1, <2>3
  <2>10. PRECISION * (balance'[a] + ys) >= PRECISION * (Principal(a) + b.pool[a]) + X2
    BY <2>1, <2>2, <2>4, <2>5, <2>7, <2>8, <2>9, PaidFromExcess
  <2> QED BY <2>6, <2>10
<1>18. \A v \in Wallets : /\ stakers'[v].staked = stakers[v].staked /\ stakers'[v].pending = stakers[v].pending
                          /\ stakers'[v].used = stakers[v].used /\ stakers'[v].lastEpoch = stakers[v].lastEpoch
                          /\ stakers'[v].availableAt = stakers[v].availableAt
  BY <1>5, <1>7
<1>19. CapOK(Books)'
  <2>1. [v \in Wallets |-> UsedIn(Books.epoch.n, v)]' = [v \in Wallets |-> UsedIn(b.epoch.n, v)]
    BY <1>10, <1>18 DEF UsedIn
  <2> QED BY <1>1, <1>2, <1>10, <1>18, <2>1 DEF CapOK
<1>20. TypeOK'
  <2>1. balance' \in [Assets -> Nat]
    BY <1>1, <1>2, <1>4 DEF TypeOK
  <2>2. /\ acc' \in [Assets -> Nat] /\ pool' \in [Assets -> Nat]
        /\ epoch' \in [n : Nat, start : Nat, capLeft : Nat, cap : Nat, lifted : BOOLEAN]
    BY <1>1, <1>8 DEF BooksType, EpochType
  <2> QED BY <1>1, <1>2, <1>7, <1>9, <2>1, <2>2 DEF TypeOK, govern
<1>21. Static'
  <2>1. [v \in Wallets |-> stakers[v].staked]' = [v \in Wallets |-> stakers[v].staked]
    BY <1>18
  <2> QED BY <1>1, <1>2, <1>20, <2>1 DEF Static, SumOf
<1>22. \A v \in Wallets : WaitOK(v)'
  BY <1>2, <1>18 DEF StakingInv, WaitOK, govern
<1> QED
  BY <1>10, <1>13, <1>16, <1>17, <1>19, <1>21, <1>22 DEF StakingInv, BooksOK

\* The books move and nothing else does.
LEMMA AdvanceKeeps ==
    ASSUME StakingInv, AdvanceEpoch
    PROVE  StakingInv'
<1> DEFINE b == Advanced
<1>1. /\ Static /\ BooksOK(b) /\ b \in BooksType /\ TypeOK /\ CapOK(b)
      /\ \A v \in Wallets, c \in Assets : WalletOK(b, v, c)
      /\ \A c \in Assets : AssetOK(b, c)
  BY CurrentKeeps DEF StakingInv, BooksOK, Static
<1>2. /\ acc' = b.acc /\ pool' = b.pool /\ epoch' = b.epoch /\ edge' = b.edge
      /\ UNCHANGED <<stakers, totalStaked, balance, params, govern, now,
                     adminCalls, deposits, syncs, locked>>
  BY DEF AdvanceEpoch, SetBooks
<1> HIDE DEF b
<1>3. Books' = [acc |-> b.acc, pool |-> b.pool, epoch |-> b.epoch, edge |-> b.edge]
  BY <1>2 DEF Books
<1>4. Books' = b
  BY <1>1, <1>3 DEF BooksType
<1>5. \A v \in Wallets, c \in Assets : WalletOK(Books, v, c)' /\ Excess(Books, v, c)' = Excess(b, v, c)
  BY <1>1, <1>2, <1>4 DEF WalletOK, Excess
<1>6. \A c \in Assets : AssetOK(Books, c)'
  <2> SUFFICES ASSUME NEW c \in Assets PROVE AssetOK(Books, c)'
    OBVIOUS
  <2>1. [v \in Wallets |-> Excess(Books, v, c)]' = [v \in Wallets |-> Excess(b, v, c)]
    BY <1>5
  <2>2. Principal(c)' = Principal(c) /\ SumOf(syncs)' = SumOf(syncs)
    BY <1>2 DEF Principal, SumOf
  <2>3. SumOf([v \in Wallets |-> Excess(Books, v, c)])' = SumOf([v \in Wallets |-> Excess(b, v, c)])
    BY <2>1 DEF SumOf
  <2> QED BY <1>1, <1>2, <1>4, <2>2, <2>3 DEF AssetOK
<1>7. CapOK(Books)'
  <2>1. [v \in Wallets |-> UsedIn(Books.epoch.n, v)]' = [v \in Wallets |-> UsedIn(b.epoch.n, v)]
    BY <1>2, <1>4 DEF UsedIn
  <2> QED BY <1>1, <1>2, <1>4, <2>1 DEF CapOK
<1>8. TypeOK'
  <2>1. /\ acc' \in [Assets -> Nat] /\ pool' \in [Assets -> Nat]
        /\ epoch' \in [n : Nat, start : Nat, capLeft : Nat, cap : Nat, lifted : BOOLEAN]
        /\ edge' \in [Wallets -> [Assets -> Int]]
    BY <1>1, <1>2 DEF BooksType, EpochType
  <2> QED BY <1>1, <1>2, <2>1 DEF TypeOK, govern
<1>9. Static' /\ \A v \in Wallets : WaitOK(v)'
  BY <1>1, <1>2, <1>8 DEF StakingInv, Static, WaitOK, SumOf, govern
<1> QED
  BY <1>1, <1>4, <1>5, <1>6, <1>7, <1>9 DEF StakingInv, BooksOK

\* A deposit of yield, divided over the stakes or, without any, kept in the pool.
LEMMA DepositKeeps ==
    ASSUME StakingInv, NEW caller, NEW a \in Assets, NEW q \in Nat, DepositYield(caller, a, q)
    PROVE  StakingInv'
<1> DEFINE b == Books
<1>1. /\ Static /\ BooksOK(b) /\ b \in BooksType /\ TypeOK /\ CapOK(b)
      /\ \A v \in Wallets, c \in Assets : WalletOK(b, v, c)
      /\ \A c \in Assets : AssetOK(b, c)
  BY DEF StakingInv, BooksOK, Static
<1>2. /\ balance' = [balance EXCEPT ![a] = @ + q] /\ deposits' = deposits + 1
      /\ UNCHANGED <<stakers, totalStaked, epoch, params, govern, now, adminCalls, syncs, locked>>
  BY DEF DepositYield
<1>3. b.acc = acc /\ b.pool = pool /\ b.epoch = epoch /\ b.edge = edge
  BY DEF Books
<1>4. Books' = [acc |-> acc', pool |-> pool', epoch |-> epoch, edge |-> edge']
  BY <1>2 DEF Books
<1> HIDE DEF b
<1> DEFINE b2 == Books'
<1>5. \A c \in Assets : Principal(c)' = Principal(c) /\ SumOf(syncs)' = SumOf(syncs)
  BY <1>2 DEF Principal, SumOf
<1>6. \A v \in Wallets, c \in Assets :
        Excess(Books, v, c)' = stakers[v].staked * b2.acc[c] - PRECISION * stakers[v].debt[c]
  BY <1>2 DEF Excess
<1>7. \A c \in Assets \ {a} : balance'[c] = balance[c]
  BY <1>1, <1>2 DEF TypeOK
<1>8. balance'[a] = balance[a] + q /\ balance' \in [Assets -> Nat]
  BY <1>1, <1>2 DEF TypeOK
<1> DEFINE Deposited ==
             /\ b2 \in BooksType
             /\ \A v \in Wallets, c \in Assets : WalletOK(Books, v, c)'
             /\ \A c \in Assets : AssetOK(Books, c)'
             /\ pool' \in [Assets -> Nat] /\ acc' \in [Assets -> Nat]
             /\ edge' \in [Wallets -> [Assets -> Int]]
<1>9. ASSUME totalStaked > 0 PROVE Deposited
  <2>1. acc' = [acc EXCEPT ![a] = @ + PerShare(q)] /\ edge' = Shared(edge, a, q) /\ pool' = pool
    BY <1>9 DEF DepositYield
  <2>2. PerShare(q) \in Nat /\ Shared(b.edge, a, q) \in [Wallets -> [Assets -> Int]]
    BY <1>1, <1>9, SharingTyped
  <2>3. b2 \in BooksType
    BY <1>1, <1>3, <1>4, <2>1, <2>2 DEF BooksType
  <2>4. Sharing(b, b2, a, q)
    BY <1>1, <1>3, <1>4, <2>1 DEF Sharing, BooksType
  <2>5. /\ \A w \in Wallets, c \in Assets : WalletOK(b2, w, c)
        /\ SumOf([w \in Wallets |-> Excess(b2, w, a)])
             <= SumOf([w \in Wallets |-> Excess(b, w, a)]) + PRECISION * q
        /\ \A w \in Wallets, c \in Assets \ {a} : Excess(b2, w, c) = Excess(b, w, c)
    <3> HIDE DEF b2
    <3> QED BY <1>1, <1>9, <2>3, <2>4, SharingKeeps
  <2>6. \A v \in Wallets, c \in Assets :
          Excess(Books, v, c)' = Excess(b2, v, c) /\ WalletOK(Books, v, c)'
    <3> SUFFICES ASSUME NEW v \in Wallets, NEW c \in Assets
                 PROVE  Excess(Books, v, c)' = Excess(b2, v, c) /\ WalletOK(Books, v, c)'
      OBVIOUS
    <3>1. Excess(Books, v, c)' = Excess(b2, v, c)
      BY <1>6 DEF Excess
    <3> QED BY <1>2, <2>5, <3>1 DEF WalletOK
  <2>7. \A c \in Assets \ {a} : AssetOK(Books, c)'
    <3> SUFFICES ASSUME NEW c \in Assets \ {a} PROVE AssetOK(Books, c)'
      OBVIOUS
    <3>1. [v \in Wallets |-> Excess(Books, v, c)]' = [v \in Wallets |-> Excess(b, v, c)]
      BY <2>5, <2>6
    <3>2. SumOf([v \in Wallets |-> Excess(Books, v, c)])' = SumOf([v \in Wallets |-> Excess(b, v, c)])
      BY <3>1 DEF SumOf
    <3>3. Books'.pool = b.pool
      BY <1>3, <1>4, <2>1
    <3> QED BY <1>1, <1>5, <1>7, <3>2, <3>3 DEF AssetOK
  <2>8. AssetOK(Books, a)'
    <3> DEFINE X == SumOf([v \in Wallets |-> Excess(b, v, a)])
               X2 == SumOf([v \in Wallets |-> Excess(Books, v, a)])'
               ys == SumOf(syncs)
    <3>1. /\ X \in Nat /\ ys \in Nat /\ Principal(a) \in Nat
          /\ balance[a] \in Nat /\ b.pool[a] \in Nat /\ PRECISION \in Nat
      BY <1>1, SumsTyped
    <3>2. X2 = SumOf([v \in Wallets |-> Excess(b2, v, a)])
      <4>1. [v \in Wallets |-> Excess(Books, v, a)]' = [v \in Wallets |-> Excess(b2, v, a)]
        BY <2>6
      <4> QED BY <4>1 DEF SumOf
    <3>3. X2 <= X + PRECISION * q /\ X2 \in Int
      <4>1. SumOf([v \in Wallets |-> Excess(b2, v, a)]) \in Nat
        <5> HIDE DEF b2
        <5> QED BY <1>1, <2>3, <2>5, SumsTyped
      <4> QED BY <2>5, <3>2, <4>1
    <3>4. PRECISION * (balance[a] + ys) >= PRECISION * (Principal(a) + b.pool[a]) + X
      BY <1>1 DEF AssetOK
    <3>5. AssetOK(Books, a)' <=>
            PRECISION * (balance'[a] + ys) >= PRECISION * (Principal(a) + b.pool[a]) + X2
      BY <1>3, <1>4, <1>5, <2>1 DEF AssetOK
    <3> HIDE DEF X, X2, ys
    <3>6. PRECISION * (balance[a] + q + ys) = PRECISION * (balance[a] + ys) + PRECISION * q
      BY <3>1
    <3>7. PRECISION * (balance[a] + q + ys) >= PRECISION * (Principal(a) + b.pool[a]) + X2
      BY <3>1, <3>3, <3>4, <3>6
    <3> QED BY <1>8, <3>5, <3>7
  <2>9. pool' \in [Assets -> Nat] /\ acc' \in [Assets -> Nat]
        /\ edge' \in [Wallets -> [Assets -> Int]]
    BY <1>4, <2>3 DEF BooksType, EpochType
  <2> QED BY <2>3, <2>6, <2>7, <2>8, <2>9
<1>10. ASSUME ~(totalStaked > 0) PROVE Deposited
  <2>1. pool' = [pool EXCEPT ![a] = @ + q] /\ acc' = acc /\ edge' = edge
    BY <1>10 DEF DepositYield
  <2>2. b2 \in BooksType
    BY <1>1, <1>3, <1>4, <2>1 DEF BooksType
  <2>3. \A v \in Wallets, c \in Assets :
          Excess(Books, v, c)' = Excess(b, v, c) /\ WalletOK(Books, v, c)'
    <3> SUFFICES ASSUME NEW v \in Wallets, NEW c \in Assets
                 PROVE  Excess(Books, v, c)' = Excess(b, v, c) /\ WalletOK(Books, v, c)'
      OBVIOUS
    <3>1. Excess(Books, v, c)' = Excess(b, v, c)
      BY <1>3, <1>4, <1>6, <2>1 DEF Excess
    <3>2. WalletOK(b, v, c) /\ Books'.edge = b.edge
      BY <1>1, <1>3, <1>4, <2>1
    <3> QED BY <1>2, <3>1, <3>2 DEF WalletOK
  <2>4. \A c \in Assets : SumOf([v \in Wallets |-> Excess(Books, v, c)])'
                            = SumOf([v \in Wallets |-> Excess(b, v, c)])
    <3> SUFFICES ASSUME NEW c \in Assets
                 PROVE  SumOf([v \in Wallets |-> Excess(Books, v, c)])'
                            = SumOf([v \in Wallets |-> Excess(b, v, c)])
      OBVIOUS
    <3>1. [v \in Wallets |-> Excess(Books, v, c)]' = [v \in Wallets |-> Excess(b, v, c)]
      BY <2>3
    <3> QED BY <3>1 DEF SumOf
  <2>5. \A c \in Assets \ {a} : AssetOK(Books, c)'
    <3> SUFFICES ASSUME NEW c \in Assets \ {a} PROVE AssetOK(Books, c)'
      OBVIOUS
    <3>1. Books'.pool[c] = b.pool[c]
      BY <1>1, <1>3, <1>4, <2>1 DEF BooksType
    <3> QED BY <1>1, <1>5, <1>7, <2>4, <3>1 DEF AssetOK
  <2>6. AssetOK(Books, a)'
    <3> DEFINE X == SumOf([v \in Wallets |-> Excess(b, v, a)])
               ys == SumOf(syncs)
    <3>1. /\ X \in Nat /\ ys \in Nat /\ Principal(a) \in Nat
          /\ balance[a] \in Nat /\ b.pool[a] \in Nat /\ PRECISION \in Nat
      BY <1>1, SumsTyped
    <3>2. Books'.pool[a] = b.pool[a] + q
      BY <1>1, <1>3, <1>4, <2>1 DEF BooksType
    <3>3. PRECISION * (balance[a] + ys) >= PRECISION * (Principal(a) + b.pool[a]) + X
      BY <1>1 DEF AssetOK
    <3>4. AssetOK(Books, a)' <=>
            PRECISION * (balance'[a] + ys) >= PRECISION * (Principal(a) + (b.pool[a] + q)) + X
      BY <1>5, <2>4, <3>2 DEF AssetOK
    <3> HIDE DEF X, ys
    <3>5. /\ PRECISION * (balance[a] + q + ys) = PRECISION * (balance[a] + ys) + PRECISION * q
          /\ PRECISION * (Principal(a) + (b.pool[a] + q))
               = PRECISION * (Principal(a) + b.pool[a]) + PRECISION * q
      BY <3>1
    <3>6. PRECISION * (balance[a] + q + ys) >= PRECISION * (Principal(a) + (b.pool[a] + q)) + X
      BY <3>1, <3>3, <3>5
    <3> QED BY <1>8, <3>4, <3>6
  <2>7. pool' \in [Assets -> Nat] /\ acc' \in [Assets -> Nat] /\ edge' \in [Wallets -> [Assets -> Int]]
    BY <1>4, <2>2 DEF BooksType
  <2> QED BY <2>2, <2>3, <2>5, <2>6, <2>7
<1>11. Deposited
  BY <1>9, <1>10
<1>12. CapOK(Books)'
  <2>1. Books'.epoch = b.epoch
    BY <1>3, <1>4
  <2>2. [v \in Wallets |-> UsedIn(Books.epoch.n, v)]' = [v \in Wallets |-> UsedIn(b.epoch.n, v)]
    BY <1>2, <2>1 DEF UsedIn
  <2>3. SumOf([v \in Wallets |-> UsedIn(Books.epoch.n, v)])' = SumOf([v \in Wallets |-> UsedIn(b.epoch.n, v)])
    BY <2>2 DEF SumOf
  <2> QED BY <1>1, <1>2, <2>1, <2>3 DEF CapOK
<1>13. TypeOK'
  <2>1. deposits' \in Nat
    BY <1>1, <1>2 DEF TypeOK
  <2> QED BY <1>1, <1>2, <1>8, <1>11, <2>1 DEF TypeOK, govern
<1>14. Static' /\ \A v \in Wallets : WaitOK(v)'
  BY <1>1, <1>2, <1>13 DEF StakingInv, Static, WaitOK, SumOf, govern
<1> QED
  BY <1>11, <1>12, <1>14 DEF StakingInv, BooksOK

-----------------------------------------------------------------------------
(* Allowances *)

\* Every natural number has a whole root.
LEMMA SqrtIsNatural ==
    ASSUME NEW x \in Nat
    PROVE  Sqrt(x) \in Nat
<1> DEFINE U == 0..(x + 1)
           above == {k \in U : k * k > x}
           T == {0..k : k \in above}
<1>1. IsFiniteSet(U)
  BY FS_Interval
<1>2. T \subseteq SUBSET U /\ T # {}
  <2>1. x + 1 \in above
    <3>1. (x + 1) * (x + 1) = x * x + x + x + 1 /\ x * x \in Nat
      BY ProductGrows
    <3> QED BY <3>1
  <2> QED BY <2>1
<1>3. PICK A \in T : \A B \in T : B \subseteq A => B = A
  <2> HIDE DEF T, U
  <2> QED BY <1>1, <1>2, LeastSubset
<1>4. PICK k \in above : A = 0..k
  OBVIOUS
<1>5. k \in Nat /\ k * k > x /\ k <= x + 1
  OBVIOUS
<1>6. k # 0
  BY <1>5
<1>7. k - 1 \in 0..x /\ k = (k - 1) + 1
  BY <1>5, <1>6
<1>8. (k - 1) * (k - 1) <= x
  <2> SUFFICES ASSUME ~((k - 1) * (k - 1) <= x) PROVE FALSE
    OBVIOUS
  <2> DEFINE m == k - 1
  <2>1. m \in 0..(x + 1) /\ m \in Nat /\ k = m + 1
    BY <1>5, <1>7
  <2>2. m * m > x
    BY <2>1
  <2>3. 0..m \in T
    BY <2>1, <2>2
  <2> HIDE DEF m
  <2>4. 0..m \subseteq 0..k /\ k \in 0..k /\ k \notin 0..m
    BY <1>5, <2>1
  <2> QED BY <1>3, <1>4, <2>3, <2>4
<1> DEFINE P(y) == y * y <= x /\ x < (y + 1) * (y + 1)
<1>9. \E y \in 0..x : P(y)
  BY <1>5, <1>7, <1>8
<1>10. Sqrt(x) = CHOOSE y \in 0..x : P(y)
  BY DEF Sqrt
<1> HIDE DEF P
<1>11. Sqrt(x) \in 0..x
  BY <1>9, <1>10
<1> QED
  BY <1>11

\* What a wallet may still consume is a natural number; while there is a cap, it is,
\* with what it has used, at most what is left of the cap, or nothing.
LEMMA AllowanceIsLeft ==
    ASSUME TypeOK, NEW w \in Wallets
    PROVE  /\ MintAllowance(w) \in Int
           /\ UsedInEpoch(w) \in Nat
           /\ params.epochCap > 0 /\ MintAllowance(w) > 0 => MintAllowance(w) <= epoch.capLeft
<1> DEFINE s == stakers[w]
           raw == (params.k * Sqrt(s.staked)) \div KScale
           bonus == /\ s.newStakeEpoch = epoch.n
                    /\ s.newStake >= BonusMinStake
                    /\ now >= s.bonusAt
           full == raw + IF bonus THEN (raw * BonusBPS) \div BPS ELSE 0
           own == IF params.walletCap > 0 THEN Least(full, params.walletCap) ELSE full
           top == IF params.epochCap > 0 THEN Least(own, epoch.capLeft) ELSE own
<1>1. /\ s.staked \in Nat /\ params.k \in Nat /\ params.walletCap \in Nat /\ params.epochCap \in Nat
      /\ epoch.capLeft \in Nat /\ UsedInEpoch(w) \in Nat /\ KScale \in Nat \ {0}
  BY NumbersAssumption DEF TypeOK, StakerType, ParamType, UsedInEpoch
<1>2. raw \in Nat
  <2>1. Sqrt(s.staked) \in Nat
    BY <1>1, SqrtIsNatural
  <2>2. params.k * Sqrt(s.staked) \in Nat
    BY <1>1, <2>1, ProductGrows
  <2> QED BY <1>1, <2>2, Quotient
<1>3. MintAllowance(w) = IF UsedInEpoch(w) >= top THEN 0 ELSE top - UsedInEpoch(w)
  BY DEF MintAllowance
<1> HIDE DEF raw, bonus
<1>4. full \in Nat
  <2>1. (raw * BonusBPS) \div BPS \in Nat
    BY <1>2 DEF BonusBPS, BPS
  <2> QED BY <1>2, <2>1
<1> HIDE DEF full
<1>5. own \in Nat
  BY <1>1, <1>4 DEF Least
<1> HIDE DEF own
<1>6. top \in Nat /\ (params.epochCap > 0 => top <= epoch.capLeft)
  BY <1>1, <1>5 DEF Least
<1> HIDE DEF top
<1> QED
  BY <1>1, <1>3, <1>6

\* An operator consumes part of a wallet's allowance.
LEMMA ConsumeKeeps ==
    ASSUME StakingInv, NEW caller, NEW w \in Wallets, NEW amount \in Nat,
           ConsumeAllowance(caller, w, amount)
    PROVE  StakingInv'
<1> DEFINE s == stakers[w]
           n == epoch.n
           t == [s EXCEPT !.used = UsedInEpoch(w) + amount, !.lastEpoch = n]
           left == IF epoch.capLeft >= amount THEN epoch.capLeft - amount ELSE 0
           more == Zero
<1>1. Static /\ BooksOK(Books) /\ TypeOK /\ CapOK(Books)
  BY DEF StakingInv, BooksOK, Static
<1>2. /\ amount <= MintAllowance(w)
      /\ epoch' = [epoch EXCEPT !.capLeft = left]
      /\ UNCHANGED <<totalStaked, acc, pool, balance, params, govern, now, adminCalls,
                     deposits, edge, syncs, locked>>
  BY DEF ConsumeAllowance
<1>3. stakers \in [Wallets -> StakerType] /\ s \in StakerType /\ epoch \in EpochType
  BY <1>1 DEF TypeOK, EpochType
<1>4. stakers' = [stakers EXCEPT ![w] = t]
  BY <1>3 DEF ConsumeAllowance, StakerType
<1>5. MintAllowance(w) \in Int /\ UsedInEpoch(w) \in Nat
      /\ (params.epochCap > 0 /\ MintAllowance(w) > 0 => MintAllowance(w) <= epoch.capLeft)
  BY <1>1, AllowanceIsLeft
<1>6. /\ n \in Nat /\ epoch.capLeft \in Nat /\ epoch.cap \in Nat /\ left \in Nat
      /\ UsedInEpoch(w) + amount \in Nat
  BY <1>3, <1>5 DEF EpochType
<1>7. /\ t \in StakerType /\ t.staked = s.staked /\ t.pending = s.pending /\ t.debt = s.debt
      /\ t.availableAt = s.availableAt /\ t.used = UsedInEpoch(w) + amount /\ t.lastEpoch = n
  <2> DEFINE u == UsedInEpoch(w) + amount
  <2>1. u \in Nat
    BY <1>6
  <2> HIDE DEF u, n
  <2> QED BY <1>3, <1>6, <2>1 DEF StakerType
<1>8. /\ epoch' \in EpochType /\ epoch'.n = n /\ epoch'.cap = epoch.cap
      /\ epoch'.capLeft = left /\ epoch'.lifted = epoch.lifted
  <2> HIDE DEF left
  <2> QED BY <1>2, <1>3, <1>6 DEF EpochType
<1> HIDE DEF t
<1>9. stakers'[w] = t /\ stakers' \in [Wallets -> StakerType] /\ \A v \in Wallets \ {w} : stakers'[v] = stakers[v]
  BY <1>3, <1>4, <1>7
<1>10. \A v \in Wallets :
         /\ stakers'[v].staked = stakers[v].staked /\ stakers'[v].pending = stakers[v].pending
         /\ stakers'[v].debt = stakers[v].debt /\ stakers'[v].availableAt = stakers[v].availableAt
  BY <1>7, <1>9
<1>11. more \in [Assets -> Int]
  BY DEF Zero
<1>12. \A a \in Assets : /\ balance'[a] = balance[a] + more[a]
                         /\ Principal(a)' = Principal(a) + more[a]
  <2> SUFFICES ASSUME NEW a \in Assets
               PROVE  balance'[a] = balance[a] + more[a] /\ Principal(a)' = Principal(a) + more[a]
    OBVIOUS
  <2>1. balance[a] \in Nat /\ Principal(a) \in Nat
    BY <1>1, SumsTyped DEF BooksOK
  <2>2. [v \in Wallets |-> stakers[v].staked + stakers[v].pending]'
          = [v \in Wallets |-> stakers[v].staked + stakers[v].pending]
    BY <1>10
  <2>3. Principal(a)' = Principal(a)
    BY <2>2 DEF Principal, SumOf
  <2> QED BY <1>2, <2>1, <2>3 DEF Zero
<1>13. /\ Books' \in BooksType /\ Books'.epoch = epoch'
       /\ \A v \in Wallets, a \in Assets : WalletOK(Books, v, a)'
       /\ \A a \in Assets : AssetOK(Books, a)'
  <2> HIDE DEF more
  <2> QED BY <1>1, <1>2, <1>8, <1>10, <1>11, <1>12, QuietKeeps
<1>14. CapOK(Books)'
  <2>1. Books.epoch = epoch
    BY DEF Books
  <2> DEFINE F == [v \in Wallets |-> UsedIn(n, v)]
             G == [v \in Wallets |-> UsedIn(n, v)']
  <2>2. \A v \in Wallets : F[v] \in Int /\ G[v] \in Int
    BY <1>3, <1>9 DEF UsedIn, StakerType
  <2>3. \A v \in Wallets \ {w} : G[v] = F[v]
    BY <1>8, <1>9 DEF UsedIn
  <2>4. G[w] = F[w] + amount
    BY <1>5, <1>8, <1>7, <1>9 DEF UsedIn, UsedInEpoch
  <2>5. SumOf([v \in Wallets |-> UsedIn(Books.epoch.n, v)])' = SumFunctionOnSet(G, Wallets)
    <3>1. [v \in Wallets |-> UsedIn(Books.epoch.n, v)]' = G
      BY <1>8, <1>13 DEF UsedIn
    <3> QED BY <3>1 DEF SumOf
  <2>6. SumOf([v \in Wallets |-> UsedIn(Books.epoch.n, v)]) = SumFunctionOnSet(F, Wallets)
    BY <2>1 DEF SumOf
  <2> HIDE DEF F, G
  <2>7. SumFunctionOnSet(G, Wallets) = SumFunctionOnSet(F, Wallets) + amount
        /\ SumFunctionOnSet(F, Wallets) \in Int
    <3>1. SumFunctionOnSet(G, Wallets) = SumFunctionOnSet(F, Wallets) - F[w] + G[w]
          /\ SumFunctionOnSet(F, Wallets) \in Int
      BY <2>2, <2>3, AccountsAssumption, SumOfOneChange, SumType
    <3> QED BY <2>2, <2>4, <3>1
  <2>8. \A v \in Wallets : stakers'[v].lastEpoch <= n
    <3>1. \A v \in Wallets : stakers[v].lastEpoch <= n
      BY <1>1, <2>1 DEF CapOK
    <3> QED BY <1>6, <1>7, <1>9, <3>1
  <2>9. ASSUME ~epoch.lifted
        PROVE  /\ params'.epochCap > 0
               /\ SumFunctionOnSet(G, Wallets) + left = epoch.cap
    <3>1. /\ params.epochCap > 0
          /\ SumFunctionOnSet(F, Wallets) + epoch.capLeft = epoch.cap
      BY <1>1, <2>1, <2>6, <2>9 DEF CapOK
    <3>2. amount <= epoch.capLeft
      BY <1>2, <1>5, <1>6, <3>1
    <3>3. left = epoch.capLeft - amount
      BY <1>6, <3>2
    <3>4. params' = params
      BY <1>2
    <3> QED BY <1>6, <2>7, <3>1, <3>3, <3>4
  <2>10. Books'.epoch = epoch' /\ Books'.epoch.lifted = epoch.lifted /\ Books'.epoch.n = n
         /\ Books'.epoch.capLeft = left /\ Books'.epoch.cap = epoch.cap
    BY <1>8, <1>13
  <2> HIDE DEF left, n
  <2> QED BY <2>5, <2>8, <2>9, <2>10 DEF CapOK
<1>15. TypeOK'
  BY <1>1, <1>2, <1>8, <1>9 DEF TypeOK, EpochType, govern
<1>16. Static'
  <2>1. [v \in Wallets |-> stakers[v].staked]' = [v \in Wallets |-> stakers[v].staked]
    BY <1>10
  <2> QED BY <1>1, <1>2, <1>15, <2>1 DEF Static, SumOf
<1>17. \A v \in Wallets : WaitOK(v)'
  BY <1>2, <1>10 DEF StakingInv, WaitOK, govern
<1> QED
  BY <1>13, <1>14, <1>16, <1>17 DEF StakingInv, BooksOK

-----------------------------------------------------------------------------
(* Configuration and time *)

\* Steps that touch no stake: only the parameters, the history of the epoch's cap,
\* the owner's settings and the time move.
LEMMA SettingsKeep ==
    ASSUME StakingInv, UNCHANGED <<stakers, totalStaked, acc, pool, balance, edge, syncs, locked>>,
           TypeOK',
           epoch'.n = epoch.n, epoch'.capLeft = epoch.capLeft, epoch'.cap = epoch.cap,
           ~epoch'.lifted => ~epoch.lifted /\ params'.epochCap > 0,
           ~shortened' => /\ ~shortened
                          /\ now + params.cooldown <= now' + params'.cooldown
    PROVE  StakingInv'
<1> DEFINE more == Zero
<1>1. Static /\ BooksOK(Books) /\ TypeOK /\ CapOK(Books)
  BY DEF StakingInv, BooksOK, Static
<1>2. more \in [Assets -> Int]
  BY DEF Zero
<1>3. \A a \in Assets : /\ balance'[a] = balance[a] + more[a]
                        /\ Principal(a)' = Principal(a) + more[a]
  <2> SUFFICES ASSUME NEW a \in Assets
               PROVE  balance'[a] = balance[a] + more[a] /\ Principal(a)' = Principal(a) + more[a]
    OBVIOUS
  <2>1. balance[a] \in Nat /\ Principal(a) \in Nat
    BY <1>1, SumsTyped DEF BooksOK
  <2>2. Principal(a)' = Principal(a)
    BY DEF Principal, SumOf
  <2> QED BY <2>1, <2>2 DEF Zero
<1>4. epoch' \in EpochType
  BY DEF TypeOK, EpochType
<1>5. /\ Books' \in BooksType /\ Books'.epoch = epoch'
      /\ \A v \in Wallets, a \in Assets : WalletOK(Books, v, a)'
      /\ \A a \in Assets : AssetOK(Books, a)'
  <2> HIDE DEF more
  <2> QED BY <1>1, <1>2, <1>3, <1>4, QuietKeeps
<1>6. CapOK(Books)'
  <2>1. Books.epoch = epoch /\ Books'.epoch = epoch'
    BY DEF Books
  <2>2. SumOf([v \in Wallets |-> UsedIn(Books.epoch.n, v)])'
          = SumOf([v \in Wallets |-> UsedIn(Books.epoch.n, v)])
    BY <2>1 DEF UsedIn, SumOf
  <2> QED BY <1>1, <2>1, <2>2 DEF CapOK
<1>7. Static'
  BY <1>1 DEF Static, SumOf
<1>8. \A v \in Wallets : WaitOK(v)'
  <2> SUFFICES ASSUME NEW v \in Wallets, ~shortened'
               PROVE  /\ locked[v] <= now' + params'.cooldown
                      /\ stakers[v].pending > 0 => locked[v] <= stakers[v].availableAt
    BY DEF WaitOK
  <2>1. WaitOK(v)
    BY DEF StakingInv
  <2>2. /\ locked[v] \in Nat /\ now \in Nat /\ params.cooldown \in Nat
        /\ now' \in Nat /\ params'.cooldown \in Nat
    BY <1>1 DEF TypeOK, ParamType
  <2> QED BY <2>1, <2>2 DEF WaitOK
<1> QED
  BY <1>5, <1>6, <1>7, <1>8 DEF StakingInv, BooksOK

\* The owner's calls, and the acceptance of ownership.
LEMMA ConfigureKeeps ==
    ASSUME StakingInv, Configure
    PROVE  StakingInv'
<1>1. TypeOK
  BY DEF StakingInv, Static
<1>2. epoch \in EpochType /\ now + params.cooldown \in Int /\ now + params.cooldown <= now + params.cooldown
      /\ adminCalls + 1 \in Nat
  <2>1. now \in Nat /\ params.cooldown \in Nat /\ adminCalls \in Nat
    BY <1>1 DEF TypeOK, ParamType
  <2> QED BY <1>1, <2>1 DEF TypeOK, EpochType
<1>3. ~epoch.lifted => params.epochCap > 0
  BY DEF StakingInv, BooksOK, CapOK, Books
<1>4. PICK caller \in Governors :
        \/ \E p \in ParamSets : SetParams(caller, p)
        \/ \E p \in BOOLEAN : SetPaused(caller, p)
        \/ \E cap \in Caps : SetMaxStakePerDeposit(caller, cap)
        \/ \E a \in Governors :
              \/ \E approved \in BOOLEAN : SetOperator(caller, a, approved)
              \/ TransferOwnership(caller, a)
        \/ AcceptOwnership(caller)
  BY DEF Configure
<1>5. ASSUME NEW p \in ParamSets, SetParams(caller, p)
      PROVE  StakingInv'
  <2>1. /\ params' = p /\ p \in ParamType
        /\ epoch' = [epoch EXCEPT !.lifted = @ \/ p.epochCap = 0]
        /\ shortened' = (shortened \/ p.cooldown < params.cooldown)
        /\ adminCalls' = adminCalls + 1
        /\ UNCHANGED <<stakers, totalStaked, acc, pool, balance, now, deposits, edge, syncs, locked,
                       paused, maxStake, roles>>
    BY <1>5, NumbersAssumption DEF SetParams, OwnerCall
  <2>2. /\ epoch' \in EpochType /\ epoch'.n = epoch.n /\ epoch'.capLeft = epoch.capLeft
        /\ epoch'.cap = epoch.cap
    <3> DEFINE l == (epoch.lifted \/ p.epochCap = 0)
    <3>1. l \in BOOLEAN /\ epoch' = [epoch EXCEPT !.lifted = l]
      BY <2>1
    <3> HIDE DEF l
    <3> QED BY <1>2, <3>1 DEF EpochType
  <2>3. ~epoch'.lifted => ~epoch.lifted /\ p.epochCap # 0
    BY <1>2, <2>1 DEF EpochType
  <2>4. ~epoch'.lifted => ~epoch.lifted /\ params'.epochCap > 0
    BY <2>1, <2>3 DEF ParamType
  <2>5. shortened' \in BOOLEAN
    BY <1>1, <2>1 DEF TypeOK
  <2>6. TypeOK'
    BY <1>1, <1>2, <2>1, <2>2, <2>5 DEF TypeOK, EpochType
  <2>7. ~shortened' => ~shortened /\ now + params.cooldown <= now' + params'.cooldown
    <3>1. ~shortened' => ~shortened /\ ~(p.cooldown < params.cooldown)
      BY <2>1
    <3>2. now \in Nat /\ params.cooldown \in Nat /\ p.cooldown \in Nat
      BY <1>1, <2>1 DEF TypeOK, ParamType
    <3> QED BY <2>1, <3>1, <3>2
  <2> QED BY <2>1, <2>2, <2>4, <2>6, <2>7, SettingsKeep
<1>6. ASSUME adminCalls' \in Nat,
             UNCHANGED <<stakers, totalStaked, acc, pool, balance, epoch, params, shortened, now,
                         deposits, edge, syncs, locked>>,
             paused' \in BOOLEAN, maxStake' \in Nat,
             roles' \in [owner : Governors, pendingOwner : Governors \cup {NoOne},
                         operators : SUBSET Governors]
      PROVE  StakingInv'
  <2>1. TypeOK'
    BY <1>1, <1>6 DEF TypeOK
  <2> QED BY <1>2, <1>3, <1>6, <2>1, SettingsKeep
<1>7. ASSUME NEW p \in BOOLEAN, SetPaused(caller, p)
      PROVE  StakingInv'
  BY <1>1, <1>2, <1>6, <1>7 DEF SetPaused, OwnerCall, TypeOK
<1>8. ASSUME NEW cap \in Caps, SetMaxStakePerDeposit(caller, cap)
      PROVE  StakingInv'
  BY <1>1, <1>2, <1>6, <1>8, NumbersAssumption DEF SetMaxStakePerDeposit, OwnerCall, TypeOK
<1>9. ASSUME NEW a \in Governors, NEW approved \in BOOLEAN, SetOperator(caller, a, approved)
      PROVE  StakingInv'
  <2> DEFINE ops == IF approved THEN roles.operators \cup {a} ELSE roles.operators \ {a}
  <2>1. ops \in SUBSET Governors /\ roles' = [roles EXCEPT !.operators = ops]
    BY <1>1, <1>9 DEF SetOperator, TypeOK
  <2> HIDE DEF ops
  <2>2. roles' \in [owner : Governors, pendingOwner : Governors \cup {NoOne},
                    operators : SUBSET Governors]
    BY <1>1, <2>1 DEF TypeOK
  <2> QED BY <1>1, <1>2, <1>6, <1>9, <2>2 DEF SetOperator, OwnerCall, TypeOK
<1>10. ASSUME NEW a \in Governors, TransferOwnership(caller, a)
       PROVE  StakingInv'
  BY <1>1, <1>2, <1>6, <1>10 DEF TransferOwnership, OwnerCall, TypeOK
<1>11. ASSUME AcceptOwnership(caller)
       PROVE  StakingInv'
  <2>1. adminCalls' = adminCalls /\ adminCalls \in Nat
    BY <1>1, <1>11 DEF AcceptOwnership, TypeOK
  <2> QED BY <1>1, <1>6, <1>11, <2>1 DEF AcceptOwnership, TypeOK
<1> QED
  BY <1>4, <1>5, <1>7, <1>8, <1>9, <1>10, <1>11

\* Time passes.
LEMMA TickKeeps ==
    ASSUME StakingInv, Tick
    PROVE  StakingInv'
<1>1. TypeOK /\ (~epoch.lifted => params.epochCap > 0)
  BY DEF StakingInv, Static, BooksOK, CapOK, Books
<1>2. now \in Nat /\ params.cooldown \in Nat /\ now' = now + 1
  BY <1>1 DEF TypeOK, ParamType, Tick
<1>3. TypeOK'
  BY <1>1, <1>2 DEF TypeOK, Tick, govern
<1>4. now + params.cooldown <= now' + params.cooldown
  BY <1>2
<1> QED
  BY <1>1, <1>3, <1>4, SettingsKeep DEF Tick, govern

-----------------------------------------------------------------------------
(* The invariant and what follows from it *)

\* The contract starts without stakes, debts or allowances.
LEMMA InvInit ==
    ASSUME Init
    PROVE  StakingInv
<1>1. TypeOK
  <2>1. /\ Params \in ParamType /\ MaxStake \in Nat /\ Deployer \in Governors
        /\ Zero \in [Assets -> Nat] /\ NoStake \in StakerType
    BY NumbersAssumption, AccountsAssumption DEF Zero, NoStake, StakerType
  <2>2. epoch \in [n : Nat, start : Nat, capLeft : Nat, cap : Nat, lifted : BOOLEAN]
    BY <2>1 DEF Init, ParamType
  <2>3. Zero \in [Assets -> Int] /\ 0 \in Nat
    BY DEF Zero
  <2> QED BY <2>1, <2>2, <2>3 DEF Init, TypeOK
<1>2. /\ \A w \in Wallets : stakers[w] = NoStake /\ syncs[w] = 0 /\ locked[w] = 0 /\ edge[w] = Zero
      /\ acc = Zero /\ pool = Zero /\ balance = Zero /\ \A a \in Assets : Zero[a] = 0
  BY DEF Init, Zero
<1>3. PRECISION \in Nat /\ Scale \in Nat /\ MaxStaked \in Nat
  BY NumbersAssumption
<1>4. Books \in BooksType /\ Books.acc = acc /\ Books.pool = pool /\ Books.edge = edge /\ Books.epoch = epoch
  BY <1>1 DEF Books, BooksType, EpochType, TypeOK
<1>5. \A w \in Wallets, a \in Assets : Excess(Books, w, a) = 0 /\ WalletOK(Books, w, a)
  <2> SUFFICES ASSUME NEW w \in Wallets, NEW a \in Assets
               PROVE  Excess(Books, w, a) = 0 /\ WalletOK(Books, w, a)
    OBVIOUS
  <2>1. stakers[w].staked = 0 /\ stakers[w].debt[a] = 0 /\ Books.acc[a] = 0 /\ Books.edge[w][a] = 0
        /\ syncs[w] = 0
    BY <1>2, <1>4 DEF NoStake
  <2>2. Excess(Books, w, a) = 0
    BY <1>3, <2>1 DEF Excess
  <2> QED BY <1>3, <2>1, <2>2 DEF WalletOK
<1>6. \A w \in Wallets : /\ [v \in Wallets |-> stakers[v].staked][w] = 0
                         /\ [v \in Wallets |-> stakers[v].staked + stakers[v].pending][w] = 0
                         /\ \A m : [v \in Wallets |-> UsedIn(m, v)][w] = 0
  BY <1>2 DEF NoStake, UsedIn
<1>7. /\ SumOf([v \in Wallets |-> stakers[v].staked]) = 0
      /\ SumOf([v \in Wallets |-> stakers[v].staked + stakers[v].pending]) = 0
      /\ SumOf(syncs) = 0
      /\ \A m : SumOf([v \in Wallets |-> UsedIn(m, v)]) = 0
      /\ \A a \in Assets : SumOf([v \in Wallets |-> Excess(Books, v, a)]) = 0
  BY <1>2, <1>5, <1>6, AccountsAssumption, SumOfZeros DEF SumOf
<1>8. Static
  BY <1>1, <1>3, <1>7 DEF Static, Init
<1>9. \A a \in Assets : AssetOK(Books, a)
  <2> SUFFICES ASSUME NEW a \in Assets PROVE AssetOK(Books, a)
    OBVIOUS
  <2>1. Principal(a) = 0 /\ balance[a] = 0 /\ Books.pool[a] = 0
    BY <1>2, <1>4, <1>7 DEF Principal
  <2> QED BY <1>3, <1>7, <2>1 DEF AssetOK
<1>10. CapOK(Books)
  <2>1. /\ epoch.n = 1 /\ epoch.capLeft = Params.epochCap /\ epoch.cap = Params.epochCap
        /\ params.epochCap = Params.epochCap /\ Params.epochCap \in Nat
    BY NumbersAssumption DEF Init, ParamType
  <2>2. \A w \in Wallets : stakers[w].lastEpoch = 0
    BY <1>2 DEF NoStake
  <2>3. SumOf([v \in Wallets |-> UsedIn(Books.epoch.n, v)]) = 0
    BY <1>7
  <2>4. ~epoch.lifted => params.epochCap > 0
    <3>1. ~epoch.lifted => ~(Params.epochCap = 0)
      BY DEF Init
    <3> QED BY <2>1, <3>1
  <2>5. 0 + epoch.capLeft = epoch.cap
    BY <2>1
  <2>6. \A w \in Wallets : stakers[w].lastEpoch <= epoch.n
    BY <2>1, <2>2
  <2> QED BY <1>4, <2>3, <2>4, <2>5, <2>6 DEF CapOK
<1>11. \A w \in Wallets : WaitOK(w)
  <2> SUFFICES ASSUME NEW w \in Wallets PROVE WaitOK(w)
    OBVIOUS
  <2>1. locked[w] = 0 /\ stakers[w].pending = 0 /\ now \in Nat /\ params.cooldown \in Nat
    BY <1>1, <1>2 DEF NoStake, TypeOK, ParamType
  <2> QED BY <2>1 DEF WaitOK
<1> QED
  BY <1>4, <1>5, <1>8, <1>9, <1>10, <1>11 DEF StakingInv, BooksOK

\* Every call keeps the invariant.
LEMMA InvStep ==
    ASSUME StakingInv, [Next]_vars
    PROVE  StakingInv'
<1>1. Stakes \subseteq Nat /\ Yields \subseteq Nat /\ Mints \subseteq Nat
  BY NumbersAssumption
<1>2. ASSUME NEW w \in Wallets, NEW amount \in Stakes, Stake(w, amount)
      PROVE  StakingInv'
  BY <1>1, <1>2, StakeKeeps
<1>3. ASSUME NEW w \in Wallets, NEW amount \in Stakes, RequestUnstake(w, amount)
      PROVE  StakingInv'
  BY <1>1, <1>3, RequestKeeps
<1>4. ASSUME NEW w \in Wallets, Unstake(w)
      PROVE  StakingInv'
  BY <1>4, UnstakeKeeps
<1>5. ASSUME NEW w \in Wallets, NEW a \in Assets, ClaimYield(w, a)
      PROVE  StakingInv'
  BY <1>5, ClaimYieldKeeps
<1>6. ASSUME NEW w \in Wallets, NEW caller \in Governors, NEW amount \in Mints,
             ConsumeAllowance(caller, w, amount)
      PROVE  StakingInv'
  BY <1>1, <1>6, ConsumeKeeps
<1>7. ASSUME NEW caller \in Governors, NEW a \in Assets, NEW amount \in Yields,
             DepositYield(caller, a, amount)
      PROVE  StakingInv'
  BY <1>1, <1>7, DepositKeeps
<1>8. CASE AdvanceEpoch
  BY <1>8, AdvanceKeeps
<1>9. CASE Configure
  BY <1>9, ConfigureKeeps
<1>10. CASE Tick
  BY <1>10, TickKeeps
<1>11. CASE UNCHANGED vars
  <2>1. UNCHANGED <<stakers, totalStaked, acc, pool, balance, epoch, params, paused, maxStake,
                    roles, shortened, now, adminCalls, deposits, edge, syncs, locked>>
    BY <1>11 DEF vars, govern
  <2>2. /\ TypeOK /\ (~epoch.lifted => params.epochCap > 0)
        /\ now \in Nat /\ params.cooldown \in Nat
    BY DEF StakingInv, Static, BooksOK, CapOK, Books, TypeOK, ParamType
  <2>3. TypeOK'
    BY <2>1, <2>2 DEF TypeOK
  <2> QED BY <2>1, <2>2, <2>3, SettingsKeep
<1> QED
  BY <1>2, <1>3, <1>4, <1>5, <1>6, <1>7, <1>8, <1>9, <1>10, <1>11 DEF Next

\* The invariant holds in every state.
THEOREM StakingInvHolds == Spec => []StakingInv
<1>1. Init => StakingInv
  BY InvInit
<1>2. StakingInv /\ [Next]_vars => StakingInv'
  BY InvStep
<1> QED
  BY <1>1, <1>2, PTL DEF Spec

\* No stake, pending amount, debt, pool, balance or cap is ever taken below zero,
\* whatever the amounts, the parameters and the order of the calls.
THEOREM StakingTyped == Spec => []TypeOK
<1>1. StakingInv => TypeOK
  BY DEF StakingInv, Static
<1> QED
  BY <1>1, StakingInvHolds, PTL

\* Whole units owed are within whole units held, when parts of them are.
LEMMA WholeUnits ==
    ASSUME NEW P \in Nat \ {0}, NEW have \in Int, NEW owe \in Int, NEW X \in Int, NEW c \in Int,
           P * have >= P * owe + X, P * c <= X
    PROVE  have >= owe + c
<1> SUFFICES ASSUME owe + c > have PROVE FALSE
  OBVIOUS
<1> DEFINE d == owe + c - have - 1
<1>1. d \in Nat /\ owe + c = have + 1 + d
  OBVIOUS
<1>2. P * (owe + c) = P * owe + P * c
  OBVIOUS
<1>3. P * (have + 1 + d) = P * have + P + P * d
  BY <1>1
<1>4. P * d \in Nat
  BY <1>1, ProductGrows
<1>5. P * have \in Int /\ P * owe \in Int /\ P * c \in Int
  OBVIOUS
<1> HIDE DEF d
<1> QED
  BY <1>1, <1>2, <1>3, <1>4, <1>5

\* In a state of the invariant the contract is solvent up to the dust.
LEMMA InvSolvent ==
    ASSUME StakingInv
    PROVE  SolventUpToDust
<1>1. Static /\ BooksOK(Books) /\ TypeOK
  BY DEF StakingInv, Static
<1>2. ASSUME NEW a \in Assets
      PROVE  balance[a] + SumOf(syncs) >=
                Principal(a) + pool[a] + SumOf([w \in Wallets |-> Claim(Books, w, a)])
  <2> DEFINE C == [w \in Wallets |-> Claim(Books, w, a)]
             D == [w \in Wallets |-> PRECISION * Claim(Books, w, a)]
             E == [w \in Wallets |-> Excess(Books, w, a)]
             ys == SumOf(syncs)
  <2>1. /\ SumFunctionOnSet(E, Wallets) \in Int /\ ys \in Int /\ Principal(a) \in Int
        /\ balance[a] \in Int /\ pool[a] \in Int /\ PRECISION \in Nat \ {0}
    <3>1. Books \in BooksType /\ \A w \in Wallets, c \in Assets : WalletOK(Books, w, c)
      BY <1>1 DEF BooksOK
    <3>2. /\ SumOf(E) \in Nat /\ ys \in Nat /\ Principal(a) \in Nat
          /\ balance[a] \in Nat /\ Books.pool[a] \in Nat /\ PRECISION \in Nat \ {0}
      BY <1>1, <3>1, SumsTyped
    <3> QED BY <3>2 DEF SumOf, Books
  <2>2. \A w \in Wallets : /\ Claim(Books, w, a) \in Nat /\ Excess(Books, w, a) \in Nat
                           /\ PRECISION * Claim(Books, w, a) <= Excess(Books, w, a)
    BY <1>1, ClaimIsDue
  <2>3. PRECISION * (balance[a] + ys) >= PRECISION * (Principal(a) + pool[a]) + SumFunctionOnSet(E, Wallets)
    BY <1>1 DEF BooksOK, AssetOK, Books, SumOf
  <2>4. \A w \in Wallets : C[w] \in Int /\ D[w] = PRECISION * C[w]
    BY <2>2
  <2>5. \A w \in Wallets : D[w] \in Int /\ E[w] \in Int /\ D[w] <= E[w]
    <3> SUFFICES ASSUME NEW w \in Wallets PROVE D[w] \in Int /\ E[w] \in Int /\ D[w] <= E[w]
      OBVIOUS
    <3>1. Claim(Books, w, a) \in Nat /\ PRECISION \in Nat
      BY <2>1, <2>2
    <3>2. PRECISION * Claim(Books, w, a) \in Nat
      BY <3>1, ProductGrows
    <3> QED BY <2>2, <3>2
  <2>6. SumOf(C) = SumFunctionOnSet(C, Wallets)
    BY DEF SumOf
  <2> HIDE DEF C, D, E, ys
  <2>7. PRECISION * SumFunctionOnSet(C, Wallets) <= SumFunctionOnSet(E, Wallets)
        /\ SumFunctionOnSet(C, Wallets) \in Int
    <3>1. IsFiniteSet(Wallets) /\ PRECISION \in Int
      BY <2>1, AccountsAssumption
    <3>2. SumFunctionOnSet(D, Wallets) = PRECISION * SumFunctionOnSet(C, Wallets)
      BY <2>4, <3>1, SumOfMultiples
    <3>3. SumFunctionOnSet(D, Wallets) <= SumFunctionOnSet(E, Wallets)
      BY <2>5, <3>1, SumAtMost
    <3>4. SumFunctionOnSet(C, Wallets) \in Int
      BY <2>4, <3>1, SumType
    <3> QED BY <3>2, <3>3, <3>4
  <2>8. balance[a] + ys \in Int /\ Principal(a) + pool[a] \in Int
    BY <2>1
  <2>9. balance[a] + ys >= (Principal(a) + pool[a]) + SumFunctionOnSet(C, Wallets)
    BY <2>1, <2>3, <2>7, <2>8, WholeUnits
  <2> QED BY <2>6, <2>9 DEF C, ys
<1> QED
  BY <1>1, <1>2 DEF SolventUpToDust, Static

\* The contract can always pay every stake, every pending withdrawal, every claim
\* and the pool, short of one unit for each debt set anew.
THEOREM StakingSolvent == Spec => []SolventUpToDust
<1>1. StakingInv => SolventUpToDust
  BY InvSolvent
<1> QED
  BY <1>1, StakingInvHolds, PTL

\* In a state of the invariant no wallet is ahead of its part.
LEMMA InvFair ==
    ASSUME StakingInv
    PROVE  NoOneTakesAnothersYield
<1> SUFFICES ASSUME NEW w \in Wallets, NEW a \in Assets
             PROVE  edge[w][a] + Scale * Claim(Books, w, a) <= Scale * syncs[w]
  BY DEF NoOneTakesAnothersYield
<1>1. Static /\ BooksOK(Books) /\ TypeOK
  BY DEF StakingInv, Static
<1> DEFINE e == edge[w][a]
           X == Excess(Books, w, a)
           c == Claim(Books, w, a)
           y == Scale * syncs[w]
           Z == Scale * X
           z == Scale * c
<1>2. /\ e \in Int /\ X \in Nat /\ c \in Nat /\ PRECISION * c <= X
      /\ PRECISION \in Nat \ {0} /\ Scale \in Nat /\ syncs[w] \in Nat
  BY <1>1, ClaimIsDue, NumbersAssumption DEF TypeOK
<1>3. PRECISION * e + Z <= PRECISION * y
  BY <1>1 DEF BooksOK, WalletOK, Books
<1>4. PRECISION * z <= Z
  <2>1. PRECISION * c \in Nat
    BY <1>2, ProductGrows
  <2>2. Scale * (PRECISION * c) <= Scale * X
    BY <1>2, <2>1, ProductGrows
  <2>3. PRECISION * (Scale * c) = Scale * (PRECISION * c)
    BY <1>2
  <2> QED BY <2>2, <2>3
<1>5. y \in Int /\ Z \in Int /\ z \in Int
  BY <1>2
<1> HIDE DEF e, X, c, y, Z, z
<1>6. y >= e + z
  BY <1>2, <1>3, <1>4, <1>5, WholeUnits
<1> QED
  BY <1>2, <1>5, <1>6 DEF e, c, y, z

\* No wallet is paid, or may claim, more than its exact part of the yield that was
\* distributed while it was staked, and one unit for each debt set anew.
THEOREM YieldIsFair == Spec => []NoOneTakesAnothersYield
<1>1. StakingInv => NoOneTakesAnothersYield
  BY InvFair
<1> QED
  BY <1>1, StakingInvHolds, PTL

\* The allowances consumed in an epoch never exceed its cap, unless it was lifted.
THEOREM CapIsKept == Spec => []EpochCapHolds
<1>1. StakingInv => EpochCapHolds
  <2> SUFFICES ASSUME StakingInv PROVE EpochCapHolds
    OBVIOUS
  <2>1. CapOK(Books) /\ Books.epoch = epoch
    BY DEF StakingInv, BooksOK, Books
  <2>2. [w \in Wallets |-> UsedIn(Books.epoch.n, w)] = [w \in Wallets |-> UsedInEpoch(w)]
    BY <2>1 DEF UsedIn, UsedInEpoch
  <2> QED BY <2>1, <2>2 DEF CapOK, EpochCapHolds
<1> QED
  BY <1>1, StakingInvHolds, PTL

\* A step that empties what a wallet has pending is its own withdrawal.
LEMMA OnlyUnstakeEmpties ==
    ASSUME StakingInv, [Next]_vars, NEW w \in Wallets,
           stakers[w].pending > 0, stakers'[w].pending = 0
    PROVE  Unstake(w)
<1>1. /\ stakers \in [Wallets -> StakerType]
      /\ \A v \in Wallets : stakers[v].pending \in Nat /\ stakers[v] \in StakerType
  BY DEF StakingInv, Static, TypeOK, StakerType
<1>2. Stakes \subseteq Nat
  BY NumbersAssumption
<1>3. ASSUME NEW v \in Wallets, NEW amount \in Stakes, Stake(v, amount)
      PROVE  FALSE
  <2>1. \A u \in Wallets : stakers'[u].pending = stakers[u].pending
    BY <1>1, <1>3 DEF Stake, StakerType
  <2> QED BY <1>1, <2>1
<1>4. ASSUME NEW v \in Wallets, NEW amount \in Stakes, RequestUnstake(v, amount)
      PROVE  FALSE
  <2>1. \A u \in Wallets : stakers'[u].pending = stakers[u].pending + IF u = v THEN amount ELSE 0
    BY <1>1, <1>2, <1>4 DEF RequestUnstake, RequestWith, StakerType
  <2> QED BY <1>1, <1>2, <2>1
<1>5. ASSUME NEW v \in Wallets, Unstake(v)
      PROVE  Unstake(w)
  <2>1. \A u \in Wallets \ {v} : stakers'[u] = stakers[u]
    BY <1>1, <1>5 DEF Unstake
  <2> QED BY <1>1, <1>5, <2>1
<1>6. ASSUME NEW v \in Wallets, NEW a \in Assets, ClaimYield(v, a)
      PROVE  FALSE
  <2>1. \A u \in Wallets : stakers'[u].pending = stakers[u].pending
    BY <1>1, <1>6 DEF ClaimYield, StakerType
  <2> QED BY <1>1, <2>1
<1>7. ASSUME NEW v \in Wallets, NEW caller \in Governors, NEW amount \in Mints,
             ConsumeAllowance(caller, v, amount)
      PROVE  FALSE
  <2>1. \A u \in Wallets : stakers'[u].pending = stakers[u].pending
    BY <1>1, <1>7 DEF ConsumeAllowance, StakerType
  <2> QED BY <1>1, <2>1
<1>8. CASE UNCHANGED stakers
  BY <1>8
<1>9. ASSUME NEW caller \in Governors, NEW a \in Assets, NEW amount \in Yields,
             DepositYield(caller, a, amount)
      PROVE  UNCHANGED stakers
  BY <1>9 DEF DepositYield
<1>10. AdvanceEpoch \/ Tick \/ UNCHANGED vars => UNCHANGED stakers
  BY DEF AdvanceEpoch, Tick, vars
<1>11. Configure => UNCHANGED stakers
  BY DEF Configure, SetParams, SetPaused, SetMaxStakePerDeposit, SetOperator,
         TransferOwnership, AcceptOwnership, OwnerCall
<1> QED
  BY <1>3, <1>4, <1>5, <1>6, <1>7, <1>8, <1>9, <1>10, <1>11 DEF Next

\* Whatever a wallet withdraws has waited for every cooldown it asked for, unless
\* the owner once shortened the cooldown.
THEOREM CooldownIsKept == Spec => CooldownKept
<1> DEFINE A == \A w \in Wallets :
          stakers[w].pending > 0 /\ stakers'[w].pending = 0 /\ ~shortened
             => now >= locked[w]
<1>1. StakingInv /\ [Next]_vars => A
  <2> SUFFICES ASSUME StakingInv, [Next]_vars, NEW w \in Wallets,
                      stakers[w].pending > 0, stakers'[w].pending = 0, ~shortened
               PROVE  now >= locked[w]
    OBVIOUS
  <2>1. Unstake(w)
    BY OnlyUnstakeEmpties
  <2>2. WaitOK(w) /\ locked[w] \in Nat /\ now \in Nat /\ stakers[w].availableAt \in Nat
    BY DEF StakingInv, Static, TypeOK, StakerType
  <2>3. now >= stakers[w].availableAt
    BY <2>1 DEF Unstake
  <2> QED BY <2>2, <2>3 DEF WaitOK
<1>2. StakingInv /\ [Next]_vars => [A]_vars
  BY <1>1
<1> QED
  BY <1>2, StakingInvHolds, PTL DEF Spec, CooldownKept
=============================================================================
