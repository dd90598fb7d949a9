---------------------------- MODULE SumTheorems ----------------------------
(***************************************************************************)
(* Sums of a function over a finite set, SumFunctionOnSet of the community *)
(* modules: what taking an element out, changing one value or adding two   *)
(* functions does to a sum.  Every statement about the money of a contract *)
(* rests on these.  At the end, what rounding and growing do to products.  *)
(*                                                                         *)
(* SumFunctionOnSet is a fold, defined by a recursive function over the    *)
(* subsets that takes out an element of CHOOSE's at each step.  That the   *)
(* function exists, and that the choice does not matter, is shown by       *)
(* taking a least subset for which it fails (LeastSubset).                 *)
(***************************************************************************)
EXTENDS Integers, Functions, FiniteSetTheorems, WellFoundedInduction, TLAPS

-----------------------------------------------------------------------------
(* Induction over the subsets of a finite set *)

\* Among the subsets of a finite set that have a property there is a least one.
LEMMA LeastSubset ==
    ASSUME NEW S, IsFiniteSet(S), NEW T, T \subseteq SUBSET S, T # {}
    PROVE  \E A \in T : \A B \in T : B \subseteq A => B = A
<1>1. IsWellFoundedOn(StrictSubsetOrdering(S), SUBSET S)
  BY FS_StrictSubsetOrderingWellFounded, FS_FiniteSubsetsOfFinite
<1>2. PICK A \in T : \A B \in T : <<B, A>> \notin StrictSubsetOrdering(S)
  BY <1>1, WFMin
<1>3. \A B \in T : B \subseteq A => B = A
  BY <1>2 DEF StrictSubsetOrdering
<1> QED
  BY <1>3

\* A family of subsets of S that has the empty set, and with a subset also
\* what one more element makes of it, has them all.
LEMMA SubsetInduction ==
    ASSUME NEW S, IsFiniteSet(S), NEW P,
           {} \in P,
           \A A \in SUBSET S, x \in S : A \in P /\ x \notin A => A \cup {x} \in P
    PROVE  \A A \in SUBSET S : A \in P
<1> SUFFICES ASSUME NEW B \in SUBSET S, B \notin P
             PROVE  FALSE
  OBVIOUS
<1> DEFINE T == {A \in SUBSET S : A \notin P}
<1>1. PICK A \in T : \A C \in T : C \subseteq A => C = A
  <2>1. T \subseteq SUBSET S /\ T # {}
    OBVIOUS
  <2> HIDE DEF T
  <2> QED BY <2>1, LeastSubset
<1>2. PICK x \in A : TRUE
  BY <1>1
<1>3. A \ {x} \in P
  BY <1>1, <1>2
<1>4. (A \ {x}) \cup {x} \in P
  BY <1>1, <1>2, <1>3
<1>5. (A \ {x}) \cup {x} = A
  BY <1>2
<1> QED
  BY <1>1, <1>4, <1>5

-----------------------------------------------------------------------------
(* The recursive function of the fold *)

Chosen(s) == CHOOSE x \in s : TRUE

\* g computes the sums of f over the subsets of S.
ComputesSums(f, S, g) ==
    g = [s \in SUBSET S |-> IF s = {} THEN 0 ELSE f[Chosen(s)] + g[s \ {Chosen(s)}]]

\* Two functions that compute the sums of f agree wherever both are defined.
LEMMA SumsAreUnique ==
    ASSUME NEW f, NEW S, IsFiniteSet(S), NEW T, NEW g, NEW h,
           ComputesSums(f, S, g), ComputesSums(f, T, h),
           NEW s \in SUBSET S, s \in SUBSET T
    PROVE  g[s] = h[s]
<1> SUFFICES ASSUME g[s] # h[s] PROVE FALSE
  OBVIOUS
<1> DEFINE bad == {A \in SUBSET S : A \in SUBSET T /\ g[A] # h[A]}
<1>1. PICK A \in bad : \A B \in bad : B \subseteq A => B = A
  <2>1. bad \subseteq SUBSET S /\ bad # {}
    OBVIOUS
  <2> HIDE DEF bad
  <2> QED BY <2>1, LeastSubset
<1>2. g[{}] = 0 /\ h[{}] = 0
  BY DEF ComputesSums
<1>3. A # {}
  BY <1>1, <1>2
<1> DEFINE B == A \ {Chosen(A)}
<1>4. Chosen(A) \in A
  BY <1>3 DEF Chosen
<1>5. g[B] = h[B]
  BY <1>1, <1>4
<1>6. /\ g[A] = f[Chosen(A)] + g[B]
      /\ h[A] = f[Chosen(A)] + h[B]
  BY <1>1, <1>3 DEF ComputesSums
<1> QED
  BY <1>1, <1>5, <1>6

\* There is a function that computes the sums of f over the subsets of S.
LEMMA SumsExist ==
    ASSUME NEW f, NEW S, IsFiniteSet(S)
    PROVE  \E g : ComputesSums(f, S, g)
<1> SUFFICES ASSUME ~\E g : ComputesSums(f, S, g) PROVE FALSE
  OBVIOUS
<1> DEFINE bad == {A \in SUBSET S : ~\E g : ComputesSums(f, A, g)}
<1>1. PICK A \in bad : \A B \in bad : B \subseteq A => B = A
  <2>1. bad \subseteq SUBSET S /\ bad # {}
    OBVIOUS
  <2> HIDE DEF bad
  <2> QED BY <2>1, LeastSubset
<1> DEFINE G(B) == CHOOSE g : ComputesSums(f, B, g)
<1>2. \A B \in SUBSET A : B # A => ComputesSums(f, B, G(B))
  <2> SUFFICES ASSUME NEW B \in SUBSET A, B # A PROVE ComputesSums(f, B, G(B))
    OBVIOUS
  <2>1. \E g : ComputesSums(f, B, g)
    BY <1>1
  <2> QED BY <2>1
<1> HIDE DEF G
<1> DEFINE rest(s) == s \ {Chosen(s)}
           g == [s \in SUBSET A |-> IF s = {} THEN 0
                                    ELSE f[Chosen(s)] + G(rest(s))[rest(s)]]
<1>3. \A s \in SUBSET A : s # {} => rest(s) \in SUBSET s /\ rest(s) # s
  BY DEF Chosen
<1>4. \A s \in SUBSET A : s # A => g[s] = G(s)[s]
  <2> SUFFICES ASSUME NEW s \in SUBSET A, s # A PROVE g[s] = G(s)[s]
    OBVIOUS
  <2>1. CASE s = {}
    BY <1>2, <2>1 DEF ComputesSums
  <2>2. CASE s # {}
    <3>1. G(s)[s] = f[Chosen(s)] + G(s)[rest(s)]
      BY <1>2, <2>2 DEF ComputesSums
    <3>2. rest(s) \in SUBSET s /\ rest(s) # A
      BY <1>3, <2>2
    <3>3. IsFiniteSet(s)
      BY <1>1, FS_Subset
    <3>4. G(s)[rest(s)] = G(rest(s))[rest(s)]
      BY <1>2, <3>2, <3>3, SumsAreUnique
    <3> QED BY <2>2, <3>1, <3>4
  <2> QED BY <2>1, <2>2
<1>5. ComputesSums(f, A, g)
  <2>1. \A s \in SUBSET A : s # {} => g[rest(s)] = G(rest(s))[rest(s)]
    <3> SUFFICES ASSUME NEW s \in SUBSET A, s # {} PROVE g[rest(s)] = G(rest(s))[rest(s)]
      OBVIOUS
    <3>1. rest(s) \in SUBSET A /\ rest(s) # A
      BY <1>3
    <3> HIDE DEF rest, g
    <3> QED BY <1>4, <3>1
  <2> QED BY <2>1 DEF ComputesSums
<1> QED
  BY <1>1, <1>5

\* The fold is the value at S of such a function.
LEMMA SumIsComputed ==
    ASSUME NEW f, NEW S, IsFiniteSet(S)
    PROVE  \E g : ComputesSums(f, S, g) /\ SumFunctionOnSet(f, S) = g[S]
<1> DEFINE g == CHOOSE g : ComputesSums(f, S, g)
<1>1. ComputesSums(f, S, g)
  BY SumsExist
<1>2. SumFunctionOnSet(f, S) = g[S]
  BY DEF SumFunctionOnSet, FoldFunctionOnSet, MapThenFoldSet, ComputesSums, Chosen
<1> QED
  BY <1>1, <1>2
-----------------------------------------------------------------------------
(* What a sum is *)

\* The sum over no element is zero; otherwise it is the chosen element's value
\* and the sum over the others.
LEMMA SumUnfolds ==
    ASSUME NEW f, NEW S, IsFiniteSet(S)
    PROVE  SumFunctionOnSet(f, S) =
             IF S = {} THEN 0 ELSE f[Chosen(S)] + SumFunctionOnSet(f, S \ {Chosen(S)})
<1> DEFINE R == S \ {Chosen(S)}
<1>1. IsFiniteSet(R) /\ R \in SUBSET S /\ R \in SUBSET R
  BY FS_Subset
<1> HIDE DEF R
<1>2. PICK g : ComputesSums(f, S, g) /\ SumFunctionOnSet(f, S) = g[S]
  BY SumIsComputed
<1>3. PICK h : ComputesSums(f, R, h) /\ SumFunctionOnSet(f, R) = h[R]
  BY <1>1, SumIsComputed
<1>4. g[R] = h[R]
  BY <1>1, <1>2, <1>3, SumsAreUnique
<1>5. g[S] = IF S = {} THEN 0 ELSE f[Chosen(S)] + g[R]
  BY <1>2 DEF ComputesSums, R
<1> QED
  BY <1>2, <1>3, <1>4, <1>5 DEF R

\* The sum over the empty set.
LEMMA SumOfNothing ==
    ASSUME NEW f
    PROVE  SumFunctionOnSet(f, {}) = 0
  BY SumUnfolds, FS_EmptySet

\* A sum of integers is an integer.
LEMMA SumType ==
    ASSUME NEW f, NEW S, IsFiniteSet(S), \A x \in S : f[x] \in Int
    PROVE  SumFunctionOnSet(f, S) \in Int
<1> SUFFICES ASSUME SumFunctionOnSet(f, S) \notin Int PROVE FALSE
  OBVIOUS
<1> DEFINE bad == {A \in SUBSET S : SumFunctionOnSet(f, A) \notin Int}
<1>1. PICK A \in bad : \A B \in bad : B \subseteq A => B = A
  <2>1. bad \subseteq SUBSET S /\ bad # {}
    OBVIOUS
  <2> HIDE DEF bad
  <2> QED BY <2>1, LeastSubset
<1>2. A # {}
  <2>1. SumFunctionOnSet(f, {}) \in Int
    BY SumOfNothing
  <2> QED BY <1>1, <2>1
<1>3. Chosen(A) \in A
  BY <1>2 DEF Chosen
<1>4. SumFunctionOnSet(f, A \ {Chosen(A)}) \in Int
  BY <1>1, <1>3
<1>5. SumFunctionOnSet(f, A) = f[Chosen(A)] + SumFunctionOnSet(f, A \ {Chosen(A)})
  BY <1>1, <1>2, SumUnfolds, FS_Subset
<1> QED
  BY <1>1, <1>3, <1>4, <1>5

\* Whichever element is taken out, the sum is its value and that of the others.
THEOREM SumTakesOut ==
    ASSUME NEW f, NEW S, IsFiniteSet(S), \A y \in S : f[y] \in Int, NEW x \in S
    PROVE  SumFunctionOnSet(f, S) = f[x] + SumFunctionOnSet(f, S \ {x})
<1> DEFINE Sum(A) == SumFunctionOnSet(f, A)
           bad == {A \in SUBSET S : \E y \in A : Sum(A) # f[y] + Sum(A \ {y})}
<1> SUFFICES ASSUME bad # {} PROVE FALSE
  OBVIOUS
<1>1. PICK A \in bad : \A B \in bad : B \subseteq A => B = A
  <2>1. bad \subseteq SUBSET S
    OBVIOUS
  <2> HIDE DEF bad
  <2> QED BY <2>1, LeastSubset
<1>2. PICK y \in A : Sum(A) # f[y] + Sum(A \ {y})
  BY <1>1
<1> DEFINE c == Chosen(A)
<1>3. c \in A
  BY <1>2 DEF Chosen
<1>4. \A B \in SUBSET S : Sum(B) \in Int /\ IsFiniteSet(B)
  BY SumType, FS_Subset
<1>5. Sum(A) = f[c] + Sum(A \ {c})
  BY <1>1, <1>2, <1>4, SumUnfolds
<1> HIDE DEF c
<1>6. c # y
  BY <1>2, <1>5
<1>7. Sum(A \ {c}) = f[y] + Sum((A \ {c}) \ {y})
  <2>1. A \ {c} \subseteq A /\ A \ {c} # A /\ A \ {c} \in SUBSET S /\ y \in A \ {c}
    BY <1>1, <1>2, <1>3, <1>6
  <2>2. A \ {c} \notin bad
    BY <1>1, <2>1
  <2> QED BY <2>1, <2>2
<1>8. Sum(A \ {y}) = f[c] + Sum((A \ {y}) \ {c})
  <2>1. A \ {y} \subseteq A /\ A \ {y} # A /\ A \ {y} \in SUBSET S /\ c \in A \ {y}
    BY <1>1, <1>2, <1>3, <1>6
  <2>2. A \ {y} \notin bad
    BY <1>1, <2>1
  <2> QED BY <2>1, <2>2
<1>9. (A \ {c}) \ {y} = (A \ {y}) \ {c}
  OBVIOUS
<1>10. /\ f[c] \in Int /\ f[y] \in Int
       /\ Sum((A \ {c}) \ {y}) \in Int
  BY <1>1, <1>2, <1>3, <1>4
<1>11. Sum(A \ {y}) = f[c] + Sum((A \ {c}) \ {y})
  BY <1>8, <1>9
<1> HIDE DEF Sum
<1>12. Sum(A) = f[y] + Sum(A \ {y})
  BY <1>5, <1>7, <1>10, <1>11
<1> QED
  BY <1>2, <1>12

\* Functions that agree on a set have the same sum over it.
LEMMA SumOfEquals ==
    ASSUME NEW f, NEW g, NEW S, IsFiniteSet(S), \A x \in S : f[x] = g[x]
    PROVE  SumFunctionOnSet(f, S) = SumFunctionOnSet(g, S)
<1> DEFINE bad == {A \in SUBSET S : SumFunctionOnSet(f, A) # SumFunctionOnSet(g, A)}
<1> SUFFICES ASSUME bad # {} PROVE FALSE
  OBVIOUS
<1>1. PICK A \in bad : \A B \in bad : B \subseteq A => B = A
  <2>1. bad \subseteq SUBSET S
    OBVIOUS
  <2> HIDE DEF bad
  <2> QED BY <2>1, LeastSubset
<1>2. A # {}
  BY <1>1, SumOfNothing
<1>3. Chosen(A) \in A
  BY <1>2 DEF Chosen
<1>4. SumFunctionOnSet(f, A \ {Chosen(A)}) = SumFunctionOnSet(g, A \ {Chosen(A)})
  BY <1>1, <1>3
<1>5. /\ SumFunctionOnSet(f, A) = f[Chosen(A)] + SumFunctionOnSet(f, A \ {Chosen(A)})
      /\ SumFunctionOnSet(g, A) = g[Chosen(A)] + SumFunctionOnSet(g, A \ {Chosen(A)})
  BY <1>1, <1>2, SumUnfolds, FS_Subset
<1> QED
  BY <1>1, <1>3, <1>4, <1>5

-----------------------------------------------------------------------------
(* How a sum changes *)

\* If two functions differ at x only, their sums differ by as much.
THEOREM SumOfOneChange ==
    ASSUME NEW f, NEW g, NEW S, IsFiniteSet(S), NEW x \in S,
           \A y \in S : f[y] \in Int /\ g[y] \in Int,
           \A y \in S \ {x} : g[y] = f[y]
    PROVE  SumFunctionOnSet(g, S) = SumFunctionOnSet(f, S) - f[x] + g[x]
<1>1. SumFunctionOnSet(g, S) = g[x] + SumFunctionOnSet(g, S \ {x})
  BY SumTakesOut
<1>2. SumFunctionOnSet(f, S) = f[x] + SumFunctionOnSet(f, S \ {x})
  BY SumTakesOut
<1>3. IsFiniteSet(S \ {x})
  BY FS_RemoveElement
<1>4. SumFunctionOnSet(g, S \ {x}) = SumFunctionOnSet(f, S \ {x})
  BY <1>3, SumOfEquals
<1>5. SumFunctionOnSet(f, S \ {x}) \in Int
  BY <1>3, SumType
<1> QED
  BY <1>1, <1>2, <1>4, <1>5

\* A sum of naturals is a natural, and no less than any of them.
LEMMA SumOfNaturals ==
    ASSUME NEW f, NEW S, IsFiniteSet(S), \A x \in S : f[x] \in Nat
    PROVE  /\ SumFunctionOnSet(f, S) \in Nat
           /\ \A x \in S : SumFunctionOnSet(f, S) >= f[x]
<1>1. \A A \in SUBSET S : SumFunctionOnSet(f, A) \in Nat
  <2> DEFINE P == {A \in SUBSET S : SumFunctionOnSet(f, A) \in Nat}
  <2>1. {} \in P
    BY SumOfNothing
  <2>2. ASSUME NEW A \in SUBSET S, NEW x \in S, A \in P, x \notin A
        PROVE  A \cup {x} \in P
    <3>1. IsFiniteSet(A \cup {x}) /\ (A \cup {x}) \ {x} = A /\ A \cup {x} \in SUBSET S
      BY <2>2, FS_Subset
    <3>2. \A y \in A \cup {x} : f[y] \in Int
      OBVIOUS
    <3>3. SumFunctionOnSet(f, A \cup {x}) = f[x] + SumFunctionOnSet(f, (A \cup {x}) \ {x})
      BY <3>1, <3>2, SumTakesOut
    <3> QED BY <2>2, <3>1, <3>3
  <2>3. \A A \in SUBSET S : A \in P
    <3> HIDE DEF P
    <3> QED BY <2>1, <2>2, SubsetInduction
  <2> QED BY <2>3
<1>2. ASSUME NEW x \in S PROVE SumFunctionOnSet(f, S) >= f[x]
  <2>1. SumFunctionOnSet(f, S) = f[x] + SumFunctionOnSet(f, S \ {x})
    BY SumTakesOut
  <2>2. SumFunctionOnSet(f, S \ {x}) \in Nat
    BY <1>1
  <2> QED BY <2>1, <2>2
<1> QED
  BY <1>1, <1>2

\* The sum of zeros is zero.
LEMMA SumOfZeros ==
    ASSUME NEW f, NEW S, IsFiniteSet(S), \A x \in S : f[x] = 0
    PROVE  SumFunctionOnSet(f, S) = 0
<1> DEFINE P == {A \in SUBSET S : SumFunctionOnSet(f, A) = 0}
<1>1. {} \in P
  BY SumOfNothing
<1>2. ASSUME NEW A \in SUBSET S, NEW x \in S, A \in P, x \notin A
      PROVE  A \cup {x} \in P
  <2>1. IsFiniteSet(A \cup {x}) /\ (A \cup {x}) \ {x} = A /\ A \cup {x} \in SUBSET S
    BY <1>2, FS_Subset
  <2>2. \A y \in A \cup {x} : f[y] \in Int
    OBVIOUS
  <2>3. SumFunctionOnSet(f, A \cup {x}) = f[x] + SumFunctionOnSet(f, (A \cup {x}) \ {x})
    BY <2>1, <2>2, SumTakesOut
  <2> QED BY <1>2, <2>1, <2>3
<1>3. \A A \in SUBSET S : A \in P
  <2> HIDE DEF P
  <2> QED BY <1>1, <1>2, SubsetInduction
<1> QED
  BY <1>3

\* What one more element adds.
LEMMA SumGrows ==
    ASSUME NEW f, NEW S, IsFiniteSet(S), NEW x, x \notin S, \A y \in S \cup {x} : f[y] \in Int
    PROVE  SumFunctionOnSet(f, S \cup {x}) = f[x] + SumFunctionOnSet(f, S)
<1>1. IsFiniteSet(S \cup {x})
  BY FS_AddElement
<1>2. (S \cup {x}) \ {x} = S
  OBVIOUS
<1>3. SumFunctionOnSet(f, S \cup {x}) = f[x] + SumFunctionOnSet(f, (S \cup {x}) \ {x})
  BY <1>1, SumTakesOut
<1> QED
  BY <1>2, <1>3

\* Two functions may be summed together.
LEMMA SumOfSums ==
    ASSUME NEW f, NEW g, NEW h, NEW S, IsFiniteSet(S),
           \A x \in S : f[x] \in Int /\ g[x] \in Int /\ h[x] = f[x] + g[x]
    PROVE  SumFunctionOnSet(h, S) = SumFunctionOnSet(f, S) + SumFunctionOnSet(g, S)
<1> DEFINE P == {A \in SUBSET S :
                    SumFunctionOnSet(h, A) = SumFunctionOnSet(f, A) + SumFunctionOnSet(g, A)}
<1>1. {} \in P
  BY SumOfNothing
<1>2. ASSUME NEW A \in SUBSET S, NEW x \in S, A \in P, x \notin A
      PROVE  A \cup {x} \in P
  <2>1. /\ IsFiniteSet(A) /\ IsFiniteSet(A \cup {x})
        /\ A \cup {x} \in SUBSET S
    BY <1>2, FS_Subset
  <2>2. \A y \in A \cup {x} : f[y] \in Int /\ g[y] \in Int /\ h[y] \in Int
    OBVIOUS
  <2>3. /\ SumFunctionOnSet(f, A \cup {x}) = f[x] + SumFunctionOnSet(f, A)
        /\ SumFunctionOnSet(g, A \cup {x}) = g[x] + SumFunctionOnSet(g, A)
        /\ SumFunctionOnSet(h, A \cup {x}) = h[x] + SumFunctionOnSet(h, A)
    BY <1>2, <2>1, <2>2, SumGrows
  <2>4. SumFunctionOnSet(f, A) \in Int /\ SumFunctionOnSet(g, A) \in Int
    BY <2>1, <2>2, SumType
  <2>5. /\ SumFunctionOnSet(h, A) = SumFunctionOnSet(f, A) + SumFunctionOnSet(g, A)
        /\ f[x] \in Int /\ g[x] \in Int /\ h[x] = f[x] + g[x]
    BY <1>2
  <2>6. SumFunctionOnSet(h, A \cup {x}) =
          SumFunctionOnSet(f, A \cup {x}) + SumFunctionOnSet(g, A \cup {x})
    BY <2>1, <2>3, <2>4, <2>5
  <2> QED BY <2>1, <2>6
<1>3. \A A \in SUBSET S : A \in P
  <2> HIDE DEF P
  <2> QED BY <1>1, <1>2, SubsetInduction
<1> QED
  BY <1>3

\* A function that is a on the elements of B, and 0 elsewhere.
LEMMA SumOfBatch ==
    ASSUME NEW f, NEW S, IsFiniteSet(S), NEW B \in SUBSET S, NEW a \in Int,
           \A x \in S : f[x] = IF x \in B THEN a ELSE 0
    PROVE  SumFunctionOnSet(f, S) = a * Cardinality(B)
<1> DEFINE P == {A \in SUBSET S : SumFunctionOnSet(f, A) = a * Cardinality(A \cap B)}
<1>1. {} \in P
  <2>1. {} \cap B = {}
    OBVIOUS
  <2> QED BY <2>1, SumOfNothing, FS_EmptySet
<1>2. ASSUME NEW A \in SUBSET S, NEW x \in S, A \in P, x \notin A
      PROVE  A \cup {x} \in P
  <2>1. /\ IsFiniteSet(A) /\ IsFiniteSet(A \cap B)
        /\ A \cup {x} \in SUBSET S
    BY <1>2, FS_Subset
  <2>2. \A y \in A \cup {x} : f[y] \in Int
    OBVIOUS
  <2>3. SumFunctionOnSet(f, A \cup {x}) = f[x] + SumFunctionOnSet(f, A)
    BY <1>2, <2>1, <2>2, SumGrows
  <2>4. Cardinality(A \cap B) \in Nat
    BY <2>1, FS_CardinalityType
  <2>5. CASE x \in B
    <3>1. (A \cup {x}) \cap B = (A \cap B) \cup {x} /\ x \notin A \cap B
      BY <1>2, <2>5
    <3>2. Cardinality((A \cap B) \cup {x}) = Cardinality(A \cap B) + 1
      BY <2>1, <3>1, FS_AddElement
    <3>3. a * (Cardinality(A \cap B) + 1) = a + a * Cardinality(A \cap B)
      BY <2>4
    <3> QED BY <1>2, <2>1, <2>3, <2>5, <3>1, <3>2, <3>3
  <2>6. CASE x \notin B
    <3>1. (A \cup {x}) \cap B = A \cap B
      BY <2>6
    <3>2. a * Cardinality(A \cap B) \in Int
      BY <2>4
    <3>3. SumFunctionOnSet(f, A \cup {x}) = SumFunctionOnSet(f, A) /\ f[x] = 0
      BY <1>2, <2>1, <2>3, <2>6, <3>2
    <3> QED BY <1>2, <2>1, <3>1, <3>3
  <2> QED BY <2>5, <2>6
<1>3. \A A \in SUBSET S : A \in P
  <2> HIDE DEF P
  <2> QED BY <1>1, <1>2, SubsetInduction
<1>4. S \cap B = B
  OBVIOUS
<1> QED
  BY <1>3, <1>4

\* A sum of multiples.
LEMMA SumOfMultiples ==
    ASSUME NEW f, NEW g, NEW S, IsFiniteSet(S), NEW c \in Int,
           \A x \in S : f[x] \in Int /\ g[x] = c * f[x]
    PROVE  SumFunctionOnSet(g, S) = c * SumFunctionOnSet(f, S)
<1> DEFINE P == {A \in SUBSET S : SumFunctionOnSet(g, A) = c * SumFunctionOnSet(f, A)}
<1>1. {} \in P
  BY SumOfNothing
<1>2. ASSUME NEW A \in SUBSET S, NEW x \in S, A \in P, x \notin A
      PROVE  A \cup {x} \in P
  <2>1. /\ IsFiniteSet(A) /\ IsFiniteSet(A \cup {x})
        /\ (A \cup {x}) \ {x} = A /\ A \cup {x} \in SUBSET S
    BY <1>2, FS_Subset
  <2>2. \A y \in A \cup {x} : f[y] \in Int /\ g[y] \in Int
    OBVIOUS
  <2>3. /\ SumFunctionOnSet(f, A \cup {x}) = f[x] + SumFunctionOnSet(f, (A \cup {x}) \ {x})
        /\ SumFunctionOnSet(g, A \cup {x}) = g[x] + SumFunctionOnSet(g, (A \cup {x}) \ {x})
    BY <2>1, <2>2, SumTakesOut
  <2>4. SumFunctionOnSet(f, A) \in Int
    BY <2>1, <2>2, SumType
  <2>5. c * (f[x] + SumFunctionOnSet(f, A)) = c * f[x] + c * SumFunctionOnSet(f, A)
    BY <2>4
  <2> QED BY <1>2, <2>1, <2>3, <2>5
<1>3. \A A \in SUBSET S : A \in P
  <2> HIDE DEF P
  <2> QED BY <1>1, <1>2, SubsetInduction
<1> QED
  BY <1>3

\* What is no more everywhere is no more in all.
LEMMA SumAtMost ==
    ASSUME NEW f, NEW g, NEW S, IsFiniteSet(S),
           \A x \in S : f[x] \in Int /\ g[x] \in Int /\ f[x] <= g[x]
    PROVE  SumFunctionOnSet(f, S) <= SumFunctionOnSet(g, S)
<1> DEFINE d == [x \in S |-> g[x] - f[x]]
<1>1. \A x \in S : d[x] \in Nat /\ d[x] \in Int /\ g[x] = f[x] + d[x]
  OBVIOUS
<1> HIDE DEF d
<1>2. SumFunctionOnSet(g, S) = SumFunctionOnSet(f, S) + SumFunctionOnSet(d, S)
  BY <1>1, SumOfSums
<1>3. SumFunctionOnSet(f, S) \in Int /\ SumFunctionOnSet(d, S) \in Nat
  BY <1>1, SumType, SumOfNaturals
<1> QED
  BY <1>2, <1>3

-----------------------------------------------------------------------------
(* Products and quotients of naturals *)

\* Rounding down never gives more than the exact quotient.
LEMMA Quotient ==
    ASSUME NEW a \in Nat, NEW b \in Nat \ {0}
    PROVE  a \div b \in Nat /\ b * (a \div b) <= a
  OBVIOUS

\* A product of naturals grows with its factors.
LEMMA ProductGrows ==
    ASSUME NEW a \in Nat, NEW b \in Nat, NEW c \in Nat, b <= c
    PROVE  a * b \in Nat /\ a * c \in Nat /\ a * b <= a * c
<1>1. PICK d \in Nat : c = b + d
  OBVIOUS
<1>2. a * c = a * b + a * d
  BY <1>1
<1> QED
  BY <1>2

\* Quotients grow with the dividend.
LEMMA QuotientGrows ==
    ASSUME NEW a \in Nat, NEW b \in Nat, a <= b, NEW d \in Nat \ {0}
    PROVE  a \div d <= b \div d
<1> DEFINE p == a \div d
           q == b \div d
<1>1. p \in Nat /\ q \in Nat /\ d * p <= a /\ b < d * q + d
  OBVIOUS
<1> HIDE DEF p, q
<1>2. d * (q + 1) = d * q + d
  BY <1>1
<1>3. ~(q + 1 <= p)
  <2> SUFFICES ASSUME q + 1 <= p PROVE FALSE
    OBVIOUS
  <2>1. d * (q + 1) <= d * p
    BY <1>1, ProductGrows
  <2> QED BY <1>1, <1>2, <2>1
<1> QED
  BY <1>1, <1>3 DEF p, q

\* A part of b, of n in d, is at most b.
LEMMA PartOfWhole ==
    ASSUME NEW b \in Nat, NEW n \in Nat, NEW d \in Nat \ {0}, n <= d
    PROVE  (b * n) \div d \in Nat /\ (b * n) \div d <= b
<1>1. b * n \in Nat /\ b * d \in Nat /\ b * n <= b * d
  BY ProductGrows
<1>2. (b * d) \div d = b
  <2> DEFINE q == (b * d) \div d
  <2>1. q \in Nat /\ d * q <= b * d /\ b * d < d * q + d
    BY <1>1
  <2> HIDE DEF q
  <2>2. d * b = b * d
    OBVIOUS
  <2>3. ~(b + 1 <= q)
    <3> SUFFICES ASSUME b + 1 <= q PROVE FALSE
      OBVIOUS
    <3>1. d * (b + 1) <= d * q
      BY <2>1, ProductGrows
    <3>2. d * (b + 1) = d * b + d
      OBVIOUS
    <3> QED BY <1>1, <2>1, <2>2, <3>1, <3>2
  <2>4. ~(q + 1 <= b)
    <3> SUFFICES ASSUME q + 1 <= b PROVE FALSE
      OBVIOUS
    <3>1. d * (q + 1) <= d * b
      BY <2>1, ProductGrows
    <3>2. d * (q + 1) = d * q + d
      BY <2>1
    <3> QED BY <1>1, <2>1, <2>2, <3>1, <3>2
  <2> QED BY <2>1, <2>3, <2>4 DEF q
<1>3. (b * n) \div d <= (b * d) \div d
  BY <1>1, QuotientGrows
<1> QED
  BY <1>1, <1>2, <1>3, Quotient

\* The parts of p, in proportion to f out of t and rounded down, are naturals and
\* add up to at most p.
LEMMA PartsFit ==
    ASSUME NEW S, IsFiniteSet(S), NEW f, NEW q, NEW p \in Nat, NEW t \in Nat \ {0},
           \A x \in S : f[x] \in Nat /\ q[x] = (p * f[x]) \div t,
           SumFunctionOnSet(f, S) <= t
    PROVE  /\ \A x \in S : q[x] \in Nat
           /\ SumFunctionOnSet(q, S) \in Nat /\ SumFunctionOnSet(q, S) <= p
<1> DEFINE pf == [x \in S |-> p * f[x]]
           tq == [x \in S |-> t * q[x]]
           sf == SumFunctionOnSet(f, S)
           sq == SumFunctionOnSet(q, S)
<1>1. \A x \in S : p * f[x] \in Nat /\ q[x] \in Nat /\ t * q[x] <= p * f[x] /\ t * q[x] \in Nat
  <2> SUFFICES ASSUME NEW x \in S
               PROVE  p * f[x] \in Nat /\ q[x] \in Nat /\ t * q[x] <= p * f[x] /\ t * q[x] \in Nat
    OBVIOUS
  <2>1. p * f[x] \in Nat
    OBVIOUS
  <2>2. q[x] \in Nat /\ t * q[x] <= p * f[x]
    BY <2>1, Quotient
  <2> QED BY <2>1, <2>2
<1>2. /\ \A x \in S : pf[x] \in Int /\ tq[x] \in Int /\ tq[x] <= pf[x]
      /\ \A x \in S : f[x] \in Int /\ pf[x] = p * f[x]
      /\ \A x \in S : q[x] \in Int /\ tq[x] = t * q[x]
  BY <1>1
<1>3. sf \in Nat /\ sq \in Nat /\ sf <= t
  BY <1>1, SumOfNaturals
<1> HIDE DEF pf, tq
<1>4. SumFunctionOnSet(pf, S) = p * sf
  BY <1>2, SumOfMultiples
<1>5. SumFunctionOnSet(tq, S) = t * sq
  BY <1>2, SumOfMultiples
<1>6. SumFunctionOnSet(tq, S) <= SumFunctionOnSet(pf, S)
  BY <1>2, SumAtMost
<1> HIDE DEF sf, sq
<1>7. p * sf <= p * t /\ p * sf \in Nat /\ t * sq \in Nat
  BY <1>3, ProductGrows
<1>8. sq <= p
  <2> SUFFICES ASSUME p + 1 <= sq PROVE FALSE
    BY <1>3
  <2>1. t * (p + 1) <= t * sq
    BY <1>3, ProductGrows
  <2>2. t * (p + 1) = p * t + t
    OBVIOUS
  <2> QED BY <1>4, <1>5, <1>6, <1>7, <2>1, <2>2
<1> QED
  BY <1>1, <1>3, <1>8 DEF sq

\* The sum over two sets that have nothing in common.
LEMMA SumOfUnion ==
    ASSUME NEW f, NEW A, IsFiniteSet(A), NEW B, IsFiniteSet(B), A \cap B = {},
           \A x \in A \cup B : f[x] \in Int
    PROVE  SumFunctionOnSet(f, A \cup B) = SumFunctionOnSet(f, A) + SumFunctionOnSet(f, B)
<1> DEFINE P == {C \in SUBSET B :
                    SumFunctionOnSet(f, A \cup C) = SumFunctionOnSet(f, A) + SumFunctionOnSet(f, C)}
<1>1. {} \in P
  <2>1. A \cup {} = A /\ SumFunctionOnSet(f, A) \in Int
    BY SumType
  <2> QED BY <2>1, SumOfNothing
<1>2. ASSUME NEW C \in SUBSET B, NEW x \in B, C \in P, x \notin C
      PROVE  C \cup {x} \in P
  <2>1. IsFiniteSet(C) /\ IsFiniteSet(A \cup C) /\ x \notin A \cup C
    BY <1>2, FS_Subset, FS_Union
  <2>2. SumFunctionOnSet(f, (A \cup C) \cup {x}) = f[x] + SumFunctionOnSet(f, A \cup C)
    BY <1>2, <2>1, SumGrows
  <2>3. SumFunctionOnSet(f, C \cup {x}) = f[x] + SumFunctionOnSet(f, C)
    BY <1>2, <2>1, SumGrows
  <2>4. (A \cup C) \cup {x} = A \cup (C \cup {x}) /\ C \cup {x} \in SUBSET B
    BY <1>2
  <2>5. SumFunctionOnSet(f, A) \in Int /\ SumFunctionOnSet(f, C) \in Int /\ f[x] \in Int
    BY <1>2, <2>1, SumType
  <2>6. SumFunctionOnSet(f, A \cup C) = SumFunctionOnSet(f, A) + SumFunctionOnSet(f, C)
    BY <1>2
  <2>7. SumFunctionOnSet(f, A \cup (C \cup {x}))
          = SumFunctionOnSet(f, A) + SumFunctionOnSet(f, C \cup {x})
    <3>1. SumFunctionOnSet(f, A \cup (C \cup {x})) = f[x] + SumFunctionOnSet(f, A \cup C)
      BY <2>2, <2>4, Zenon
    <3> DEFINE all == SumFunctionOnSet(f, A \cup (C \cup {x}))
               ac == SumFunctionOnSet(f, A \cup C)
               a == SumFunctionOnSet(f, A)
               c == SumFunctionOnSet(f, C)
               cx == SumFunctionOnSet(f, C \cup {x})
    <3>2. all = f[x] + ac /\ cx = f[x] + c /\ ac = a + c /\ a \in Int /\ c \in Int /\ f[x] \in Int
      BY <2>3, <2>5, <2>6, <3>1
    <3> HIDE DEF all, ac, a, c, cx
    <3>3. all = a + cx
      BY <3>2
    <3> QED BY <3>3 DEF all, a, cx
  <2> QED BY <2>4, <2>7
<1> HIDE DEF P
<1>3. \A C \in SUBSET B : C \in P
  BY <1>1, <1>2, SubsetInduction
<1> QED
  BY <1>3 DEF P

\* A finite set of naturals has an element with n at most it, for every n up to its size.
LEMMA NthExists ==
    \A F : F \in SUBSET Nat /\ IsFiniteSet(F) =>
       \A n \in 1..Cardinality(F) : \E i \in F : Cardinality({j \in F : j <= i}) = n
<1>1. SUFFICES ASSUME NEW F, F \in SUBSET Nat, IsFiniteSet(F), NEW n, n \in 1..Cardinality(F)
               PROVE  \E i \in F : Cardinality({j \in F : j <= i}) = n
  OBVIOUS
<1>2. IsFiniteSet(F)
  BY <1>1
<1> DEFINE P == {A \in SUBSET F : A = {} \/ \E m \in A : \A x \in A : x <= m}
           closed == {A \in SUBSET F : /\ \A x \in A, j \in F : j <= x => j \in A
                                       /\ Cardinality(A) >= n}
<1>3. \A A \in SUBSET F : A \in P
  <2>1. {} \in P
    OBVIOUS
  <2>2. ASSUME NEW A \in SUBSET F, NEW y \in F, A \in P, y \notin A
        PROVE  A \cup {y} \in P
    <3>1. CASE A = {}
      BY <1>1, <2>2, <3>1
    <3>2. ASSUME NEW m \in A, \A x \in A : x <= m PROVE A \cup {y} \in P
      <4>1. CASE y <= m
        BY <3>2, <4>1
      <4>2. CASE ~(y <= m)
        <5>1. y \in Nat /\ m \in Nat /\ \A x \in A : x \in Nat /\ x <= m
          BY <1>1, <2>2, <3>2
        <5>2. \A x \in A \cup {y} : x <= y
          BY <4>2, <5>1
        <5> QED BY <5>2
      <4> QED BY <4>1, <4>2
    <3> QED BY <2>2, <3>1, <3>2
  <2> HIDE DEF P
  <2> QED BY <1>2, <2>1, <2>2, SubsetInduction
<1>4. F \in closed
  <2>1. Cardinality(F) >= n
    BY <1>1, FS_CardinalityType
  <2> QED BY <2>1
<1>5. PICK A \in closed : \A B \in closed : B \subseteq A => B = A
  <2>1. closed \subseteq SUBSET F /\ closed # {}
    BY <1>4
  <2> HIDE DEF closed
  <2> QED BY <1>2, <2>1, LeastSubset
<1>6. IsFiniteSet(A) /\ Cardinality(A) \in Nat /\ A \in SUBSET F /\ Cardinality(A) >= n
  BY <1>2, <1>5, FS_Subset, FS_CardinalityType
<1>7. A # {}
  BY <1>1, <1>6, FS_EmptySet
<1>8. PICK m \in A : \A x \in A : x <= m
  BY <1>3, <1>6, <1>7
<1>9. A = {j \in F : j <= m}
  BY <1>5, <1>8
<1>10. A \ {m} \notin closed
  BY <1>5, <1>8
<1>11. \A x \in A \ {m}, j \in F : j <= x => j \in A \ {m}
  <2> SUFFICES ASSUME NEW x \in A \ {m}, NEW j \in F, j <= x PROVE j \in A \ {m}
    OBVIOUS
  <2>1. j \in A
    BY <1>5
  <2>2. x \in Nat /\ j \in Nat /\ m \in Nat /\ x <= m /\ x # m
    BY <1>1, <1>6, <1>8
  <2> QED BY <2>1, <2>2
<1>12. ~(Cardinality(A \ {m}) >= n)
  BY <1>6, <1>10, <1>11
<1>13. Cardinality(A \ {m}) = Cardinality(A) - 1
  BY <1>6, <1>8, FS_RemoveElement
<1>14. Cardinality(A) = n
  BY <1>1, <1>6, <1>12, <1>13
<1> QED
  BY <1>6, <1>8, <1>9, <1>14

\* What is paid to each, once, of those that D maps to is no more than what is paid
\* for each of D.
LEMMA OncePaidAtMost ==
    ASSUME NEW D, IsFiniteSet(D), NEW g, NEW W, IsFiniteSet(W), \A i \in D : g[i] \in W,
           NEW h, \A w \in W : h[w] \in Nat
    PROVE  SumFunctionOnSet([w \in W |-> IF \E i \in D : g[i] = w THEN h[w] ELSE 0], W)
             <= SumFunctionOnSet([i \in D |-> h[g[i]]], D)
<1> DEFINE Paid(A) == [w \in W |-> IF \E i \in A : g[i] = w THEN h[w] ELSE 0]
           each == [i \in D |-> h[g[i]]]
           P == {A \in SUBSET D : SumFunctionOnSet(Paid(A), W) <= SumFunctionOnSet(each, A)}
<1>1. {} \in P
  <2>1. \A w \in W : Paid({})[w] = 0
    OBVIOUS
  <2> HIDE DEF Paid
  <2>2. SumFunctionOnSet(Paid({}), W) = 0
    BY <2>1, SumOfZeros
  <2> QED BY <2>2, SumOfNothing
<1>2. ASSUME NEW A \in SUBSET D, NEW x \in D, A \in P, x \notin A
      PROVE  A \cup {x} \in P
  <2> DEFINE v == g[x]
             old == Paid(A)
             new == Paid(A \cup {x})
             so == SumFunctionOnSet(old, W)
             sn == SumFunctionOnSet(new, W)
             sa == SumFunctionOnSet(each, A)
             sx == SumFunctionOnSet(each, A \cup {x})
  <2>1. /\ v \in W /\ h[v] \in Nat /\ each[x] = h[v]
        /\ \A w \in W : old[w] \in Nat /\ new[w] \in Nat /\ old[w] \in Int /\ new[w] \in Int
        /\ \A w \in W \ {v} : new[w] = old[w]
        /\ new[v] = h[v]
        /\ \A i \in D : each[i] \in Int
    OBVIOUS
  <2>2. IsFiniteSet(A) /\ A \cup {x} \in SUBSET D
    BY <1>2, FS_Subset
  <2>3. so <= sa
    BY <1>2
  <2> HIDE DEF Paid, each, v, old, new
  <2>4. so \in Nat /\ sn = so - old[v] + new[v]
    BY <2>1, SumOfNaturals, SumOfOneChange
  <2>5. sx = each[x] + sa
    <3>1. \A y \in A \cup {x} : each[y] \in Int
      BY <2>1, <2>2
    <3> QED BY <1>2, <2>2, <3>1, SumGrows
  <2>6. sa \in Int
    BY <2>1, <2>2, SumType
  <2> HIDE DEF so, sn, sa, sx
  <2>7. sn <= sx
    BY <2>1, <2>3, <2>4, <2>5, <2>6
  <2> QED BY <2>2, <2>7 DEF sn, sx, new
<1> HIDE DEF P
<1>3. D \in P
  BY <1>1, <1>2, SubsetInduction
<1> QED
  BY <1>3 DEF P
=============================================================================
