------------------------------ MODULE SumProofs ------------------------------
(***************************************************************************)
(* Sums of a function over a finite set (SumFunctionOnSet): what a proof   *)
(* needs to know of them, for every function and every set.                *)
(*                                                                         *)
(* A sum is defined by recursion over subsets, in the order in which       *)
(* CHOOSE takes the elements out.  That the recursion has one solution     *)
(* (RecursionExists, RecursionIsUnique), and that the order does not       *)
(* matter (SumRemove), is shown by induction over the number of elements,  *)
(* in the form of a smallest counterexample (Smallest).  Two facts about   *)
(* the division by a thousand stand at the end.                            *)
(***************************************************************************)
EXTENDS Integers, FiniteSets, Functions, FiniteSetTheorems, TLAPS

\* A non-empty set of naturals has a smallest member.
LEMMA Smallest ==
    ASSUME NEW T \in SUBSET Nat, T # {}
    PROVE  \E n \in T : \A m \in T : n <= m
<1> DEFINE R == {ss \in Nat \X Nat : ss[1] < ss[2]}
<1>1. IsWellFoundedOn(R, Nat)
  BY NatLessThanWellFounded DEF OpToRel
<1>2. PICK n \in T : \A m \in T : ~ (<<m, n>> \in R)
  BY <1>1, WFMin
<1>3. ASSUME NEW m \in T  PROVE n <= m
  <2>1. m \in Nat /\ n \in Nat
    OBVIOUS
  <2>2. <<m, n>> \notin R
    BY <1>2
  <2>3. ~ (m < n)
    BY <2>1, <2>2
  <2>4. QED
    BY <2>1, <2>3
<1>4. QED
  BY <1>3

\* The element that is taken out first.
Pick(s) == CHOOSE x \in s : TRUE

\* One element less.
LEMMA Without ==
    ASSUME NEW S, IsFiniteSet(S), NEW s \in SUBSET S, NEW x \in s
    PROVE  /\ IsFiniteSet(s) /\ s \ {x} \in SUBSET S /\ IsFiniteSet(s \ {x})
           /\ Cardinality(s) \in Nat /\ Cardinality(s \ {x}) \in Nat
           /\ Cardinality(s) = Cardinality(s \ {x}) + 1
<1>1. IsFiniteSet(s)
  BY FS_Subset
<1>2. Cardinality(s) \in Nat
  BY <1>1, FS_CardinalityType
<1>3. IsFiniteSet(s \ {x}) /\ Cardinality(s \ {x}) = Cardinality(s) - 1
  BY <1>1, FS_RemoveElement
<1>4. Cardinality(s \ {x}) \in Nat
  BY <1>3, FS_CardinalityType
<1>5. QED
  BY <1>1, <1>2, <1>3, <1>4

LEMMA PickIsMember ==
    ASSUME NEW s, s # {}  PROVE Pick(s) \in s
BY DEF Pick

\* Among subsets of a finite set there is one that has no smaller one.
LEMMA SmallestSubset ==
    ASSUME NEW S, IsFiniteSet(S), NEW Wrong \in SUBSET SUBSET S, Wrong # {}
    PROVE  \E s \in Wrong : \A x \in s : s \ {x} \notin Wrong
<1> DEFINE Sizes == {Cardinality(s) : s \in Wrong}
<1>1. \A s \in Wrong : Cardinality(s) \in Nat
  <2>1. TAKE s \in Wrong
  <2>2. s \in SUBSET S
    OBVIOUS
  <2>3. IsFiniteSet(s)
    BY <2>2, FS_Subset
  <2>4. QED
    BY <2>3, FS_CardinalityType
<1>2. Sizes \in SUBSET Nat /\ Sizes # {}
  BY <1>1
<1>3. PICK n \in Sizes : \A m \in Sizes : n <= m
  <2> HIDE DEF Sizes
  <2>1. QED
    BY <1>2, Smallest
<1>4. PICK s \in Wrong : Cardinality(s) = n
  OBVIOUS
<1>5. ASSUME NEW x \in s, s \ {x} \in Wrong  PROVE FALSE
  <2>1. /\ Cardinality(s) = Cardinality(s \ {x}) + 1
        /\ Cardinality(s \ {x}) \in Nat
    <3>1. s \in SUBSET S
      OBVIOUS
    <3>2. QED
      BY <3>1, Without
  <2>2. Cardinality(s) <= Cardinality(s \ {x})
    BY <1>3, <1>4, <1>5
  <2>3. QED
    BY <2>1, <2>2
<1>6. QED
  BY <1>5

-----------------------------------------------------------------------------
(* The recursion.                                                          *)

Unfold(g, F, s) == IF s = {} THEN 0 ELSE F[Pick(s)] + g[s \ {Pick(s)}]

Recursion(g, F, S) == g = [s \in SUBSET S |-> Unfold(g, F, s)]

LEMMA RecursionExists ==
    ASSUME NEW F, NEW S, IsFiniteSet(S)
    PROVE  \E g : Recursion(g, F, S)
<1> DEFINE U(n) == {s \in SUBSET S : Cardinality(s) <= n}
           UpTo(g, n) == g = [s \in U(n) |-> Unfold(g, F, s)]
           Bad == {n \in Nat : ~ \E g : UpTo(g, n)}
<1>1. \A s \in SUBSET S : IsFiniteSet(s) /\ Cardinality(s) \in Nat
  BY FS_Subset, FS_CardinalityType
<1>2. 0 \notin Bad
  <2>1. \A s \in U(0) : s = {}
    BY <1>1, FS_EmptySet
  <2> DEFINE g == [s \in U(0) |-> 0]
  <2>2. g = [s \in U(0) |-> Unfold(g, F, s)]
    BY <2>1 DEF Unfold
  <2>3. QED
    BY <2>2
<1>3. ASSUME NEW n \in Nat, n \notin Bad  PROVE n + 1 \notin Bad
  <2>1. PICK g : UpTo(g, n)
    BY <1>3
  <2> DEFINE h == [s \in U(n + 1) |-> Unfold(g, F, s)]
  <2>2. U(n) \subseteq U(n + 1)
    BY <1>1
  <2>3. \A s \in U(n) : h[s] = g[s]
    BY <2>1, <2>2
  <2>4. ASSUME NEW s \in U(n + 1), s # {}
        PROVE  s \ {Pick(s)} \in U(n)
    BY <1>1, <2>4, PickIsMember, Without
  <2>5. ASSUME NEW s \in U(n + 1)
        PROVE  Unfold(g, F, s) = Unfold(h, F, s)
    BY <2>3, <2>4 DEF Unfold
  <2>6. UpTo(h, n + 1)
    BY <2>5
  <2>7. QED
    BY <2>6
<1>4. Bad = {}
  <2>1. SUFFICES ASSUME Bad # {}  PROVE FALSE
    OBVIOUS
  <2>2. PICK n \in Bad : \A m \in Bad : n <= m
    <3> HIDE DEF U, UpTo
    <3>1. Bad \in SUBSET Nat
      OBVIOUS
    <3> HIDE DEF Bad
    <3>2. QED
      BY <2>1, <3>1, Smallest
  <2>3. n \in Nat
    OBVIOUS
  <2> HIDE DEF Bad
  <2>4. n # 0 /\ n - 1 \in Nat
    BY <1>2, <2>3
  <2>5. n - 1 \notin Bad
    BY <2>2, <2>3, <2>4
  <2>6. (n - 1) + 1 \notin Bad
    BY <1>3, <2>4, <2>5
  <2>7. QED
    BY <2>3, <2>6
<1>5. Cardinality(S) \in Nat /\ U(Cardinality(S)) = SUBSET S
  BY FS_Subset, FS_CardinalityType
<1>6. PICK g : UpTo(g, Cardinality(S))
  BY <1>4, <1>5
<1>7. QED
  BY <1>5, <1>6 DEF Recursion

\* Solutions for two sets agree where the functions agree.
LEMMA RecursionIsUnique ==
    ASSUME NEW F, NEW S, IsFiniteSet(S), NEW g, Recursion(g, F, S),
           NEW G, NEW T, NEW h, Recursion(h, G, T),
           NEW V, V \subseteq S, V \subseteq T, \A x \in V : F[x] = G[x]
    PROVE  \A s \in SUBSET V : g[s] = h[s]
<1> DEFINE Wrong == {s \in SUBSET V : g[s] # h[s]}
<1>1. SUFFICES ASSUME Wrong # {}  PROVE FALSE
  OBVIOUS
<1>2. PICK s \in Wrong : \A x \in s : s \ {x} \notin Wrong
  <2>1. IsFiniteSet(V)
    BY FS_Subset
  <2>2. Wrong \in SUBSET SUBSET V
    OBVIOUS
  <2> HIDE DEF Wrong
  <2>3. QED
    BY <1>1, <2>1, <2>2, SmallestSubset
<1>3. s \in SUBSET V /\ g[s] # h[s]
  OBVIOUS
<1>4. g[s] = Unfold(g, F, s) /\ h[s] = Unfold(h, G, s)
  BY <1>3 DEF Recursion
<1>5. s # {}
  BY <1>3, <1>4 DEF Unfold
<1>6. Pick(s) \in V /\ Pick(s) \in s /\ s \ {Pick(s)} \in SUBSET V
  BY <1>3, <1>5, PickIsMember
<1>7. g[s \ {Pick(s)}] = h[s \ {Pick(s)}]
  BY <1>2, <1>6
<1>8. QED
  BY <1>3, <1>4, <1>5, <1>6, <1>7 DEF Unfold

-----------------------------------------------------------------------------
(* Sums.                                                                   *)

LEMMA SumIsRecursion ==
    ASSUME NEW F, NEW S, IsFiniteSet(S)
    PROVE  \E g : Recursion(g, F, S) /\ SumFunctionOnSet(F, S) = g[S]
<1> DEFINE g == CHOOSE iter : iter = [s \in SUBSET S |->
                   IF s = {} THEN 0 ELSE F[Pick(s)] + iter[s \ {Pick(s)}]]
<1>1. SumFunctionOnSet(F, S) = g[S]
  BY DEF SumFunctionOnSet, FoldFunctionOnSet, MapThenFoldSet, Pick
<1>2. \E iter : iter = [s \in SUBSET S |->
                   IF s = {} THEN 0 ELSE F[Pick(s)] + iter[s \ {Pick(s)}]]
  <2>1. PICK iter : Recursion(iter, F, S)
    BY RecursionExists
  <2>2. iter = [s \in SUBSET S |->
                   IF s = {} THEN 0 ELSE F[Pick(s)] + iter[s \ {Pick(s)}]]
    BY <2>1 DEF Recursion, Unfold
  <2>3. QED
    BY <2>2
<1>3. g = [s \in SUBSET S |-> IF s = {} THEN 0 ELSE F[Pick(s)] + g[s \ {Pick(s)}]]
  BY <1>2
<1> HIDE DEF g
<1>4. QED
  BY <1>1, <1>3 DEF Recursion, Unfold

\* A sum depends on the values over its set only.
LEMMA SumCongruence ==
    ASSUME NEW F, NEW G, NEW S, IsFiniteSet(S), \A x \in S : F[x] = G[x]
    PROVE  SumFunctionOnSet(F, S) = SumFunctionOnSet(G, S)
<1>1. PICK g : Recursion(g, F, S) /\ SumFunctionOnSet(F, S) = g[S]
  BY SumIsRecursion
<1>2. PICK h : Recursion(h, G, S) /\ SumFunctionOnSet(G, S) = h[S]
  BY SumIsRecursion
<1>3. QED
  BY <1>1, <1>2, RecursionIsUnique

LEMMA SumEmpty ==
    ASSUME NEW F  PROVE SumFunctionOnSet(F, {}) = 0
<1>1. PICK g : Recursion(g, F, {}) /\ SumFunctionOnSet(F, {}) = g[{}]
  BY SumIsRecursion, FS_EmptySet
<1>2. QED
  BY <1>1 DEF Recursion, Unfold

LEMMA SumPick ==
    ASSUME NEW F, NEW S, IsFiniteSet(S), S # {}
    PROVE  SumFunctionOnSet(F, S)
              = F[Pick(S)] + SumFunctionOnSet(F, S \ {Pick(S)})
<1> DEFINE T == S \ {Pick(S)}
<1>1. T \in SUBSET S /\ IsFiniteSet(T)
  BY FS_Subset
<1>2. PICK g : Recursion(g, F, S) /\ SumFunctionOnSet(F, S) = g[S]
  BY SumIsRecursion
<1>3. PICK h : Recursion(h, F, T) /\ SumFunctionOnSet(F, T) = h[T]
  BY <1>1, SumIsRecursion
<1>4. g[T] = h[T]
  BY <1>1, <1>2, <1>3, RecursionIsUnique
<1>5. g[S] = F[Pick(S)] + g[T]
  BY <1>2 DEF Recursion, Unfold
<1>6. QED
  BY <1>2, <1>3, <1>4, <1>5

LEMMA SumType ==
    ASSUME NEW N \in {Nat, Int}, NEW F, NEW S, IsFiniteSet(S), \A x \in S : F[x] \in N
    PROVE  SumFunctionOnSet(F, S) \in N
<1>1. 0 \in N /\ \A a, b \in N : a + b \in N
  OBVIOUS
<1> DEFINE Wrong == {s \in SUBSET S : SumFunctionOnSet(F, s) \notin N}
<1>2. SUFFICES ASSUME Wrong # {}  PROVE FALSE
  OBVIOUS
<1>3. PICK s \in Wrong : \A x \in s : s \ {x} \notin Wrong
  BY <1>2, SmallestSubset
<1>4. s # {}
  BY <1>1, SumEmpty
<1>5. Pick(s) \in s /\ F[Pick(s)] \in N
  BY <1>4, PickIsMember
<1>6. s \ {Pick(s)} \notin Wrong
  BY <1>3, <1>5
<1>7. SumFunctionOnSet(F, s \ {Pick(s)}) \in N
  BY <1>6
<1>8. SumFunctionOnSet(F, s) = F[Pick(s)] + SumFunctionOnSet(F, s \ {Pick(s)})
  BY <1>4, SumPick, FS_Subset
<1>9. QED
  BY <1>1, <1>5, <1>7, <1>8

LEMMA SumInt ==
    ASSUME NEW F, NEW S, IsFiniteSet(S), \A x \in S : F[x] \in Int
    PROVE  SumFunctionOnSet(F, S) \in Int
BY SumType

LEMMA SumNat ==
    ASSUME NEW F, NEW S, IsFiniteSet(S), \A x \in S : F[x] \in Nat
    PROVE  SumFunctionOnSet(F, S) \in Nat
BY SumType

\* Any element can be taken out first.
LEMMA SumRemove ==
    ASSUME NEW F, NEW S, IsFiniteSet(S), \A x \in S : F[x] \in Int, NEW x \in S
    PROVE  SumFunctionOnSet(F, S) = F[x] + SumFunctionOnSet(F, S \ {x})
<1> DEFINE Sum(s) == SumFunctionOnSet(F, s)
           Wrong == {s \in SUBSET S : \E y \in s : Sum(s) # F[y] + Sum(s \ {y})}
<1>1. SUFFICES ASSUME Wrong # {}  PROVE FALSE
  OBVIOUS
<1>2. PICK s \in Wrong : \A z \in s : s \ {z} \notin Wrong
  BY <1>1, SmallestSubset
<1>3. PICK y \in s : Sum(s) # F[y] + Sum(s \ {y})
  OBVIOUS
<1> DEFINE p == Pick(s)
<1>4. p \in s
  BY <1>3, PickIsMember
<1>5. \A t \in SUBSET S : IsFiniteSet(t) /\ Sum(t) \in Int
  BY SumInt, FS_Subset
<1>6. Sum(s) = F[p] + Sum(s \ {p})
  BY <1>4, <1>5, SumPick
<1>7. y # p
  BY <1>3, <1>6
<1>8. s \ {p} \notin Wrong /\ s \ {y} \notin Wrong
  BY <1>2, <1>4
<1>9. Sum(s \ {p}) = F[y] + Sum((s \ {p}) \ {y})
  BY <1>7, <1>8
<1>10. Sum(s \ {y}) = F[p] + Sum((s \ {y}) \ {p})
  BY <1>4, <1>7, <1>8
<1>11. (s \ {p}) \ {y} = (s \ {y}) \ {p}
  OBVIOUS
<1> DEFINE r == Sum((s \ {y}) \ {p})
<1>12. r \in Int /\ F[p] \in Int /\ F[y] \in Int
  BY <1>4, <1>5
<1>13. Sum(s) = F[p] + (F[y] + r) /\ Sum(s \ {y}) = F[p] + r
  BY <1>6, <1>9, <1>10, <1>11
<1> HIDE DEF r, p, Sum
<1>14. Sum(s) = F[y] + Sum(s \ {y})
  BY <1>12, <1>13
<1>15. QED
  BY <1>3, <1>14

LEMMA SumAdd ==
    ASSUME NEW F, NEW S, IsFiniteSet(S), NEW x, x \notin S,
           \A y \in S \cup {x} : F[y] \in Int
    PROVE  SumFunctionOnSet(F, S \cup {x}) = F[x] + SumFunctionOnSet(F, S)
<1>1. IsFiniteSet(S \cup {x}) /\ (S \cup {x}) \ {x} = S
  BY FS_AddElement
<1>2. QED
  BY <1>1, SumRemove

\* One value changes.
LEMMA SumUpdate ==
    ASSUME NEW F, NEW G, NEW S, IsFiniteSet(S), NEW x \in S,
           \A y \in S : F[y] \in Int, G[x] \in Int,
           \A y \in S \ {x} : G[y] = F[y]
    PROVE  SumFunctionOnSet(G, S) = SumFunctionOnSet(F, S) - F[x] + G[x]
<1> DEFINE f == SumFunctionOnSet(F, S \ {x})
<1>1. IsFiniteSet(S \ {x})
  BY FS_Subset
<1>2. SumFunctionOnSet(G, S \ {x}) = f /\ f \in Int
  BY <1>1, SumCongruence, SumInt
<1>3. \A y \in S : G[y] \in Int
  OBVIOUS
<1>4. SumFunctionOnSet(F, S) = F[x] + f
  BY SumRemove
<1>5. SumFunctionOnSet(G, S) = G[x] + f
  BY <1>2, <1>3, SumRemove
<1> HIDE DEF f
<1>6. QED
  BY <1>2, <1>4, <1>5

LEMMA SumMonotone ==
    ASSUME NEW F, NEW G, NEW S, IsFiniteSet(S),
           \A x \in S : F[x] \in Int /\ G[x] \in Int /\ F[x] <= G[x]
    PROVE  SumFunctionOnSet(F, S) <= SumFunctionOnSet(G, S)
<1> DEFINE Wrong == {s \in SUBSET S : ~ (SumFunctionOnSet(F, s) <= SumFunctionOnSet(G, s))}
<1>1. SUFFICES ASSUME Wrong # {}  PROVE FALSE
  OBVIOUS
<1>2. PICK s \in Wrong : \A z \in s : s \ {z} \notin Wrong
  BY <1>1, SmallestSubset
<1>3. s # {}
  BY SumEmpty
<1> DEFINE p == Pick(s)
           t == s \ {p}
<1>4. p \in s
  BY <1>3, PickIsMember
<1>5. t \notin Wrong /\ IsFiniteSet(s) /\ IsFiniteSet(t)
  BY <1>2, <1>4, FS_Subset
<1>6. /\ SumFunctionOnSet(F, s) = F[p] + SumFunctionOnSet(F, t)
      /\ SumFunctionOnSet(G, s) = G[p] + SumFunctionOnSet(G, t)
  BY <1>3, <1>5, SumPick
<1>7. SumFunctionOnSet(F, t) <= SumFunctionOnSet(G, t)
  BY <1>5
<1>8. SumFunctionOnSet(F, t) \in Int /\ SumFunctionOnSet(G, t) \in Int
  BY <1>5, SumInt
<1>9. F[p] \in Int /\ G[p] \in Int /\ F[p] <= G[p]
  BY <1>4
<1> HIDE DEF p, t
<1>10. SumFunctionOnSet(F, s) <= SumFunctionOnSet(G, s)
  BY <1>6, <1>7, <1>8, <1>9
<1>11. QED
  BY <1>10

\* A part of a sum of naturals is at most the sum.
LEMMA SumOfPart ==
    ASSUME NEW F, NEW S, IsFiniteSet(S), \A x \in S : F[x] \in Nat, NEW x \in S
    PROVE  F[x] <= SumFunctionOnSet(F, S)
<1> DEFINE r == SumFunctionOnSet(F, S \ {x})
<1>1. r \in Nat
  BY SumNat, FS_Subset
<1>2. SumFunctionOnSet(F, S) = F[x] + r
  BY SumRemove
<1> HIDE DEF r
<1>3. QED
  BY <1>1, <1>2

LEMMA SumZero ==
    ASSUME NEW F, NEW S, IsFiniteSet(S), \A x \in S : F[x] = 0
    PROVE  SumFunctionOnSet(F, S) = 0
<1> DEFINE Wrong == {s \in SUBSET S : SumFunctionOnSet(F, s) # 0}
<1>1. SUFFICES ASSUME Wrong # {}  PROVE FALSE
  OBVIOUS
<1>2. PICK s \in Wrong : \A z \in s : s \ {z} \notin Wrong
  BY <1>1, SmallestSubset
<1>3. s # {} /\ IsFiniteSet(s)
  BY SumEmpty, FS_Subset
<1>4. Pick(s) \in s /\ s \ {Pick(s)} \notin Wrong
  BY <1>2, <1>3, PickIsMember
<1>5. QED
  BY <1>3, <1>4, SumPick

-----------------------------------------------------------------------------
(***************************************************************************)
(* Dividing a product by one of its factors.                               *)
(***************************************************************************)
LEMMA DivOfProduct ==
    ASSUME NEW d \in Nat \ {0}, NEW r \in Nat
    PROVE  (d * r) \div d = r
  OBVIOUS

\* Rates per thousand views keep their order when they are divided down.
LEMMA DivMonotone ==
    ASSUME NEW m \in Nat, NEW n \in Nat, m <= n
    PROVE  /\ m \div 1000 \in Nat
           /\ m \div 1000 <= n \div 1000
  OBVIOUS
=============================================================================
