-------------------------------- MODULE Sums --------------------------------
(***************************************************************************)
(* Sums of a function over a finite set (SumFunctionOnSet of module        *)
(* Functions): wallets, trades, orders of a level.  The fold takes its     *)
(* elements in an order nobody knows; these lemmas say that the order does *)
(* not matter, and how a sum changes when one element does.                *)
(***************************************************************************)
EXTENDS Functions, FiniteSetTheorems, WellFoundedInduction, TLAPS

Sum(f, S) == SumFunctionOnSet(f, S)

\* The element the fold takes from s, and what it computes.
Chosen(s) == CHOOSE x \in s : TRUE
Folded(f, g, s) == IF s = {} THEN 0 ELSE f[Chosen(s)] + g[s \ {Chosen(s)}]

\* g is what the fold over S makes of every subset of S.
FoldsTo(f, S, g) == g = [s \in SUBSET S |-> Folded(f, g, s)]

-----------------------------------------------------------------------------
(* Induction on the size of a set: a set of naturals has a least element.  *)

LEMMA LeastNatural ==
  ASSUME NEW N \in SUBSET Nat, N # {}
  PROVE  \E n \in N : \A m \in N : n <= m
<1>1. PICK n \in N : \A m \in N : <<m, n>> \notin OpToRel(<, Nat)
  BY WFMin, NatLessThanWellFounded
<1>2. \A m \in N : ~(m < n)
  BY <1>1 DEF OpToRel
<1>. QED  BY <1>2

LEMMA Taken ==
  ASSUME NEW S, IsFiniteSet(S), NEW s \in SUBSET S, s # {}
  PROVE  /\ Chosen(s) \in s /\ Chosen(s) \in S
         /\ s \ {Chosen(s)} \in SUBSET S /\ IsFiniteSet(s) /\ IsFiniteSet(s \ {Chosen(s)})
         /\ Cardinality(s) \in Nat /\ Cardinality(s \ {Chosen(s)}) \in Nat
         /\ Cardinality(s \ {Chosen(s)}) = Cardinality(s) - 1
<1>1. Chosen(s) \in s
  BY DEF Chosen
<1>2. IsFiniteSet(s)
  BY FS_Subset
<1>. QED  BY <1>1, <1>2, FS_RemoveElement, FS_CardinalityType

-----------------------------------------------------------------------------
(* The fold is well defined.                                               *)

(* A function that the fold's equation holds of, up to sets of size n.     *)
FoldsUpTo(f, S, g, n) ==
  \A s \in SUBSET S : Cardinality(s) <= n => g[s] = Folded(f, g, s)

LEMMA FoldExists ==
  ASSUME NEW S, IsFiniteSet(S), NEW f, \A x \in S : f[x] \in Int
  PROVE  \E g \in [SUBSET S -> Int] : FoldsTo(f, S, g)
<1>. DEFINE Bad == {n \in Nat : ~ \E g \in [SUBSET S -> Int] : FoldsUpTo(f, S, g, n)}
<1>1. ASSUME NEW h \in [SUBSET S -> Int], NEW s \in SUBSET S
      PROVE  Folded(f, h, s) \in Int
  <2>1. CASE s = {}
    BY <2>1 DEF Folded
  <2>2. CASE s # {}
    <3>1. f[Chosen(s)] \in Int /\ h[s \ {Chosen(s)}] \in Int
      BY <2>2, Taken
    <3>. QED  BY <2>2, <3>1 DEF Folded
  <2>. QED  BY <2>1, <2>2
<1>2. Bad = {}
  <2>. SUFFICES ASSUME Bad # {} PROVE FALSE
    OBVIOUS
  <2>1. PICK n \in Bad : \A m \in Bad : n <= m
    BY LeastNatural
  <2>2. n \in Nat
    OBVIOUS
  <2>3. \E g \in [SUBSET S -> Int] : n = 0 \/ FoldsUpTo(f, S, g, n - 1)
    <3>1. CASE n = 0
      <4>1. [s \in SUBSET S |-> 0] \in [SUBSET S -> Int]
        OBVIOUS
      <4>. QED  BY <3>1, <4>1
    <3>2. CASE n # 0
      <4>1. n - 1 \in Nat /\ ~(n <= n - 1)
        BY <2>2, <3>2
      <4>2. n - 1 \notin Bad
        BY <2>1, <4>1
      <4>. QED  BY <4>1, <4>2
    <3>. QED  BY <3>1, <3>2
  <2>4. PICK h \in [SUBSET S -> Int] : n = 0 \/ FoldsUpTo(f, S, h, n - 1)
    BY <2>3
  <2>. DEFINE g == [s \in SUBSET S |-> Folded(f, h, s)]
  <2>5. g \in [SUBSET S -> Int]
    BY <1>1
  <2>6. ASSUME NEW s \in SUBSET S, Cardinality(s) <= n
        PROVE  g[s] = Folded(f, g, s)
    <3>1. CASE s = {}
      BY <3>1 DEF Folded
    <3>2. CASE s # {}
      <4>. DEFINE t == s \ {Chosen(s)}
      <4>1. /\ t \in SUBSET S /\ Cardinality(s) \in Nat /\ Cardinality(t) \in Nat
            /\ Cardinality(t) = Cardinality(s) - 1
        BY <3>2, Taken
      <4>2. n # 0 /\ Cardinality(t) <= n - 1
        BY <2>2, <2>6, <4>1
      <4>3. h[t] = Folded(f, h, t)
        BY <2>4, <4>1, <4>2 DEF FoldsUpTo
      <4>4. g[t] = h[t]
        BY <4>1, <4>3
      <4>. HIDE DEF g
      <4>5. Folded(f, g, s) = Folded(f, h, s)
        BY <3>2, <4>4 DEF Folded
      <4>6. g[s] = Folded(f, h, s)
        BY DEF g
      <4>. QED  BY <4>5, <4>6
    <3>. QED  BY <3>1, <3>2
  <2>7. FoldsUpTo(f, S, g, n)
    BY <2>6 DEF FoldsUpTo
  <2>. HIDE DEF g
  <2>. QED  BY <2>1, <2>5, <2>7
<1>3. Cardinality(S) \in Nat
  BY FS_CardinalityType
<1>4. PICK g \in [SUBSET S -> Int] : FoldsUpTo(f, S, g, Cardinality(S))
  BY <1>2, <1>3
<1>5. \A s \in SUBSET S : g[s] = Folded(f, g, s)
  BY <1>4, FS_Subset DEF FoldsUpTo
<1>. QED  BY <1>5 DEF FoldsTo

(* What the fold makes of a set depends on the values in the set alone,    *)
(* not on the larger set it is part of.                                    *)
LEMMA FoldUnique ==
  ASSUME NEW S, NEW T, NEW U, IsFiniteSet(U), U \subseteq S, U \subseteq T,
         NEW f, NEW g, \A x \in U : f[x] = g[x],
         NEW F, NEW G, FoldsTo(f, S, F), FoldsTo(g, T, G)
  PROVE  F[U] = G[U]
<1>. DEFINE Bad == {n \in Nat : \E s \in SUBSET U : Cardinality(s) = n /\ F[s] # G[s]}
<1>1. Bad = {}
  <2>. SUFFICES ASSUME Bad # {} PROVE FALSE
    OBVIOUS
  <2>1. PICK n \in Bad : \A m \in Bad : n <= m
    BY LeastNatural
  <2>2. PICK s \in SUBSET U : Cardinality(s) = n /\ F[s] # G[s]
    OBVIOUS
  <2>3. F[s] = Folded(f, F, s) /\ G[s] = Folded(g, G, s)
    <3>1. s \in SUBSET S /\ s \in SUBSET T
      OBVIOUS
    <3>. QED  BY <3>1, Zenon DEF FoldsTo
  <2>4. CASE s = {}
    BY <2>2, <2>3, <2>4 DEF Folded
  <2>5. CASE s # {}
    <3>. DEFINE t == s \ {Chosen(s)}
    <3>1. /\ Chosen(s) \in U /\ t \in SUBSET U
          /\ n \in Nat /\ Cardinality(t) \in Nat /\ Cardinality(t) = n - 1
      BY <2>2, <2>5, Taken
    <3>0. ~(n <= Cardinality(t))
      BY <3>1
    <3>2. Cardinality(t) \notin Bad
      BY <2>1, <3>0
    <3>3. F[t] = G[t]
      BY <3>1, <3>2
    <3>4. f[Chosen(s)] = g[Chosen(s)]
      BY <3>1
    <3>. QED  BY <2>2, <2>3, <2>5, <3>3, <3>4 DEF Folded
  <2>. QED  BY <2>4, <2>5
<1>2. Cardinality(U) \in Nat
  BY FS_CardinalityType
<1>. QED  BY <1>1, <1>2

(* Induction over the subsets of a finite set: P is the set of those the   *)
(* statement holds for.                                                    *)
LEMMA SubsetInduction ==
  ASSUME NEW S, IsFiniteSet(S), NEW P, {} \in P,
         \A s \in SUBSET S : s # {} /\ (\A x \in s : s \ {x} \in P) => s \in P
  PROVE  \A s \in SUBSET S : s \in P
<1>. DEFINE Bad == {n \in Nat : \E s \in SUBSET S : Cardinality(s) = n /\ s \notin P}
<1>1. Bad = {}
  <2>. SUFFICES ASSUME Bad # {} PROVE FALSE
    OBVIOUS
  <2>1. PICK n \in Bad : \A m \in Bad : n <= m
    BY LeastNatural
  <2>2. PICK s \in SUBSET S : Cardinality(s) = n /\ s \notin P
    OBVIOUS
  <2>3. s # {}
    BY <2>2
  <2>4. ASSUME NEW x \in s PROVE s \ {x} \in P
    <3>1. IsFiniteSet(s)
      BY FS_Subset
    <3>2. Cardinality(s \ {x}) \in Nat /\ Cardinality(s \ {x}) = n - 1 /\ n \in Nat
      BY <2>2, <3>1, FS_RemoveElement, FS_CardinalityType
    <3>3. ~(n <= Cardinality(s \ {x}))
      BY <3>2
    <3>4. Cardinality(s \ {x}) \notin Bad
      BY <2>1, <3>3
    <3>. QED  BY <3>2, <3>4
  <2>. QED  BY <2>2, <2>3, <2>4
<1>2. \A s \in SUBSET S : Cardinality(s) \in Nat
  BY FS_Subset, FS_CardinalityType
<1>. QED  BY <1>1, <1>2

-----------------------------------------------------------------------------
(* What the sum of a function over a set is.                               *)

LEMMA SumFolds ==
  ASSUME NEW S, IsFiniteSet(S), NEW f, \A x \in S : f[x] \in Int
  PROVE  \E F \in [SUBSET S -> Int] : FoldsTo(f, S, F) /\ Sum(f, S) = F[S]
<1>. DEFINE G == CHOOSE g : FoldsTo(f, S, g)
<1>1. PICK F \in [SUBSET S -> Int] : FoldsTo(f, S, F)
  BY FoldExists
<1>2. FoldsTo(f, S, G)
  BY <1>1
<1>3. Sum(f, S) = G[S]
  BY DEF Sum, SumFunctionOnSet, FoldFunctionOnSet, MapThenFoldSet, FoldsTo, Folded, Chosen
<1>. HIDE DEF G
<1>4. G[S] = F[S]
  BY <1>1, <1>2, FoldUnique
<1>. QED  BY <1>1, <1>3, <1>4

LEMMA SumOfFunction == \A f : SumFunction(f) = Sum(f, DOMAIN f)
BY DEF SumFunction, Sum

LEMMA SumType ==
  ASSUME NEW S, IsFiniteSet(S), NEW f, \A x \in S : f[x] \in Int
  PROVE  Sum(f, S) \in Int
<1>1. PICK F \in [SUBSET S -> Int] : FoldsTo(f, S, F) /\ Sum(f, S) = F[S]
  BY SumFolds
<1>. QED  BY <1>1

(* A sum depends on the values in the set alone.                           *)
LEMMA SumSame ==
  ASSUME NEW S, IsFiniteSet(S), NEW f, NEW g,
         \A x \in S : f[x] \in Int /\ f[x] = g[x]
  PROVE  Sum(f, S) = Sum(g, S)
<1>1. PICK F \in [SUBSET S -> Int] : FoldsTo(f, S, F) /\ Sum(f, S) = F[S]
  BY SumFolds
<1>2. PICK G \in [SUBSET S -> Int] : FoldsTo(g, S, G) /\ Sum(g, S) = G[S]
  BY SumFolds
<1>3. F[S] = G[S]
  BY <1>1, <1>2, FoldUnique
<1>. QED  BY <1>1, <1>2, <1>3

LEMMA SumEmpty == \A f : Sum(f, {}) = 0
<1>. SUFFICES ASSUME NEW f PROVE Sum(f, {}) = 0
  OBVIOUS
<1>1. PICK F \in [SUBSET {} -> Int] : FoldsTo(f, {}, F) /\ Sum(f, {}) = F[{}]
  BY SumFolds, FS_EmptySet
<1>2. F[{}] = Folded(f, F, {})
  BY <1>1, Zenon DEF FoldsTo
<1>. QED  BY <1>1, <1>2 DEF Folded

LEMMA SumTaken ==
  ASSUME NEW S, IsFiniteSet(S), S # {}, NEW f, \A x \in S : f[x] \in Int
  PROVE  Sum(f, S) = f[Chosen(S)] + Sum(f, S \ {Chosen(S)})
<1>. DEFINE T == S \ {Chosen(S)}
<1>1. PICK F \in [SUBSET S -> Int] : FoldsTo(f, S, F) /\ Sum(f, S) = F[S]
  BY SumFolds
<1>2. IsFiniteSet(T) /\ T \subseteq S
  BY Taken
<1>3. PICK G \in [SUBSET T -> Int] : FoldsTo(f, T, G) /\ Sum(f, T) = G[T]
  BY <1>2, SumFolds
<1>4. F[T] = G[T]
  BY <1>1, <1>2, <1>3, FoldUnique
<1>5. F[S] = Folded(f, F, S)
  BY <1>1, Zenon DEF FoldsTo
<1>. QED  BY <1>1, <1>3, <1>4, <1>5 DEF Folded

(* Any element can be taken out of a sum: the order of the fold is nothing *)
(* to the sum.                                                             *)
LEMMA SumRemove ==
  ASSUME NEW S, IsFiniteSet(S), NEW f, \A x \in S : f[x] \in Int, NEW x \in S
  PROVE  Sum(f, S) = f[x] + Sum(f, S \ {x})
<1>. DEFINE P == {s \in SUBSET S : \A y \in s : Sum(f, s) = f[y] + Sum(f, s \ {y})}
<1>1. {} \in P
  OBVIOUS
<1>2. ASSUME NEW s \in SUBSET S, s # {}, \A y \in s : s \ {y} \in P, NEW y \in s
      PROVE  Sum(f, s) = f[y] + Sum(f, s \ {y})
  <2>. DEFINE c == Chosen(s)
  <2>1. c \in s /\ IsFiniteSet(s)
    BY <1>2, FS_Subset DEF Chosen
  <2>2. Sum(f, s) = f[c] + Sum(f, s \ {c})
    BY <1>2, <2>1, SumTaken
  <2>. HIDE DEF c
  <2>3. CASE y = c
    BY <2>2, <2>3
  <2>4. CASE y # c
    <3>1. Sum(f, s \ {c}) = f[y] + Sum(f, (s \ {c}) \ {y})
      BY <1>2, <2>1, <2>4
    <3>2. Sum(f, s \ {y}) = f[c] + Sum(f, (s \ {y}) \ {c})
      BY <1>2, <2>1, <2>4
    <3>3. (s \ {c}) \ {y} = (s \ {y}) \ {c}
      OBVIOUS
    <3>4. IsFiniteSet((s \ {c}) \ {y}) /\ \A z \in (s \ {c}) \ {y} : f[z] \in Int
      BY <2>1, FS_Subset
    <3>5. PICK k \in Int : k = Sum(f, (s \ {c}) \ {y})
      BY <3>4, SumType
    <3>6. Sum(f, s \ {y}) = f[c] + k
      BY <3>2, <3>3, <3>5
    <3>7. Sum(f, s) = f[c] + (f[y] + k)
      BY <2>2, <3>1, <3>5
    <3>8. f[c] \in Int /\ f[y] \in Int /\ f[c] + (f[y] + k) = f[y] + (f[c] + k)
      BY <2>1
    <3>. QED  BY <3>6, <3>7, <3>8
  <2>. QED  BY <2>3, <2>4
<1>3. \A s \in SUBSET S : s # {} /\ (\A y \in s : s \ {y} \in P) => s \in P
  BY <1>2
<1>. HIDE DEF P
<1>4. \A s \in SUBSET S : s \in P
  BY <1>1, <1>3, SubsetInduction
<1>. QED  BY <1>4 DEF P

(* What one more element does to a sum, and one that changes.              *)
LEMMA SumAdd ==
  ASSUME NEW S, IsFiniteSet(S), NEW f, NEW x, x \notin S, \A y \in S \cup {x} : f[y] \in Int
  PROVE  Sum(f, S \cup {x}) = Sum(f, S) + f[x]
<1>. DEFINE T == S \cup {x}
<1>1. IsFiniteSet(T) /\ x \in T /\ T \ {x} = S
  BY FS_AddElement
<1>2. Sum(f, T) = f[x] + Sum(f, T \ {x})
  BY <1>1, SumRemove
<1>3. Sum(f, T) = f[x] + Sum(f, S)
  BY <1>1, <1>2
<1>4. Sum(f, S) \in Int /\ f[x] \in Int
  BY SumType
<1>. QED  BY <1>3, <1>4

LEMMA SumExtend ==
  ASSUME NEW S, IsFiniteSet(S), NEW f, NEW g, NEW x, x \notin S, g[x] \in Int,
         NEW T, T = S \cup {x},
         \A y \in S : f[y] \in Int,
         \A y \in S : f[y] = g[y]
  PROVE  Sum(g, T) = Sum(f, S) + g[x]
<1>1. Sum(f, S) = Sum(g, S)
  BY SumSame
<1>2. \A y \in S \cup {x} : g[y] \in Int
  OBVIOUS
<1>3. Sum(g, S \cup {x}) = Sum(g, S) + g[x]
  BY <1>2, SumAdd
<1>. QED  BY <1>1, <1>3

LEMMA SumUpdate ==
  ASSUME NEW S, IsFiniteSet(S), NEW f, NEW g, NEW x \in S,
         \A y \in S : f[y] \in Int /\ g[y] \in Int,
         \A y \in S : y # x => f[y] = g[y]
  PROVE  Sum(g, S) = Sum(f, S) + (g[x] - f[x])
<1>. DEFINE T == S \ {x}
<1>1. Sum(f, S) = f[x] + Sum(f, T) /\ Sum(g, S) = g[x] + Sum(g, T)
  BY SumRemove
<1>2. IsFiniteSet(T)
  BY FS_Subset
<1>3. Sum(f, T) = Sum(g, T)
  BY <1>2, SumSame
<1>4. Sum(f, T) \in Int
  BY <1>2, SumType
<1>5. f[x] \in Int /\ g[x] \in Int
  OBVIOUS
<1>. HIDE DEF T
<1>. QED  BY <1>1, <1>3, <1>4, <1>5

(* The sum of naturals is one, and at least each of them.                  *)
LEMMA SumNatural ==
  ASSUME NEW S, IsFiniteSet(S), NEW f, \A x \in S : f[x] \in Nat
  PROVE  Sum(f, S) \in Nat /\ \A x \in S : f[x] <= Sum(f, S)
<1>. DEFINE P == {s \in SUBSET S : Sum(f, s) \in Nat}
<1>1. {} \in P
  BY SumEmpty
<1>2. \A x \in S : f[x] \in Int
  OBVIOUS
<1>3. ASSUME NEW s \in SUBSET S, s # {}, \A y \in s : s \ {y} \in P
      PROVE  s \in P
  <2>1. PICK y \in s : TRUE
    BY <1>3
  <2>2. IsFiniteSet(s)
    BY FS_Subset
  <2>3. Sum(f, s) = f[y] + Sum(f, s \ {y})
    BY <1>2, <2>2, SumRemove
  <2>4. f[y] \in Nat /\ Sum(f, s \ {y}) \in Nat
    BY <1>3
  <2>. QED  BY <2>3, <2>4
<1>. HIDE DEF P
<1>4. \A s \in SUBSET S : s \in P
  BY <1>1, <1>3, SubsetInduction
<1>5. \A s \in SUBSET S : Sum(f, s) \in Nat
  BY <1>4 DEF P
<1>6. ASSUME NEW x \in S PROVE f[x] <= Sum(f, S)
  <2>1. Sum(f, S) = f[x] + Sum(f, S \ {x})
    BY <1>2, SumRemove
  <2>2. f[x] \in Nat /\ Sum(f, S \ {x}) \in Nat
    BY <1>5
  <2>. QED  BY <2>1, <2>2
<1>. QED  BY <1>5, <1>6

(* The same values under other names have the same sum.                    *)
LEMMA SumRenamed ==
  ASSUME NEW S, IsFiniteSet(S), NEW f, NEW g, NEW b,
         \A x \in S : g[b[x]] \in Int /\ f[x] = g[b[x]],
         \A x, y \in S : b[x] = b[y] => x = y
  PROVE  IsFiniteSet({b[x] : x \in S}) /\ Sum(f, S) = Sum(g, {b[x] : x \in S})
<1>. DEFINE P == {s \in SUBSET S : /\ IsFiniteSet({b[x] : x \in s})
                                   /\ Sum(f, s) = Sum(g, {b[x] : x \in s})}
<1>1. {} \in P
  <2>1. {b[x] : x \in {}} = {}
    OBVIOUS
  <2>2. Sum(f, {}) = 0 /\ Sum(g, {}) = 0 /\ IsFiniteSet({})
    BY SumEmpty, FS_EmptySet
  <2>. QED  BY <2>1, <2>2
<1>2. ASSUME NEW s \in SUBSET S, s # {}, \A y \in s : s \ {y} \in P
      PROVE  s \in P
  <2>1. PICK y \in s : TRUE
    BY <1>2
  <2>. DEFINE t == s \ {y}
              bs == {b[x] : x \in s}
              bt == {b[x] : x \in t}
  <2>2. IsFiniteSet(s)
    BY FS_Subset
  <2>3. bs \ {b[y]} = bt /\ b[y] \in bs
    OBVIOUS
  <2>4. IsFiniteSet(bs)
    <3>1. t \in P
      BY <1>2
    <3>2. IsFiniteSet(bt)
      BY <3>1
    <3>. HIDE DEF bs, bt
    <3>3. bs = bt \cup {b[y]}
      BY <2>3
    <3>4. IsFiniteSet(bt \cup {b[y]})
      BY <3>2, FS_AddElement
    <3>. QED  BY <3>3, <3>4
  <2>5. \A z \in bs : g[z] \in Int
    OBVIOUS
  <2>6. Sum(f, s) = f[y] + Sum(f, t)
    BY <2>2, SumRemove
  <2>7. Sum(g, bs) = g[b[y]] + Sum(g, bs \ {b[y]})
    BY <2>3, <2>4, <2>5, SumRemove
  <2>8. Sum(f, t) = Sum(g, bt)
    BY <1>2
  <2>9. f[y] = g[b[y]]
    OBVIOUS
  <2>10. Sum(f, s) = Sum(g, bs)
    BY <2>3, <2>6, <2>7, <2>8, <2>9
  <2>. QED  BY <2>4, <2>10
<1>. HIDE DEF P
<1>3. \A s \in SUBSET S : s \in P
  BY <1>1, <1>2, SubsetInduction
<1>. QED  BY <1>3 DEF P

=============================================================================
