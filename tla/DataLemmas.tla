--------------------------------- MODULE DataLemmas ---------------------------------
(***************************************************************************)
(* Lemmas about finite data that the proofs share: induction, sums, ranks. *)
(*                                                                         *)
(* Induction comes in a form the provers can use: over the members of a    *)
(* set rather than for a predicate.  The theorems of WellFoundedInduction  *)
(* that need no operator as a parameter give a least number of every set   *)
(* of naturals; induction over naturals and over the subsets of a finite   *)
(* set, the functions defined by recursion over either, and the sums of    *)
(* the community modules follow from it.                                   *)
(***************************************************************************)
EXTENDS Integers, Sequences, FiniteSets, FiniteSetTheorems, TLAPS

\* A set of naturals that is not empty has a least one.
LEMMA LeastNumber ==
  ASSUME NEW T, T \subseteq Nat, T # {}
  PROVE \E n \in T : \A m \in T : n <= m
<1> DEFINE R == {ss \in Nat \X Nat : ss[1] < ss[2]}
<1>1. IsWellFoundedOn(R, Nat)
  BY NatLessThanWellFounded DEF OpToRel
<1> HIDE DEF R
<1>2. PICK x \in T : \A y \in T : ~ (<<y, x>> \in R)
  BY <1>1, WFMin
<1>3. \A y \in T : ~ (y < x)
  BY <1>2 DEF R
<1> QED BY <1>3

\* A set that has 0 and, with a natural, the next one has them all.
LEMMA SetInduction ==
  ASSUME NEW S, 0 \in S, \A n \in Nat : n \in S => n + 1 \in S
  PROVE \A n \in Nat : n \in S
<1>1. SUFFICES ASSUME Nat \ S # {} PROVE FALSE
  OBVIOUS
<1>2. PICK n \in Nat \ S : \A m \in Nat \ S : n <= m
  BY <1>1, LeastNumber
<1>3. n - 1 \in Nat /\ n - 1 \notin Nat \ S
  BY <1>2
<1> QED BY <1>2, <1>3

\* A finite set has one element more than without one of its own.
LEMMA OneLess ==
  ASSUME NEW T, IsFiniteSet(T)
  PROVE  \A s \in SUBSET T : \A x \in s :
           /\ Cardinality(s) \in Nat
           /\ Cardinality(s \ {x}) \in Nat
           /\ Cardinality(s) = Cardinality(s \ {x}) + 1
<1> SUFFICES ASSUME NEW s \in SUBSET T, NEW x \in s
             PROVE  /\ Cardinality(s) \in Nat
                    /\ Cardinality(s \ {x}) \in Nat
                    /\ Cardinality(s) = Cardinality(s \ {x}) + 1
  OBVIOUS
<1>1. IsFiniteSet(s)
  BY FS_Subset
<1>2. IsFiniteSet(s \ {x}) /\ Cardinality(s \ {x}) = Cardinality(s) - 1
  BY <1>1, FS_RemoveElement
<1> QED BY <1>1, <1>2, FS_CardinalityType

\* A set P that has every subset of T which is in P without any one element has
\* them all.
LEMMA FiniteInduction ==
  ASSUME NEW T, IsFiniteSet(T), NEW P,
         \A s \in SUBSET T : (\A x \in s : s \ {x} \in P) => s \in P
  PROVE  \A s \in SUBSET T : s \in P
<1> DEFINE N == {n \in Nat : \A s \in SUBSET T : Cardinality(s) = n => s \in P}
<1>0. \A s \in SUBSET T : IsFiniteSet(s) /\ Cardinality(s) \in Nat
  BY FS_Subset, FS_CardinalityType
<1>1. 0 \in N
  BY <1>0, FS_EmptySet
<1>2. ASSUME NEW n \in Nat, n \in N PROVE n + 1 \in N
  <2> SUFFICES ASSUME NEW s \in SUBSET T, Cardinality(s) = n + 1 PROVE s \in P
    BY <1>2
  <2>1. ASSUME NEW x \in s PROVE s \ {x} \in P
    BY <1>2, OneLess
  <2> QED BY <2>1
<1>3. \A n \in Nat : n \in N
  <2> HIDE DEF N
  <2> QED BY <1>1, <1>2, SetInduction
<1> QED BY <1>0, <1>3

\* A finite set of numbers has a greatest.
LEMMA GreatestNumber ==
  ASSUME NEW T, IsFiniteSet(T), T \subseteq Nat, T # {}
  PROVE  \E x \in T : \A y \in T : x >= y
<1> DEFINE P == {s \in SUBSET T : s # {} => \E x \in s : \A y \in s : x >= y}
<1>1. ASSUME NEW s \in SUBSET T, \A x \in s : s \ {x} \in P
      PROVE  s \in P
  <2> SUFFICES ASSUME NEW z \in s PROVE \E x \in s : \A y \in s : x >= y
    OBVIOUS
  <2>1. CASE s = {z}
    BY <2>1
  <2>2. CASE s # {z}
    <3>1. PICK x \in s \ {z} : \A y \in s \ {z} : x >= y
      BY <1>1, <2>2
    <3>2. CASE x >= z
      BY <3>1, <3>2
    <3>3. CASE ~(x >= z)
      <4>1. z \in Nat /\ x \in Nat /\ \A y \in s \ {z} : y \in Nat
        BY <3>1
      <4>2. \A y \in s : z >= y
        BY <3>1, <3>3, <4>1
      <4> QED BY <4>2
    <3> QED BY <3>2, <3>3
  <2> QED BY <2>1, <2>2
<1> HIDE DEF P
<1>2. T \in P
  BY <1>1, FiniteInduction
<1> QED BY <1>2 DEF P

\* h is the fold of g over every subset of S, which takes elements in the order of ch.
Folded(h, S, base, ch, g) ==
  \A s \in SUBSET S : h[s] = IF s = {} THEN base ELSE g[<<ch[s], h[s \ {ch[s]}]>>]

\* Such a function exists: a fold over a finite set is well defined.
LEMMA FoldExists ==
  ASSUME NEW S, IsFiniteSet(S), NEW V, NEW base \in V,
         NEW ch, \A s \in SUBSET S : s # {} => ch[s] \in s,
         NEW g, \A x \in S, v \in V : g[<<x, v>>] \in V
  PROVE  \E h \in [SUBSET S -> V] : Folded(h, S, base, ch, g)
<1> DEFINE Upto(n) == {s \in SUBSET S : Cardinality(s) <= n}
           Good(n, h) == \A s \in Upto(n) :
                h[s] = IF s = {} THEN base ELSE g[<<ch[s], h[s \ {ch[s]}]>>]
           N == {n \in Nat : \E h \in [Upto(n) -> V] : Good(n, h)}
<1>0. \A s \in SUBSET S : IsFiniteSet(s) /\ Cardinality(s) \in Nat /\ Cardinality(s) <= Cardinality(S)
  BY FS_Subset, FS_CardinalityType
<1>1. 0 \in N
  <2> DEFINE h == [s \in Upto(0) |-> base]
  <2>1. \A s \in Upto(0) : s = {}
    BY <1>0, FS_EmptySet
  <2>2. h \in [Upto(0) -> V] /\ Good(0, h)
    BY <2>1
  <2> QED BY <2>2
<1>2. ASSUME NEW n \in Nat, n \in N PROVE n + 1 \in N
  <2>1. PICK h \in [Upto(n) -> V] : Good(n, h)
    BY <1>2
  <2> DEFINE k == [s \in Upto(n + 1) |-> IF s \in Upto(n) THEN h[s] ELSE g[<<ch[s], h[s \ {ch[s]}]>>]]
  <2>2. ASSUME NEW s \in Upto(n + 1), s # {}
        PROVE s \ {ch[s]} \in Upto(n)
    <3>1. ch[s] \in s /\ IsFiniteSet(s) /\ Cardinality(s) \in Nat /\ Cardinality(s) <= n + 1
      BY <1>0, <2>2
    <3>2. Cardinality(s \ {ch[s]}) = Cardinality(s) - 1
      BY <3>1, FS_RemoveElement
    <3>3. Cardinality(s \ {ch[s]}) <= n
      BY <3>1, <3>2
    <3> QED BY <3>3
  <2>3. \A s \in Upto(n) : s \in Upto(n + 1)
    BY <1>0
  <2>4. {} \in Upto(n)
    BY FS_EmptySet
  <2>5. k \in [Upto(n + 1) -> V]
    BY <2>1, <2>2, <2>4
  <2>6. Good(n + 1, k)
    <3> SUFFICES ASSUME NEW s \in Upto(n + 1)
                 PROVE k[s] = IF s = {} THEN base ELSE g[<<ch[s], k[s \ {ch[s]}]>>]
      OBVIOUS
    <3>1. CASE s = {}
      BY <3>1, <2>1, <2>4
    <3>2. CASE s # {}
      <4>1. k[s \ {ch[s]}] = h[s \ {ch[s]}]
        BY <3>2, <2>2, <2>3
      <4>2. k[s] = g[<<ch[s], h[s \ {ch[s]}]>>]
        BY <3>2, <2>1
      <4> QED BY <3>2, <4>1, <4>2
    <3> QED BY <3>1, <3>2
  <2>7. \E f \in [Upto(n + 1) -> V] : Good(n + 1, f)
    <3> HIDE DEF k, Good
    <3> QED BY <2>5, <2>6
  <2> HIDE DEF Good, Upto
  <2> QED BY <2>7
<1>3. Cardinality(S) \in N
  <2> HIDE DEF N
  <2>1. \A n \in Nat : n \in N
    BY <1>1, <1>2, SetInduction
  <2> QED BY <2>1, FS_CardinalityType
<1>4. Upto(Cardinality(S)) = SUBSET S
  BY <1>0
<1> QED BY <1>3, <1>4 DEF Folded

\* h is the sum of f over each subset of T, one element at a time.
Sums(h, f, T) ==
  /\ h \in [SUBSET T -> Nat]
  /\ h[{}] = 0
  /\ \A s \in SUBSET T : s # {} => \E x \in s : h[s] = f[x] + h[s \ {x}]

\* SumFunctionOnSet is such a sum.
LEMMA SumsExist ==
  ASSUME NEW T, IsFiniteSet(T), NEW f, \A x \in T : f[x] \in Nat
  PROVE  \E h : Sums(h, f, T) /\ SumFunctionOnSet(f, T) = h[T]
<1> DEFINE ch == [s \in SUBSET T |-> CHOOSE x \in s : TRUE]
           g == [p \in T \X Nat |-> f[p[1]] + p[2]]
           F(h) == [s \in SUBSET T |-> IF s = {} THEN 0
                      ELSE f[CHOOSE x \in s : TRUE] + h[s \ {CHOOSE x \in s : TRUE}]]
           sum == CHOOSE h : h = F(h)
<1>1. \A s \in SUBSET T : s # {} => ch[s] \in s
  OBVIOUS
<1>2. \A x \in T, v \in Nat : g[<<x, v>>] \in Nat
  OBVIOUS
<1>3. PICK h \in [SUBSET T -> Nat] : Folded(h, T, 0, ch, g)
  <2> HIDE DEF ch, g
  <2> QED BY <1>1, <1>2, FoldExists
<1>4. \A s \in SUBSET T : h[s] = IF s = {} THEN 0
            ELSE f[CHOOSE x \in s : TRUE] + h[s \ {CHOOSE x \in s : TRUE}]
  <2> SUFFICES ASSUME NEW s \in SUBSET T, s # {}
               PROVE h[s] = f[ch[s]] + h[s \ {ch[s]}]
    BY <1>3 DEF Folded
  <2>1. h[s] = g[<<ch[s], h[s \ {ch[s]}]>>]
    BY <1>3 DEF Folded
  <2>2. ch[s] \in T /\ h[s \ {ch[s]}] \in Nat
    BY <1>1, <1>3
  <2> HIDE DEF ch
  <2> QED BY <2>1, <2>2
<1>5. h = F(h)
  BY <1>3, <1>4
<1>6. sum = F(sum)
  BY <1>5
<1>7. SumFunctionOnSet(f, T) = sum[T]
  BY DEF SumFunctionOnSet, FoldFunctionOnSet, MapThenFoldSet
<1>8. \A s \in SUBSET T : sum[s] = h[s]
  <2> DEFINE P == {s \in SUBSET T : sum[s] = h[s]}
             c(s) == CHOOSE x \in s : TRUE
  <2>1. \A s \in SUBSET T : sum[s] = IF s = {} THEN 0 ELSE f[c(s)] + sum[s \ {c(s)}]
    BY <1>6
  <2>2. \A s \in SUBSET T : s # {} => c(s) \in s
    OBVIOUS
  <2>3. \A s \in SUBSET T : h[s] = IF s = {} THEN 0 ELSE f[c(s)] + h[s \ {c(s)}]
    BY <1>4
  <2> HIDE DEF sum, c
  <2>4. \A s \in SUBSET T : (\A x \in s : s \ {x} \in P) => s \in P
    BY <2>1, <2>2, <2>3
  <2>5. \A s \in SUBSET T : s \in P
    <3> HIDE DEF P
    <3> QED BY <2>4, FiniteInduction
  <2> QED BY <2>5
<1>9. Sums(h, f, T)
  <2>1. \A s \in SUBSET T : s # {} => (CHOOSE x \in s : TRUE) \in s
    OBVIOUS
  <2> QED BY <1>3, <1>4, <2>1 DEF Sums
<1> HIDE DEF sum
<1> QED BY <1>7, <1>8, <1>9

\* ... which may be taken in any order,
LEMMA SumsAnyOrder ==
  ASSUME NEW T, IsFiniteSet(T), NEW f, \A x \in T : f[x] \in Nat, NEW h, Sums(h, f, T)
  PROVE  \A s \in SUBSET T : \A x \in s : h[s] = f[x] + h[s \ {x}]
<1> DEFINE P == {s \in SUBSET T : \A x \in s : h[s] = f[x] + h[s \ {x}]}
<1>1. ASSUME NEW s \in SUBSET T, \A x \in s : s \ {x} \in P, NEW x \in s
      PROVE  h[s] = f[x] + h[s \ {x}]
  <2>1. PICK y \in s : h[s] = f[y] + h[s \ {y}]
    BY DEF Sums
  <2>2. CASE x = y
    BY <2>1, <2>2
  <2>3. CASE x # y
    <3>1. h[s \ {y}] = f[x] + h[(s \ {y}) \ {x}]
      BY <1>1, <2>3
    <3>2. h[s \ {x}] = f[y] + h[(s \ {x}) \ {y}]
      BY <1>1, <2>3
    <3>3. (s \ {y}) \ {x} = (s \ {x}) \ {y}
      OBVIOUS
    <3>4. /\ h[(s \ {x}) \ {y}] \in Nat /\ h[s \ {x}] \in Nat
          /\ f[x] \in Nat /\ f[y] \in Nat
      BY DEF Sums
    <3>5. h[s] = f[y] + (f[x] + h[(s \ {x}) \ {y}])
      BY <2>1, <3>1, <3>3
    <3> HIDE DEF P
    <3> QED BY <3>2, <3>4, <3>5
  <2> QED BY <2>2, <2>3
<1>2. \A s \in SUBSET T : (\A x \in s : s \ {x} \in P) => s \in P
  BY <1>1
<1>3. \A s \in SUBSET T : s \in P
  <2> HIDE DEF P
  <2> QED BY <1>2, FiniteInduction
<1> QED BY <1>3

\* ... and depends on the function only.
LEMMA SumsAgree ==
  ASSUME NEW T, IsFiniteSet(T), NEW f, \A x \in T : f[x] \in Nat, NEW h, Sums(h, f, T),
         NEW U, IsFiniteSet(U), NEW g, \A x \in U : g[x] \in Nat, NEW k, Sums(k, g, U),
         NEW W, W \subseteq T, W \subseteq U, \A x \in W : f[x] = g[x]
  PROVE  h[W] = k[W]
<1> DEFINE P == {s \in SUBSET W : h[s] = k[s]}
<1>1. ASSUME NEW s \in SUBSET W, \A x \in s : s \ {x} \in P
      PROVE  s \in P
  <2>1. CASE s = {}
    BY <2>1 DEF Sums
  <2>2. CASE s # {}
    <3>1. PICK x \in s : TRUE
      BY <2>2
    <3>2. h[s] = f[x] + h[s \ {x}]
      BY SumsAnyOrder
    <3>3. k[s] = g[x] + k[s \ {x}]
      <4>1. s \in SUBSET U
        OBVIOUS
      <4> QED BY <4>1, SumsAnyOrder
    <3> QED BY <1>1, <3>1, <3>2, <3>3
  <2> QED BY <2>1, <2>2
<1>2. IsFiniteSet(W)
  BY FS_Subset
<1>3. \A s \in SUBSET W : s \in P
  <2>1. \A s \in SUBSET W : (\A x \in s : s \ {x} \in P) => s \in P
    BY <1>1
  <2> HIDE DEF P
  <2> QED BY <1>2, <2>1, FiniteInduction
<1> QED BY <1>3

-----------------------------------------------------------------------------

\* A sum of naturals is a natural.
LEMMA SumType ==
  ASSUME NEW T, IsFiniteSet(T), NEW f, \A x \in T : f[x] \in Nat
  PROVE  SumFunctionOnSet(f, T) \in Nat
<1>1. PICK h : Sums(h, f, T) /\ SumFunctionOnSet(f, T) = h[T]
  BY SumsExist
<1> QED BY <1>1 DEF Sums

\* Nothing sums up to 0.
LEMMA SumEmpty ==
  ASSUME NEW f
  PROVE  SumFunctionOnSet(f, {}) = 0
<1>1. \E h : Sums(h, f, {}) /\ SumFunctionOnSet(f, {}) = h[{}]
  BY SumsExist, FS_EmptySet
<1> QED BY <1>1 DEF Sums

\* Any element may be summed up last.
LEMMA SumElement ==
  ASSUME NEW T, IsFiniteSet(T), NEW f, \A x \in T : f[x] \in Nat, NEW x \in T
  PROVE  SumFunctionOnSet(f, T) = f[x] + SumFunctionOnSet(f, T \ {x})
<1>1. PICK h : Sums(h, f, T) /\ SumFunctionOnSet(f, T) = h[T]
  BY SumsExist
<1>2. IsFiniteSet(T \ {x}) /\ \A y \in T \ {x} : f[y] \in Nat
  BY FS_RemoveElement
<1>3. PICK k : Sums(k, f, T \ {x}) /\ SumFunctionOnSet(f, T \ {x}) = k[T \ {x}]
  BY <1>2, SumsExist
<1>4. h[T] = f[x] + h[T \ {x}]
  BY <1>1, SumsAnyOrder
<1>5. h[T \ {x}] = k[T \ {x}]
  BY <1>1, <1>2, <1>3, SumsAgree
<1> QED BY <1>1, <1>3, <1>4, <1>5

\* A sum depends on the values in its set only.
LEMMA SumSame ==
  ASSUME NEW T, IsFiniteSet(T), NEW f, \A x \in T : f[x] \in Nat,
         NEW g, \A x \in T : f[x] = g[x]
  PROVE  SumFunctionOnSet(f, T) = SumFunctionOnSet(g, T)
<1>1. PICK h : Sums(h, f, T) /\ SumFunctionOnSet(f, T) = h[T]
  BY SumsExist
<1>2. \A x \in T : g[x] \in Nat
  OBVIOUS
<1>3. PICK k : Sums(k, g, T) /\ SumFunctionOnSet(g, T) = k[T]
  BY <1>2, SumsExist
<1>4. h[T] = k[T]
  BY <1>1, <1>2, <1>3, SumsAgree
<1> QED BY <1>1, <1>3, <1>4

\* A sum changes by as much as the one value that changes.
LEMMA SumUpdate ==
  ASSUME NEW T, IsFiniteSet(T), NEW f, \A x \in T : f[x] \in Nat,
         NEW g, \A x \in T : g[x] \in Nat,
         NEW x \in T, \A y \in T \ {x} : f[y] = g[y]
  PROVE  SumFunctionOnSet(g, T) + f[x] = SumFunctionOnSet(f, T) + g[x]
<1>1. IsFiniteSet(T \ {x})
  BY FS_RemoveElement
<1>2. SumFunctionOnSet(f, T \ {x}) = SumFunctionOnSet(g, T \ {x})
  BY <1>1, SumSame
<1>3. SumFunctionOnSet(f, T \ {x}) \in Nat
  BY <1>1, SumType
<1>4. SumFunctionOnSet(f, T) = f[x] + SumFunctionOnSet(f, T \ {x})
  BY SumElement
<1>5. SumFunctionOnSet(g, T) = g[x] + SumFunctionOnSet(g, T \ {x})
  BY SumElement
<1>6. f[x] \in Nat /\ g[x] \in Nat
  OBVIOUS
<1> QED BY <1>2, <1>3, <1>4, <1>5, <1>6

\* No element is more than the sum.
LEMMA SumBoundsElement ==
  ASSUME NEW T, IsFiniteSet(T), NEW f, \A x \in T : f[x] \in Nat, NEW x \in T
  PROVE  f[x] <= SumFunctionOnSet(f, T)
<1>1. IsFiniteSet(T \ {x})
  BY FS_RemoveElement
<1>2. SumFunctionOnSet(f, T \ {x}) \in Nat
  BY <1>1, SumType
<1>3. SumFunctionOnSet(f, T) = f[x] + SumFunctionOnSet(f, T \ {x})
  BY SumElement
<1> QED BY <1>2, <1>3

\* Larger values make no smaller sum.
LEMMA SumMonotone ==
  ASSUME NEW T, IsFiniteSet(T), NEW f, \A x \in T : f[x] \in Nat,
         NEW g, \A x \in T : g[x] \in Nat, \A x \in T : f[x] <= g[x]
  PROVE  SumFunctionOnSet(f, T) <= SumFunctionOnSet(g, T)
<1> DEFINE P == {s \in SUBSET T : SumFunctionOnSet(f, s) <= SumFunctionOnSet(g, s)}
<1>1. ASSUME NEW s \in SUBSET T, \A x \in s : s \ {x} \in P
      PROVE  s \in P
  <2>1. CASE s = {}
    BY <2>1, SumEmpty
  <2>2. CASE s # {}
    <3>1. PICK x \in s : TRUE
      BY <2>2
    <3>2. IsFiniteSet(s) /\ IsFiniteSet(s \ {x})
      BY FS_Subset
    <3>3. SumFunctionOnSet(f, s) = f[x] + SumFunctionOnSet(f, s \ {x})
      BY <3>2, SumElement
    <3>4. SumFunctionOnSet(g, s) = g[x] + SumFunctionOnSet(g, s \ {x})
      BY <3>2, SumElement
    <3>5. SumFunctionOnSet(f, s \ {x}) \in Nat /\ SumFunctionOnSet(g, s \ {x}) \in Nat
      BY <3>2, SumType
    <3>6. SumFunctionOnSet(f, s \ {x}) <= SumFunctionOnSet(g, s \ {x})
      BY <1>1, <3>1
    <3>7. f[x] \in Nat /\ g[x] \in Nat /\ f[x] <= g[x]
      OBVIOUS
    <3> QED BY <3>3, <3>4, <3>5, <3>6, <3>7
  <2> QED BY <2>1, <2>2
<1>2. \A s \in SUBSET T : (\A x \in s : s \ {x} \in P) => s \in P
  BY <1>1
<1>3. \A s \in SUBSET T : s \in P
  <2> HIDE DEF P
  <2> QED BY <1>2, FiniteInduction
<1> QED BY <1>3

\* An element that is added to the set is added to the sum.
LEMMA SumAddElement ==
  ASSUME NEW T, IsFiniteSet(T), NEW x, x \notin T,
         NEW f, \A y \in T \cup {x} : f[y] \in Nat
  PROVE  SumFunctionOnSet(f, T \cup {x}) = SumFunctionOnSet(f, T) + f[x]
<1>1. IsFiniteSet(T \cup {x})
  BY FS_AddElement
<1>2. SumFunctionOnSet(f, T \cup {x}) = f[x] + SumFunctionOnSet(f, (T \cup {x}) \ {x})
  BY <1>1, SumElement
<1>3. (T \cup {x}) \ {x} = T
  OBVIOUS
<1>4. SumFunctionOnSet(f, T) \in Nat /\ f[x] \in Nat
  BY SumType
<1> QED BY <1>2, <1>3, <1>4

\* Part of a set sums up to no more than all of it.
LEMMA SumSubset ==
  ASSUME NEW T, IsFiniteSet(T), NEW f, \A x \in T : f[x] \in Nat, NEW U, U \subseteq T
  PROVE  SumFunctionOnSet(f, U) <= SumFunctionOnSet(f, T)
<1> DEFINE P == {s \in SUBSET T : U \subseteq s => SumFunctionOnSet(f, U) <= SumFunctionOnSet(f, s)}
<1>1. ASSUME NEW s \in SUBSET T, \A x \in s : s \ {x} \in P
      PROVE  s \in P
  <2>1. CASE s = U
    <3>1. SumFunctionOnSet(f, U) \in Nat
      BY FS_Subset, SumType
    <3> QED BY <2>1, <3>1
  <2>2. CASE s # U /\ U \subseteq s
    <3>1. PICK x \in s : x \notin U
      BY <2>2
    <3>2. IsFiniteSet(s) /\ IsFiniteSet(s \ {x}) /\ IsFiniteSet(U)
      BY FS_Subset
    <3>3. SumFunctionOnSet(f, s) = f[x] + SumFunctionOnSet(f, s \ {x})
      BY <3>2, SumElement
    <3>4. SumFunctionOnSet(f, s \ {x}) \in Nat /\ SumFunctionOnSet(f, U) \in Nat
      BY <3>2, SumType
    <3>5. SumFunctionOnSet(f, U) <= SumFunctionOnSet(f, s \ {x})
      BY <1>1, <2>2, <3>1
    <3>6. f[x] \in Nat
      OBVIOUS
    <3> HIDE DEF P
    <3>7. SumFunctionOnSet(f, U) <= SumFunctionOnSet(f, s)
      BY <3>3, <3>4, <3>5, <3>6
    <3> QED BY <3>7 DEF P
  <2> QED BY <2>1, <2>2
<1>2. \A s \in SUBSET T : (\A x \in s : s \ {x} \in P) => s \in P
  BY <1>1
<1>3. \A s \in SUBSET T : s \in P
  <2> HIDE DEF P
  <2> QED BY <1>2, FiniteInduction
<1> QED BY <1>3

-----------------------------------------------------------------------------
(* Ranks.                                                                  *)

\* In a finite set with an order, in which upto[i] are the members not after i, the
\* ranks are the numbers from 1 on, each the rank of one member.
LEMMA Ranks ==
  ASSUME NEW K, IsFiniteSet(K), NEW upto, \A i \in K : upto[i] \subseteq K /\ i \in upto[i],
         \A i, k \in K : i # k => \/ upto[i] \subseteq upto[k] /\ k \notin upto[i]
                                  \/ upto[k] \subseteq upto[i] /\ i \notin upto[k]
  PROVE  /\ Cardinality(K) \in Nat
         /\ \A i \in K : Cardinality(upto[i]) \in 1..Cardinality(K)
         /\ \A i, k \in K : Cardinality(upto[i]) = Cardinality(upto[k]) => i = k
         /\ \A n \in 1..Cardinality(K) : \E i \in K : Cardinality(upto[i]) = n
<1> DEFINE N == 1..Cardinality(K)
           rank == [i \in K |-> Cardinality(upto[i])]
<1>1. Cardinality(K) \in Nat
  BY FS_CardinalityType
<1>2. ASSUME NEW i \in K
      PROVE  /\ IsFiniteSet(upto[i]) /\ Cardinality(upto[i]) \in Nat
             /\ Cardinality(upto[i]) \in N
  <2>1. IsFiniteSet(upto[i]) /\ Cardinality(upto[i]) <= Cardinality(K)
    BY FS_Subset
  <2>2. Cardinality(upto[i]) \in Nat /\ Cardinality(upto[i]) # 0
    BY <2>1, FS_CardinalityType, FS_EmptySet
  <2> QED BY <1>1, <2>1, <2>2
<1>3. ASSUME NEW i \in K, NEW k \in K, upto[i] \subseteq upto[k], k \notin upto[i]
      PROVE  Cardinality(upto[i]) # Cardinality(upto[k])
  <2>1. upto[i] # upto[k]
    BY <1>3
  <2> QED BY <1>2, <1>3, <2>1, FS_Subset
<1>4. \A i, k \in K : Cardinality(upto[i]) = Cardinality(upto[k]) => i = k
  BY <1>3
<1>5. rank \in Injection(K, N)
  BY <1>2, <1>4 DEF Injection, IsInjective
<1>6. IsFiniteSet(N) /\ Cardinality(N) = Cardinality(K)
  BY <1>1, FS_Interval
<1>7. rank \in Surjection(K, N)
  <2> HIDE DEF rank, N
  <2> QED BY <1>5, <1>6, FS_Injection
<1>8. \A n \in N : \E i \in K : Cardinality(upto[i]) = n
  BY <1>7 DEF Surjection
<1> QED BY <1>1, <1>2, <1>4, <1>8

\* Approximations of a function over the naturals, each as far as its number and
\* determined from 0 on, agree.
LEMMA Diagonal ==
  ASSUME NEW a,
         \A n, m \in Nat : a[n][0] = a[m][0],
         \A n, m \in Nat : \A i \in Nat :
           i < n /\ i < m /\ a[n][i] = a[m][i] => a[n][i + 1] = a[m][i + 1]
  PROVE  \A n \in Nat : \A i \in 0..n : a[n][i] = a[i][i]
<1> DEFINE S == {i \in Nat : \A n \in Nat : i <= n => a[n][i] = a[i][i]}
<1>1. 0 \in S
  OBVIOUS
<1>2. ASSUME NEW i \in Nat, i \in S PROVE i + 1 \in S
  <2> SUFFICES ASSUME NEW n \in Nat, i + 1 <= n PROVE a[n][i + 1] = a[i + 1][i + 1]
    OBVIOUS
  <2>1. a[n][i] = a[i + 1][i]
    BY <1>2
  <2> QED BY <2>1
<1>3. \A i \in Nat : i \in S
  <2> HIDE DEF S
  <2> QED BY <1>1, <1>2, SetInduction
<1> QED BY <1>3

\* h is defined by recursion over the numbers: what it is at 0, and at each next one.
Recurses(h, base, step) == h[0] = base /\ \A n \in Nat : h[n + 1] = step[<<n + 1, h[n]>>]

\* Such a function exists.
LEMMA RecursionExists ==
  ASSUME NEW V, NEW base \in V, NEW step \in [Nat \X V -> V]
  PROVE  \E h \in [Nat -> V] : Recurses(h, base, step)
<1>0. ASSUME NEW n \in Nat, NEW v \in V PROVE step[<<n + 1, v>>] \in V
  <2>1. <<n + 1, v>> \in Nat \X V
    OBVIOUS
  <2> QED BY <2>1
<1> DEFINE Good(g, n) == /\ g \in [0..n -> V] /\ g[0] = base
                         /\ \A i \in Nat : i < n => g[i + 1] = step[<<i + 1, g[i]>>]
           N == {n \in Nat : \E g : Good(g, n)}
<1>1. 0 \in N
  <2>1. Good([i \in 0..0 |-> base], 0)
    OBVIOUS
  <2> HIDE DEF Good
  <2> QED BY <2>1
<1>2. ASSUME NEW n \in Nat, n \in N PROVE n + 1 \in N
  <2>1. PICK g : Good(g, n)
    BY <1>2
  <2> DEFINE k == [i \in 0..(n + 1) |-> IF i <= n THEN g[i] ELSE step[<<n + 1, g[n]>>]]
  <2>2. n \in 0..n /\ g[n] \in V
    BY <2>1
  <2>3. k \in [0..(n + 1) -> V] /\ k[0] = base
    BY <1>0, <2>1, <2>2
  <2>4. ASSUME NEW i \in Nat, i < n + 1 PROVE k[i + 1] = step[<<i + 1, k[i]>>]
    <3>1. i \in 0..(n + 1) /\ i + 1 \in 0..(n + 1) /\ i <= n /\ k[i] = g[i]
      BY <2>4
    <3>2. CASE i < n
      <4>1. k[i + 1] = g[i + 1] /\ g[i + 1] = step[<<i + 1, g[i]>>]
        BY <2>1, <3>1, <3>2
      <4> HIDE DEF k
      <4> QED BY <3>1, <4>1
    <3>3. CASE i = n
      <4>1. k[n + 1] = step[<<n + 1, g[n]>>]
        OBVIOUS
      <4> HIDE DEF k
      <4> QED BY <3>1, <3>3, <4>1
    <3> HIDE DEF k
    <3> QED BY <3>1, <3>2, <3>3
  <2> HIDE DEF k
  <2>5. Good(k, n + 1)
    BY <2>3, <2>4
  <2> HIDE DEF Good
  <2> QED BY <2>5
<1>3. \A n \in Nat : n \in N
  <2> HIDE DEF N
  <2> QED BY <1>1, <1>2, SetInduction
<1> DEFINE a == [n \in Nat |-> CHOOSE g : Good(g, n)]
           h == [n \in Nat |-> a[n][n]]
<1>4. \A n \in Nat : Good(a[n], n)
  <2> HIDE DEF Good
  <2> QED BY <1>3
<1> HIDE DEF a
<1>9. ASSUME NEW n \in Nat
      PROVE  a[n] \in [0..n -> V] /\ a[n][0] = base /\ \A i \in Nat : i < n => a[n][i + 1] = step[<<i + 1, a[n][i]>>]
  BY <1>4
<1> HIDE DEF Good
<1>5. \A n \in Nat : \A i \in 0..n : a[n][i] = a[i][i]
  <2>1. \A n, m \in Nat : a[n][0] = a[m][0]
    BY <1>9
  <2>2. ASSUME NEW n \in Nat, NEW m \in Nat, NEW i \in Nat, i < n, i < m, a[n][i] = a[m][i]
        PROVE  a[n][i + 1] = a[m][i + 1]
    <3>1. a[n][i + 1] = step[<<i + 1, a[n][i]>>] /\ a[m][i + 1] = step[<<i + 1, a[m][i]>>]
      BY <1>9, <2>2
    <3> QED BY <2>2, <3>1
  <2> QED BY <2>1, <2>2, Diagonal
<1>6. h \in [Nat -> V]
  <2>1. ASSUME NEW n \in Nat PROVE a[n][n] \in V
    <3>1. n \in 0..n
      OBVIOUS
    <3> QED BY <1>9, <3>1
  <2> QED BY <2>1
<1>7. h[0] = base
  BY <1>9
<1>8. ASSUME NEW n \in Nat PROVE h[n + 1] = step[<<n + 1, h[n]>>]
  <2>1. a[n + 1][n + 1] = step[<<n + 1, a[n + 1][n]>>]
    <3>1. n + 1 \in Nat /\ n < n + 1
      OBVIOUS
    <3> QED BY <1>9, <3>1
  <2>2. n \in 0..(n + 1) /\ a[n + 1][n] = a[n][n]
    BY <1>5
  <2> QED BY <2>1, <2>2
<1> HIDE DEF h
<1> QED BY <1>6, <1>7, <1>8 DEF Recurses

-----------------------------------------------------------------------------
(* Products, quotients and rests.                                          *)

\* Factors of a product multiply.
LEMMA Products ==
  ASSUME NEW a \in Int, NEW b \in Int, NEW c \in Int
  PROVE  /\ a * b \in Int /\ a * b = b * a /\ a * (b * c) = (a * b) * c
         /\ a * (b + c) = a * b + a * c /\ a * (b - c) = a * b - a * c
         /\ (a >= 0 /\ b <= c) => a * b <= a * c
         /\ (a > 0 /\ b < c) => a * b + a <= a * c
OBVIOUS

\* Division leaves a rest, and only one quotient does.
LEMMA Division ==
  ASSUME NEW n \in Int, NEW a \in Nat \ {0}
  PROVE  n \div a \in Int /\ n % a \in 0..(a - 1) /\ n = a * (n \div a) + (n % a)
<1>1. a \in Int /\ a > 0
  OBVIOUS
<1>2. n \div a \in Int
  BY <1>1
<1>3. n % a \in Int /\ n % a >= 0 /\ n % a < a
  BY <1>1
<1>4. n = a * (n \div a) + (n % a)
  BY <1>1, SMTT(60)
<1> QED BY <1>1, <1>2, <1>3, <1>4

LEMMA Quotient ==
  ASSUME NEW n \in Int, NEW a \in Nat \ {0}, NEW q \in Int, NEW r \in 0..(a - 1), n = a * q + r
  PROVE  n \div a = q /\ n % a = r
<1>1. PICK p, s : p = n \div a /\ s = n % a
  OBVIOUS
<1>2. p \in Int /\ s \in 0..(a - 1) /\ n = a * p + s
  BY <1>1, Division
<1>3. ~(p < q)
  <2>1. p < q => a * p + a <= a * q
    BY <1>2, Products
  <2>2. a * p \in Int /\ a * q \in Int
    BY <1>2
  <2> QED BY <1>2, <2>1, <2>2
<1>4. ~(q < p)
  <2>1. q < p => a * q + a <= a * p
    BY <1>2, Products
  <2>2. a * p \in Int /\ a * q \in Int
    BY <1>2
  <2> QED BY <1>2, <2>1, <2>2
<1>5. p = q
  BY <1>2, <1>3, <1>4
<1>6. s = r
  <2>1. a * q \in Int
    OBVIOUS
  <2> QED BY <1>2, <1>5, <2>1
<1> QED BY <1>1, <1>5, <1>6

\* A quotient is a number, no more than what is divided, and less than what is more.
LEMMA DivLess ==
  ASSUME NEW n \in Nat, NEW a \in Nat \ {0}
  PROVE  /\ n \div a \in Nat /\ a * (n \div a) <= n
         /\ \A k \in Nat : n < a * k => n \div a < k
<1>1. PICK q, r : q = n \div a /\ r = n % a
  OBVIOUS
<1>2. q \in Int /\ r \in 0..(a - 1) /\ n = a * q + r
  BY <1>1, Division
<1>3. q >= 0
  <2>1. q < 0 => a * q + a <= a * 0
    BY <1>2, Products
  <2>2. a * q \in Int /\ a * 0 = 0
    BY <1>2
  <2> QED BY <1>2, <2>1, <2>2
<1>4. a * q <= n
  <2>1. a * q \in Int
    BY <1>2
  <2> QED BY <1>2, <2>1
<1>5. ASSUME NEW k \in Nat, n < a * k PROVE q < k
  <2>1. k <= q => a * k <= a * q
    BY <1>2, Products
  <2>2. a * q \in Int /\ a * k \in Int
    BY <1>2
  <2> QED BY <1>2, <1>4, <1>5, <2>1, <2>2
<1> QED BY <1>1, <1>2, <1>3, <1>4, <1>5

\* Dividing by a product is dividing twice.
LEMMA DivDiv ==
  ASSUME NEW n \in Nat, NEW a \in Nat \ {0}, NEW c \in Nat \ {0}
  PROVE  n \div (c * a) = (n \div a) \div c
<1>1. PICK q, r : q = n \div a /\ r = n % a
  OBVIOUS
<1>2. q \in Nat /\ r \in 0..(a - 1) /\ n = a * q + r
  <2>1. n \div a \in Nat
    BY DivLess
  <2>2. n % a \in 0..(a - 1) /\ n = a * (n \div a) + (n % a)
    BY Division
  <2> QED BY <1>1, <2>1, <2>2
<1>3. PICK p, s : p = q \div c /\ s = q % c
  OBVIOUS
<1>4. p \in Nat /\ s \in 0..(c - 1) /\ q = c * p + s
  <2>1. q \div c \in Nat
    BY <1>2, DivLess
  <2>2. q % c \in 0..(c - 1) /\ q = c * (q \div c) + (q % c)
    BY <1>2, Division
  <2> QED BY <1>3, <2>1, <2>2
<1>5. n = (c * a) * p + (a * s + r)
  <2>1. a * q = a * (c * p) + a * s
    <3>1. c * p \in Int /\ s \in Int
      BY <1>4
    <3> QED BY <1>4, <3>1, Products
  <2>2. a * (c * p) = (a * c) * p /\ a * c = c * a
    BY <1>4, Products
  <2>3. a * q \in Int /\ (c * a) * p \in Int /\ a * s \in Int
    BY <1>2, <1>4
  <2> QED BY <1>2, <2>1, <2>2, <2>3
<1>6. c * a \in Nat \ {0}
  OBVIOUS
<1>7. a * s + r \in 0..(c * a - 1)
  <2>1. s \in Int /\ s < c
    BY <1>4
  <2>2. a * s + a <= a * c /\ a * c = c * a
    BY <2>1, Products
  <2>3. a * 0 <= a * s /\ a * 0 = 0
    BY <1>4, Products
  <2>4. a * s \in Int /\ c * a \in Int
    BY <2>1
  <2> QED BY <1>2, <2>2, <2>3, <2>4
<1>8. n \div (c * a) = p
  BY <1>4, <1>5, <1>6, <1>7, Quotient
<1> QED BY <1>1, <1>3, <1>8

\* What is a multiple leaves no rest, and what leaves none is a multiple.
LEMMA Multiples ==
  ASSUME NEW n \in Nat, NEW a \in Nat \ {0}
  PROVE  /\ \A q \in Nat : n = a * q => n \div a = q /\ n % a = 0
         /\ n % a = 0 => n = a * (n \div a) /\ n \div a \in Nat
<1>1. ASSUME NEW q \in Nat, n = a * q PROVE n \div a = q /\ n % a = 0
  <2>1. n = a * q + 0 /\ 0 \in 0..(a - 1)
    BY <1>1
  <2> QED BY <2>1, Quotient
<1>2. ASSUME n % a = 0 PROVE n = a * (n \div a) /\ n \div a \in Nat
  <2>1. n = a * (n \div a) + (n % a) /\ n \div a \in Int
    BY Division
  <2>2. n \div a \in Nat
    BY DivLess
  <2>3. a * (n \div a) \in Int
    BY <2>2
  <2> QED BY <1>2, <2>1, <2>2, <2>3
<1> QED BY <1>1, <1>2

\* Factors that are not zero cancel.
LEMMA Cancels ==
  ASSUME NEW a \in Nat \ {0}, NEW x \in Int, NEW y \in Int, a * x = a * y
  PROVE  x = y
<1>1. ~(x < y)
  <2>1. x < y => a * x + a <= a * y
    BY Products
  <2> QED BY <2>1
<1>2. ~(y < x)
  <2>1. y < x => a * y + a <= a * x
    BY Products
  <2> QED BY <2>1
<1> QED BY <1>1, <1>2

=============================================================================
