---------------------------- MODULE SumTheorems -----------------------------
(***************************************************************************)
(* Induction over numbers and finite sets in a form the provers can use,   *)
(* with a set where the library's theorems have an operator, and what the  *)
(* sums of the community modules (SumFunctionOnSet, MapThenSumSet) return. *)
(* A set that is taken apart one chosen element at a time has the sum that *)
(* every other order would give.                                           *)
(***************************************************************************)
EXTENDS Integers, FiniteSets, Functions, FiniteSetsExt, FiniteSetTheorems,
        WellFoundedInduction, TLAPS

\* A nonempty set of naturals has a least element.
LEMMA LeastNat ==
    ASSUME NEW T, T \subseteq Nat, T # {}
    PROVE  \E n \in T : \A m \in T : n <= m
<1>1. \E n \in T : \A m \in T : ~(<<m, n>> \in OpToRel(<, Nat))
    BY NatLessThanWellFounded, WFMin
<1>2. PICK n \in T : \A m \in T : ~(<<m, n>> \in OpToRel(<, Nat))
    BY <1>1
<1>3. \A m \in T : <<m, n>> \in OpToRel(<, Nat) <=> m < n
    BY DEF OpToRel
<1>4. \A m \in T : ~(m < n)
    BY <1>2, <1>3
<1>5. \A m \in T : m \in Nat /\ n \in Nat
    OBVIOUS
<1> QED
    BY <1>4, <1>5

\* Induction over the naturals, for a set.
LEMMA NatInductive ==
    ASSUME NEW T, 0 \in T, \A n \in Nat : n \in T => n + 1 \in T
    PROVE  Nat \subseteq T
<1> SUFFICES ASSUME ~(Nat \subseteq T) PROVE FALSE
    OBVIOUS
<1> DEFINE D == {k \in Nat : k \notin T}
<1>1. PICK n \in D : \A m \in D : n <= m
    BY LeastNat
<1>2. n # 0 /\ n - 1 \in Nat
    OBVIOUS
<1>3. n - 1 \in T
    BY <1>1, <1>2
<1> QED
    BY <1>2, <1>3

\* Induction over the subsets of a finite set: P is the set of those it holds of.
LEMMA SubsetInductive ==
    ASSUME NEW S, IsFiniteSet(S), NEW P, {} \in P,
           \A T \in SUBSET S : \A x \in S \ T : T \in P => T \cup {x} \in P
    PROVE  S \in P
<1> DEFINE N == {n \in Nat : \A T \in SUBSET S : Cardinality(T) = n => T \in P}
<1>1. 0 \in N
  <2> SUFFICES ASSUME NEW T \in SUBSET S, Cardinality(T) = 0 PROVE T \in P
      OBVIOUS
  <2> QED
      BY FS_Subset, FS_EmptySet
<1>2. \A n \in Nat : n \in N => n + 1 \in N
  <2> SUFFICES ASSUME NEW n \in Nat, n \in N,
                      NEW T \in SUBSET S, Cardinality(T) = n + 1
               PROVE  T \in P
      OBVIOUS
  <2>1. IsFiniteSet(T) /\ T # {}
      BY FS_Subset, FS_EmptySet
  <2>2. PICK x \in T : TRUE
      BY <2>1
  <2>8. Cardinality(T \ {x}) = Cardinality(T) - 1
      BY <2>1, <2>2, FS_RemoveElement
  <2>3. Cardinality(T \ {x}) = n
      BY <2>8
  <2>4. T \ {x} \in SUBSET S /\ x \in S \ (T \ {x})
      BY <2>2
  <2>7. T \ {x} \in P
      BY <2>3, <2>4
  <2>5. (T \ {x}) \cup {x} \in P
      BY <2>4, <2>7
  <2>6. (T \ {x}) \cup {x} = T
      BY <2>2
  <2> QED
      BY <2>5, <2>6
<1>3. Cardinality(S) \in N
  <2> HIDE DEF N
  <2> QED BY <1>1, <1>2, NatInductive, FS_CardinalityType
<1> QED
    BY <1>3

-----------------------------------------------------------------------------
(* Sums *)

\* What the iteration of a fold is worth on s, by what it is worth on smaller sets.
Folded(f, g, s) ==
    IF s = {} THEN 0 ELSE LET x == CHOOSE x \in s : TRUE IN f[x] + g[s \ {x}]

IsSum(g, f, S) == g = [s \in SUBSET S |-> Folded(f, g, s)]

\* The library's sum is the iteration on the subsets of S, taken on S.
LEMMA SumChosen ==
    ASSUME NEW f, NEW S
    PROVE  SumFunctionOnSet(f, S) = (CHOOSE g : IsSum(g, f, S))[S]
BY DEF SumFunctionOnSet, FoldFunctionOnSet, MapThenFoldSet, IsSum, Folded

\* The iteration exists on the subsets of up to n elements, for every n.
LEMMA SumExists ==
    ASSUME NEW f, NEW S, IsFiniteSet(S)
    PROVE  \E g : IsSum(g, f, S)
<1> DEFINE Upto(n) == {s \in SUBSET S : Cardinality(s) <= n}
           N == {n \in Nat : \E g : g = [s \in Upto(n) |-> Folded(f, g, s)]}
<1>0. \A s \in SUBSET S : IsFiniteSet(s) /\ Cardinality(s) \in Nat
    BY FS_Subset, FS_CardinalityType
<1>1. 0 \in N
  <2> DEFINE g == [s \in Upto(0) |-> 0]
  <2>1. \A s \in Upto(0) : s = {}
      BY <1>0, FS_EmptySet
  <2>2. \A s \in Upto(0) : Folded(f, g, s) = 0
      BY <2>1 DEF Folded
  <2>3. g = [s \in Upto(0) |-> Folded(f, g, s)]
      BY <2>2
  <2> QED
      BY <2>3
<1>2. \A n \in Nat : n \in N => n + 1 \in N
  <2> SUFFICES ASSUME NEW n \in Nat, n \in N
               PROVE  \E h : h = [s \in Upto(n + 1) |-> Folded(f, h, s)]
    <3> HIDE DEF Upto
    <3> QED OBVIOUS
  <2>0. PICK g : g = [s \in Upto(n) |-> Folded(f, g, s)]
    <3> HIDE DEF Upto
    <3> QED OBVIOUS
  <2> DEFINE h == [s \in Upto(n + 1) |-> Folded(f, g, s)]
  <2>1. ASSUME NEW s \in Upto(n + 1), s # {}, NEW x \in s
        PROVE  s \ {x} \in Upto(n) /\ s \ {x} \in Upto(n + 1)
      BY <1>0, <2>1, FS_RemoveElement
  <2>2. \A s \in Upto(n) : h[s] = g[s]
    <3> TAKE s \in Upto(n)
    <3>1. s \in Upto(n + 1)
        BY <1>0
    <3> QED
        BY <3>1, <2>0
  <2>3. ASSUME NEW s \in Upto(n + 1) PROVE Folded(f, g, s) = Folded(f, h, s)
    <3> DEFINE x == CHOOSE x \in s : TRUE
    <3>1. CASE s = {}
        BY <3>1 DEF Folded
    <3>2. CASE s # {}
      <4>1. x \in s
          BY <3>2
      <4>2. g[s \ {x}] = h[s \ {x}]
          BY <4>1, <3>2, <2>1, <2>2
      <4> QED
          BY <4>2, <3>2 DEF Folded
    <3> QED
        BY <3>1, <3>2
  <2>4. h = [s \in Upto(n + 1) |-> Folded(f, h, s)]
    <3> HIDE DEF Upto
    <3> QED BY <2>3
  <2> QED
      BY <2>4
<1>3. Cardinality(S) \in N
  <2> HIDE DEF N
  <2> QED BY <1>1, <1>2, NatInductive, FS_CardinalityType
<1>4. Upto(Cardinality(S)) = SUBSET S
    BY FS_Subset, FS_CardinalityType
<1> QED
    BY <1>3, <1>4 DEF IsSum

\* Two iterations of the same sum agree on every set both are defined on.
LEMMA SumUnique ==
    ASSUME NEW f, NEW S, IsFiniteSet(S), NEW g, IsSum(g, f, S),
           NEW T \in SUBSET S, NEW h, IsSum(h, f, T)
    PROVE  g[T] = h[T]
<1> DEFINE N == {n \in Nat : \A s \in SUBSET T : Cardinality(s) = n => g[s] = h[s]}
<1>0. \A s \in SUBSET T : IsFiniteSet(s) /\ Cardinality(s) \in Nat
    BY FS_Subset, FS_CardinalityType
<1>1. ASSUME NEW s \in SUBSET T, s # {} => g[s \ {CHOOSE x \in s : TRUE}] = h[s \ {CHOOSE x \in s : TRUE}]
      PROVE  g[s] = h[s]
  <2>1. s \in SUBSET S /\ g[s] = Folded(f, g, s) /\ h[s] = Folded(f, h, s)
      BY DEF IsSum
  <2> QED
      BY <1>1, <2>1 DEF Folded
<1>2. 0 \in N
  <2> SUFFICES ASSUME NEW s \in SUBSET T, Cardinality(s) = 0 PROVE g[s] = h[s]
      OBVIOUS
  <2>1. s = {}
      BY <1>0, FS_EmptySet
  <2> QED
      BY <1>1, <2>1
<1>3. \A n \in Nat : n \in N => n + 1 \in N
  <2> SUFFICES ASSUME NEW n \in Nat, n \in N,
                      NEW s \in SUBSET T, Cardinality(s) = n + 1
               PROVE  g[s] = h[s]
      OBVIOUS
  <2> DEFINE x == CHOOSE x \in s : TRUE
  <2>1. s # {}
      BY FS_EmptySet
  <2>2. x \in s
      BY <2>1
  <2>3. Cardinality(s \ {x}) = Cardinality(s) - 1
      BY <1>0, <2>2, FS_RemoveElement
  <2>4. Cardinality(s \ {x}) = n /\ s \ {x} \in SUBSET T
      BY <2>3
  <2>5. g[s \ {x}] = h[s \ {x}]
      BY <2>4
  <2> QED
      BY <2>5, <1>1
<1>4. Cardinality(T) \in N
  <2> HIDE DEF N
  <2> QED BY <1>2, <1>3, <1>0, NatInductive
<1> QED
    BY <1>4

\* What any iteration finds is the library's sum.
LEMMA SumOfIteration ==
    ASSUME NEW f, NEW S, IsFiniteSet(S), NEW g, IsSum(g, f, S), NEW T \in SUBSET S
    PROVE  g[T] = SumFunctionOnSet(f, T)
<1> DEFINE h == CHOOSE h : IsSum(h, f, T)
<1>1. IsFiniteSet(T)
    BY FS_Subset
<1>2. IsSum(h, f, T)
    BY <1>1, SumExists
<1> HIDE DEF h
<1>3. g[T] = h[T]
    BY <1>2, SumUnique
<1> QED
    BY <1>3, SumChosen DEF h

LEMMA SumOfWhole ==
    ASSUME NEW f, NEW S, IsFiniteSet(S), NEW g, IsSum(g, f, S)
    PROVE  g[S] = SumFunctionOnSet(f, S)
<1>1. S \in SUBSET S
    OBVIOUS
<1> QED
    BY <1>1, SumOfIteration

LEMMA SumEmpty ==
    ASSUME NEW f
    PROVE  SumFunctionOnSet(f, {}) = 0
<1>1. PICK g : IsSum(g, f, {})
    BY SumExists, FS_EmptySet
<1>2. g[{}] = 0
    BY <1>1 DEF IsSum, Folded
<1> QED
    BY <1>1, <1>2, SumOfIteration, FS_EmptySet

\* The chosen element and the rest.
LEMMA SumNonempty ==
    ASSUME NEW f, NEW S, IsFiniteSet(S), S # {}
    PROVE  LET x == CHOOSE x \in S : TRUE
           IN  SumFunctionOnSet(f, S) = f[x] + SumFunctionOnSet(f, S \ {x})
<1>1. PICK g : IsSum(g, f, S)
    BY SumExists
<1> DEFINE x == CHOOSE x \in S : TRUE
<1>2. g[S] = f[x] + g[S \ {x}]
    BY <1>1 DEF IsSum, Folded
<1>3. g[S] = SumFunctionOnSet(f, S) /\ g[S \ {x}] = SumFunctionOnSet(f, S \ {x})
    BY <1>1, SumOfIteration
<1> QED
    BY <1>2, <1>3

\* A sum of integers is an integer.
LEMMA SumInt ==
    ASSUME NEW f, NEW S, IsFiniteSet(S), \A x \in S : f[x] \in Int
    PROVE  SumFunctionOnSet(f, S) \in Int
<1> DEFINE N == {n \in Nat : \A s \in SUBSET S :
                                 Cardinality(s) = n => SumFunctionOnSet(f, s) \in Int}
<1>0. \A s \in SUBSET S : IsFiniteSet(s) /\ Cardinality(s) \in Nat
    BY FS_Subset, FS_CardinalityType
<1>1. 0 \in N
    BY <1>0, FS_EmptySet, SumEmpty
<1>2. \A n \in Nat : n \in N => n + 1 \in N
  <2> SUFFICES ASSUME NEW n \in Nat, n \in N,
                      NEW s \in SUBSET S, Cardinality(s) = n + 1
               PROVE  SumFunctionOnSet(f, s) \in Int
      OBVIOUS
  <2> DEFINE x == CHOOSE x \in s : TRUE
  <2>1. s # {}
      BY FS_EmptySet
  <2>2. x \in s
      BY <2>1
  <2>3. Cardinality(s \ {x}) = Cardinality(s) - 1
      BY <1>0, <2>2, FS_RemoveElement
  <2>4. Cardinality(s \ {x}) = n /\ s \ {x} \in SUBSET S
      BY <2>3
  <2>5. SumFunctionOnSet(f, s \ {x}) \in Int
      BY <2>4
  <2>6. f[x] \in Int
      BY <2>2
  <2>7. SumFunctionOnSet(f, s) = f[x] + SumFunctionOnSet(f, s \ {x})
      BY <1>0, <2>1, SumNonempty
  <2> QED
      BY <2>5, <2>6, <2>7
<1>3. Cardinality(S) \in N
  <2> HIDE DEF N
  <2> QED BY <1>1, <1>2, NatInductive, FS_CardinalityType
<1> QED
    BY <1>3

\* Any element and the rest: the order of the choices does not matter.
LEMMA SumRemove ==
    ASSUME NEW f, NEW S, IsFiniteSet(S), \A x \in S : f[x] \in Int, NEW y \in S
    PROVE  SumFunctionOnSet(f, S) = f[y] + SumFunctionOnSet(f, S \ {y})
<1> DEFINE Splits(s) == \A z \in s :
                            SumFunctionOnSet(f, s) = f[z] + SumFunctionOnSet(f, s \ {z})
           N == {n \in Nat : \A s \in SUBSET S : Cardinality(s) = n => Splits(s)}
<1>0. \A s \in SUBSET S : IsFiniteSet(s) /\ Cardinality(s) \in Nat /\ SumFunctionOnSet(f, s) \in Int
  <2> TAKE s \in SUBSET S
  <2>1. IsFiniteSet(s) /\ \A x \in s : f[x] \in Int
      BY FS_Subset
  <2> QED
      BY <2>1, FS_CardinalityType, SumInt
<1>1. 0 \in N
    BY <1>0, FS_EmptySet
<1>2. \A n \in Nat : n \in N => n + 1 \in N
  <2> SUFFICES ASSUME NEW n \in Nat, n \in N,
                      NEW s \in SUBSET S, Cardinality(s) = n + 1
               PROVE  Splits(s)
    <3> HIDE DEF Splits
    <3> QED OBVIOUS
  <2> SUFFICES ASSUME NEW z \in s
               PROVE  SumFunctionOnSet(f, s) = f[z] + SumFunctionOnSet(f, s \ {z})
      OBVIOUS
  <2> DEFINE x == CHOOSE x \in s : TRUE
             sx == s \ {x}
             sz == s \ {z}
             sxz == s \ {x, z}
  <2>1. x \in s
      OBVIOUS
  <2>2. Cardinality(sx) = Cardinality(s) - 1 /\ Cardinality(sz) = Cardinality(s) - 1
      BY <1>0, <2>1, FS_RemoveElement
  <2>3. Cardinality(sx) = n /\ sx \in SUBSET S /\ Cardinality(sz) = n /\ sz \in SUBSET S
        /\ sxz \in SUBSET S
      BY <2>2
  <2>4. SumFunctionOnSet(f, s) = f[x] + SumFunctionOnSet(f, sx)
    <3>1. IsFiniteSet(s) /\ s # {}
        BY <1>0
    <3> QED
        BY <3>1, SumNonempty
  <2>5. CASE x = z
      BY <2>4, <2>5
  <2>6. CASE x # z
    <3>1. SumFunctionOnSet(f, sx) = f[z] + SumFunctionOnSet(f, sxz)
      <4>1. z \in sx /\ sx \ {z} = sxz
          BY <2>6
      <4> QED
          BY <4>1, <2>3
    <3>2. SumFunctionOnSet(f, sz) = f[x] + SumFunctionOnSet(f, sxz)
      <4>1. x \in sz /\ sz \ {x} = sxz
          BY <2>6, <2>1
      <4> QED
          BY <4>1, <2>3
    <3>3. f[x] \in Int /\ f[z] \in Int /\ SumFunctionOnSet(f, sxz) \in Int
        BY <2>1, <1>0, <2>3
    <3> HIDE DEF x, sx, sz, sxz
    <3> QED
        BY <3>1, <3>2, <3>3, <2>4 DEF sz
  <2> QED
      BY <2>5, <2>6
<1>3. Cardinality(S) \in N
  <2> HIDE DEF N
  <2> QED BY <1>1, <1>2, NatInductive, FS_CardinalityType
<1> QED
    BY <1>3

\* One more element.
LEMMA SumAdd ==
    ASSUME NEW f, NEW S, IsFiniteSet(S), NEW y, y \notin S,
           \A x \in S \cup {y} : f[x] \in Int
    PROVE  SumFunctionOnSet(f, S \cup {y}) = f[y] + SumFunctionOnSet(f, S)
<1>1. IsFiniteSet(S \cup {y}) /\ y \in S \cup {y} /\ (S \cup {y}) \ {y} = S
    BY FS_AddElement
<1> QED
    BY <1>1, SumRemove

\* Only the summands count.
LEMMA SumSame ==
    ASSUME NEW f, NEW h, NEW S, IsFiniteSet(S),
           \A x \in S : f[x] \in Int /\ f[x] = h[x]
    PROVE  SumFunctionOnSet(f, S) = SumFunctionOnSet(h, S)
<1> DEFINE P == {T \in SUBSET S : SumFunctionOnSet(f, T) = SumFunctionOnSet(h, T)}
<1>1. {} \in P
    BY SumEmpty
<1>2. ASSUME NEW T \in SUBSET S, NEW x \in S \ T, T \in P PROVE T \cup {x} \in P
  <2>1. IsFiniteSet(T)
      BY FS_Subset
  <2>2. SumFunctionOnSet(f, T \cup {x}) = f[x] + SumFunctionOnSet(f, T)
      BY <2>1, SumAdd
  <2>3. SumFunctionOnSet(h, T \cup {x}) = h[x] + SumFunctionOnSet(h, T)
      BY <2>1, SumAdd
  <2> QED
      BY <1>2, <2>2, <2>3
<1>3. S \in P
  <2> HIDE DEF P
  <2> QED BY <1>1, <1>2, SubsetInductive
<1> QED
    BY <1>3

\* Greater summands have the greater sum.
LEMMA SumMonotone ==
    ASSUME NEW f, NEW h, NEW S, IsFiniteSet(S),
           \A x \in S : f[x] \in Int /\ h[x] \in Int /\ f[x] <= h[x]
    PROVE  SumFunctionOnSet(f, S) <= SumFunctionOnSet(h, S)
<1> DEFINE P == {T \in SUBSET S : SumFunctionOnSet(f, T) <= SumFunctionOnSet(h, T)}
<1>1. {} \in P
    BY SumEmpty
<1>2. ASSUME NEW T \in SUBSET S, NEW x \in S \ T, T \in P PROVE T \cup {x} \in P
  <2>1. IsFiniteSet(T)
      BY FS_Subset
  <2>2. SumFunctionOnSet(f, T \cup {x}) = f[x] + SumFunctionOnSet(f, T)
      BY <2>1, SumAdd
  <2>3. SumFunctionOnSet(h, T \cup {x}) = h[x] + SumFunctionOnSet(h, T)
      BY <2>1, SumAdd
  <2>4. SumFunctionOnSet(f, T) \in Int /\ SumFunctionOnSet(h, T) \in Int
      BY <2>1, SumInt
  <2>5. SumFunctionOnSet(f, T \cup {x}) <= SumFunctionOnSet(h, T \cup {x})
      BY <1>2, <2>2, <2>3, <2>4
  <2> QED
      BY <2>5
<1>3. S \in P
  <2> HIDE DEF P
  <2> QED BY <1>1, <1>2, SubsetInductive
<1> QED
    BY <1>3

\* The sum of two disjoint sets.
LEMMA SumUnion ==
    ASSUME NEW f, NEW S, IsFiniteSet(S), NEW U, IsFiniteSet(U), S \cap U = {},
           \A x \in S \cup U : f[x] \in Int
    PROVE  SumFunctionOnSet(f, S \cup U) = SumFunctionOnSet(f, S) + SumFunctionOnSet(f, U)
<1> DEFINE P == {T \in SUBSET U : SumFunctionOnSet(f, S \cup T)
                                     = SumFunctionOnSet(f, S) + SumFunctionOnSet(f, T)}
<1>0. SumFunctionOnSet(f, S) \in Int
    BY SumInt
<1>1. {} \in P
    BY SumEmpty, <1>0
<1>2. ASSUME NEW T \in SUBSET U, NEW x \in U \ T, T \in P PROVE T \cup {x} \in P
  <2>1. IsFiniteSet(T) /\ IsFiniteSet(S \cup T)
      BY FS_Subset, FS_Union
  <2>2. SumFunctionOnSet(f, T \cup {x}) = f[x] + SumFunctionOnSet(f, T)
      BY <2>1, SumAdd
  <2>3. SumFunctionOnSet(f, (S \cup T) \cup {x}) = f[x] + SumFunctionOnSet(f, S \cup T)
      BY <2>1, SumAdd
  <2>4. SumFunctionOnSet(f, T) \in Int /\ f[x] \in Int
      BY <2>1, SumInt
  <2>5. S \cup (T \cup {x}) = (S \cup T) \cup {x}
      OBVIOUS
  <2>6. SumFunctionOnSet(f, S \cup T) = SumFunctionOnSet(f, S) + SumFunctionOnSet(f, T)
      BY <1>2
  <2>7. SumFunctionOnSet(f, S \cup (T \cup {x}))
          = SumFunctionOnSet(f, S) + SumFunctionOnSet(f, T \cup {x})
    <3> DEFINE a == SumFunctionOnSet(f, T \cup {x})
               b == SumFunctionOnSet(f, T)
               c == SumFunctionOnSet(f, S \cup (T \cup {x}))
               d == SumFunctionOnSet(f, S \cup T)
               e == SumFunctionOnSet(f, S)
               k == f[x]
    <3>1. a = k + b /\ c = k + d /\ d = e + b
        BY <2>2, <2>3, <2>5, <2>6
    <3>2. b \in Int /\ e \in Int /\ k \in Int
        BY <2>4, <1>0
    <3>3. c = e + a
      <4> HIDE DEF a, b, c, d, e, k
      <4> QED BY <3>1, <3>2
    <3> QED
        BY <3>3
  <2> QED
      BY <2>7
<1>3. U \in P
  <2> HIDE DEF P
  <2> QED BY <1>1, <1>2, SubsetInductive
<1> QED
    BY <1>3

\* A sum of naturals is one, and the sum of a subset is no greater.
LEMMA SumNat ==
    ASSUME NEW f, NEW S, IsFiniteSet(S), \A x \in S : f[x] \in Nat
    PROVE  SumFunctionOnSet(f, S) \in Nat
<1> DEFINE P == {T \in SUBSET S : SumFunctionOnSet(f, T) \in Nat}
<1>1. {} \in P
    BY SumEmpty
<1>2. ASSUME NEW T \in SUBSET S, NEW x \in S \ T, T \in P PROVE T \cup {x} \in P
  <2>1. IsFiniteSet(T)
      BY FS_Subset
  <2>2. SumFunctionOnSet(f, T \cup {x}) = f[x] + SumFunctionOnSet(f, T)
      BY <2>1, SumAdd
  <2> QED
      BY <1>2, <2>2
<1>3. S \in P
  <2> HIDE DEF P
  <2> QED BY <1>1, <1>2, SubsetInductive
<1> QED
    BY <1>3

LEMMA SumSubset ==
    ASSUME NEW f, NEW S, IsFiniteSet(S), \A x \in S : f[x] \in Nat, NEW T \in SUBSET S
    PROVE  SumFunctionOnSet(f, T) <= SumFunctionOnSet(f, S)
<1>1. IsFiniteSet(T) /\ IsFiniteSet(S \ T) /\ T \cap (S \ T) = {} /\ T \cup (S \ T) = S
    BY FS_Subset
<1>2. SumFunctionOnSet(f, S) = SumFunctionOnSet(f, T) + SumFunctionOnSet(f, S \ T)
  <2>1. \A x \in T \cup (S \ T) : f[x] \in Int
      OBVIOUS
  <2>2. SumFunctionOnSet(f, T \cup (S \ T)) = SumFunctionOnSet(f, T) + SumFunctionOnSet(f, S \ T)
      BY <1>1, <2>1, SumUnion
  <2> QED
      BY <1>1, <2>2
<1>3. SumFunctionOnSet(f, T) \in Nat /\ SumFunctionOnSet(f, S \ T) \in Nat
    BY <1>1, SumNat
<1> QED
    BY <1>2, <1>3

\* A set has no more elements than its sum, when each counts for one at least.
LEMMA SumCount ==
    ASSUME NEW f, NEW S, IsFiniteSet(S), \A x \in S : f[x] \in Nat \ {0}
    PROVE  Cardinality(S) <= SumFunctionOnSet(f, S)
<1> DEFINE P == {T \in SUBSET S : Cardinality(T) <= SumFunctionOnSet(f, T)}
<1>1. {} \in P
    BY SumEmpty, FS_EmptySet
<1>2. ASSUME NEW T \in SUBSET S, NEW x \in S \ T, T \in P PROVE T \cup {x} \in P
  <2>1. IsFiniteSet(T)
      BY FS_Subset
  <2>2. SumFunctionOnSet(f, T \cup {x}) = f[x] + SumFunctionOnSet(f, T)
      BY <2>1, SumAdd
  <2>3. SumFunctionOnSet(f, T) \in Nat
      BY <2>1, SumNat
  <2>4. Cardinality(T \cup {x}) = Cardinality(T) + 1 /\ Cardinality(T) \in Nat
      BY <2>1, FS_AddElement, FS_CardinalityType
  <2>5. f[x] \in Nat \ {0}
      OBVIOUS
  <2>6. Cardinality(T \cup {x}) <= SumFunctionOnSet(f, T \cup {x})
      BY <1>2, <2>2, <2>3, <2>4, <2>5
  <2> QED
      BY <2>6
<1>3. S \in P
  <2> HIDE DEF P
  <2> QED BY <1>1, <1>2, SubsetInductive
<1> QED
    BY <1>3

\* The sum over the images of the elements is the sum over the elements.
LEMMA SumImage ==
    ASSUME NEW S, IsFiniteSet(S), NEW f, NEW h, NEW b,
           \A x \in S : f[x] \in Int /\ h[b[x]] = f[x],
           \A x, y \in S : b[x] = b[y] => x = y
    PROVE  SumFunctionOnSet(f, S) = SumFunctionOnSet(h, {b[x] : x \in S})
<1> DEFINE Of(T) == {b[x] : x \in T}
           P == {T \in SUBSET S : IsFiniteSet(Of(T)) /\
                                   SumFunctionOnSet(f, T) = SumFunctionOnSet(h, Of(T))}
<1>1. {} \in P
  <2>1. Of({}) = {}
      OBVIOUS
  <2> QED
      BY <2>1, SumEmpty, FS_EmptySet
<1>2. ASSUME NEW T \in SUBSET S, NEW x \in S \ T, T \in P PROVE T \cup {x} \in P
  <2>1. Of(T \cup {x}) = Of(T) \cup {b[x]} /\ b[x] \notin Of(T)
      BY <1>2
  <2>2. IsFiniteSet(T)
      BY FS_Subset
  <2>3. IsFiniteSet(Of(T))
      BY <1>2
  <2>4. \A y \in Of(T) \cup {b[x]} : h[y] \in Int
      BY <1>2
  <2>5. \A y \in T \cup {x} : f[y] \in Int
      BY <1>2
  <2>6. SumFunctionOnSet(f, T \cup {x}) = f[x] + SumFunctionOnSet(f, T)
      BY <1>2, <2>2, <2>5, SumAdd
  <2> HIDE DEF Of
  <2>7. SumFunctionOnSet(h, Of(T) \cup {b[x]}) = h[b[x]] + SumFunctionOnSet(h, Of(T))
      BY <2>1, <2>3, <2>4, SumAdd
  <2>8. h[b[x]] = f[x] /\ SumFunctionOnSet(f, T) = SumFunctionOnSet(h, Of(T))
      BY <1>2
  <2>9. SumFunctionOnSet(f, T \cup {x}) = SumFunctionOnSet(h, Of(T \cup {x}))
      BY <2>1, <2>6, <2>7, <2>8
  <2>10. IsFiniteSet(Of(T) \cup {b[x]})
      BY <2>3, FS_AddElement
  <2>11. IsFiniteSet(Of(T \cup {x}))
      BY <2>1, <2>10
  <2> QED
      BY <2>9, <2>11
<1> QED
  <2> HIDE DEF P
  <2>1. S \in P
      BY <1>1, <1>2, SubsetInductive
  <2> QED
      BY <2>1 DEF P
=============================================================================
