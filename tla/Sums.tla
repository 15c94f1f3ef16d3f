-------------------------------- MODULE Sums --------------------------------
(***************************************************************************)
(* Sums over finite sets: what SumFunctionOnSet of the community module    *)
(* Functions returns.  It is defined by recursion on subsets, through a    *)
(* CHOOSE, so each fact below is proved by looking at a smallest set that  *)
(* refutes it: such a set exists because the natural numbers are well      *)
(* founded, the rest of it is no counterexample, and adding the chosen     *)
(* member back makes none either.                                          *)
(***************************************************************************)
EXTENDS Integers, FiniteSets, Functions, FiniteSetTheorems, WellFoundedInduction, TLAPS

\* A set of natural numbers that is not empty has a least member.
LEMMA NatMinimum ==
  ASSUME NEW T \in SUBSET Nat, T # {}
  PROVE  \E n \in T : \A m \in T : n <= m
<1> DEFINE R == {p \in Nat \X Nat : p[1] < p[2]}
<1>1. IsWellFoundedOn(R, Nat)
  BY NatLessThanWellFounded DEF OpToRel
<1> HIDE DEF R
<1>2. PICK n \in T : \A m \in T : <<m, n>> \notin R
  BY <1>1, WFMin
<1>3. \A m \in T : ~ (m < n)
  BY <1>2 DEF R
<1> QED
  BY <1>3, SMT

\* A family of subsets of a finite set that is not empty has a member no other
\* member lies below.
LEMMA MinimalSubset ==
  ASSUME NEW S, IsFiniteSet(S), NEW B \in SUBSET (SUBSET S), B # {}
  PROVE  \E T \in B : \A U \in B : U \subseteq T => U = T
<1> DEFINE N == {Cardinality(T) : T \in B}
<1>1. \A T \in B : IsFiniteSet(T) /\ Cardinality(T) \in Nat
  BY FS_Subset, FS_CardinalityType
<1>2. N \in SUBSET Nat /\ N # {}
  BY <1>1
<1>3. PICK n \in N : \A m \in N : n <= m
  BY <1>2, NatMinimum
<1>4. PICK T \in B : n = Cardinality(T)
  BY <1>3
<1>5. ASSUME NEW U \in B, U \subseteq T, U # T
      PROVE  FALSE
  <2>1. Cardinality(U) < Cardinality(T)
    BY <1>1, <1>5, FS_Subset, FS_CardinalityType
  <2>2. Cardinality(T) <= Cardinality(U)
    BY <1>3, <1>4
  <2> QED
    BY <2>1, <2>2, <1>1
<1> QED
  BY <1>4, <1>5

\* The recursion behind SumFunctionOnSet: the member it takes, one step of it,
\* and what it means for g to obey it on the subsets of S.
AnyOf(s) == CHOOSE x \in s : TRUE
SumStep(f, g, s) == IF s = {} THEN 0 ELSE f[AnyOf(s)] + g[s \ {AnyOf(s)}]
Sums(f, g, S) == g = [s \in SUBSET S |-> SumStep(f, g, s)]

\* The sum over S is the value at S of the function chosen by the recursion.
LEMMA SumIsChosen ==
  ASSUME NEW f, NEW S
  PROVE  SumFunctionOnSet(f, S) = (CHOOSE g : Sums(f, g, S))[S]
  BY DEF SumFunctionOnSet, FoldFunctionOnSet, MapThenFoldSet, Sums, SumStep, AnyOf

\* The member the recursion takes is one of the set.
LEMMA AnyOfMember ==
  ASSUME NEW s, s # {}
  PROVE  AnyOf(s) \in s
  BY DEF AnyOf

\* Two functions that obey the recursion agree where both are defined.
LEMMA SumsAgree ==
  ASSUME NEW S, IsFiniteSet(S), NEW f,
         NEW A \in SUBSET S, NEW B \in SUBSET S,
         NEW g, Sums(f, g, A), NEW h, Sums(f, h, B),
         NEW s \in SUBSET (A \cap B)
  PROVE  g[s] = h[s]
<1> DEFINE Bad == {t \in SUBSET (A \cap B) : g[t] # h[t]}
<1> SUFFICES ASSUME Bad # {} PROVE FALSE
  OBVIOUS
<1>1. PICK t \in Bad : \A u \in Bad : u \subseteq t => u = t
  <2>1. Bad \in SUBSET (SUBSET S)
    OBVIOUS
  <2> HIDE DEF Bad
  <2> QED
    BY <2>1, MinimalSubset
<1>2. g[t] = SumStep(f, g, t) /\ h[t] = SumStep(f, h, t) /\ g[t] # h[t]
  BY DEF Sums
<1>3. t # {}
  BY <1>2 DEF SumStep
<1>4. AnyOf(t) \in t
  BY <1>3, AnyOfMember
<1>5. t \ {AnyOf(t)} \notin Bad
  BY <1>1, <1>4
<1>6. g[t \ {AnyOf(t)}] = h[t \ {AnyOf(t)}]
  BY <1>5
<1> QED
  BY <1>2, <1>3, <1>6 DEF SumStep

\* Some function obeys the recursion on the subsets of a finite set.
LEMMA SumsExists ==
  ASSUME NEW S, IsFiniteSet(S), NEW f
  PROVE  Sums(f, CHOOSE g : Sums(f, g, S), S)
<1> DEFINE Has(T) == \E g : Sums(f, g, T)
           Bad == {T \in SUBSET S : ~ Has(T)}
<1> SUFFICES Has(S)
  OBVIOUS
<1> SUFFICES ASSUME Bad # {} PROVE FALSE
  OBVIOUS
<1>1. PICK T \in Bad : \A U \in Bad : U \subseteq T => U = T
  <2>1. Bad \in SUBSET (SUBSET S)
    OBVIOUS
  <2> HIDE DEF Bad
  <2> QED
    BY <2>1, MinimalSubset
<1> DEFINE G(U) == CHOOSE g : Sums(f, g, U)
<1>2. ASSUME NEW U \in SUBSET T, U # T
      PROVE  Sums(f, G(U), U)
  BY <1>1, <1>2
<1> DEFINE rest(s) == s \ {AnyOf(s)}
           k == [s \in SUBSET T |-> IF s = {} THEN 0 ELSE f[AnyOf(s)] + G(rest(s))[rest(s)]]
<1> HIDE DEF G
<1>3. ASSUME NEW s \in SUBSET T, s # {}
      PROVE  k[rest(s)] = G(rest(s))[rest(s)]
  <2>1. AnyOf(s) \in s
    BY <1>3, AnyOfMember
  <2>2. rest(s) \in SUBSET T /\ rest(s) # T
    BY <2>1
  <2>3. Sums(f, G(rest(s)), rest(s))
    BY <1>2, <2>2
  <2>4. G(rest(s))[rest(s)] = SumStep(f, G(rest(s)), rest(s))
    BY <2>3 DEF Sums
  <2>5. CASE rest(s) = {}
    BY <2>2, <2>4, <2>5 DEF SumStep
  <2>6. CASE rest(s) # {}
    <3> DEFINE v == rest(s)
               w == rest(v)
    <3>1. AnyOf(v) \in v
      BY <2>6, AnyOfMember
    <3>2. w \in SUBSET v /\ w \in SUBSET T /\ w # T
      BY <2>2, <3>1
    <3>3. Sums(f, G(w), w)
      BY <1>2, <3>2
    <3>4. v \in SUBSET S /\ w \in SUBSET S /\ w \in SUBSET (v \cap w)
      BY <2>2, <3>2
    <3>5. G(v)[w] = G(w)[w]
      <4> HIDE DEF v, w
      <4> QED
        BY <2>3, <3>3, <3>4, SumsAgree DEF v
    <3>6. k[v] = f[AnyOf(v)] + G(w)[w]
      BY <2>2, <2>6
    <3>7. G(v)[v] = f[AnyOf(v)] + G(v)[w]
      BY <2>4, <2>6 DEF SumStep
    <3> QED
      BY <3>5, <3>6, <3>7
  <2> QED
    BY <2>5, <2>6
<1>4. ASSUME NEW s \in SUBSET T
      PROVE  k[s] = SumStep(f, k, s)
  <2>1. CASE s = {}
    BY <2>1 DEF SumStep
  <2>2. CASE s # {}
    <3>1. k[rest(s)] = G(rest(s))[rest(s)]
      BY <1>3, <2>2
    <3>2. k[s] = f[AnyOf(s)] + G(rest(s))[rest(s)]
      BY <2>2
    <3>3. SumStep(f, k, s) = f[AnyOf(s)] + k[rest(s)]
      BY <2>2 DEF SumStep
    <3> QED
      BY <3>1, <3>2, <3>3
  <2> QED
    BY <2>1, <2>2
<1>5. k = [s \in SUBSET T |-> k[s]]
  OBVIOUS
<1> HIDE DEF k
<1>6. Sums(f, k, T)
  BY <1>4, <1>5 DEF Sums
<1> QED
  BY <1>6

\* The empty sum is zero.
LEMMA SumOverNone ==
  ASSUME NEW f
  PROVE  SumFunctionOnSet(f, {}) = 0
<1> DEFINE g == CHOOSE g : Sums(f, g, {})
<1>1. Sums(f, g, {})
  BY SumsExists, FS_EmptySet
<1> HIDE DEF g
<1>2. g[{}] = SumStep(f, g, {})
  BY <1>1 DEF Sums
<1> QED
  BY <1>2, SumIsChosen DEF g, SumStep

\* A sum is its chosen member's term and the sum of the rest.
LEMMA SumOverSome ==
  ASSUME NEW f, NEW S, IsFiniteSet(S), S # {}
  PROVE  SumFunctionOnSet(f, S) = f[AnyOf(S)] + SumFunctionOnSet(f, S \ {AnyOf(S)})
<1> DEFINE R == S \ {AnyOf(S)}
           g == CHOOSE g : Sums(f, g, S)
           h == CHOOSE h : Sums(f, h, R)
<1>1. R \in SUBSET S /\ IsFiniteSet(R)
  BY FS_Subset
<1>2. Sums(f, g, S) /\ Sums(f, h, R)
  BY <1>1, SumsExists
<1>3. SumFunctionOnSet(f, S) = g[S] /\ SumFunctionOnSet(f, R) = h[R]
  BY SumIsChosen
<1> HIDE DEF g, h
<1>4. g[R] = h[R]
  <2>1. S \in SUBSET S /\ R \in SUBSET (S \cap R)
    OBVIOUS
  <2> HIDE DEF R
  <2> QED
    BY <1>1, <1>2, <2>1, SumsAgree
<1>5. g[S] = SumStep(f, g, S)
  BY <1>2 DEF Sums
<1> QED
  BY <1>3, <1>4, <1>5 DEF SumStep

\* Sums of naturals are natural and sums of integers are integers.
LEMMA SumOverType ==
  ASSUME NEW S, IsFiniteSet(S), NEW Typ \in {Nat, Int}, NEW f, \A x \in S : f[x] \in Typ
  PROVE  SumFunctionOnSet(f, S) \in Typ
<1> DEFINE Bad == {T \in SUBSET S : SumFunctionOnSet(f, T) \notin Typ}
<1> SUFFICES ASSUME Bad # {} PROVE FALSE
  OBVIOUS
<1>1. PICK T \in Bad : \A U \in Bad : U \subseteq T => U = T
  <2>1. Bad \in SUBSET (SUBSET S)
    OBVIOUS
  <2> HIDE DEF Bad
  <2> QED
    BY <2>1, MinimalSubset
<1>2. T # {}
  BY SumOverNone
<1>3. AnyOf(T) \in T
  BY <1>2, AnyOfMember
<1>4. SumFunctionOnSet(f, T \ {AnyOf(T)}) \in Typ
  BY <1>1, <1>3
<1>5. IsFiniteSet(T)
  BY FS_Subset
<1>6. SumFunctionOnSet(f, T) = f[AnyOf(T)] + SumFunctionOnSet(f, T \ {AnyOf(T)})
  BY <1>2, <1>5, SumOverSome
<1>7. f[AnyOf(T)] \in Typ
  BY <1>3
<1>8. SumFunctionOnSet(f, T) \in Typ
  <2> DEFINE a == f[AnyOf(T)]
             b == SumFunctionOnSet(f, T \ {AnyOf(T)})
  <2> HIDE DEF a, b
  <2>1. CASE Typ = Nat
    BY <1>4, <1>6, <1>7, <2>1 DEF a, b
  <2>2. CASE Typ = Int
    BY <1>4, <1>6, <1>7, <2>2 DEF a, b
  <2> QED
    BY <2>1, <2>2
<1> QED
  BY <1>8

\* A sum is any member's term and the sum without that member.
LEMMA SumWithout ==
  ASSUME NEW S, IsFiniteSet(S), NEW f, \A y \in S : f[y] \in Int, NEW x \in S
  PROVE  SumFunctionOnSet(f, S) = f[x] + SumFunctionOnSet(f, S \ {x})
<1> DEFINE Splits(T, y) == SumFunctionOnSet(f, T) = f[y] + SumFunctionOnSet(f, T \ {y})
           Bad == {T \in SUBSET S : \E y \in T : ~ Splits(T, y)}
<1> SUFFICES ASSUME Bad # {} PROVE FALSE
  OBVIOUS
<1>1. PICK T \in Bad : \A U \in Bad : U \subseteq T => U = T
  <2>1. Bad \in SUBSET (SUBSET S)
    OBVIOUS
  <2> HIDE DEF Bad
  <2> QED
    BY <2>1, MinimalSubset
<1>2. PICK y \in T : ~ Splits(T, y)
  OBVIOUS
<1> DEFINE a == AnyOf(T)
<1>3. a \in T
  BY AnyOfMember
<1>4. \A U \in SUBSET T : IsFiniteSet(U)
  BY FS_Subset
<1>5. Splits(T, a)
  BY <1>4, SumOverSome
<1> HIDE DEF a
<1>6. a # y
  BY <1>2, <1>5
<1>7. Splits(T \ {a}, y) /\ Splits(T \ {y}, a)
  <2>1. ASSUME NEW U \in SUBSET T, U # T, NEW z \in U
        PROVE  Splits(U, z)
    <3>1. U \notin Bad /\ U \in SUBSET S
      BY <1>1, <2>1
    <3> QED
      BY <3>1
  <2>2. T \ {a} # T /\ T \ {y} # T /\ y \in T \ {a} /\ a \in T \ {y}
    BY <1>3, <1>6
  <2> HIDE DEF Splits
  <2> QED
    BY <2>1, <2>2
<1>8. (T \ {a}) \ {y} = (T \ {y}) \ {a}
  OBVIOUS
<1> DEFINE s1 == SumFunctionOnSet(f, (T \ {a}) \ {y})
           s2 == SumFunctionOnSet(f, T \ {a})
           s3 == SumFunctionOnSet(f, T \ {y})
           s4 == SumFunctionOnSet(f, T)
<1>9. s1 \in Int
  <2> DEFINE U == (T \ {a}) \ {y}
  <2>1. IsFiniteSet(U) /\ \A z \in U : f[z] \in Int
    BY <1>4
  <2> HIDE DEF U
  <2>2. Int \in {Nat, Int}
    OBVIOUS
  <2>3. SumFunctionOnSet(f, U) \in Int
    BY <2>1, <2>2, SumOverType
  <2> QED
    BY <2>3 DEF U
<1>10. s2 = f[y] + s1 /\ s3 = f[a] + s1 /\ s4 = f[a] + s2 /\ s4 # f[y] + s3
  BY <1>2, <1>5, <1>7, <1>8
<1>11. f[a] \in Int /\ f[y] \in Int
  BY <1>3
<1> HIDE DEF s1, s2, s3, s4
<1> QED
  BY <1>9, <1>10, <1>11

\* A sum depends on the terms that are summed only.
LEMMA SumUnchanged ==
  ASSUME NEW S, IsFiniteSet(S), NEW f, NEW g, \A x \in S : f[x] = g[x]
  PROVE  SumFunctionOnSet(f, S) = SumFunctionOnSet(g, S)
<1> DEFINE Bad == {T \in SUBSET S : SumFunctionOnSet(f, T) # SumFunctionOnSet(g, T)}
<1> SUFFICES ASSUME Bad # {} PROVE FALSE
  OBVIOUS
<1>1. PICK T \in Bad : \A U \in Bad : U \subseteq T => U = T
  <2>1. Bad \in SUBSET (SUBSET S)
    OBVIOUS
  <2> HIDE DEF Bad
  <2> QED
    BY <2>1, MinimalSubset
<1>2. T # {}
  BY SumOverNone
<1>3. AnyOf(T) \in T /\ IsFiniteSet(T)
  BY <1>2, AnyOfMember, FS_Subset
<1>4. SumFunctionOnSet(f, T \ {AnyOf(T)}) = SumFunctionOnSet(g, T \ {AnyOf(T)})
  BY <1>1, <1>3
<1>5. f[AnyOf(T)] = g[AnyOf(T)]
  BY <1>3
<1>6. SumFunctionOnSet(f, T) = SumFunctionOnSet(g, T)
  BY <1>2, <1>3, <1>4, <1>5, SumOverSome
<1> QED
  BY <1>6

\* Zeros sum to zero.
LEMMA SumOfZeros ==
  ASSUME NEW S, IsFiniteSet(S), NEW f, \A x \in S : f[x] = 0
  PROVE  SumFunctionOnSet(f, S) = 0
<1> DEFINE Bad == {T \in SUBSET S : SumFunctionOnSet(f, T) # 0}
<1> SUFFICES ASSUME Bad # {} PROVE FALSE
  OBVIOUS
<1>1. PICK T \in Bad : \A U \in Bad : U \subseteq T => U = T
  <2>1. Bad \in SUBSET (SUBSET S)
    OBVIOUS
  <2> HIDE DEF Bad
  <2> QED
    BY <2>1, MinimalSubset
<1>2. T # {}
  BY SumOverNone
<1>3. AnyOf(T) \in T /\ IsFiniteSet(T)
  BY <1>2, AnyOfMember, FS_Subset
<1>4. SumFunctionOnSet(f, T \ {AnyOf(T)}) = 0 /\ f[AnyOf(T)] = 0
  BY <1>1, <1>3
<1>5. SumFunctionOnSet(f, T) = 0 + 0
  BY <1>2, <1>3, <1>4, SumOverSome
<1> QED
  BY <1>5

\* A sum of integers is an integer.
LEMMA SumOfInts ==
  ASSUME NEW S, IsFiniteSet(S), NEW f, \A x \in S : f[x] \in Int
  PROVE  SumFunctionOnSet(f, S) \in Int
  BY SumOverType

\* A sum of naturals is a natural number.
LEMMA SumOfNats ==
  ASSUME NEW S, IsFiniteSet(S), NEW f, \A x \in S : f[x] \in Nat
  PROVE  SumFunctionOnSet(f, S) \in Nat
  BY SumOverType

\* A new member adds its term.
LEMMA SumWithOneMore ==
  ASSUME NEW S, NEW x, NEW T, NEW f, NEW g, IsFiniteSet(S), x \notin S, T = S \cup {x},
         \A y \in S : f[y] \in Int, \A y \in S : g[y] = f[y], g[x] \in Int
  PROVE  SumFunctionOnSet(g, T) = SumFunctionOnSet(f, S) + g[x]
<1>1. IsFiniteSet(T) /\ x \in T /\ T \ {x} = S /\ \A y \in T : g[y] \in Int
  BY FS_AddElement
<1>2. SumFunctionOnSet(g, T) = g[x] + SumFunctionOnSet(g, S)
  BY <1>1, SumWithout
<1>3. SumFunctionOnSet(g, S) = SumFunctionOnSet(f, S)
  BY SumUnchanged
<1>4. SumFunctionOnSet(f, S) \in Int
  BY SumOfInts
<1> QED
  BY <1>2, <1>3, <1>4

\* A changed term changes the sum by as much.
LEMMA SumWithOneChanged ==
  ASSUME NEW S, NEW x, NEW f, NEW g, IsFiniteSet(S), x \in S,
         \A y \in S : f[y] \in Int, \A y \in S \ {x} : g[y] = f[y], g[x] \in Int
  PROVE  SumFunctionOnSet(g, S) = SumFunctionOnSet(f, S) + g[x] - f[x]
<1> DEFINE R == S \ {x}
<1>1. IsFiniteSet(R) /\ (\A y \in R : f[y] \in Int /\ g[y] = f[y]) /\ \A y \in S : g[y] \in Int
  BY FS_Subset
<1>2. SumFunctionOnSet(g, S) = g[x] + SumFunctionOnSet(g, R)
  BY <1>1, SumWithout
<1>3. SumFunctionOnSet(f, S) = f[x] + SumFunctionOnSet(f, R)
  BY SumWithout
<1> HIDE DEF R
<1>4. SumFunctionOnSet(g, R) = SumFunctionOnSet(f, R) /\ SumFunctionOnSet(f, R) \in Int
  BY <1>1, SumUnchanged, SumOfInts
<1>5. f[x] \in Int /\ g[x] \in Int
  OBVIOUS
<1> QED
  BY <1>2, <1>3, <1>4, <1>5

\* f is summed over S and g over T, which may hold x as well; they differ at x
\* only.
DifferAt(x, f, S, g, T) ==
  /\ IsFiniteSet(S) /\ T = S \cup {x}
  /\ \A y \in S : f[y] \in Int
  /\ g[x] \in Int
  /\ \A y \in S \ {x} : g[y] = f[y]

\* Then the sum changes by what x counts in g and counted in f.
LEMMA SumMoves ==
  ASSUME NEW x, NEW f, NEW S, NEW g, NEW T, DifferAt(x, f, S, g, T)
  PROVE  /\ x \in S => SumFunctionOnSet(g, T) = SumFunctionOnSet(f, S) + g[x] - f[x]
         /\ x \notin S => SumFunctionOnSet(g, T) = SumFunctionOnSet(f, S) + g[x]
<1>1. CASE x \in S
  <2>1. T = S
    BY <1>1 DEF DifferAt
  <2>2. SumFunctionOnSet(g, S) = SumFunctionOnSet(f, S) + g[x] - f[x]
    BY <1>1, SumWithOneChanged DEF DifferAt
  <2> QED
    BY <1>1, <2>1, <2>2
<1>2. CASE x \notin S
  <2>1. \A y \in S : g[y] = f[y]
    BY <1>2 DEF DifferAt
  <2>2. SumFunctionOnSet(g, T) = SumFunctionOnSet(f, S) + g[x]
    BY <1>2, <2>1, SumWithOneMore DEF DifferAt
  <2> QED
    BY <1>2, <2>2
<1> QED
  BY <1>1, <1>2

\* g, summed over T, is f, summed over S, moved by d at x; x counts for nothing
\* where it is not summed.
MovedBy(d, x, f, S, g, T) ==
  /\ IsFiniteSet(S) /\ T = S \cup {x}
  /\ d \in Int /\ f[x] \in Int /\ g[x] = f[x] + d
  /\ x \notin S => f[x] = 0
  /\ \A y \in S : f[y] \in Int
  /\ \A y \in S \ {x} : g[y] = f[y]

\* Then the sum has moved by d.
LEMMA SumMovedBy ==
  ASSUME NEW d, NEW x, NEW f, NEW S, NEW g, NEW T, MovedBy(d, x, f, S, g, T)
  PROVE  SumFunctionOnSet(g, T) = SumFunctionOnSet(f, S) + d
<1>1. DifferAt(x, f, S, g, T)
  BY DEF MovedBy, DifferAt
<1>2. /\ d \in Int /\ f[x] \in Int /\ g[x] = f[x] + d
      /\ x \notin S => f[x] = 0
  BY DEF MovedBy
<1>3. SumFunctionOnSet(f, S) \in Int
  BY SumOfInts DEF MovedBy
<1>4. /\ x \in S => SumFunctionOnSet(g, T) = SumFunctionOnSet(f, S) + g[x] - f[x]
      /\ x \notin S => SumFunctionOnSet(g, T) = SumFunctionOnSet(f, S) + g[x]
  BY <1>1, SumMoves
<1> DEFINE a == SumFunctionOnSet(f, S)
           b == SumFunctionOnSet(g, T)
           p == f[x]
           q == g[x]
<1>5. a \in Int /\ p \in Int /\ d \in Int /\ q = p + d
      /\ (x \in S => b = a + q - p) /\ (x \notin S => b = a + q /\ p = 0)
  BY <1>2, <1>3, <1>4
<1> HIDE DEF a, b, p, q
<1>6. b = a + d
  BY <1>5
<1> QED
  BY <1>6 DEF a, b

\* f stays within g on a set.
Bounded(f, g, S) ==
  \A x \in S : f[x] \in Int /\ g[x] \in Int /\ -g[x] <= f[x] /\ f[x] <= g[x]

\* Its sum over any part of the set stays within the sum of g over the whole.
LEMMA SumWithin ==
  ASSUME NEW S, IsFiniteSet(S), NEW T \in SUBSET S, NEW f, NEW g, Bounded(f, g, S)
  PROVE  /\ -SumFunctionOnSet(g, S) <= SumFunctionOnSet(f, T)
         /\ SumFunctionOnSet(f, T) <= SumFunctionOnSet(g, S)
<1> DEFINE Within(U) == /\ -SumFunctionOnSet(g, U) <= SumFunctionOnSet(f, T \cap U)
                        /\ SumFunctionOnSet(f, T \cap U) <= SumFunctionOnSet(g, U)
           Bad == {U \in SUBSET S : ~ Within(U)}
<1> SUFFICES ASSUME Bad # {} PROVE FALSE
  <2>1. T \cap S = T
    OBVIOUS
  <2>2. Within(S) => /\ -SumFunctionOnSet(g, S) <= SumFunctionOnSet(f, T)
                     /\ SumFunctionOnSet(f, T) <= SumFunctionOnSet(g, S)
    BY <2>1
  <2> HIDE DEF Within
  <2> QED
    BY <2>2
<1>1. PICK U \in Bad : \A V \in Bad : V \subseteq U => V = U
  <2>1. Bad \in SUBSET (SUBSET S)
    OBVIOUS
  <2> HIDE DEF Bad
  <2> QED
    BY <2>1, MinimalSubset
<1>2. U \in SUBSET S /\ ~ Within(U) /\ IsFiniteSet(U)
  BY FS_Subset
<1>3. U # {}
  <2>1. SUFFICES ASSUME U = {} PROVE Within(U)
    BY <1>2
  <2>2. T \cap U = {}
    BY <2>1
  <2> QED
    BY <2>1, <2>2, SumOverNone
<1>4. PICK x \in U : TRUE
  BY <1>3
<1> DEFINE V == U \ {x}
<1>5. V \in SUBSET S /\ IsFiniteSet(V) /\ Within(V)
  <2>1. V \in SUBSET S /\ V \subseteq U /\ V # U
    BY <1>2, <1>4
  <2>2. V \notin Bad
    BY <1>1, <2>1
  <2> QED
    BY <1>2, <2>1, <2>2, FS_Subset
<1>6. /\ SumFunctionOnSet(g, U) = g[x] + SumFunctionOnSet(g, V)
      /\ SumFunctionOnSet(g, V) \in Int
  BY <1>2, <1>4, <1>5, SumWithout, SumOfInts DEF Bounded
<1>7. /\ IsFiniteSet(T \cap U) /\ IsFiniteSet(T \cap V)
      /\ \A y \in T \cap U : f[y] \in Int
      /\ SumFunctionOnSet(f, T \cap V) \in Int
  <2>1. IsFiniteSet(T \cap U) /\ IsFiniteSet(T \cap V)
    BY <1>2, <1>5, FS_Subset
  <2>2. \A y \in T \cap U : f[y] \in Int
    BY <1>2 DEF Bounded
  <2>3. \A y \in T \cap V : f[y] \in Int
    BY <2>2
  <2> QED
    BY <2>1, <2>2, <2>3, SumOfInts
<1>8. SumFunctionOnSet(f, T \cap U) =
        (IF x \in T THEN f[x] ELSE 0) + SumFunctionOnSet(f, T \cap V)
  <2>1. CASE x \in T
    <3>1. x \in T \cap U /\ (T \cap U) \ {x} = T \cap V
      BY <1>4, <2>1
    <3>2. SumFunctionOnSet(f, T \cap U) = f[x] + SumFunctionOnSet(f, (T \cap U) \ {x})
      BY <1>7, <3>1, SumWithout
    <3> QED
      BY <2>1, <3>1, <3>2
  <2>2. CASE x \notin T
    <3>1. T \cap U = T \cap V
      BY <2>2
    <3> QED
      BY <1>7, <2>2, <3>1
  <2> QED
    BY <2>1, <2>2
<1> DEFINE a == SumFunctionOnSet(f, T \cap U)
           a1 == SumFunctionOnSet(f, T \cap V)
           b == SumFunctionOnSet(g, U)
           b1 == SumFunctionOnSet(g, V)
           p == IF x \in T THEN f[x] ELSE 0
           q == g[x]
<1>9. /\ a1 \in Int /\ b1 \in Int /\ p \in Int /\ q \in Int
      /\ -q <= p /\ p <= q /\ -b1 <= a1 /\ a1 <= b1
      /\ a = p + a1 /\ b = q + b1 /\ ~(-b <= a /\ a <= b)
  <2>1. f[x] \in Int /\ q \in Int /\ -q <= f[x] /\ f[x] <= q
    BY <1>2, <1>4 DEF Bounded
  <2>2. p \in Int /\ -q <= p /\ p <= q
    BY <2>1
  <2> HIDE DEF p, q
  <2> QED
    BY <1>2, <1>5, <1>6, <1>7, <1>8, <2>1, <2>2 DEF p, q
<1> HIDE DEF a, a1, b, b1, p, q
<1> QED
  BY <1>9
=============================================================================
