------------------------------ MODULE SumFacts ------------------------------
(***************************************************************************)
(* Facts about SumFunctionOnSet of the community modules: what it returns  *)
(* on the empty set, how one element is split off, and what changing the   *)
(* function at one point does to the sum.  The escrow's solvency is a sum  *)
(* over every audit, claim, request and refund, so each proof about it     *)
(* comes down to these facts.  Induction over finite sets is stated with a *)
(* set of good subsets (SubsetInduction) rather than with a predicate.     *)
(* The last lemma is of another kind: a set of naturals has a least one.   *)
(***************************************************************************)
EXTENDS Functions, FiniteSets, TLAPS, FiniteSetTheorems, WellFoundedInduction

\* A collection of subsets of a finite set that holds a set whenever it holds
\* all its strict subsets holds every subset.
LEMMA SubsetInduction ==
  ASSUME NEW S, IsFiniteSet(S), NEW G,
         \A T \in SUBSET S : (\A U \in SUBSET T : U # T => U \in G) => T \in G
  PROVE  SUBSET S \subseteq G
<1> DEFINE B == {T \in SUBSET S : T \notin G}
           R == StrictSubsetOrdering(S)
<1>1. SUFFICES ASSUME B # {} PROVE FALSE
  OBVIOUS
<1>2. B \subseteq FiniteSubsetsOf(S)
  BY FS_Subset DEF FiniteSubsetsOf
<1>3. IsWellFoundedOn(R, FiniteSubsetsOf(S))
  BY FS_StrictSubsetOrderingWellFounded
<1>4. PICK T \in B : \A y \in B : ~(<<y, T>> \in R)
  <2> HIDE DEF B, R
  <2> QED BY <1>1, <1>2, <1>3, WFMin
<1>5. \A U \in SUBSET T : U # T => U \in G
  BY <1>4 DEF StrictSubsetOrdering
<1> QED BY <1>4, <1>5

(***************************************************************************)
(* The function MapThenFoldSet defines by recursion over the subsets of S, *)
(* when it sums f: the element it takes from a set, the equation it        *)
(* satisfies, and a solution of that equation.                             *)
(***************************************************************************)
Picked(s) == CHOOSE x \in s : TRUE

IsSummer(g, f, S) ==
  g = [s \in SUBSET S |-> IF s = {} THEN 0
                                    ELSE f[Picked(s)] + g[s \ {Picked(s)}]]

Summer(f, S) == CHOOSE g : IsSummer(g, f, S)

LEMMA SumIsSummer ==
  ASSUME NEW f, NEW S
  PROVE  SumFunctionOnSet(f, S) = Summer(f, S)[S]
BY DEF SumFunctionOnSet, FoldFunctionOnSet, MapThenFoldSet, Summer, IsSummer, Picked

LEMMA PickedInSet ==
  ASSUME NEW s, s # {}
  PROVE  Picked(s) \in s
BY DEF Picked

\* Two solutions agree on every set both are defined on.
LEMMA SummersAgree ==
  ASSUME NEW f, NEW S, NEW T, NEW g, NEW h, NEW A, IsFiniteSet(A),
         A \subseteq S, A \subseteq T, IsSummer(g, f, S), IsSummer(h, f, T)
  PROVE  \A B \in SUBSET A : g[B] = h[B]
<1> DEFINE G == {B \in SUBSET A : g[B] = h[B]}
<1>1. ASSUME NEW B \in SUBSET A, \A U \in SUBSET B : U # B => U \in G
      PROVE  B \in G
  <2>1. CASE B = {}
    BY <2>1 DEF IsSummer
  <2>2. CASE B # {}
    <3> DEFINE U == B \ {Picked(B)}
    <3>1. U \in SUBSET B /\ U # B
      BY <2>2, PickedInSet
    <3>2. g[U] = h[U]
      BY <1>1, <3>1
    <3>3. g[B] = f[Picked(B)] + g[U] /\ h[B] = f[Picked(B)] + h[U]
      BY <2>2 DEF IsSummer
    <3> QED BY <3>2, <3>3
  <2> QED BY <2>1, <2>2
<1>2. SUBSET A \subseteq G
  <2> HIDE DEF G
  <2> QED BY <1>1, SubsetInduction
<1> QED BY <1>2

LEMMA SummerExists ==
  ASSUME NEW f, NEW S, IsFiniteSet(S)
  PROVE  IsSummer(Summer(f, S), f, S)
<1> DEFINE G == {T \in SUBSET S : \E g : IsSummer(g, f, T)}
<1>1. ASSUME NEW T \in SUBSET S, \A U \in SUBSET T : U # T => U \in G
      PROVE  T \in G
  <2> DEFINE Rest(s) == s \ {Picked(s)}
             h == [s \in SUBSET T |->
                     IF s = {} THEN 0
                     ELSE f[Picked(s)] + Summer(f, Rest(s))[Rest(s)]]
  <2>1. \A U \in SUBSET T : U # T => IsSummer(Summer(f, U), f, U)
    BY <1>1 DEF Summer
  <2>2. ASSUME NEW s \in SUBSET T, s # {}
        PROVE  h[Rest(s)] = Summer(f, Rest(s))[Rest(s)]
    <3> DEFINE U == Rest(s)
    <3>1. U \in SUBSET T /\ U # T
      BY <2>2, PickedInSet
    <3>2. IsSummer(Summer(f, U), f, U)
      BY <2>1, <3>1
    <3>3. CASE U = {}
      BY <3>2, <3>3, <3>1 DEF IsSummer
    <3>4. CASE U # {}
      <4> DEFINE V == Rest(U)
      <4>1. V \in SUBSET U /\ V # U /\ V \in SUBSET T /\ V # T
        BY <3>4, <3>1, PickedInSet
      <4>2. IsSummer(Summer(f, V), f, V)
        BY <2>1, <4>1
      <4>3. IsFiniteSet(V)
        BY <4>1, FS_Subset
      <4>4. Summer(f, V)[V] = Summer(f, U)[V]
        BY <3>2, <4>1, <4>2, <4>3, SummersAgree
      <4>5. Summer(f, U)[U] = f[Picked(U)] + Summer(f, U)[V]
        BY <3>2, <3>4 DEF IsSummer
      <4>6. h[U] = f[Picked(U)] + Summer(f, V)[V]
        BY <3>1, <3>4
      <4> QED BY <4>4, <4>5, <4>6
    <3> QED BY <3>3, <3>4
  <2>3. IsSummer(h, f, T)
    BY <2>2 DEF IsSummer
  <2> QED BY <2>3
<1>2. SUBSET S \subseteq G
  <2> HIDE DEF G
  <2> QED BY <1>1, SubsetInduction
<1> QED BY <1>2 DEF Summer

-----------------------------------------------------------------------------

LEMMA SumEmpty ==
  ASSUME NEW f
  PROVE  SumFunctionOnSet(f, {}) = 0
<1>1. IsSummer(Summer(f, {}), f, {})
  BY SummerExists, FS_EmptySet
<1> QED BY <1>1, SumIsSummer DEF IsSummer

\* The sum over a set is the picked element plus the sum over the rest.
LEMMA SumPicked ==
  ASSUME NEW f, NEW S, IsFiniteSet(S), S # {}
  PROVE  SumFunctionOnSet(f, S)
           = f[Picked(S)] + SumFunctionOnSet(f, S \ {Picked(S)})
<1> DEFINE U == S \ {Picked(S)}
<1>1. IsFiniteSet(U) /\ U \subseteq S
  BY FS_Subset
<1>2. IsSummer(Summer(f, S), f, S) /\ IsSummer(Summer(f, U), f, U)
  BY <1>1, SummerExists
<1>3. Summer(f, S)[U] = Summer(f, U)[U]
  BY <1>1, <1>2, SummersAgree
<1>4. Summer(f, S)[S] = f[Picked(S)] + Summer(f, S)[U]
  BY <1>2 DEF IsSummer
<1> QED BY <1>3, <1>4, SumIsSummer

\* A sum of integers is an integer, and of naturals a natural.
LEMMA SumInt ==
  ASSUME NEW f, NEW S, IsFiniteSet(S), \A x \in S : f[x] \in Int
  PROVE  SumFunctionOnSet(f, S) \in Int
<1> DEFINE G == {T \in SUBSET S : SumFunctionOnSet(f, T) \in Int}
<1>1. ASSUME NEW T \in SUBSET S, \A U \in SUBSET T : U # T => U \in G
      PROVE  T \in G
  <2>1. CASE T = {}
    BY <2>1, SumEmpty
  <2>2. CASE T # {}
    <3>1. IsFiniteSet(T)
      BY FS_Subset
    <3>2. SumFunctionOnSet(f, T \ {Picked(T)}) \in Int /\ f[Picked(T)] \in Int
      BY <1>1, <2>2, PickedInSet
    <3> QED BY <2>2, <3>1, <3>2, SumPicked
  <2> QED BY <2>1, <2>2
<1>2. SUBSET S \subseteq G
  <2> HIDE DEF G
  <2> QED BY <1>1, SubsetInduction
<1> QED BY <1>2

LEMMA SumNat ==
  ASSUME NEW f, NEW S, IsFiniteSet(S), \A x \in S : f[x] \in Nat
  PROVE  SumFunctionOnSet(f, S) \in Nat
<1> DEFINE G == {T \in SUBSET S : SumFunctionOnSet(f, T) \in Nat}
<1>1. ASSUME NEW T \in SUBSET S, \A U \in SUBSET T : U # T => U \in G
      PROVE  T \in G
  <2>1. CASE T = {}
    BY <2>1, SumEmpty
  <2>2. CASE T # {}
    <3>1. IsFiniteSet(T)
      BY FS_Subset
    <3>2. SumFunctionOnSet(f, T \ {Picked(T)}) \in Nat /\ f[Picked(T)] \in Nat
      BY <1>1, <2>2, PickedInSet
    <3> QED BY <2>2, <3>1, <3>2, SumPicked
  <2> QED BY <2>1, <2>2
<1>2. SUBSET S \subseteq G
  <2> HIDE DEF G
  <2> QED BY <1>1, SubsetInduction
<1> QED BY <1>2

\* Any element may be split off, not only the one the fold picks first.
LEMMA SumSplit ==
  ASSUME NEW f, NEW S, IsFiniteSet(S), \A x \in S : f[x] \in Int, NEW a \in S
  PROVE  SumFunctionOnSet(f, S) = f[a] + SumFunctionOnSet(f, S \ {a})
<1> DEFINE G == {T \in SUBSET S : \A b \in T :
                   SumFunctionOnSet(f, T) = f[b] + SumFunctionOnSet(f, T \ {b})}
<1>1. ASSUME NEW T \in SUBSET S, \A U \in SUBSET T : U # T => U \in G
      PROVE  T \in G
  <2> SUFFICES ASSUME NEW b \in T
               PROVE  SumFunctionOnSet(f, T) = f[b] + SumFunctionOnSet(f, T \ {b})
    OBVIOUS
  <2> DEFINE c == Picked(T)
             U == T \ {c}
             V == T \ {b}
             W == U \ {b}
  <2>1. c \in T
    BY PickedInSet
  <2>2. IsFiniteSet(T) /\ IsFiniteSet(V) /\ IsFiniteSet(W)
    BY FS_Subset
  <2>3. SumFunctionOnSet(f, T) = f[c] + SumFunctionOnSet(f, U)
    BY <2>2, SumPicked
  <2>4. CASE b = c
    BY <2>3, <2>4
  <2>5. CASE b # c
    <3>1. U \in G /\ V \in G /\ b \in U /\ c \in V
      BY <1>1, <2>1, <2>5
    <3>2. SumFunctionOnSet(f, U) = f[b] + SumFunctionOnSet(f, W)
      BY <3>1
    <3>3. V \ {c} = W
      OBVIOUS
    <3>4. SumFunctionOnSet(f, V) = f[c] + SumFunctionOnSet(f, W)
      BY <3>1, <3>3
    <3>5. SumFunctionOnSet(f, W) \in Int
      BY <2>2, SumInt
    <3>6. f[b] \in Int /\ f[c] \in Int
      BY <2>1
    <3>7. SumFunctionOnSet(f, T) = f[b] + SumFunctionOnSet(f, V)
      <4> HIDE DEF U, V, W, c
      <4> QED BY <2>3, <3>2, <3>4, <3>5, <3>6
    <3> QED BY <3>7
  <2> QED BY <2>4, <2>5
<1>2. SUBSET S \subseteq G
  <2> HIDE DEF G
  <2> QED BY <1>1, SubsetInduction
<1> QED BY <1>2

\* The sum depends on the function's values on the set only.
LEMMA SumSame ==
  ASSUME NEW f, NEW g, NEW S, IsFiniteSet(S), \A x \in S : f[x] = g[x]
  PROVE  SumFunctionOnSet(f, S) = SumFunctionOnSet(g, S)
<1> DEFINE G == {T \in SUBSET S :
                   SumFunctionOnSet(f, T) = SumFunctionOnSet(g, T)}
<1>1. ASSUME NEW T \in SUBSET S, \A U \in SUBSET T : U # T => U \in G
      PROVE  T \in G
  <2>1. CASE T = {}
    BY <2>1, SumEmpty
  <2>2. CASE T # {}
    <3>1. IsFiniteSet(T) /\ Picked(T) \in T
      BY <2>2, FS_Subset, PickedInSet
    <3>2. T \ {Picked(T)} \in G
      BY <1>1, <3>1
    <3> QED BY <2>2, <3>1, <3>2, SumPicked
  <2> QED BY <2>1, <2>2
<1>2. SUBSET S \subseteq G
  <2> HIDE DEF G
  <2> QED BY <1>1, SubsetInduction
<1> QED BY <1>2

\* Changing the function at one point changes the sum by the difference there.
LEMMA SumChange ==
  ASSUME NEW f, NEW g, NEW S, IsFiniteSet(S), NEW a \in S,
         \A x \in S : f[x] \in Int /\ g[x] \in Int,
         \A x \in S \ {a} : f[x] = g[x]
  PROVE  SumFunctionOnSet(g, S) = SumFunctionOnSet(f, S) - f[a] + g[a]
<1>1. IsFiniteSet(S \ {a})
  BY FS_RemoveElement
<1>2. SumFunctionOnSet(f, S \ {a}) = SumFunctionOnSet(g, S \ {a})
  BY <1>1, SumSame
<1>3. SumFunctionOnSet(f, S) = f[a] + SumFunctionOnSet(f, S \ {a})
  BY SumSplit
<1>4. SumFunctionOnSet(g, S) = g[a] + SumFunctionOnSet(g, S \ {a})
  BY SumSplit
<1>5. SumFunctionOnSet(f, S \ {a}) \in Int /\ SumFunctionOnSet(g, S \ {a}) \in Int
  BY <1>1, SumInt
<1> QED BY <1>2, <1>3, <1>4, <1>5

\* A sum of naturals is zero exactly when every term is, and is at least each
\* of its terms.
LEMMA SumBoundsTerm ==
  ASSUME NEW f, NEW S, IsFiniteSet(S), \A x \in S : f[x] \in Nat, NEW a \in S
  PROVE  f[a] <= SumFunctionOnSet(f, S)
<1>1. SumFunctionOnSet(f, S) = f[a] + SumFunctionOnSet(f, S \ {a})
  BY SumSplit
<1>2. SumFunctionOnSet(f, S \ {a}) \in Nat
  BY FS_RemoveElement, SumNat
<1> QED BY <1>1, <1>2

\* A sum of zeros is zero.
LEMMA SumZero ==
  ASSUME NEW f, NEW S, IsFiniteSet(S), \A x \in S : f[x] = 0
  PROVE  SumFunctionOnSet(f, S) = 0
<1> DEFINE G == {T \in SUBSET S : SumFunctionOnSet(f, T) = 0}
<1>1. ASSUME NEW T \in SUBSET S, \A U \in SUBSET T : U # T => U \in G
      PROVE  T \in G
  <2>1. CASE T = {}
    BY <2>1, SumEmpty
  <2>2. CASE T # {}
    <3>1. Picked(T) \in T /\ IsFiniteSet(T)
      BY <2>2, PickedInSet, FS_Subset
    <3>2. T \ {Picked(T)} \in G
      BY <1>1, <3>1
    <3>3. SumFunctionOnSet(f, T) = f[Picked(T)] + SumFunctionOnSet(f, T \ {Picked(T)})
      BY <2>2, <3>1, SumPicked
    <3> QED BY <3>1, <3>2, <3>3
  <2> QED BY <2>1, <2>2
<1> HIDE DEF G
<1>2. SUBSET S \subseteq G
  BY <1>1, SubsetInduction
<1> QED BY <1>2 DEF G

\* The sum over two sets that share nothing is the sum of their sums.
LEMMA SumUnion ==
  ASSUME NEW f, NEW S, NEW T, IsFiniteSet(S), IsFiniteSet(T), S \cap T = {},
         \A x \in S \cup T : f[x] \in Int
  PROVE  SumFunctionOnSet(f, S \cup T)
           = SumFunctionOnSet(f, S) + SumFunctionOnSet(f, T)
<1> DEFINE G == {U \in SUBSET T : SumFunctionOnSet(f, S \cup U)
                    = SumFunctionOnSet(f, S) + SumFunctionOnSet(f, U)}
<1>s. SumFunctionOnSet(f, S) \in Int
  BY SumInt
<1>1. ASSUME NEW U \in SUBSET T, \A V \in SUBSET U : V # U => V \in G
      PROVE  U \in G
  <2>1. CASE U = {}
    <3>1. S \cup U = S
      BY <2>1
    <3> QED BY <1>s, <2>1, <3>1, SumEmpty
  <2>2. CASE U # {}
    <3> DEFINE a == Picked(U)
               V == U \ {a}
    <3>1. a \in U /\ IsFiniteSet(U) /\ IsFiniteSet(V) /\ V \subseteq U /\ V # U
      BY <2>2, PickedInSet, FS_Subset
    <3>2. IsFiniteSet(S \cup U) /\ a \in S \cup U /\ (S \cup U) \ {a} = S \cup V
          /\ \A x \in S \cup U : f[x] \in Int
      BY <3>1, FS_Union
    <3>3. SumFunctionOnSet(f, S \cup U) = f[a] + SumFunctionOnSet(f, S \cup V)
      <4> HIDE DEF a, V
      <4> QED BY <3>2, SumSplit
    <3>4. SumFunctionOnSet(f, U) = f[a] + SumFunctionOnSet(f, V)
      BY <2>2, <3>1, SumPicked
    <3>5. SumFunctionOnSet(f, S \cup V)
            = SumFunctionOnSet(f, S) + SumFunctionOnSet(f, V)
      BY <1>1, <3>1
    <3>6. SumFunctionOnSet(f, V) \in Int /\ f[a] \in Int
      BY <3>1, SumInt
    <3> HIDE DEF a, V
    <3> QED BY <1>s, <3>3, <3>4, <3>5, <3>6
  <2> QED BY <2>1, <2>2
<1> HIDE DEF G
<1>2. SUBSET T \subseteq G
  BY <1>1, SubsetInduction
<1> QED BY <1>2 DEF G

\* A bound between multiples of two functions at every point is one between
\* the multiples of their sums.
LEMMA SumScaled ==
  ASSUME NEW f, NEW g, NEW S, IsFiniteSet(S), NEW m \in Int, NEW n \in Int,
         \A x \in S : /\ f[x] \in Int /\ g[x] \in Int
                      /\ m * f[x] <= n * g[x]
  PROVE  m * SumFunctionOnSet(f, S) <= n * SumFunctionOnSet(g, S)
<1> DEFINE G == {T \in SUBSET S :
                   m * SumFunctionOnSet(f, T) <= n * SumFunctionOnSet(g, T)}
<1>d. \A x, y \in Int : m * (x + y) = m * x + m * y /\ n * (x + y) = n * x + n * y
                        /\ m * x \in Int /\ n * x \in Int
  OBVIOUS
<1>1. ASSUME NEW T \in SUBSET S, \A U \in SUBSET T : U # T => U \in G
      PROVE  T \in G
  <2>1. CASE T = {}
    <3>1. SumFunctionOnSet(f, T) = 0 /\ SumFunctionOnSet(g, T) = 0
      BY <2>1, SumEmpty
    <3>2. m * 0 <= n * 0
      OBVIOUS
    <3> QED BY <3>1, <3>2
  <2>2. CASE T # {}
    <3> DEFINE a == Picked(T)
               U == T \ {a}
    <3>1. a \in T /\ a \in S /\ IsFiniteSet(T) /\ IsFiniteSet(U)
          /\ U \in SUBSET T /\ U # T
      BY <2>2, PickedInSet, FS_Subset
    <3>2. SumFunctionOnSet(f, T) = f[a] + SumFunctionOnSet(f, U)
          /\ SumFunctionOnSet(g, T) = g[a] + SumFunctionOnSet(g, U)
      BY <2>2, <3>1, SumPicked
    <3>3. m * SumFunctionOnSet(f, U) <= n * SumFunctionOnSet(g, U)
      BY <1>1, <3>1
    <3>4. SumFunctionOnSet(f, U) \in Int /\ SumFunctionOnSet(g, U) \in Int
      BY <3>1, SumInt
    <3>5. f[a] \in Int /\ g[a] \in Int /\ m * f[a] <= n * g[a]
      BY <3>1
    <3> HIDE DEF a, U
    <3>6. m * SumFunctionOnSet(f, T) = m * f[a] + m * SumFunctionOnSet(f, U)
          /\ n * SumFunctionOnSet(g, T) = n * g[a] + n * SumFunctionOnSet(g, U)
      BY <1>d, <3>2, <3>4, <3>5
    <3>7. /\ m * f[a] \in Int /\ n * g[a] \in Int
          /\ m * SumFunctionOnSet(f, U) \in Int
          /\ n * SumFunctionOnSet(g, U) \in Int
      BY <1>d, <3>4, <3>5
    <3>8. \A v, w, x, y \in Int : v <= w /\ x <= y => v + x <= w + y
      OBVIOUS
    <3>9. m * SumFunctionOnSet(f, T) <= n * SumFunctionOnSet(g, T)
      BY <3>3, <3>5, <3>6, <3>7, <3>8
    <3> QED BY <3>9
  <2> QED BY <2>1, <2>2
<1> HIDE DEF G
<1>2. SUBSET S \subseteq G
  BY <1>1, SubsetInduction
<1> QED BY <1>2 DEF G

\* A part of a sum of natural numbers is at most the whole.
LEMMA SumOfPart ==
  ASSUME NEW f, NEW T, IsFiniteSet(T), NEW S \in SUBSET T,
         \A x \in T : f[x] \in Nat
  PROVE  SumFunctionOnSet(f, S) <= SumFunctionOnSet(f, T)
<1>1. IsFiniteSet(S) /\ IsFiniteSet(T \ S)
  BY FS_Subset
<1>2. S \cup (T \ S) = T /\ S \cap (T \ S) = {}
  OBVIOUS
<1>3. SumFunctionOnSet(f, T) = SumFunctionOnSet(f, S) + SumFunctionOnSet(f, T \ S)
  BY <1>1, <1>2, SumUnion
<1>4. SumFunctionOnSet(f, S) \in Nat /\ SumFunctionOnSet(f, T \ S) \in Nat
  BY <1>1, SumNat
<1> QED BY <1>3, <1>4

\* A sum lies between multiples of the number of its terms.
LEMMA SumBetween ==
  ASSUME NEW f, NEW S, IsFiniteSet(S), NEW low \in Int, NEW high \in Int,
         \A x \in S : f[x] \in Int /\ low <= f[x] /\ f[x] <= high
  PROVE  /\ low * Cardinality(S) <= SumFunctionOnSet(f, S)
         /\ SumFunctionOnSet(f, S) <= high * Cardinality(S)
<1> DEFINE G == {T \in SUBSET S :
                   /\ low * Cardinality(T) <= SumFunctionOnSet(f, T)
                   /\ SumFunctionOnSet(f, T) <= high * Cardinality(T)}
<1>1. ASSUME NEW T \in SUBSET S, \A U \in SUBSET T : U # T => U \in G
      PROVE  T \in G
  <2>1. CASE T = {}
    BY <2>1, SumEmpty, FS_EmptySet
  <2>2. CASE T # {}
    <3> DEFINE a == Picked(T)
               U == T \ {a}
    <3>1. a \in T /\ a \in S /\ IsFiniteSet(T) /\ IsFiniteSet(U)
          /\ U \in SUBSET T /\ U # T
      BY <2>2, PickedInSet, FS_Subset
    <3>2. SumFunctionOnSet(f, T) = f[a] + SumFunctionOnSet(f, U)
      BY <2>2, <3>1, SumPicked
    <3>3. Cardinality(T) = Cardinality(U) + 1 /\ Cardinality(U) \in Nat
      BY <3>1, FS_RemoveElement, FS_CardinalityType
    <3>4. /\ low * Cardinality(U) <= SumFunctionOnSet(f, U)
          /\ SumFunctionOnSet(f, U) <= high * Cardinality(U)
      BY <1>1, <3>1
    <3>5. SumFunctionOnSet(f, U) \in Int
      BY <3>1, SumInt
    <3>6. f[a] \in Int /\ low <= f[a] /\ f[a] <= high
      BY <3>1
    <3> HIDE DEF a, U
    <3>7. \A n \in Nat : /\ low * (n + 1) = low * n + low
                         /\ high * (n + 1) = high * n + high
                         /\ low * n \in Int /\ high * n \in Int
      OBVIOUS
    <3>8. \A v, w, x, y \in Int : v <= w /\ x <= y => v + x <= w + y
      OBVIOUS
    <3>9. PICK n \in Nat : n = Cardinality(U)
      BY <3>3
    <3>10. /\ low * Cardinality(T) = low * n + low
           /\ high * Cardinality(T) = high * n + high
           /\ low * n \in Int /\ high * n \in Int
      BY <3>3, <3>7, <3>9
    <3>11. /\ low * Cardinality(T) <= SumFunctionOnSet(f, T)
           /\ SumFunctionOnSet(f, T) <= high * Cardinality(T)
      BY <3>2, <3>4, <3>5, <3>6, <3>8, <3>9, <3>10
    <3> QED BY <3>11
  <2> QED BY <2>1, <2>2
<1> HIDE DEF G
<1>2. SUBSET S \subseteq G
  BY <1>1, SubsetInduction
<1> QED BY <1>2 DEF G

-----------------------------------------------------------------------------
\* A set of naturals has a least element.
LEMMA SomeFirst ==
  ASSUME NEW S \in SUBSET Nat, S # {}
  PROVE  \E i \in S : \A j \in S : i <= j
<1>1. PICK i \in S : \A j \in S : <<j, i>> \notin OpToRel(<, Nat)
  BY NatLessThanWellFounded, WFMin
<1>2. ASSUME NEW j \in S, j < i
      PROVE  FALSE
  <2>1. <<j, i>> \in Nat \X Nat /\ <<j, i>>[1] < <<j, i>>[2]
    BY <1>2
  <2>2. <<j, i>> \in OpToRel(<, Nat)
    BY <2>1 DEF OpToRel
  <2> QED BY <1>1, <2>2
<1>3. \A j \in S : j \in Nat /\ i \in Nat /\ ~(j < i)
  BY <1>2
<1> QED BY <1>3
=============================================================================
