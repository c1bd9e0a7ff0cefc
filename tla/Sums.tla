--------------------------------- MODULE Sums --------------------------------
(***************************************************************************)
(* Facts about the sum of a function over a finite set, for the proofs     *)
(* about ledgers.  The provers cannot instantiate an induction theorem,    *)
(* which has an operator as parameter; they can cite WFMin, which speaks   *)
(* of sets: a non-empty collection of finite sets has a minimal one.       *)
(***************************************************************************)
EXTENDS Functions, FiniteSetTheorems, WellFoundedInduction, TLAPS

\* Among the subsets of a finite set that violate a fact there is one of which
\* every proper subset satisfies it.
LEMMA LeastSubset ==
  ASSUME NEW S, IsFiniteSet(S), NEW Bad \in SUBSET SUBSET S, Bad # {}
  PROVE  \E T \in Bad : \A U \in SUBSET T : U # T => U \notin Bad
<1> DEFINE R == StrictSubsetOrdering(S)
           F == FiniteSubsetsOf(S)
<1>1. Bad \subseteq F
  BY FS_Subset DEF FiniteSubsetsOf
<1>2. IsWellFoundedOn(R, F)
  BY FS_StrictSubsetOrderingWellFounded
<1>3. PICK T \in Bad : \A U \in Bad : ~ (<<U, T>> \in R)
  <2> HIDE DEF R, F
  <2> QED BY <1>1, <1>2, WFMin
<1>4. ASSUME NEW U \in SUBSET T, U # T, U \in Bad PROVE FALSE
  <2>1. <<U, T>> \in R
    BY <1>4 DEF StrictSubsetOrdering
  <2> QED BY <1>3, <1>4, <2>1
<1> QED BY <1>3, <1>4

(***************************************************************************)
(* The recursion that SumFunctionOnSet stands for has one solution.        *)
(***************************************************************************)
FirstOf(s) == CHOOSE x \in s : TRUE
Adds(g, f, S) ==
  g = [s \in SUBSET S |-> IF s = {} THEN 0 ELSE f[FirstOf(s)] + g[s \ {FirstOf(s)}]]
Partial(f, S) == CHOOSE g : Adds(g, f, S)

LEMMA FirstOfIn ==
  ASSUME NEW s, s # {}
  PROVE  FirstOf(s) \in s
BY DEF FirstOf

LEMMA AddsOn ==
  ASSUME NEW g, NEW f, NEW S, Adds(g, f, S), NEW s \in SUBSET S
  PROVE  /\ s = {} => g[s] = 0
         /\ s # {} => g[s] = f[FirstOf(s)] + g[s \ {FirstOf(s)}]
BY DEF Adds

\* Two solutions agree where both are defined.
LEMMA AddsAgree ==
  ASSUME NEW f, NEW S, NEW T, IsFiniteSet(S), NEW g, NEW h,
         Adds(g, f, S), Adds(h, f, T)
  PROVE  \A s \in SUBSET S : s \in SUBSET T => g[s] = h[s]
<1> DEFINE Bad == {s \in SUBSET S : s \in SUBSET T /\ g[s] # h[s]}
<1>1. SUFFICES ASSUME Bad # {} PROVE FALSE
  OBVIOUS
<1>2. PICK s \in Bad : \A u \in SUBSET s : u # s => u \notin Bad
  <2>1. Bad \in SUBSET SUBSET S
    OBVIOUS
  <2> HIDE DEF Bad
  <2> QED BY <1>1, <2>1, LeastSubset
<1>0. s \in SUBSET S /\ s \in SUBSET T /\ g[s] # h[s]
  BY <1>2
<1> HIDE DEF Bad
<1>3. s # {}
  BY <1>0, AddsOn
<1>4. FirstOf(s) \in s
  BY <1>3, FirstOfIn
<1>5. g[s \ {FirstOf(s)}] = h[s \ {FirstOf(s)}]
  BY <1>0, <1>2, <1>4 DEF Bad
<1>6. g[s] = f[FirstOf(s)] + g[s \ {FirstOf(s)}]
  BY <1>0, <1>3, AddsOn
<1>7. h[s] = f[FirstOf(s)] + h[s \ {FirstOf(s)}]
  BY <1>0, <1>3, AddsOn
<1> QED BY <1>0, <1>5, <1>6, <1>7

\* There is a solution on every finite set.
LEMMA AddsSomewhere ==
  ASSUME NEW f, NEW S, IsFiniteSet(S)
  PROVE  \E g : Adds(g, f, S)
<1> DEFINE Bad == {s \in SUBSET S : ~ \E g : Adds(g, f, s)}
<1>1. SUFFICES ASSUME Bad # {} PROVE FALSE
  OBVIOUS
<1>2. PICK s \in Bad : \A u \in SUBSET s : u # s => u \notin Bad
  <2>1. Bad \in SUBSET SUBSET S
    OBVIOUS
  <2> HIDE DEF Bad
  <2> QED BY <1>1, <2>1, LeastSubset
<1>3. s \in SUBSET S /\ ~ \E g : Adds(g, f, s)
  BY <1>2
<1>4. ASSUME NEW u \in SUBSET s, u # s
      PROVE  Adds(Partial(f, u), f, u) /\ IsFiniteSet(u)
  <2>1. \E g : Adds(g, f, u)
    BY <1>2, <1>3, <1>4
  <2>2. Adds(Partial(f, u), f, u)
    BY <2>1 DEF Partial
  <2> QED BY <1>3, <1>4, <2>2, FS_Subset
<1> DEFINE value(u) == IF u = {} THEN 0
                       ELSE f[FirstOf(u)] + Partial(f, u \ {FirstOf(u)})[u \ {FirstOf(u)}]
           g == [u \in SUBSET s |-> value(u)]
<1>5. ASSUME NEW u \in SUBSET s, u # s
      PROVE  Partial(f, u)[u] = value(u)
  <2>1. CASE u = {}
    BY <1>4, <1>5, <2>1, AddsOn
  <2>2. CASE u # {}
    <3> DEFINE v == u \ {FirstOf(u)}
    <3>1. FirstOf(u) \in u
      BY <2>2, FirstOfIn
    <3>2. v \in SUBSET s /\ v # s /\ v \in SUBSET u
      BY <1>5, <3>1
    <3>3. Adds(Partial(f, u), f, u) /\ Adds(Partial(f, v), f, v) /\ IsFiniteSet(u)
      BY <1>4, <1>5, <3>2
    <3>4. Partial(f, u)[v] = Partial(f, v)[v]
      <4> HIDE DEF v
      <4> QED BY <3>2, <3>3, AddsAgree
    <3>5. Partial(f, u)[u] = f[FirstOf(u)] + Partial(f, u)[v]
      BY <2>2, <3>3, AddsOn
    <3> QED BY <2>2, <3>4, <3>5
  <2> QED BY <2>1, <2>2
<1>6. ASSUME NEW u \in SUBSET s
      PROVE  g[u] = IF u = {} THEN 0 ELSE f[FirstOf(u)] + g[u \ {FirstOf(u)}]
  <2>1. CASE u = {}
    BY <2>1
  <2>2. CASE u # {}
    <3> DEFINE v == u \ {FirstOf(u)}
    <3>1. FirstOf(u) \in u
      BY <2>2, FirstOfIn
    <3>2. v \in SUBSET s /\ v # s
      BY <3>1
    <3>3. g[v] = Partial(f, v)[v]
      BY <1>5, <3>2
    <3> QED BY <2>2, <3>3
  <2> QED BY <2>1, <2>2
<1>7. g = [u \in SUBSET s |-> IF u = {} THEN 0 ELSE f[FirstOf(u)] + g[u \ {FirstOf(u)}]]
  <2> HIDE DEF value
  <2>1. g = [u \in SUBSET s |-> g[u]]
    OBVIOUS
  <2> HIDE DEF g
  <2> QED BY <1>6, <2>1
<1> QED BY <1>3, <1>7 DEF Adds

(***************************************************************************)
(* The sum of f over a finite set.                                         *)
(***************************************************************************)

\* The sum over no element, and over a set with a first element.
LEMMA SumRecursion ==
  ASSUME NEW f, NEW S, IsFiniteSet(S)
  PROVE  /\ S = {} => SumFunctionOnSet(f, S) = 0
         /\ S # {} => SumFunctionOnSet(f, S) =
                        f[FirstOf(S)] + SumFunctionOnSet(f, S \ {FirstOf(S)})
<1>1. \A T : SumFunctionOnSet(f, T) = Partial(f, T)[T]
  BY DEF SumFunctionOnSet, FoldFunctionOnSet, MapThenFoldSet, Partial, Adds, FirstOf
<1>2. \A T : IsFiniteSet(T) => Adds(Partial(f, T), f, T)
  BY AddsSomewhere DEF Partial
<1>3. CASE S = {}
  <2>1. Adds(Partial(f, S), f, S) /\ S \in SUBSET S
    BY <1>2
  <2>2. Partial(f, S)[S] = 0
    BY <1>3, <2>1, AddsOn
  <2> QED BY <1>1, <1>3, <2>2
<1>4. CASE S # {}
  <2> DEFINE T == S \ {FirstOf(S)}
  <2>1. T \in SUBSET S /\ IsFiniteSet(T)
    BY FS_Subset
  <2> HIDE DEF T
  <2>2. Partial(f, S)[T] = Partial(f, T)[T]
    BY SMTT(30), <1>2, <2>1, AddsAgree
  <2>3. Partial(f, S)[S] = f[FirstOf(S)] + Partial(f, S)[T]
    BY <1>2, <1>4, AddsOn DEF T
  <2> QED BY <1>1, <1>4, <2>2, <2>3 DEF T
<1> QED BY <1>3, <1>4

LEMMA SumEmpty ==
  ASSUME NEW f
  PROVE  SumFunctionOnSet(f, {}) = 0
BY SumRecursion, FS_EmptySet

\* Sums of integers are integers.
LEMMA SumInt ==
  ASSUME NEW f, NEW S, IsFiniteSet(S), \A x \in S : f[x] \in Int
  PROVE  SumFunctionOnSet(f, S) \in Int
<1> DEFINE Bad == {T \in SUBSET S : SumFunctionOnSet(f, T) \notin Int}
<1>1. SUFFICES ASSUME Bad # {} PROVE FALSE
  OBVIOUS
<1>2. PICK T \in Bad : \A U \in SUBSET T : U # T => U \notin Bad
  <2>1. Bad \in SUBSET SUBSET S
    OBVIOUS
  <2> HIDE DEF Bad
  <2> QED BY <1>1, <2>1, LeastSubset
<1>3. T \in SUBSET S /\ SumFunctionOnSet(f, T) \notin Int /\ IsFiniteSet(T)
  BY <1>2, FS_Subset
<1>4. T # {} /\ FirstOf(T) \in T
  BY <1>3, SumEmpty, FirstOfIn
<1>5. SumFunctionOnSet(f, T \ {FirstOf(T)}) \in Int
  BY <1>2, <1>3, <1>4
<1>6. SumFunctionOnSet(f, T) = f[FirstOf(T)] + SumFunctionOnSet(f, T \ {FirstOf(T)})
  BY <1>3, <1>4, SumRecursion
<1> QED BY <1>3, <1>4, <1>5, <1>6

\* Any element may be taken out first.
LEMMA SumRemove ==
  ASSUME NEW f, NEW S, IsFiniteSet(S), \A x \in S : f[x] \in Int, NEW y \in S
  PROVE  SumFunctionOnSet(f, S) = f[y] + SumFunctionOnSet(f, S \ {y})
<1> DEFINE Sum(T) == SumFunctionOnSet(f, T)
           Bad == {T \in SUBSET S : \E x \in T : Sum(T) # f[x] + Sum(T \ {x})}
<1>1. SUFFICES ASSUME Bad # {} PROVE FALSE
  OBVIOUS
<1>2. PICK T \in Bad : \A U \in SUBSET T : U # T => U \notin Bad
  <2>1. Bad \in SUBSET SUBSET S
    OBVIOUS
  <2> HIDE DEF Bad
  <2> QED BY <1>1, <2>1, LeastSubset
<1>3. T \in SUBSET S /\ IsFiniteSet(T)
  BY <1>2, FS_Subset
<1>4. PICK x \in T : Sum(T) # f[x] + Sum(T \ {x})
  BY <1>2
<1> DEFINE c == FirstOf(T)
<1>5. c \in T
  BY <1>4, FirstOfIn
<1>6. Sum(T) = f[c] + Sum(T \ {c})
  BY <1>3, <1>4, SumRecursion
<1>7. x # c
  BY <1>4, <1>6
<1>8. T \ {c} \notin Bad /\ T \ {x} \notin Bad
  BY <1>2, <1>4, <1>5
<1>9. /\ T \ {c} \in SUBSET S /\ T \ {x} \in SUBSET S
      /\ x \in T \ {c} /\ c \in T \ {x}
  BY <1>3, <1>4, <1>5, <1>7
<1>10. Sum(T \ {c}) = f[x] + Sum((T \ {c}) \ {x})
  BY <1>8, <1>9
<1>11. Sum(T \ {x}) = f[c] + Sum((T \ {x}) \ {c})
  BY <1>8, <1>9
<1>12. (T \ {c}) \ {x} = (T \ {x}) \ {c}
  OBVIOUS
<1>13. Sum((T \ {x}) \ {c}) \in Int
  <2>1. IsFiniteSet((T \ {x}) \ {c}) /\ \A z \in (T \ {x}) \ {c} : f[z] \in Int
    BY <1>3, FS_Subset
  <2> QED BY <2>1, SumInt
<1>14. f[x] \in Int /\ f[c] \in Int
  BY <1>3, <1>4, <1>5
<1>15. Sum((T \ {c}) \ {x}) = Sum((T \ {x}) \ {c})
  BY <1>12
<1> HIDE DEF c
<1> QED BY <1>4, <1>6, <1>10, <1>11, <1>13, <1>14, <1>15

\* A new element adds its value.
LEMMA SumAdd ==
  ASSUME NEW f, NEW S, IsFiniteSet(S), \A x \in S : f[x] \in Int,
         NEW y, y \notin S, f[y] \in Int
  PROVE  SumFunctionOnSet(f, S \cup {y}) = f[y] + SumFunctionOnSet(f, S)
<1>1. IsFiniteSet(S \cup {y}) /\ \A x \in S \cup {y} : f[x] \in Int
  BY FS_AddElement
<1>2. (S \cup {y}) \ {y} = S
  OBVIOUS
<1>3. y \in S \cup {y}
  OBVIOUS
<1> QED BY <1>1, <1>2, <1>3, SumRemove

\* The sum depends on the values of the elements only.
LEMMA SumSame ==
  ASSUME NEW f, NEW g, NEW S, IsFiniteSet(S), \A x \in S : f[x] = g[x]
  PROVE  SumFunctionOnSet(f, S) = SumFunctionOnSet(g, S)
<1> DEFINE Bad == {T \in SUBSET S : SumFunctionOnSet(f, T) # SumFunctionOnSet(g, T)}
<1>1. SUFFICES ASSUME Bad # {} PROVE FALSE
  OBVIOUS
<1>2. PICK T \in Bad : \A U \in SUBSET T : U # T => U \notin Bad
  <2>1. Bad \in SUBSET SUBSET S
    OBVIOUS
  <2> HIDE DEF Bad
  <2> QED BY <1>1, <2>1, LeastSubset
<1>3. /\ T \in SUBSET S /\ IsFiniteSet(T)
      /\ SumFunctionOnSet(f, T) # SumFunctionOnSet(g, T)
  BY <1>2, FS_Subset
<1>4. T # {} /\ FirstOf(T) \in T
  BY <1>3, SumEmpty, FirstOfIn
<1>5. SumFunctionOnSet(f, T \ {FirstOf(T)}) = SumFunctionOnSet(g, T \ {FirstOf(T)})
  BY <1>2, <1>3, <1>4
<1>6. /\ SumFunctionOnSet(f, T) = f[FirstOf(T)] + SumFunctionOnSet(f, T \ {FirstOf(T)})
      /\ SumFunctionOnSet(g, T) = g[FirstOf(T)] + SumFunctionOnSet(g, T \ {FirstOf(T)})
  BY <1>3, <1>4, SumRecursion
<1> QED BY <1>3, <1>4, <1>5, <1>6

\* Two sets without a common element are summed one after the other.
LEMMA SumUnion ==
  ASSUME NEW f, NEW S, NEW R, IsFiniteSet(S), IsFiniteSet(R), S \cap R = {},
         \A x \in S \cup R : f[x] \in Int
  PROVE  SumFunctionOnSet(f, S \cup R) =
           SumFunctionOnSet(f, S) + SumFunctionOnSet(f, R)
<1> DEFINE Sum(T) == SumFunctionOnSet(f, T)
           Bad == {T \in SUBSET R : Sum(S \cup T) # Sum(S) + Sum(T)}
<1>1. SUFFICES ASSUME Bad # {} PROVE FALSE
  OBVIOUS
<1>2. PICK T \in Bad : \A U \in SUBSET T : U # T => U \notin Bad
  <2>1. Bad \in SUBSET SUBSET R
    OBVIOUS
  <2> HIDE DEF Bad
  <2> QED BY <1>1, <2>1, LeastSubset
<1>3. T \in SUBSET R /\ IsFiniteSet(T) /\ Sum(S \cup T) # Sum(S) + Sum(T)
  BY <1>2, FS_Subset
<1>4. Sum(S) \in Int
  BY SumInt
<1>5. T # {}
  <2>1. SUFFICES ASSUME T = {} PROVE FALSE
    OBVIOUS
  <2>2. S \cup T = S
    BY <2>1
  <2>3. Sum(S \cup T) = Sum(S)
    BY <2>2
  <2>4. Sum(T) = 0
    BY <2>1, SumEmpty
  <2> QED BY <1>3, <1>4, <2>3, <2>4
<1>6. PICK x \in T : TRUE
  BY <1>5
<1> DEFINE U == T \ {x}
<1>7. U \notin Bad /\ U \in SUBSET R /\ IsFiniteSet(U) /\ IsFiniteSet(S \cup U)
  BY <1>2, <1>3, <1>6, FS_Subset, FS_Union
<1>8. Sum(S \cup U) = Sum(S) + Sum(U)
  BY <1>7
<1>9. /\ T = U \cup {x} /\ S \cup T = (S \cup U) \cup {x}
      /\ x \notin U /\ x \notin S \cup U /\ f[x] \in Int
      /\ \A y \in S \cup U : f[y] \in Int
  BY <1>3, <1>6
<1> HIDE DEF U, Bad
<1>10. Sum(T) = f[x] + Sum(U)
  <2>1. Sum(U \cup {x}) = f[x] + Sum(U)
    BY <1>7, <1>9, SumAdd
  <2> QED BY <1>9, <2>1
<1>11. Sum(S \cup T) = f[x] + Sum(S \cup U)
  <2>1. Sum((S \cup U) \cup {x}) = f[x] + Sum(S \cup U)
    BY <1>7, <1>9, SumAdd
  <2> QED BY <1>9, <2>1
<1>12. Sum(U) \in Int /\ f[x] \in Int
  BY <1>7, <1>9, SumInt
<1> QED BY <1>3, <1>4, <1>8, <1>10, <1>11, <1>12

\* Of two functions the greater one has the greater sum.
LEMMA SumMonotonic ==
  ASSUME NEW f, NEW g, NEW S, IsFiniteSet(S),
         \A x \in S : f[x] \in Int /\ g[x] \in Int /\ f[x] <= g[x]
  PROVE  SumFunctionOnSet(f, S) <= SumFunctionOnSet(g, S)
<1> DEFINE Bad == {T \in SUBSET S :
                     ~ (SumFunctionOnSet(f, T) <= SumFunctionOnSet(g, T))}
<1>1. SUFFICES ASSUME Bad # {} PROVE FALSE
  OBVIOUS
<1>2. PICK T \in Bad : \A U \in SUBSET T : U # T => U \notin Bad
  <2>1. Bad \in SUBSET SUBSET S
    OBVIOUS
  <2> HIDE DEF Bad
  <2> QED BY <1>1, <2>1, LeastSubset
<1>3. /\ T \in SUBSET S /\ IsFiniteSet(T)
      /\ ~ (SumFunctionOnSet(f, T) <= SumFunctionOnSet(g, T))
  BY <1>2, FS_Subset
<1>4. T # {} /\ FirstOf(T) \in T
  BY <1>3, SumEmpty, FirstOfIn
<1> DEFINE U == T \ {FirstOf(T)}
<1>5. /\ U \in SUBSET S /\ IsFiniteSet(U)
      /\ SumFunctionOnSet(f, U) <= SumFunctionOnSet(g, U)
  BY <1>2, <1>3, <1>4, FS_Subset
<1>6. /\ SumFunctionOnSet(f, T) = f[FirstOf(T)] + SumFunctionOnSet(f, U)
      /\ SumFunctionOnSet(g, T) = g[FirstOf(T)] + SumFunctionOnSet(g, U)
  BY <1>3, <1>4, SumRecursion
<1>7. /\ f[FirstOf(T)] \in Int /\ g[FirstOf(T)] \in Int /\ f[FirstOf(T)] <= g[FirstOf(T)]
  BY <1>3, <1>4
<1> HIDE DEF U
<1>8. SumFunctionOnSet(f, U) \in Int /\ SumFunctionOnSet(g, U) \in Int
  BY <1>5, SumInt
<1> QED BY <1>3, <1>5, <1>6, <1>7, <1>8

\* A constant is summed as often as there are elements.
LEMMA SumConstant ==
  ASSUME NEW c \in Int, NEW f, NEW S, IsFiniteSet(S), \A x \in S : f[x] = c
  PROVE  SumFunctionOnSet(f, S) = c * Cardinality(S)
<1> DEFINE Bad == {T \in SUBSET S : SumFunctionOnSet(f, T) # c * Cardinality(T)}
<1>1. SUFFICES ASSUME Bad # {} PROVE FALSE
  OBVIOUS
<1>2. PICK T \in Bad : \A U \in SUBSET T : U # T => U \notin Bad
  <2>1. Bad \in SUBSET SUBSET S
    OBVIOUS
  <2> HIDE DEF Bad
  <2> QED BY <1>1, <2>1, LeastSubset
<1>3. /\ T \in SUBSET S /\ IsFiniteSet(T)
      /\ SumFunctionOnSet(f, T) # c * Cardinality(T)
  BY <1>2, FS_Subset
<1>4. T # {}
  <2>1. SUFFICES ASSUME T = {} PROVE FALSE
    OBVIOUS
  <2>2. Cardinality(T) = 0 /\ SumFunctionOnSet(f, T) = 0
    BY <2>1, FS_EmptySet, SumEmpty
  <2> QED BY <1>3, <2>2
<1>5. FirstOf(T) \in T /\ f[FirstOf(T)] = c
  BY <1>3, <1>4, FirstOfIn
<1> DEFINE U == T \ {FirstOf(T)}
<1>6. U \in SUBSET T /\ U # T /\ U \in SUBSET S
  BY <1>3, <1>5
<1>7. SumFunctionOnSet(f, T) = c + SumFunctionOnSet(f, U)
  BY <1>3, <1>4, <1>5, SumRecursion
<1>8. SumFunctionOnSet(f, U) = c * Cardinality(U)
  BY <1>2, <1>6
<1>9. Cardinality(U) = Cardinality(T) - 1 /\ Cardinality(T) \in Nat
  BY <1>3, <1>5, FS_RemoveElement, FS_CardinalityType
<1> HIDE DEF U
<1>10. c + c * (Cardinality(T) - 1) = c * Cardinality(T)
  BY <1>9
<1> QED BY <1>3, <1>7, <1>8, <1>9, <1>10

\* A value that changes at one element changes the sum by as much.
LEMMA SumChange ==
  ASSUME NEW f, NEW g, NEW S, IsFiniteSet(S), NEW y \in S,
         \A x \in S : f[x] \in Int /\ g[x] \in Int,
         \A x \in S \ {y} : f[x] = g[x]
  PROVE  SumFunctionOnSet(g, S) = SumFunctionOnSet(f, S) + g[y] - f[y]
<1>1. IsFiniteSet(S \ {y}) /\ \A x \in S \ {y} : f[x] \in Int
  BY FS_RemoveElement
<1>2. /\ SumFunctionOnSet(f, S) = f[y] + SumFunctionOnSet(f, S \ {y})
      /\ SumFunctionOnSet(g, S) = g[y] + SumFunctionOnSet(g, S \ {y})
  BY SumRemove
<1>3. SumFunctionOnSet(f, S \ {y}) = SumFunctionOnSet(g, S \ {y})
  BY <1>1, SumSame
<1>4. SumFunctionOnSet(f, S \ {y}) \in Int
  BY <1>1, SumInt
<1> QED BY <1>2, <1>3, <1>4
==============================================================================
