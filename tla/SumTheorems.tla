---------------------------- MODULE SumTheorems ----------------------------
(***************************************************************************)
(* Facts about SumFunctionOnSet(f, S), the sum of f[x] for x in a finite   *)
(* set S, on which the books' balances, totals and profits are defined.    *)
(*                                                                         *)
(* The community module Functions defines it by a function that recurs     *)
(* from every non-empty set to the set without one chosen element.  That   *)
(* there is such a function, and only one, is shown here by a smallest     *)
(* counterexample: of any non-empty set of finite sets, one has no other   *)
(* below it.                                                               *)
(***************************************************************************)
EXTENDS Functions, FiniteSetTheorems, TLAPS

Chosen(s) == CHOOSE x \in s : TRUE

\* g is defined on the subsets of S by the equation of the sum of f.
SumEquation(g, f, S) ==
  g = [s \in SUBSET S |-> IF s = {} THEN 0 ELSE f[Chosen(s)] + g[s \ {Chosen(s)}]]

-----------------------------------------------------------------------------
\* Induction: what holds of a subset whenever it holds of all that are strictly smaller
\* holds of every subset.
LEMMA SubsetInduction ==
  ASSUME NEW S, IsFiniteSet(S), NEW Good,
         \A T \in SUBSET S : (\A U \in SUBSET T : U # T => U \in Good) => T \in Good
  PROVE  SUBSET S \subseteq Good
<1> DEFINE Bad == (SUBSET S) \ Good
<1> SUFFICES ASSUME Bad # {} PROVE FALSE
  OBVIOUS
<1>1. IsWellFoundedOn(StrictSubsetOrdering(S), SUBSET S)
  <2>1. FiniteSubsetsOf(S) = SUBSET S
    BY FS_FiniteSubsetsOfFinite
  <2>2. IsWellFoundedOn(StrictSubsetOrdering(S), FiniteSubsetsOf(S))
    BY FS_StrictSubsetOrderingWellFounded
  <2> HIDE DEF Bad
  <2> QED
    BY <2>1, <2>2
<1>2. PICK T \in Bad : \A U \in Bad : ~(<<U, T>> \in StrictSubsetOrdering(S))
  <2> HIDE DEF Bad
  <2>1. Bad \subseteq SUBSET S
    BY DEF Bad
  <2> QED
    BY <1>1, <2>1, WFMin
<1>3. ASSUME NEW U \in SUBSET T, U # T PROVE U \in Good
  <2>1. U \in SUBSET S /\ T \in SUBSET S
    OBVIOUS
  <2>2. <<U, T>> \in StrictSubsetOrdering(S)
    BY <1>3, <2>1 DEF StrictSubsetOrdering
  <2> QED
    BY <1>2, <2>1, <2>2
<1> QED
  BY <1>3

\* The same, one element at a time.
LEMMA ElementInduction ==
  ASSUME NEW S, IsFiniteSet(S), NEW Good, {} \in Good,
         \A T \in SUBSET S : \A x \in T : T \ {x} \in Good => T \in Good
  PROVE  SUBSET S \subseteq Good
<1> SUFFICES ASSUME NEW T \in SUBSET S, \A U \in SUBSET T : U # T => U \in Good
             PROVE  T \in Good
  BY SubsetInduction
<1>1. CASE T = {}
  BY <1>1
<1>2. CASE T # {}
  <2>1. PICK x \in T : TRUE
    BY <1>2
  <2>2. T \ {x} \in SUBSET T /\ T \ {x} # T
    BY <2>1
  <2> QED
    BY <2>1, <2>2
<1> QED
  BY <1>1, <1>2

LEMMA ChosenIn ==
  ASSUME NEW s, s # {}
  PROVE  Chosen(s) \in s
BY DEF Chosen

-----------------------------------------------------------------------------
\* The equation has at most one solution, which depends on no more of f and S than it has to.
LEMMA EquationAgrees ==
  ASSUME NEW S, NEW T, T \subseteq S, IsFiniteSet(T),
         NEW f, NEW h, \A x \in T : f[x] = h[x],
         NEW F, SumEquation(F, f, S), NEW H, SumEquation(H, h, T)
  PROVE  \A s \in SUBSET T : F[s] = H[s]
<1> DEFINE Good == {s \in SUBSET T : F[s] = H[s]}
<1>1. ASSUME NEW s \in SUBSET T, \A u \in SUBSET s : u # s => u \in Good
      PROVE  s \in Good
  <2>1. s \in SUBSET S
    OBVIOUS
  <2>2. F[s] = IF s = {} THEN 0 ELSE f[Chosen(s)] + F[s \ {Chosen(s)}]
    <3> HIDE DEF Good
    <3> QED
      BY <2>1 DEF SumEquation
  <2>3. H[s] = IF s = {} THEN 0 ELSE h[Chosen(s)] + H[s \ {Chosen(s)}]
    <3> HIDE DEF Good
    <3> QED
      BY DEF SumEquation
  <2>4. CASE s = {}
    BY <2>2, <2>3, <2>4
  <2>5. CASE s # {}
    <3>1. Chosen(s) \in s
      BY <2>5, ChosenIn
    <3>2. s \ {Chosen(s)} \in Good
      BY <1>1, <3>1
    <3> QED
      BY <2>2, <2>3, <2>5, <3>1, <3>2
  <2> QED
    BY <2>4, <2>5
<1>2. SUBSET T \subseteq Good
  <2> HIDE DEF Good
  <2> QED
    BY <1>1, SubsetInduction
<1> QED
  BY <1>2

\* The value that the sum over s has on its own.
OwnSum(f, s) == (CHOOSE g : SumEquation(g, f, s))[s]

LEMMA SumIsOwnSum ==
  ASSUME NEW f, NEW S
  PROVE  SumFunctionOnSet(f, S) = OwnSum(f, S)
BY DEF SumFunctionOnSet, FoldFunctionOnSet, MapThenFoldSet, OwnSum, SumEquation, Chosen

\* It has a solution: below S the sums of the sets themselves, at S the equation.
LEMMA EquationSolvable ==
  ASSUME NEW S, IsFiniteSet(S), NEW f
  PROVE  \E g : SumEquation(g, f, S)
<1> DEFINE Good == {s \in SUBSET S : \E g : SumEquation(g, f, s)}
<1>1. ASSUME NEW s \in SUBSET S, \A u \in SUBSET s : u # s => u \in Good
      PROVE  s \in Good
  <2> DEFINE c == Chosen(s)
             g == [u \in SUBSET s |->
                     IF u # s THEN OwnSum(f, u) ELSE IF s = {} THEN 0 ELSE f[c] + OwnSum(f, s \ {c})]
  <2>1. ASSUME NEW u \in SUBSET s, u # s
        PROVE  SumEquation(CHOOSE h : SumEquation(h, f, u), f, u)
    <3>1. \E h : SumEquation(h, f, u)
      BY <1>1, <2>1
    <3> QED
      BY <3>1
  <2>2. ASSUME NEW u \in SUBSET s, u # s, u # {}
        PROVE  OwnSum(f, u) = f[Chosen(u)] + OwnSum(f, u \ {Chosen(u)})
    <3> DEFINE v == u \ {Chosen(u)}
               G == CHOOSE h : SumEquation(h, f, u)
               H == CHOOSE h : SumEquation(h, f, v)
    <3>1. Chosen(u) \in u
      BY <2>2, ChosenIn
    <3>2. v \in SUBSET s /\ v # s /\ v \in SUBSET u
      BY <3>1, <2>2
    <3>3. SumEquation(G, f, u) /\ SumEquation(H, f, v)
      BY <2>1, <2>2, <3>2
    <3>4. IsFiniteSet(v)
      BY <3>2, FS_Subset
    <3> HIDE DEF v, G, H
    <3>5. G[v] = H[v]
      BY <3>2, <3>3, <3>4, EquationAgrees
    <3>6. G[u] = f[Chosen(u)] + G[u \ {Chosen(u)}]
      BY <2>2, <3>3 DEF SumEquation
    <3> QED
      BY <3>5, <3>6 DEF G, H, v, OwnSum
  <2>3. OwnSum(f, {}) = 0 \/ s = {}
    <3>1. CASE s # {}
      <4>1. {} \in SUBSET s /\ {} # s
        BY <3>1
      <4>2. SumEquation(CHOOSE h : SumEquation(h, f, {}), f, {})
        BY <2>1, <4>1
      <4> QED
        BY <4>2 DEF SumEquation, OwnSum
    <3> QED
      BY <3>1
  <2>4. ASSUME NEW u \in SUBSET s
        PROVE  g[u] = IF u = {} THEN 0 ELSE f[Chosen(u)] + g[u \ {Chosen(u)}]
    <3>1. CASE u = s
      <4>1. CASE s = {}
        BY <3>1, <4>1
      <4>2. CASE s # {}
        <5>1. c \in s
          BY <4>2, ChosenIn
        <5>2. s \ {c} \in SUBSET s /\ s \ {c} # s
          BY <5>1
        <5> QED
          BY <3>1, <4>2, <5>2
      <4> QED
        BY <4>1, <4>2
    <3>2. CASE u # s /\ u = {}
      BY <2>3, <3>2
    <3>3. CASE u # s /\ u # {}
      <4>1. Chosen(u) \in u
        BY <3>3, ChosenIn
      <4>2. u \ {Chosen(u)} \in SUBSET s /\ u \ {Chosen(u)} # s
        BY <3>3, <4>1
      <4> QED
        BY <2>2, <3>3, <4>2
    <3> QED
      BY <3>1, <3>2, <3>3
  <2>5. SumEquation(g, f, s)
    <3>1. g = [u \in SUBSET s |-> g[u]]
      OBVIOUS
    <3> HIDE DEF g
    <3>2. [u \in SUBSET s |-> g[u]]
            = [u \in SUBSET s |-> IF u = {} THEN 0 ELSE f[Chosen(u)] + g[u \ {Chosen(u)}]]
      BY <2>4
    <3> QED
      BY <3>1, <3>2 DEF SumEquation
  <2> QED
    BY <2>5
<1>2. SUBSET S \subseteq Good
  <2> HIDE DEF Good
  <2> QED
    BY <1>1, SubsetInduction
<1> QED
  BY <1>2

LEMMA OwnSumSolves ==
  ASSUME NEW S, IsFiniteSet(S), NEW f
  PROVE  SumEquation(CHOOSE g : SumEquation(g, f, S), f, S)
BY EquationSolvable

-----------------------------------------------------------------------------
\* The sum of nothing, and the sum without the element that the definition chooses.
THEOREM SumEmpty == \A f : SumFunctionOnSet(f, {}) = 0
<1> SUFFICES ASSUME NEW f PROVE SumFunctionOnSet(f, {}) = 0
  OBVIOUS
<1>1. SumEquation(CHOOSE g : SumEquation(g, f, {}), f, {})
  BY OwnSumSolves, FS_EmptySet
<1> QED
  BY <1>1, SumIsOwnSum DEF SumEquation, OwnSum

\* The sum is that of the values on S and of nothing else.
THEOREM SumSame ==
  ASSUME NEW S, IsFiniteSet(S), NEW f, NEW h, \A x \in S : f[x] = h[x]
  PROVE  SumFunctionOnSet(f, S) = SumFunctionOnSet(h, S)
<1>1. SumEquation(CHOOSE g : SumEquation(g, f, S), f, S) /\ SumEquation(CHOOSE g : SumEquation(g, h, S), h, S)
  BY OwnSumSolves
<1> DEFINE F == CHOOSE g : SumEquation(g, f, S)
           H == CHOOSE g : SumEquation(g, h, S)
<1>2. F[S] = H[S]
  <2> HIDE DEF F, H
  <2>1. SumEquation(F, f, S) /\ SumEquation(H, h, S)
    BY <1>1 DEF F, H
  <2>2. \A s \in SUBSET S : F[s] = H[s]
    <3>1. S \subseteq S
      OBVIOUS
    <3> QED
      BY <2>1, <3>1, EquationAgrees
  <2> QED
    BY <2>2
<1> QED
  BY <1>2, SumIsOwnSum DEF OwnSum

LEMMA SumChosen ==
  ASSUME NEW S, IsFiniteSet(S), S # {}, NEW f
  PROVE  SumFunctionOnSet(f, S)
           = f[Chosen(S)] + SumFunctionOnSet(f, S \ {Chosen(S)})
<1> DEFINE U == S \ {Chosen(S)}
           F == CHOOSE g : SumEquation(g, f, S)
           H == CHOOSE g : SumEquation(g, f, U)
<1>1. IsFiniteSet(U) /\ U \subseteq S
  BY FS_Subset
<1>2. SumEquation(F, f, S) /\ SumEquation(H, f, U)
  BY <1>1, OwnSumSolves
<1> HIDE DEF F, H, U
<1>3. F[U] = H[U]
  BY <1>1, <1>2, EquationAgrees
<1>4. F[S] = f[Chosen(S)] + F[U]
  BY <1>2 DEF SumEquation, U
<1> QED
  BY <1>3, <1>4, SumIsOwnSum DEF F, H, U, OwnSum

-----------------------------------------------------------------------------
\* A sum of integers is an integer, and which element is taken out first does not matter.
THEOREM SumType ==
  ASSUME NEW S, IsFiniteSet(S), NEW f, \A x \in S : f[x] \in Int
  PROVE  SumFunctionOnSet(f, S) \in Int
<1> DEFINE Good == {T \in SUBSET S : SumFunctionOnSet(f, T) \in Int}
<1>1. ASSUME NEW T \in SUBSET S, \A U \in SUBSET T : U # T => U \in Good
      PROVE  T \in Good
  <2>1. CASE T = {}
    BY <2>1, SumEmpty
  <2>2. CASE T # {}
    <3>1. Chosen(T) \in T
      BY <2>2, ChosenIn
    <3>2. T \ {Chosen(T)} \in Good
      BY <1>1, <3>1
    <3>3. IsFiniteSet(T)
      BY FS_Subset
    <3>4. SumFunctionOnSet(f, T) = f[Chosen(T)] + SumFunctionOnSet(f, T \ {Chosen(T)})
      BY <2>2, <3>3, SumChosen
    <3> QED
      BY <3>1, <3>2, <3>4
  <2> QED
    BY <2>1, <2>2
<1>2. SUBSET S \subseteq Good
  <2> HIDE DEF Good
  <2> QED
    BY <1>1, SubsetInduction
<1> QED
  BY <1>2

THEOREM SumRemove ==
  ASSUME NEW S, IsFiniteSet(S), NEW f, \A x \in S : f[x] \in Int, NEW e \in S
  PROVE  SumFunctionOnSet(f, S) = f[e] + SumFunctionOnSet(f, S \ {e})
<1> DEFINE Sum(T) == SumFunctionOnSet(f, T)
           Good   == {T \in SUBSET S : \A x \in T : Sum(T) = f[x] + Sum(T \ {x})}
<1>1. ASSUME NEW T \in SUBSET S PROVE IsFiniteSet(T) /\ Sum(T) \in Int
  <2>1. IsFiniteSet(T)
    BY FS_Subset
  <2>2. \A x \in T : f[x] \in Int
    OBVIOUS
  <2> QED
    BY <2>1, <2>2, SumType
<1>2. ASSUME NEW T \in SUBSET S, T # {}
      PROVE  Sum(T) = f[Chosen(T)] + Sum(T \ {Chosen(T)})
  BY <1>1, <1>2, SumChosen
<1> HIDE DEF Sum
<1>3. ASSUME NEW T \in SUBSET S, \A U \in SUBSET T : U # T => U \in Good
      PROVE  T \in Good
  <2> SUFFICES ASSUME NEW x \in T PROVE Sum(T) = f[x] + Sum(T \ {x})
    OBVIOUS
  <2> DEFINE c == Chosen(T)
  <2>1. c \in T
    BY ChosenIn
  <2>2. Sum(T) = f[c] + Sum(T \ {c})
    BY <1>2
  <2> HIDE DEF c
  <2>3. CASE c # x
    <3>1. Sum(T \ {c}) = f[x] + Sum((T \ {c}) \ {x})
      <4>1. T \ {c} \in Good /\ x \in T \ {c}
        BY <1>3, <2>1, <2>3
      <4> QED
        BY <4>1
    <3>2. Sum(T \ {x}) = f[c] + Sum((T \ {x}) \ {c})
      <4>1. T \ {x} \in Good /\ c \in T \ {x}
        BY <1>3, <2>1, <2>3
      <4> QED
        BY <4>1
    <3>3. (T \ {c}) \ {x} = (T \ {x}) \ {c}
      OBVIOUS
    <3>4. f[x] \in Int /\ f[c] \in Int /\ Sum((T \ {c}) \ {x}) \in Int
      BY <1>1, <2>1
    <3> DEFINE R == Sum((T \ {c}) \ {x})
    <3>5. Sum(T) = f[c] + (f[x] + R) /\ Sum(T \ {x}) = f[c] + R
      BY <2>2, <3>1, <3>2, <3>3
    <3> HIDE DEF R
    <3>6. f[c] + (f[x] + R) = f[x] + (f[c] + R)
      BY <3>4 DEF R
    <3> QED
      BY <3>5, <3>6
  <2> QED
    BY <2>2, <2>3
<1>4. SUBSET S \subseteq Good
  <2> HIDE DEF Good
  <2> QED
    BY <1>3, SubsetInduction
<1> QED
  BY <1>4 DEF Sum

THEOREM SumAdd ==
  ASSUME NEW S, IsFiniteSet(S), NEW e, e \notin S,
         NEW f, f[e] \in Int, \A x \in S : f[x] \in Int
  PROVE  SumFunctionOnSet(f, S \cup {e}) = f[e] + SumFunctionOnSet(f, S)
<1>1. IsFiniteSet(S \cup {e}) /\ e \in S \cup {e} /\ (S \cup {e}) \ {e} = S
  BY FS_AddElement
<1>2. \A x \in S \cup {e} : f[x] \in Int
  OBVIOUS
<1>3. SumFunctionOnSet(f, S \cup {e}) = f[e] + SumFunctionOnSet(f, (S \cup {e}) \ {e})
  BY <1>1, <1>2, SumRemove
<1> QED
  BY <1>1, <1>3

\* A function that changes at one element moves the sum by as much.
THEOREM SumChange ==
  ASSUME NEW S, IsFiniteSet(S), NEW e \in S,
         NEW f, \A x \in S : f[x] \in Int,
         NEW h, h[e] \in Int, \A x \in S : x # e => h[x] = f[x]
  PROVE  SumFunctionOnSet(h, S) = SumFunctionOnSet(f, S) + (h[e] - f[e])
<1> DEFINE F == SumFunctionOnSet(f, S \ {e})
           H == SumFunctionOnSet(h, S \ {e})
<1>1. IsFiniteSet(S \ {e})
  BY FS_RemoveElement
<1>2. \A x \in S \ {e} : f[x] = h[x]
  OBVIOUS
<1>3. F = H
  BY <1>1, <1>2, SumSame
<1>4. SumFunctionOnSet(f, S) = f[e] + F
  BY SumRemove
<1>5. SumFunctionOnSet(h, S) = h[e] + H
  <2>1. \A x \in S : h[x] \in Int
    OBVIOUS
  <2> QED
    BY <2>1, SumRemove
<1>6. F \in Int
  BY <1>1, SumType
<1> HIDE DEF F, H
<1> QED
  BY <1>3, <1>4, <1>5, <1>6

-----------------------------------------------------------------------------
\* The sum of a sum of functions is the sum of their sums.
THEOREM SumPlus ==
  ASSUME NEW S, IsFiniteSet(S),
         NEW f, \A x \in S : f[x] \in Int,
         NEW g, \A x \in S : g[x] \in Int,
         NEW h, \A x \in S : h[x] = f[x] + g[x]
  PROVE  SumFunctionOnSet(h, S) = SumFunctionOnSet(f, S) + SumFunctionOnSet(g, S)
<1> DEFINE F(T) == SumFunctionOnSet(f, T)
           G(T) == SumFunctionOnSet(g, T)
           H(T) == SumFunctionOnSet(h, T)
           Good == {T \in SUBSET S : H(T) = F(T) + G(T)}
<1>1. {} \in Good
  BY SumEmpty
<1>2. ASSUME NEW T \in SUBSET S, NEW x \in T, T \ {x} \in Good
      PROVE  T \in Good
  <2> DEFINE U == T \ {x}
  <2>1. IsFiniteSet(T) /\ IsFiniteSet(U)
    BY FS_Subset
  <2>2. /\ \A y \in T : f[y] \in Int
        /\ \A y \in T : g[y] \in Int
        /\ \A y \in T : h[y] \in Int
    OBVIOUS
  <2>3. F(T) = f[x] + F(U)
    BY <2>1, <2>2, SumRemove
  <2>4. G(T) = g[x] + G(U)
    BY <2>1, <2>2, SumRemove
  <2>5. H(T) = h[x] + H(U)
    BY <2>1, <2>2, SumRemove
  <2>6. F(U) \in Int
    BY <2>1, <2>2, SumType
  <2>7. G(U) \in Int
    BY <2>1, <2>2, SumType
  <2>8. H(U) = F(U) + G(U)
    BY <1>2
  <2>9. f[x] \in Int /\ g[x] \in Int /\ h[x] = f[x] + g[x]
    OBVIOUS
  <2> HIDE DEF F, G, H, U
  <2>10. H(T) = F(T) + G(T)
    BY <2>3, <2>4, <2>5, <2>6, <2>7, <2>8, <2>9
  <2> QED
    BY <2>10
<1>3. SUBSET S \subseteq Good
  <2> HIDE DEF Good
  <2> QED
    BY <1>1, <1>2, ElementInduction
<1> QED
  BY <1>3

THEOREM SumMinus ==
  ASSUME NEW S, IsFiniteSet(S),
         NEW f, \A x \in S : f[x] \in Int,
         NEW g, \A x \in S : g[x] \in Int,
         NEW h, \A x \in S : h[x] = f[x] - g[x]
  PROVE  SumFunctionOnSet(h, S) = SumFunctionOnSet(f, S) - SumFunctionOnSet(g, S)
<1>1. \A x \in S : h[x] \in Int /\ f[x] = h[x] + g[x]
  OBVIOUS
<1>2. SumFunctionOnSet(f, S) = SumFunctionOnSet(h, S) + SumFunctionOnSet(g, S)
  BY <1>1, SumPlus
<1>3. SumFunctionOnSet(h, S) \in Int
  BY <1>1, SumType
<1>4. SumFunctionOnSet(g, S) \in Int
  BY SumType
<1> QED
  BY <1>2, <1>3, <1>4

\* What is nothing everywhere comes to nothing.
THEOREM SumZero ==
  ASSUME NEW S, IsFiniteSet(S), NEW f, \A x \in S : f[x] = 0
  PROVE  SumFunctionOnSet(f, S) = 0
<1>1. \A x \in S : f[x] \in Int /\ f[x] = f[x] + f[x]
  OBVIOUS
<1>2. SumFunctionOnSet(f, S) = SumFunctionOnSet(f, S) + SumFunctionOnSet(f, S)
  BY <1>1, SumPlus
<1>3. SumFunctionOnSet(f, S) \in Int
  BY <1>1, SumType
<1>4. \A n \in Int : n = n + n => n = 0
  OBVIOUS
<1> QED
  BY <1>2, <1>3, <1>4, Zenon

THEOREM SumOpposite ==
  ASSUME NEW S, IsFiniteSet(S),
         NEW f, \A x \in S : f[x] \in Int,
         NEW h, \A x \in S : h[x] = -f[x]
  PROVE  SumFunctionOnSet(h, S) = -SumFunctionOnSet(f, S)
<1> DEFINE zero == [x \in S |-> 0]
<1>1. \A x \in S : zero[x] = 0 /\ zero[x] \in Int /\ h[x] = zero[x] - f[x]
  OBVIOUS
<1> HIDE DEF zero
<1>2. SumFunctionOnSet(h, S) = SumFunctionOnSet(zero, S) - SumFunctionOnSet(f, S)
  BY <1>1, SumMinus
<1>3. SumFunctionOnSet(zero, S) = 0
  BY <1>1, SumZero
<1>4. SumFunctionOnSet(f, S) \in Int
  BY SumType
<1> QED
  BY <1>2, <1>3, <1>4

\* The sum over two sets with nothing in common is the sum of the sums over each.
THEOREM SumUnion ==
  ASSUME NEW S, IsFiniteSet(S), NEW T, IsFiniteSet(T), S \cap T = {},
         NEW f, \A x \in S \cup T : f[x] \in Int
  PROVE  SumFunctionOnSet(f, S \cup T) = SumFunctionOnSet(f, S) + SumFunctionOnSet(f, T)
<1> DEFINE Sum(U) == SumFunctionOnSet(f, U)
           Good   == {U \in SUBSET T : Sum(S \cup U) = Sum(S) + Sum(U)}
<1>1. \A U \in SUBSET T : IsFiniteSet(U) /\ IsFiniteSet(S \cup U)
  <2> TAKE U \in SUBSET T
  <2>1. IsFiniteSet(U)
    BY FS_Subset
  <2> QED
    BY <2>1, FS_Union
<1>2. Sum(S) \in Int
  <2>1. \A x \in S : f[x] \in Int
    OBVIOUS
  <2> QED
    BY <2>1, SumType
<1>3. {} \in Good
  <2>1. S \cup {} = S /\ Sum({}) = 0
    BY SumEmpty
  <2> HIDE DEF Sum
  <2> QED
    BY <1>2, <2>1
<1>4. ASSUME NEW U \in SUBSET T, NEW x \in U, U \ {x} \in Good
      PROVE  U \in Good
  <2> DEFINE W == U \ {x}
  <2>1. IsFiniteSet(U) /\ IsFiniteSet(S \cup U) /\ IsFiniteSet(W)
    BY <1>1
  <2>2. /\ \A y \in S \cup U : f[y] \in Int
        /\ \A y \in U : f[y] \in Int
        /\ \A y \in W : f[y] \in Int
        /\ x \in S \cup U
    OBVIOUS
  <2>3. Sum(U) = f[x] + Sum(W)
    BY <2>1, <2>2, SumRemove
  <2>4. Sum(S \cup U) = f[x] + Sum((S \cup U) \ {x})
    BY <2>1, <2>2, SumRemove
  <2>5. (S \cup U) \ {x} = S \cup W
    OBVIOUS
  <2>6. Sum(S \cup W) = Sum(S) + Sum(W)
    BY <1>4
  <2>7. Sum(W) \in Int
    BY <2>1, <2>2, SumType
  <2>8. f[x] \in Int
    OBVIOUS
  <2> HIDE DEF Sum, W
  <2>9. \A n, a, b \in Int : n + (a + b) = a + (n + b)
    OBVIOUS
  <2>10. Sum(S \cup U) = Sum(S) + Sum(U)
    <3>1. Sum(S \cup U) = f[x] + (Sum(S) + Sum(W))
      BY <2>4, <2>5, <2>6, Zenon
    <3>2. f[x] + (Sum(S) + Sum(W)) = Sum(S) + (f[x] + Sum(W))
      BY <1>2, <2>7, <2>8, <2>9, Zenon
    <3> QED
      BY <2>3, <3>1, <3>2, Zenon
  <2> QED
    BY <2>10
<1>5. SUBSET T \subseteq Good
  <2> HIDE DEF Good
  <2> QED
    BY <1>3, <1>4, ElementInduction
<1> QED
  BY <1>5

\* What comes to nothing may as well be left out.
THEOREM SumRestrict ==
  ASSUME NEW S, IsFiniteSet(S), NEW T \in SUBSET S,
         NEW f, \A x \in T : f[x] \in Int, \A x \in S \ T : f[x] = 0
  PROVE  SumFunctionOnSet(f, S) = SumFunctionOnSet(f, T)
<1>1. IsFiniteSet(T) /\ IsFiniteSet(S \ T)
  BY FS_Subset
<1>2. T \cup (S \ T) = S /\ T \cap (S \ T) = {} /\ \A x \in T \cup (S \ T) : f[x] \in Int
  OBVIOUS
<1>3. SumFunctionOnSet(f, T \cup (S \ T))
        = SumFunctionOnSet(f, T) + SumFunctionOnSet(f, S \ T)
  BY <1>1, <1>2, SumUnion
<1>4. SumFunctionOnSet(f, S \ T) = 0
  BY <1>1, SumZero
<1>5. SumFunctionOnSet(f, T) \in Int
  BY <1>1, SumType
<1>6. \A n \in Int : n + 0 = n
  OBVIOUS
<1> QED
  BY <1>2, <1>3, <1>4, <1>5, <1>6, Zenon

\* A sum by groups: where D falls into the groups g[x] and h[x] is the sum over one of them, the
\* sum of h is that over all of D.
THEOREM SumByGroup ==
  ASSUME NEW D, IsFiniteSet(D), NEW L, IsFiniteSet(L),
         NEW g, \A x \in L : g[x] \subseteq D,
         \A d \in D : \E x \in L : d \in g[x],
         \A x, y \in L : x # y => g[x] \cap g[y] = {},
         NEW f, \A d \in D : f[d] \in Int,
         NEW h, \A x \in L : h[x] = SumFunctionOnSet(f, g[x])
  PROVE  SumFunctionOnSet(h, L) = SumFunctionOnSet(f, D)
<1> DEFINE Into(M) == {d \in D : \E x \in M : d \in g[x]}
           F(E)    == SumFunctionOnSet(f, E)
           H(M)    == SumFunctionOnSet(h, M)
           Good    == {M \in SUBSET L : H(M) = F(Into(M))}
<1>1. \A E \in SUBSET D : IsFiniteSet(E) /\ F(E) \in Int
  <2> TAKE E \in SUBSET D
  <2>1. IsFiniteSet(E) /\ \A d \in E : f[d] \in Int
    BY FS_Subset
  <2> QED
    BY <2>1, SumType
<1>2. ASSUME NEW x \in L PROVE h[x] = F(Into({x})) /\ h[x] \in Int
  <2>1. g[x] = Into({x})
    OBVIOUS
  <2>2. Into({x}) \in SUBSET D
    OBVIOUS
  <2>3. h[x] = F(Into({x}))
    BY <2>1
  <2>4. F(Into({x})) \in Int
    <3> HIDE DEF F, Into
    <3> QED
      BY <1>1, <2>2
  <2> QED
    BY <2>3, <2>4
<1>3. {} \in Good
  <2>1. Into({}) = {} /\ H({}) = 0 /\ F({}) = 0
    BY SumEmpty
  <2> HIDE DEF H, F, Into
  <2> QED
    BY <2>1
<1>4. ASSUME NEW M \in SUBSET L, NEW x \in M, M \ {x} \in Good
      PROVE  M \in Good
  <2> DEFINE W == M \ {x}
  <2>1. H(M) = h[x] + H(W)
    <3>1. IsFiniteSet(M) /\ \A y \in M : h[y] \in Int
      BY <1>2, FS_Subset
    <3> QED
      BY <3>1, SumRemove
  <2>2. /\ Into(M) = Into({x}) \cup Into(W)
        /\ Into({x}) \cap Into(W) = {}
        /\ Into({x}) \in SUBSET D /\ Into(W) \in SUBSET D
        /\ \A d \in Into({x}) \cup Into(W) : f[d] \in Int
    OBVIOUS
  <2>3. IsFiniteSet(Into({x})) /\ IsFiniteSet(Into(W))
    <3> HIDE DEF Into
    <3> QED
      BY <1>1, <2>2
  <2>4. F(Into({x}) \cup Into(W)) = F(Into({x})) + F(Into(W))
    <3> DEFINE A == Into({x})
               B == Into(W)
    <3>1. IsFiniteSet(A) /\ IsFiniteSet(B) /\ A \cap B = {}
      BY <2>2, <2>3
    <3>2. \A d \in A \cup B : f[d] \in Int
      BY <2>2
    <3> HIDE DEF A, B
    <3>3. SumFunctionOnSet(f, A \cup B) = SumFunctionOnSet(f, A) + SumFunctionOnSet(f, B)
      BY <3>1, <3>2, SumUnion
    <3> QED
      BY <3>3 DEF A, B
  <2>5. H(W) = F(Into(W))
    BY <1>4
  <2>6. h[x] = F(Into({x}))
    BY <1>2
  <2> HIDE DEF H, F, Into
  <2> QED
    BY <2>1, <2>2, <2>4, <2>5, <2>6
<1>5. SUBSET L \subseteq Good
  <2> HIDE DEF Good
  <2> QED
    BY <1>3, <1>4, ElementInduction
<1>6. Into(L) = D /\ L \in Good
  BY <1>5
<1> QED
  BY <1>6
=============================================================================
