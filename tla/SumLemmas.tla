----------------------------- MODULE SumLemmas ------------------------------
(***************************************************************************)
(* Sums over finite sets.  SumFunctionOnSet is a recursive function whose  *)
(* order of summation is a CHOOSE: it exists, is local and does not depend *)
(* on the order, each by the least size at which it would fail.  The bytes *)
(* the handoff queue has charged and the memory the queries hold are such  *)
(* sums.                                                                   *)
(***************************************************************************)
EXTENDS Integers, FiniteSets, Functions, FiniteSetTheorems, WellFoundedInduction, TLAPS

\* The time each leaf may take, in seconds.
USE ZenonT(30)

\* A nonempty set of naturals has a least element.
LEMMA LeastExists ==
    ASSUME NEW S \in SUBSET Nat, S # {}
    PROVE  \E n \in S : \A m \in S : n <= m
<1>1. PICK x \in S : \A y \in S : ~(<<y, x>> \in OpToRel(<, Nat))
  BY WFMin, NatLessThanWellFounded
<1>2. \A y \in S : ~(y < x)
  BY <1>1 DEF OpToRel
<1> QED
  BY <1>2, SMTT(30)

\* Removing an element from a finite set.
LEMMA RemoveOne ==
    ASSUME NEW s, IsFiniteSet(s), NEW x \in s
    PROVE  /\ Cardinality(s \ {x}) = Cardinality(s) - 1
           /\ Cardinality(s) - 1 \in Nat
<1>1. Cardinality(s) \in Nat /\ Cardinality(s) # 0
  BY FS_CardinalityType, FS_EmptySet, SMTT(30)
<1>2. Cardinality(s \ {x}) = Cardinality(s) - 1
  BY FS_RemoveElement, SMTT(30)
<1> QED
  BY <1>1, <1>2, SMTT(30)

\* The element at which a sum over s starts.
FirstOf(s) == CHOOSE x \in s : TRUE

\* g sums f over the subsets of S, in the order in which SumFunctionOnSet does.
Sums(g, f, S) ==
    g = [s \in SUBSET S |-> IF s = {} THEN 0 ELSE f[FirstOf(s)] + g[s \ {FirstOf(s)}]]

\* A sum starts within its set.
LEMMA FirstIn == \A s : s # {} => FirstOf(s) \in s
  BY SMTT(30) DEF FirstOf

\* A sum taken apart.
LEMMA SumsAt ==
    ASSUME NEW g, NEW f, NEW S, Sums(g, f, S), NEW T \in SUBSET S
    PROVE  g[T] = IF T = {} THEN 0 ELSE f[FirstOf(T)] + g[T \ {FirstOf(T)}]
  BY SMTT(30) DEF Sums

\* Sums over a finite set exist, by the size of the subset.
LEMMA SumsExist ==
    ASSUME NEW f, NEW S, IsFiniteSet(S)
    PROVE  \E g : Sums(g, f, S)
<1> DEFINE Upto(n) == {s \in SUBSET S : Cardinality(s) <= n}
           Step(g, s) == IF s = {} THEN 0
                         ELSE f[FirstOf(s)] + g[s \ {FirstOf(s)}]
           Good(n) == \E g : g = [s \in Upto(n) |-> Step(g, s)]
           Bad == {n \in Nat : ~Good(n)}
<1>0. \A s \in SUBSET S : IsFiniteSet(s) /\ Cardinality(s) \in Nat
  BY FS_Subset, FS_CardinalityType, SMTT(30)
<1>1. Good(0)
  <2> DEFINE g == [s \in Upto(0) |-> 0]
  <2>1. \A s \in Upto(0) : s = {}
    BY <1>0, FS_EmptySet, SMTT(30)
  <2>2. \A s \in Upto(0) : Step(g, s) = 0
    BY <2>1, SMTT(30)
  <2>3. g = [s \in Upto(0) |-> Step(g, s)]
    BY <2>2
  <2> HIDE DEF g
  <2> QED BY <2>3
<1>2. ASSUME NEW n \in Nat, Good(n) PROVE Good(n + 1)
  <2>1. PICK g : g = [s \in Upto(n) |-> Step(g, s)]
    BY <1>2
  <2> DEFINE h == [s \in Upto(n + 1) |-> Step(g, s)]
  <2>2. ASSUME NEW s \in Upto(n + 1), s # {}
        PROVE  h[s \ {FirstOf(s)}] = g[s \ {FirstOf(s)}]
    <3> DEFINE t == s \ {FirstOf(s)}
    <3>1. t \in SUBSET S /\ Cardinality(t) = Cardinality(s) - 1
        BY <2>2, <1>0, FirstIn, RemoveOne, SMTT(30)
    <3>2. t \in Upto(n) /\ t \in Upto(n + 1)
      BY <3>1, <1>0, SMTT(30)
    <3> HIDE DEF t, Step, Upto
    <3>3. g[t] = Step(g, t)
      BY <2>1, <3>2, SMTT(30)
    <3>4. h[t] = Step(g, t)
      BY <3>2, SMTT(30)
    <3> QED BY <3>3, <3>4, SMTT(30) DEF t
  <2>3. ASSUME NEW s \in Upto(n + 1) PROVE Step(h, s) = Step(g, s)
    <3> HIDE DEF h, Upto
    <3> QED BY <2>2, SMTT(30)
  <2>4. h = [s \in Upto(n + 1) |-> Step(h, s)]
    <3> HIDE DEF Step, Upto
    <3> QED BY <2>3, SMTT(30)
  <2> HIDE DEF h, Step, Upto
  <2> QED BY <2>4, SMTT(30)
<1>3. Bad = {}
  <2> SUFFICES ASSUME Bad # {} PROVE FALSE
    OBVIOUS
  <2> HIDE DEF Good
  <2>1. PICK n \in Bad : \A m \in Bad : n <= m
    <3>1. Bad \in SUBSET Nat
      BY SMTT(30)
    <3> HIDE DEF Bad
    <3> QED BY <3>1, LeastExists, SMTT(30)
  <2>2. n \in Nat /\ n # 0
    BY <1>1, <2>1, SMTT(30)
  <2>3. n - 1 \in Nat /\ Good(n - 1)
    BY <2>1, <2>2, SMTT(30)
  <2>4. Good((n - 1) + 1)
    BY <2>3, <1>2, SMTT(30)
  <2>5. (n - 1) + 1 = n
    BY <2>2, SMTT(30)
  <2> QED BY <2>1, <2>4, <2>5, SMTT(30)
<1>4. Good(Cardinality(S))
  <2> HIDE DEF Good
  <2> QED BY <1>3, FS_CardinalityType, SMTT(30)
<1>5. Upto(Cardinality(S)) = SUBSET S
  BY FS_Subset, SMTT(30)
<1>6. PICK g : g = [s \in Upto(Cardinality(S)) |-> Step(g, s)]
  BY <1>4
<1>7. g = [s \in SUBSET S |-> Step(g, s)]
  <2> HIDE DEF Upto, Step
  <2> QED BY <1>5, <1>6, SMTT(30)
<1>8. Sums(g, f, S)
  BY <1>7 DEF Sums
<1> QED
  BY <1>8, SMTT(30)

\* Where f and e agree, so do their sums, which are integers.
LEMMA SumsAgree ==
    ASSUME NEW f, NEW S, NEW g, Sums(g, f, S), IsFiniteSet(S),
           NEW e, NEW R, NEW h, Sums(h, e, R),
           NEW T \in SUBSET (S \cap R), \A x \in T : f[x] = e[x] /\ f[x] \in Int
    PROVE  g[T] = h[T] /\ g[T] \in Int
<1> DEFINE Fails(s) == ~(g[s] = h[s] /\ g[s] \in Int)
           Bad == {n \in Nat : \E s \in SUBSET T : Cardinality(s) = n /\ Fails(s)}
<1>0. \A s \in SUBSET T : IsFiniteSet(s) /\ Cardinality(s) \in Nat
  BY FS_Subset, FS_CardinalityType, SMTT(30)
<1>1. SUFFICES Bad = {}
  BY <1>0, SMTT(30)
<1>2. SUFFICES ASSUME Bad # {} PROVE FALSE
  BY SMTT(30)
<1>3. PICK n \in Bad : \A m \in Bad : n <= m
  <2>1. Bad \in SUBSET Nat
    BY SMTT(30)
  <2> HIDE DEF Bad
  <2> QED BY <2>1, <1>2, LeastExists, SMTT(30)
<1>4. PICK s \in SUBSET T : Cardinality(s) = n /\ Fails(s)
  BY <1>3, SMTT(30)
<1>5. s \in SUBSET S /\ s \in SUBSET R
  BY SMTT(30)
<1>6. CASE s = {}
  <2>1. g[s] = 0
    BY <1>5, <1>6, SumsAt
  <2>2. h[s] = 0
    BY <1>5, <1>6, SumsAt
  <2> QED BY <2>1, <2>2, <1>4, SMTT(30)
<1>7. CASE s # {}
  <2> DEFINE x == FirstOf(s)
  <2>0. x \in s
    BY <1>7, FirstIn, SMTT(30)
  <2>1. g[s] = f[x] + g[s \ {x}]
    <3> HIDE DEF Fails, Bad
    <3>1. g[s] = IF s = {} THEN 0 ELSE f[FirstOf(s)] + g[s \ {FirstOf(s)}]
      BY <1>5, SumsAt, SMTT(30)
    <3> QED BY <3>1, <1>7, SMTT(30)
  <2>2. h[s] = e[x] + h[s \ {x}]
    <3> HIDE DEF Fails, Bad
    <3>1. h[s] = IF s = {} THEN 0 ELSE e[FirstOf(s)] + h[s \ {FirstOf(s)}]
      BY <1>5, SumsAt, SMTT(30)
    <3> QED BY <3>1, <1>7, SMTT(30)
  <2> HIDE DEF x
  <2>3. Cardinality(s \ {x}) = n - 1 /\ n - 1 \in Nat
    BY <1>0, <1>4, <2>0, RemoveOne
  <2>4. ~Fails(s \ {x})
    <3>1. n - 1 \notin Bad
      BY <1>3, <2>3, SMTT(30)
    <3> HIDE DEF Fails
    <3> QED BY <3>1, <2>3, SMTT(30)
  <2> QED BY <2>0, <2>1, <2>2, <2>4, <1>4, SMTT(30)
<1> QED
  BY <1>6, <1>7, SMTT(30)

\* The order of summation does not matter.
LEMMA SumsAny ==
    ASSUME NEW f, NEW S, NEW g, Sums(g, f, S), IsFiniteSet(S),
           \A x \in S : f[x] \in Int
    PROVE  \A T \in SUBSET S : \A z \in T : g[T] = f[z] + g[T \ {z}]
<1> DEFINE Fails(s) == \E z \in s : g[s] # f[z] + g[s \ {z}]
           Bad == {n \in Nat : \E s \in SUBSET S : Cardinality(s) = n /\ Fails(s)}
<1>0. \A s \in SUBSET S : IsFiniteSet(s) /\ Cardinality(s) \in Nat
  BY FS_Subset, FS_CardinalityType, SMTT(30)
<1>1. SUFFICES Bad = {}
  BY <1>0
<1>2. SUFFICES ASSUME Bad # {} PROVE FALSE
  BY SMTT(30)
<1>3. PICK n \in Bad : \A m \in Bad : n <= m
  <2>1. Bad \in SUBSET Nat
    BY SMTT(30)
  <2> HIDE DEF Bad
  <2> QED BY <2>1, <1>2, LeastExists, SMTT(30)
<1>4. PICK s \in SUBSET S : Cardinality(s) = n /\ Fails(s)
  BY <1>3, SMTT(30)
<1>5. PICK z \in s : g[s] # f[z] + g[s \ {z}]
  BY <1>4
<1> DEFINE x == FirstOf(s)
<1>6. x \in s /\ g[s] = f[x] + g[s \ {x}]
  <2> HIDE DEF Fails, Bad
  <2>1. x \in s
    BY FirstIn, SMTT(30)
  <2>2. s # {}
    BY SMTT(30)
  <2>3. g[s] = f[x] + g[s \ {x}]
    BY <2>2, SumsAt
  <2> QED BY <2>1, <2>3, SMTT(30)
<1> HIDE DEF x
<1>7. x # z
  BY <1>5, <1>6
<1>8. /\ Cardinality(s \ {x}) = n - 1 /\ Cardinality(s \ {z}) = n - 1
      /\ n - 1 \in Nat
  BY <1>0, <1>4, <1>6, RemoveOne, SMTT(30)
<1>9. ~Fails(s \ {x}) /\ ~Fails(s \ {z})
  <2>1. n - 1 \notin Bad
    BY <1>3, <1>8, SMTT(30)
  <2> HIDE DEF Fails
  <2> QED BY <2>1, <1>8, SMTT(30)
<1>10. g[s \ {x}] = f[z] + g[(s \ {x}) \ {z}]
  BY <1>6, <1>7, <1>9
<1>11. g[s \ {z}] = f[x] + g[(s \ {z}) \ {x}]
  BY <1>6, <1>7, <1>9
<1>12. (s \ {x}) \ {z} = (s \ {z}) \ {x}
  BY SMTT(30)
<1>13. g[(s \ {x}) \ {z}] \in Int /\ f[x] \in Int /\ f[z] \in Int
  <2>1. (s \ {x}) \ {z} \in SUBSET (S \cap S)
    BY SMTT(30)
  <2>2. \A y \in (s \ {x}) \ {z} : f[y] = f[y] /\ f[y] \in Int
    BY SMTT(30)
  <2>3. g[(s \ {x}) \ {z}] \in Int
    BY <2>1, <2>2, SumsAgree, SMTT(30)
  <2> QED BY <2>3, <1>6, SMTT(30)
<1> DEFINE r == g[(s \ {x}) \ {z}]
<1>14. g[s] = f[x] + (f[z] + r)
  BY <1>6, <1>10, SMTT(30)
<1>15. f[z] + g[s \ {z}] = f[z] + (f[x] + r)
  BY <1>11, <1>12
<1>16. f[x] + (f[z] + r) = f[z] + (f[x] + r)
  BY <1>13, SMTT(30)
<1> QED
  BY <1>5, <1>14, <1>15, <1>16, SMTT(30)

\* SumFunctionOnSet is such a sum.
LEMMA SumIsSums ==
    ASSUME NEW f, NEW S, IsFiniteSet(S)
    PROVE  \E g : Sums(g, f, S) /\ SumFunctionOnSet(f, S) = g[S]
<1> DEFINE G == CHOOSE g : Sums(g, f, S)
<1>1. Sums(G, f, S)
  BY SumsExist, SMTT(30)
<1>2. SumFunctionOnSet(f, S) = G[S]
  BY SMTT(30) DEF SumFunctionOnSet, FoldFunctionOnSet, MapThenFoldSet, Sums, FirstOf
<1> QED
  BY <1>1, <1>2

\* Nothing sums to zero.
LEMMA SumEmpty == \A f : SumFunctionOnSet(f, {}) = 0
  BY FS_EmptySet, SumIsSums, SumsAt, SMTT(30)

\* Where two functions agree, their sums do.
LEMMA SumAgree ==
    ASSUME NEW f, NEW e, NEW S, IsFiniteSet(S),
           \A x \in S : f[x] = e[x] /\ f[x] \in Int
    PROVE  /\ SumFunctionOnSet(f, S) = SumFunctionOnSet(e, S)
           /\ SumFunctionOnSet(f, S) \in Int
<1>1. PICK g : Sums(g, f, S) /\ SumFunctionOnSet(f, S) = g[S]
  BY SumIsSums, SMTT(30)
<1>2. PICK h : Sums(h, e, S) /\ SumFunctionOnSet(e, S) = h[S]
  BY SumIsSums, SMTT(30)
<1> QED
  BY <1>1, <1>2, SumsAgree, SMTT(30)

\* One element can be taken out of a sum, whichever it is.
LEMMA SumOver ==
    ASSUME NEW f, NEW S, IsFiniteSet(S), \A x \in S : f[x] \in Int, NEW z \in S
    PROVE  /\ SumFunctionOnSet(f, S) = f[z] + SumFunctionOnSet(f, S \ {z})
           /\ SumFunctionOnSet(f, S \ {z}) \in Int
<1>1. PICK g : Sums(g, f, S) /\ SumFunctionOnSet(f, S) = g[S]
  BY SumIsSums, SMTT(30)
<1>2. IsFiniteSet(S \ {z})
  BY FS_RemoveElement, SMTT(30)
<1>3. PICK h : Sums(h, f, S \ {z}) /\ SumFunctionOnSet(f, S \ {z}) = h[S \ {z}]
  BY <1>2, SumIsSums, SMTT(30)
<1>4. g[S] = f[z] + g[S \ {z}]
  BY <1>1, SumsAny, SMTT(30)
<1>5. S \ {z} \in SUBSET (S \cap (S \ {z}))
  BY SMTT(30)
<1>6. g[S \ {z}] = h[S \ {z}] /\ g[S \ {z}] \in Int
  BY <1>1, <1>3, <1>5, SumsAgree, SMTT(30)
<1> QED
  BY <1>1, <1>3, <1>4, <1>6, SMTT(30)

\* A function that changes in one place changes its sum by the difference.
LEMMA SumChange ==
    ASSUME NEW S, IsFiniteSet(S), NEW f \in [S -> Int], NEW e \in [S -> Int],
           NEW z \in S, \A x \in S \ {z} : e[x] = f[x]
    PROVE  /\ SumFunction(e) = SumFunction(f) - f[z] + e[z]
           /\ SumFunction(f) \in Int
<1>1. /\ SumFunctionOnSet(f, S) = f[z] + SumFunctionOnSet(f, S \ {z})
      /\ SumFunctionOnSet(f, S \ {z}) \in Int
  BY SumOver
<1>2. SumFunctionOnSet(e, S) = e[z] + SumFunctionOnSet(e, S \ {z})
  BY SumOver, SMTT(30)
<1>3. SumFunctionOnSet(f, S \ {z}) = SumFunctionOnSet(e, S \ {z})
  <2>1. IsFiniteSet(S \ {z})
    BY FS_RemoveElement, SMTT(30)
  <2>2. \A x \in S \ {z} : f[x] = e[x] /\ f[x] \in Int
    BY SMTT(30)
  <2> QED BY <2>1, <2>2, SumAgree, SMTT(30)
<1>4. f[z] \in Int /\ e[z] \in Int
  BY SMTT(30)
<1>5. SumFunction(f) = SumFunctionOnSet(f, S) /\ SumFunction(e) = SumFunctionOnSet(e, S)
  BY SMTT(30) DEF SumFunction
<1> QED
  BY <1>1, <1>2, <1>3, <1>4, <1>5, SMTT(30)

\* A function with one more place has a sum larger by what is there.
LEMMA SumExtend ==
    ASSUME NEW S, IsFiniteSet(S), NEW z, z \notin S,
           NEW f \in [S -> Int], NEW e \in [S \cup {z} -> Int],
           \A x \in S : e[x] = f[x]
    PROVE  /\ SumFunction(e) = SumFunction(f) + e[z]
           /\ SumFunction(f) \in Int
<1> DEFINE T == S \cup {z}
<1>1. IsFiniteSet(T)
  BY FS_AddElement, SMTT(30)
<1>2. T \ {z} = S
  BY SMTT(30)
<1>3. /\ SumFunctionOnSet(e, T) = e[z] + SumFunctionOnSet(e, S)
      /\ SumFunctionOnSet(e, S) \in Int
  <2>1. \A x \in T : e[x] \in Int
    BY SMTT(30)
  <2>2. z \in T
    BY SMTT(30)
  <2> HIDE DEF T
  <2> QED BY <1>1, <1>2, <2>1, <2>2, SumOver, SMTT(30)
<1>4. SumFunctionOnSet(e, S) = SumFunctionOnSet(f, S)
  <2>1. \A x \in S : e[x] = f[x] /\ e[x] \in Int
    BY SMTT(30)
  <2> QED BY <2>1, SumAgree, SMTT(30)
<1>5. SumFunction(f) = SumFunctionOnSet(f, S) /\ SumFunction(e) = SumFunctionOnSet(e, T)
  BY SMTT(30) DEF SumFunction
<1>6. e[z] \in Int
  BY SMTT(30)
<1> HIDE DEF T
<1> QED
  BY <1>3, <1>4, <1>5, <1>6, SMTT(30)

\* A sum of zeros is zero.
LEMMA SumZero ==
    ASSUME NEW S, IsFiniteSet(S), NEW f \in [S -> Int], \A x \in S : f[x] = 0
    PROVE  SumFunction(f) = 0
<1> DEFINE h == [s \in SUBSET S |-> 0]
<1>1. Sums(h, f, S)
  <2>1. \A s \in SUBSET S : s # {} => f[FirstOf(s)] = 0 /\ s \ {FirstOf(s)} \in SUBSET S
    BY FirstIn, SMTT(30)
  <2>2. h = [s \in SUBSET S |-> IF s = {} THEN 0 ELSE f[FirstOf(s)] + h[s \ {FirstOf(s)}]]
    BY <2>1, SMTT(30)
  <2> QED BY <2>2, SMTT(30) DEF Sums
<1>2. h[S] = 0
  BY SMTT(30)
<1> HIDE DEF h
<1>3. PICK g : Sums(g, f, S) /\ SumFunctionOnSet(f, S) = g[S]
  BY SumIsSums, SMTT(30)
<1>4. g[S] = h[S]
  <2>1. S \in SUBSET (S \cap S) /\ \A x \in S : f[x] = f[x] /\ f[x] \in Int
    BY SMTT(30)
  <2> QED BY <1>1, <1>3, <2>1, SumsAgree, SMTT(30)
<1>5. DOMAIN f = S
  BY SMTT(30)
<1> QED
  BY <1>2, <1>3, <1>4, <1>5, SMTT(30) DEF SumFunction

=============================================================================
