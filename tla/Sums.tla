--------------------------------- MODULE Sums ---------------------------------
(***************************************************************************)
(* What the models rely on when they add up the rows of a table: facts     *)
(* about SumFunctionOnSet and SumFunction of the community modules, for    *)
(* functions with integer values on a finite set.  The induction theorems  *)
(* take the predicate as a parameter; here each induction is an argument   *)
(* about a smallest subset for which the claim fails.                      *)
(***************************************************************************)
EXTENDS Integers, Functions, FiniteSets, FiniteSetTheorems, WellFoundedInduction, TLAPS

\* A collection of subsets of a finite set has one that contains no other.
LEMMA SmallestSubset ==
    ASSUME NEW S, IsFiniteSet(S), NEW T, T \subseteq SUBSET S, T # {}
    PROVE  \E m \in T : \A u \in T : u \subseteq m => u = m
PROOF
<1>1. T \subseteq FiniteSubsetsOf(S)
      BY FS_Subset DEF FiniteSubsetsOf
<1>2. IsWellFoundedOn(StrictSubsetOrdering(S), FiniteSubsetsOf(S))
      BY FS_StrictSubsetOrderingWellFounded
<1>3. PICK m \in T : \A u \in T : <<u, m>> \notin StrictSubsetOrdering(S)
      BY <1>1, <1>2, WFMin
<1>4. ASSUME NEW u \in T, u \subseteq m, u # m
      PROVE  FALSE
  <2>1. <<u, m>> \in (SUBSET S) \X (SUBSET S)
        BY <1>1
  <2>2. <<u, m>> \in StrictSubsetOrdering(S)
        BY <1>4, <2>1 DEF StrictSubsetOrdering
  <2>   QED BY <1>3, <2>2
<1>   QED BY <1>3, <1>4

Pick(S) == CHOOSE x \in S : TRUE

LEMMA PickIn == \A S : S # {} => Pick(S) \in S
PROOF BY DEF Pick

\* the recursive function behind SumFunctionOnSet
IsSum(h, f, S) ==
    h = [s \in SUBSET S |-> IF s = {} THEN 0 ELSE f[Pick(s)] + h[s \ {Pick(s)}]]

LEMMA SumIsChosen == \A f, S : SumFunctionOnSet(f, S) = (CHOOSE h : IsSum(h, f, S))[S]
PROOF BY DEF SumFunctionOnSet, FoldFunctionOnSet, MapThenFoldSet, IsSum, Pick

LEMMA SumStep ==
    ASSUME NEW f, NEW S, NEW h, IsSum(h, f, S), NEW s \in SUBSET S
    PROVE  h[s] = IF s = {} THEN 0 ELSE f[Pick(s)] + h[s \ {Pick(s)}]
PROOF
<1> DEFINE e(t) == IF t = {} THEN 0 ELSE f[Pick(t)] + h[t \ {Pick(t)}]
<1>1. h = [t \in SUBSET S |-> e(t)]
      BY DEF IsSum
<1> HIDE DEF e
<1>2. h[s] = e(s)
      BY <1>1
<1>   QED BY <1>2 DEF e

\* Two such functions agree where both are defined.
LEMMA SumsAgree ==
    ASSUME NEW f, NEW A, NEW B, NEW h, NEW k, IsSum(h, f, A), IsSum(k, f, B),
           NEW C, IsFiniteSet(C), C \subseteq A, C \subseteq B
    PROVE  h[C] = k[C]
PROOF
<1> DEFINE T == {s \in SUBSET C : h[s] # k[s]}
<1> SUFFICES ASSUME T # {} PROVE FALSE
      OBVIOUS
<1>0. T \subseteq SUBSET C
      OBVIOUS
<1> HIDE DEF T
<1>1. PICK m \in T : \A u \in T : u \subseteq m => u = m
      BY <1>0, SmallestSubset
<1> USE DEF T
<1>2. m \in SUBSET A /\ m \in SUBSET B /\ h[m] # k[m]
      OBVIOUS
<1>3. m # {}
      BY <1>2, SumStep
<1>4. Pick(m) \in m
      BY <1>3, PickIn
<1>5. h[m \ {Pick(m)}] = k[m \ {Pick(m)}]
      BY <1>1, <1>4
<1> HIDE DEF T
<1>6. h[m] = f[Pick(m)] + h[m \ {Pick(m)}]
      BY <1>2, <1>3, SumStep
<1>7. k[m] = f[Pick(m)] + k[m \ {Pick(m)}]
      BY <1>2, <1>3, SumStep
<1>   QED BY <1>2, <1>5, <1>6, <1>7

LEMMA SumExists ==
    ASSUME NEW f, NEW S, IsFiniteSet(S)
    PROVE  \E h : IsSum(h, f, S)
PROOF
<1> DEFINE T == {s \in SUBSET S : ~ \E h : IsSum(h, f, s)}
<1> SUFFICES ASSUME T # {} PROVE FALSE
      OBVIOUS
<1>0. T \subseteq SUBSET S
      OBVIOUS
<1> HIDE DEF T
<1>1. PICK m \in T : \A u \in T : u \subseteq m => u = m
      BY <1>0, SmallestSubset
<1> USE DEF T
<1> DEFINE H(s) == CHOOSE h : IsSum(h, f, s)
           g == [s \in SUBSET m |->
                    IF s = {} THEN 0 ELSE f[Pick(s)] + H(s \ {Pick(s)})[s \ {Pick(s)}]]
<1>2. ASSUME NEW s \in SUBSET m, s # m
      PROVE  IsSum(H(s), f, s)
      BY <1>1, <1>2
<1>3. ASSUME NEW s \in SUBSET m, s # m
      PROVE  g[s] = H(s)[s]
  <2>1. H(s)[s] = IF s = {} THEN 0 ELSE f[Pick(s)] + H(s)[s \ {Pick(s)}]
        BY <1>2, <1>3, SumStep, s \in SUBSET s
  <2>2. CASE s = {}
        BY <2>1, <2>2
  <2>3. CASE s # {}
    <3> DEFINE t == s \ {Pick(s)}
    <3>1. Pick(s) \in s
          BY <2>3, PickIn
    <3>2. t \in SUBSET m /\ t # m /\ t \subseteq s /\ IsFiniteSet(t)
          BY <1>3, <3>1, FS_Subset, m \in SUBSET S
    <3>3. IsSum(H(t), f, t) /\ IsSum(H(s), f, s)
          BY <1>2, <1>3, <3>2
    <3>4. H(t)[t] = H(s)[t]
          BY <3>2, <3>3, SumsAgree
    <3>   QED BY <2>1, <2>3, <3>4
  <2>   QED BY <2>2, <2>3
<1>4. ASSUME NEW s \in SUBSET m, s # {}
      PROVE  H(s \ {Pick(s)})[s \ {Pick(s)}] = g[s \ {Pick(s)}]
  <2>1. Pick(s) \in s
        BY <1>4, PickIn
  <2>   QED BY <1>3, <2>1
<1>5. IsSum(g, f, m)
  <2> DEFINE e(s) == IF s = {} THEN 0 ELSE f[Pick(s)] + g[s \ {Pick(s)}]
  <2>1. ASSUME NEW s \in SUBSET m PROVE g[s] = e(s)
    <3>1. CASE s = {}
          BY <3>1
    <3>2. CASE s # {}
      <4>1. g[s] = f[Pick(s)] + H(s \ {Pick(s)})[s \ {Pick(s)}]
            BY <3>2
      <4>2. H(s \ {Pick(s)})[s \ {Pick(s)}] = g[s \ {Pick(s)}]
            BY <1>4, <3>2
      <4>3. e(s) = f[Pick(s)] + g[s \ {Pick(s)}]
            BY <3>2
      <4> HIDE DEF e, g, H
      <4>   QED BY <4>1, <4>2, <4>3
    <3>   QED BY <3>1, <3>2
  <2>2. g = [s \in SUBSET m |-> g[s]]
        OBVIOUS
  <2> HIDE DEF e, g
  <2>3. g = [s \in SUBSET m |-> e(s)]
        BY <2>1, <2>2
  <2>   QED BY <2>3 DEF e, IsSum
<1>   QED BY <1>1, <1>5

LEMMA SumUnfold ==
    ASSUME NEW f, NEW S, IsFiniteSet(S), S # {}
    PROVE  SumFunctionOnSet(f, S) = f[Pick(S)] + SumFunctionOnSet(f, S \ {Pick(S)})
PROOF
<1> DEFINE U == S \ {Pick(S)}
           h == CHOOSE h : IsSum(h, f, S)
           k == CHOOSE k : IsSum(k, f, U)
<1>1. IsFiniteSet(U) /\ U \subseteq S
      BY FS_Subset
<1>2. IsSum(h, f, S) /\ IsSum(k, f, U)
      BY <1>1, SumExists
<1>3. SumFunctionOnSet(f, S) = h[S] /\ SumFunctionOnSet(f, U) = k[U]
      BY SumIsChosen
<1> HIDE DEF h, k
<1>4. h[S] = f[Pick(S)] + h[U]
      BY <1>2, SumStep, S \in SUBSET S
<1> HIDE DEF U
<1>5. h[U] = k[U]
      BY <1>1, <1>2, SumsAgree
<1>   QED BY <1>3, <1>4, <1>5 DEF U

LEMMA SumEmpty == \A f : SumFunctionOnSet(f, {}) = 0
PROOF
<1> TAKE f
<1> DEFINE h == CHOOSE h : IsSum(h, f, {})
<1>1. IsSum(h, f, {})
      BY SumExists, FS_EmptySet
<1>2. SumFunctionOnSet(f, {}) = h[{}]
      BY SumIsChosen
<1> HIDE DEF h
<1>   QED BY <1>1, <1>2, SumStep, {} \in SUBSET {}

\* A sum of integers is an integer.
LEMMA SumInt ==
    ASSUME NEW f, NEW S, IsFiniteSet(S), \A x \in S : f[x] \in Int
    PROVE  SumFunctionOnSet(f, S) \in Int
PROOF
<1> DEFINE T == {s \in SUBSET S : SumFunctionOnSet(f, s) \notin Int}
<1> SUFFICES ASSUME T # {} PROVE FALSE
      OBVIOUS
<1>0. T \subseteq SUBSET S
      OBVIOUS
<1> HIDE DEF T
<1>1. PICK m \in T : \A u \in T : u \subseteq m => u = m
      BY <1>0, SmallestSubset
<1>2. m \in SUBSET S /\ SumFunctionOnSet(f, m) \notin Int
      BY DEF T
<1>3. m # {}
      BY <1>2, SumEmpty
<1>4. Pick(m) \in m
      BY <1>3, PickIn
<1>5. SumFunctionOnSet(f, m \ {Pick(m)}) \in Int
      BY <1>1, <1>2, <1>4 DEF T
<1>6. SumFunctionOnSet(f, m) = f[Pick(m)] + SumFunctionOnSet(f, m \ {Pick(m)})
      BY <1>2, <1>3, SumUnfold, FS_Subset
<1>   QED BY <1>2, <1>4, <1>5, <1>6

\* Any element may be taken out of the sum.
LEMMA SumTakeOut ==
    ASSUME NEW f, NEW S, IsFiniteSet(S), \A x \in S : f[x] \in Int, NEW x \in S
    PROVE  SumFunctionOnSet(f, S) = f[x] + SumFunctionOnSet(f, S \ {x})
PROOF
<1> DEFINE Sm(s) == SumFunctionOnSet(f, s)
           T == {s \in SUBSET S : \E y \in s : Sm(s) # f[y] + Sm(s \ {y})}
<1> SUFFICES ASSUME T # {} PROVE FALSE
      OBVIOUS
<1>0. T \subseteq SUBSET S
      OBVIOUS
<1> HIDE DEF T
<1>1. PICK m \in T : \A u \in T : u \subseteq m => u = m
      BY <1>0, SmallestSubset
<1>2. PICK y \in m : Sm(m) # f[y] + Sm(m \ {y})
      BY DEF T
<1> DEFINE p == Pick(m)
<1>3. m \in SUBSET S /\ p \in m /\ IsFiniteSet(m)
      BY PickIn, FS_Subset DEF T
<1>4. Sm(m) = f[p] + Sm(m \ {p})
      BY <1>2, <1>3, SumUnfold
<1>5. y # p
      BY <1>2, <1>4
<1>6. \A u \in SUBSET m : u # m => \A z \in u : Sm(u) = f[z] + Sm(u \ {z})
      BY <1>1, <1>3 DEF T
<1> HIDE DEF Sm, p
<1>7. Sm(m \ {p}) = f[y] + Sm((m \ {p}) \ {y})
      BY <1>2, <1>3, <1>5, <1>6
<1>8. Sm(m \ {y}) = f[p] + Sm((m \ {y}) \ {p})
      BY <1>2, <1>3, <1>5, <1>6
<1>9. (m \ {p}) \ {y} = (m \ {y}) \ {p}
      OBVIOUS
<1>10. Sm((m \ {y}) \ {p}) \in Int /\ f[y] \in Int /\ f[p] \in Int
  <2>1. (m \ {y}) \ {p} \in SUBSET S
        BY <1>3
  <2>   QED BY <1>2, <1>3, <2>1, SumInt, FS_Subset DEF Sm
<1>11. Sm(m \ {p}) = f[y] + Sm((m \ {y}) \ {p})
      BY <1>7, <1>9
<1>   QED BY <1>2, <1>4, <1>8, <1>10, <1>11

\* One element more.
LEMMA SumOneMore ==
    ASSUME NEW f, NEW S, IsFiniteSet(S), NEW x, x \notin S,
           \A y \in S \cup {x} : f[y] \in Int
    PROVE  SumFunctionOnSet(f, S \cup {x}) = f[x] + SumFunctionOnSet(f, S)
PROOF
<1>1. IsFiniteSet(S \cup {x}) /\ (S \cup {x}) \ {x} = S
      BY FS_AddElement
<1> DEFINE U == S \cup {x}
<1>2. x \in U /\ IsFiniteSet(U) /\ U \ {x} = S /\ \A y \in U : f[y] \in Int
      BY <1>1
<1> HIDE DEF U
<1>3. SumFunctionOnSet(f, U) = f[x] + SumFunctionOnSet(f, U \ {x})
      BY <1>2, SumTakeOut
<1>   QED BY <1>2, <1>3 DEF U

\* Only the values on the set count.
LEMMA SumSame ==
    ASSUME NEW f, NEW g, NEW S, IsFiniteSet(S), \A x \in S : f[x] = g[x]
    PROVE  SumFunctionOnSet(f, S) = SumFunctionOnSet(g, S)
PROOF
<1> DEFINE T == {s \in SUBSET S : SumFunctionOnSet(f, s) # SumFunctionOnSet(g, s)}
<1> SUFFICES ASSUME T # {} PROVE FALSE
      OBVIOUS
<1>0. T \subseteq SUBSET S
      OBVIOUS
<1> HIDE DEF T
<1>1. PICK m \in T : \A u \in T : u \subseteq m => u = m
      BY <1>0, SmallestSubset
<1>2. m \in SUBSET S /\ SumFunctionOnSet(f, m) # SumFunctionOnSet(g, m) /\ IsFiniteSet(m)
      BY FS_Subset DEF T
<1>3. m # {}
      BY <1>2, SumEmpty
<1>4. Pick(m) \in m
      BY <1>3, PickIn
<1>5. SumFunctionOnSet(f, m \ {Pick(m)}) = SumFunctionOnSet(g, m \ {Pick(m)})
      BY <1>1, <1>2, <1>4 DEF T
<1>6. SumFunctionOnSet(f, m) = f[Pick(m)] + SumFunctionOnSet(f, m \ {Pick(m)})
      BY <1>2, <1>3, SumUnfold
<1>7. SumFunctionOnSet(g, m) = g[Pick(m)] + SumFunctionOnSet(g, m \ {Pick(m)})
      BY <1>2, <1>3, SumUnfold
<1>   QED BY <1>2, <1>4, <1>5, <1>6, <1>7

\* One value changes.
LEMMA SumOneChanged ==
    ASSUME NEW f, NEW g, NEW S, IsFiniteSet(S), NEW x \in S,
           \A y \in S : f[y] \in Int /\ g[y] \in Int,
           \A y \in S \ {x} : g[y] = f[y]
    PROVE  SumFunctionOnSet(g, S) = SumFunctionOnSet(f, S) - f[x] + g[x]
PROOF
<1>1. IsFiniteSet(S \ {x})
      BY FS_RemoveElement
<1>2. SumFunctionOnSet(f, S) = f[x] + SumFunctionOnSet(f, S \ {x})
      BY SumTakeOut
<1>3. SumFunctionOnSet(g, S) = g[x] + SumFunctionOnSet(g, S \ {x})
      BY SumTakeOut
<1>4. SumFunctionOnSet(f, S \ {x}) = SumFunctionOnSet(g, S \ {x})
      BY <1>1, SumSame
<1>5. SumFunctionOnSet(f, S \ {x}) \in Int
      BY <1>1, SumInt
<1>6. f[x] \in Int /\ g[x] \in Int
      OBVIOUS
<1> DEFINE a == SumFunctionOnSet(f, S)
           b == SumFunctionOnSet(g, S)
           c == SumFunctionOnSet(f, S \ {x})
<1>7. a = f[x] + c /\ b = g[x] + c /\ c \in Int
      BY <1>2, <1>3, <1>4, <1>5
<1> HIDE DEF a, b, c
<1>8. b = a - f[x] + g[x]
      BY <1>6, <1>7
<1>   QED BY <1>8 DEF a, b

\* The sum of the sums.
LEMMA SumPlus ==
    ASSUME NEW f, NEW g, NEW h, NEW S, IsFiniteSet(S),
           \A x \in S : f[x] \in Int /\ g[x] \in Int /\ h[x] = f[x] + g[x]
    PROVE  SumFunctionOnSet(h, S) = SumFunctionOnSet(f, S) + SumFunctionOnSet(g, S)
PROOF
<1> DEFINE F(s) == SumFunctionOnSet(f, s)
           G(s) == SumFunctionOnSet(g, s)
           H(s) == SumFunctionOnSet(h, s)
           T == {s \in SUBSET S : H(s) # F(s) + G(s)}
<1> SUFFICES ASSUME T # {} PROVE FALSE
      OBVIOUS
<1>0. T \subseteq SUBSET S
      OBVIOUS
<1> HIDE DEF T
<1>1. PICK m \in T : \A u \in T : u \subseteq m => u = m
      BY <1>0, SmallestSubset
<1>2. m \in SUBSET S /\ H(m) # F(m) + G(m) /\ IsFiniteSet(m)
      BY FS_Subset DEF T
<1>3. m # {}
  <2>1. F({}) = 0 /\ G({}) = 0 /\ H({}) = 0
        BY SumEmpty
  <2>2. 0 = 0 + 0
        OBVIOUS
  <2>3. H({}) = F({}) + G({})
        BY <2>1, <2>2
  <2> HIDE DEF F, G, H
  <2>   QED BY <1>2, <2>3
<1> DEFINE p == Pick(m)
           r == m \ {p}
<1>4. p \in m /\ r \in SUBSET S /\ r # m /\ r \subseteq m
      BY <1>2, <1>3, PickIn
<1>5. H(m) = h[p] + H(r) /\ F(m) = f[p] + F(r) /\ G(m) = g[p] + G(r)
      BY <1>2, <1>3, SumUnfold
<1>6. IsFiniteSet(r)
      BY <1>4, FS_Subset
<1> HIDE DEF p, r
<1>7. H(r) = F(r) + G(r)
      BY <1>1, <1>4 DEF T
<1>8. F(r) \in Int /\ G(r) \in Int
      BY <1>4, <1>6, SumInt
<1>9. f[p] \in Int /\ g[p] \in Int /\ h[p] = f[p] + g[p]
      BY <1>2, <1>4
<1> HIDE DEF F, G, H
<1>   QED BY <1>2, <1>5, <1>7, <1>8, <1>9

\* A sum of values none of which is greater.
LEMMA SumMonotone ==
    ASSUME NEW f, NEW g, NEW S, IsFiniteSet(S),
           \A x \in S : f[x] \in Int /\ g[x] \in Int /\ f[x] <= g[x]
    PROVE  SumFunctionOnSet(f, S) <= SumFunctionOnSet(g, S)
PROOF
<1> DEFINE F(s) == SumFunctionOnSet(f, s)
           G(s) == SumFunctionOnSet(g, s)
           T == {s \in SUBSET S : ~(F(s) <= G(s))}
<1> SUFFICES ASSUME T # {} PROVE FALSE
      OBVIOUS
<1>0. T \subseteq SUBSET S
      OBVIOUS
<1> HIDE DEF T
<1>1. PICK m \in T : \A u \in T : u \subseteq m => u = m
      BY <1>0, SmallestSubset
<1>2. m \in SUBSET S /\ ~(F(m) <= G(m)) /\ IsFiniteSet(m)
      BY FS_Subset DEF T
<1>3. m # {}
      BY <1>2, SumEmpty
<1> DEFINE p == Pick(m)
           r == m \ {p}
<1>4. p \in m /\ r \in SUBSET S /\ r # m /\ r \subseteq m
      BY <1>2, <1>3, PickIn
<1>5. F(m) = f[p] + F(r) /\ G(m) = g[p] + G(r)
      BY <1>2, <1>3, SumUnfold
<1>6. IsFiniteSet(r)
      BY <1>4, FS_Subset
<1> HIDE DEF p, r
<1>7. F(r) <= G(r)
      BY <1>1, <1>4 DEF T
<1>8. F(r) \in Int /\ G(r) \in Int
      BY <1>4, <1>6, SumInt
<1>9. f[p] \in Int /\ g[p] \in Int /\ f[p] <= g[p]
      BY <1>2, <1>4
<1> HIDE DEF F, G
<1>   QED BY <1>2, <1>5, <1>7, <1>8, <1>9

\* A sum of zeroes.
LEMMA SumZero ==
    ASSUME NEW f, NEW S, IsFiniteSet(S), \A x \in S : f[x] = 0
    PROVE  SumFunctionOnSet(f, S) = 0
PROOF
<1> DEFINE g == [x \in S |-> 0]
<1>1. SumFunctionOnSet(f, S) = SumFunctionOnSet(g, S)
      BY SumSame
<1>2. SumFunctionOnSet(g, S) = SumFunctionOnSet(g, S) + SumFunctionOnSet(g, S)
      BY SumPlus
<1>3. SumFunctionOnSet(g, S) \in Int
      BY SumInt
<1> DEFINE a == SumFunctionOnSet(g, S)
<1>4. a \in Int /\ a = a + a
      BY <1>2, <1>3
<1> HIDE DEF a
<1>5. a = 0
      BY <1>4
<1>   QED BY <1>1, <1>5 DEF a

\* A sum of natural numbers is one, and each of them is at most the sum.
LEMMA SumNat ==
    ASSUME NEW f, NEW S, IsFiniteSet(S), \A x \in S : f[x] \in Nat
    PROVE  /\ SumFunctionOnSet(f, S) \in Nat
           /\ \A x \in S : f[x] <= SumFunctionOnSet(f, S)
PROOF
<1> DEFINE z == [x \in S |-> 0]
<1>1. \A s \in SUBSET S : SumFunctionOnSet(f, s) \in Nat
  <2> TAKE s \in SUBSET S
  <2>1. IsFiniteSet(s) /\ \A x \in s : z[x] \in Int /\ f[x] \in Int /\ z[x] <= f[x]
        BY FS_Subset
  <2>2. SumFunctionOnSet(z, s) = 0
        BY <2>1, SumZero
  <2> HIDE DEF z
  <2>3. SumFunctionOnSet(z, s) <= SumFunctionOnSet(f, s)
        BY <2>1, SumMonotone
  <2>4. SumFunctionOnSet(f, s) \in Int
        BY <2>1, SumInt
  <2>   QED BY <2>2, <2>3, <2>4
<1>2. ASSUME NEW x \in S
      PROVE  f[x] <= SumFunctionOnSet(f, S)
  <2>1. SumFunctionOnSet(f, S) = f[x] + SumFunctionOnSet(f, S \ {x})
        BY SumTakeOut
  <2>2. SumFunctionOnSet(f, S \ {x}) \in Nat
        BY <1>1
  <2>   QED BY <2>1, <2>2
<1>   QED BY <1>1, <1>2

\* What is zero may be left out.
LEMMA SumSubset ==
    ASSUME NEW f, NEW S, IsFiniteSet(S), NEW R \in SUBSET S,
           \A x \in S : f[x] \in Int, \A x \in S \ R : f[x] = 0
    PROVE  SumFunctionOnSet(f, S) = SumFunctionOnSet(f, R)
PROOF
<1> DEFINE F(s) == SumFunctionOnSet(f, s)
           T == {s \in SUBSET S : F(s) # F(s \cap R)}
<1> SUFFICES ASSUME T # {} PROVE FALSE
  <2>1. S \cap R = R
        OBVIOUS
  <2>   QED BY <2>1
<1>0. T \subseteq SUBSET S
      OBVIOUS
<1> HIDE DEF T
<1>1. PICK m \in T : \A u \in T : u \subseteq m => u = m
      BY <1>0, SmallestSubset
<1>2. m \in SUBSET S /\ F(m) # F(m \cap R) /\ IsFiniteSet(m)
      BY FS_Subset DEF T
<1>3. m # {}
  <2>1. {} \cap R = {}
        OBVIOUS
  <2>   QED BY <1>2, <2>1
<1> DEFINE p == Pick(m)
           r == m \ {p}
<1>4. p \in m /\ r \in SUBSET S /\ r # m /\ r \subseteq m
      BY <1>2, <1>3, PickIn
<1>5. F(m) = f[p] + F(r)
      BY <1>2, <1>3, SumUnfold
<1> HIDE DEF p
<1>6. F(r) = F(r \cap R)
      BY <1>1, <1>4 DEF T
<1>7. F(r) \in Int /\ f[p] \in Int
      BY <1>2, <1>4, SumInt, FS_Subset
<1>8. CASE p \in R
  <2>1. m \cap R = (r \cap R) \cup {p} /\ p \notin r \cap R
        BY <1>4, <1>8
  <2>2. IsFiniteSet(r \cap R) /\ \A y \in (r \cap R) \cup {p} : f[y] \in Int
        BY <1>2, <1>4, FS_Subset
  <2>3. F((r \cap R) \cup {p}) = f[p] + F(r \cap R)
        BY <2>1, <2>2, SumOneMore
  <2>   QED BY <1>2, <1>5, <1>6, <2>1, <2>3
<1>9. CASE p \notin R
  <2>1. m \cap R = r \cap R /\ f[p] = 0
        BY <1>2, <1>4, <1>9
  <2> HIDE DEF F, r
  <2>2. F(m) = F(r)
        BY <1>5, <1>7, <2>1
  <2>   QED BY <1>2, <1>6, <2>1, <2>2
<1>   QED BY <1>8, <1>9

\* The sum over two parts of a set.
LEMMA SumSplit ==
    ASSUME NEW f, NEW S, IsFiniteSet(S), NEW R \in SUBSET S, \A x \in S : f[x] \in Int
    PROVE  SumFunctionOnSet(f, S) = SumFunctionOnSet(f, R) + SumFunctionOnSet(f, S \ R)
PROOF
<1> DEFINE g == [x \in S |-> IF x \in R THEN f[x] ELSE 0]
           h == [x \in S |-> IF x \in R THEN 0 ELSE f[x]]
<1>0. IsFiniteSet(R) /\ IsFiniteSet(S \ R) /\ S \ R \in SUBSET S
      BY FS_Subset
<1>1. /\ \A x \in S : g[x] \in Int /\ h[x] \in Int /\ f[x] = g[x] + h[x]
      /\ \A x \in S \ R : g[x] = 0 /\ h[x] = f[x]
      /\ \A x \in R : h[x] = 0 /\ g[x] = f[x]
      OBVIOUS
<1> HIDE DEF g, h
<1>2. SumFunctionOnSet(f, S) = SumFunctionOnSet(g, S) + SumFunctionOnSet(h, S)
      BY <1>1, SumPlus
<1>3. SumFunctionOnSet(g, S) = SumFunctionOnSet(g, R)
      BY <1>1, SumSubset
<1>4. \A x \in S \ (S \ R) : h[x] = 0
      BY <1>1
<1>5. SumFunctionOnSet(h, S) = SumFunctionOnSet(h, S \ R)
      BY <1>0, <1>1, <1>4, SumSubset
<1>6. SumFunctionOnSet(g, R) = SumFunctionOnSet(f, R)
      BY <1>0, <1>1, SumSame
<1>7. SumFunctionOnSet(h, S \ R) = SumFunctionOnSet(f, S \ R)
      BY <1>0, <1>1, SumSame
<1>   QED BY <1>2, <1>3, <1>5, <1>6, <1>7

-------------------------------------------------------------------------------
(* The same of SumFunction, which adds up all that a function has           *)

LEMMA SumAllInt ==
    ASSUME NEW f, IsFiniteSet(DOMAIN f), \A x \in DOMAIN f : f[x] \in Int
    PROVE  SumFunction(f) \in Int
PROOF BY SumInt DEF SumFunction

LEMMA SumAllNat ==
    ASSUME NEW f, IsFiniteSet(DOMAIN f), \A x \in DOMAIN f : f[x] \in Nat
    PROVE  SumFunction(f) \in Nat /\ \A x \in DOMAIN f : f[x] <= SumFunction(f)
PROOF BY SumNat DEF SumFunction

LEMMA SumAllZero ==
    ASSUME NEW f, IsFiniteSet(DOMAIN f), \A x \in DOMAIN f : f[x] = 0
    PROVE  SumFunction(f) = 0
PROOF BY SumZero DEF SumFunction

LEMMA SumAllSame ==
    ASSUME NEW f, NEW g, IsFiniteSet(DOMAIN f), DOMAIN g = DOMAIN f,
           \A x \in DOMAIN f : g[x] = f[x]
    PROVE  SumFunction(g) = SumFunction(f)
PROOF BY SumSame DEF SumFunction

\* the value at x moves by d, and no other
LEMMA SumAllMoved ==
    ASSUME NEW f, NEW g, IsFiniteSet(DOMAIN f), DOMAIN g = DOMAIN f,
           \A y \in DOMAIN f : f[y] \in Int, NEW x \in DOMAIN f, NEW d \in Int,
           g[x] = f[x] + d, \A y \in DOMAIN f \ {x} : g[y] = f[y]
    PROVE  SumFunction(g) = SumFunction(f) + d
PROOF
<1>1. \A y \in DOMAIN f : f[y] \in Int /\ g[y] \in Int
      OBVIOUS
<1>2. SumFunctionOnSet(g, DOMAIN f) = SumFunctionOnSet(f, DOMAIN f) - f[x] + g[x]
      BY <1>1, SumOneChanged
<1>3. SumFunctionOnSet(f, DOMAIN f) \in Int
      BY <1>1, SumInt
<1>   QED BY <1>1, <1>2, <1>3 DEF SumFunction

\* a row more
LEMMA SumAllOneMore ==
    ASSUME NEW f, NEW g, IsFiniteSet(DOMAIN f), NEW x, x \notin DOMAIN f,
           DOMAIN g = DOMAIN f \cup {x}, \A y \in DOMAIN g : g[y] \in Int,
           \A y \in DOMAIN f : g[y] = f[y]
    PROVE  SumFunction(g) = SumFunction(f) + g[x]
PROOF
<1>1. SumFunctionOnSet(g, DOMAIN f \cup {x}) = g[x] + SumFunctionOnSet(g, DOMAIN f)
      BY SumOneMore
<1>2. SumFunctionOnSet(g, DOMAIN f) = SumFunctionOnSet(f, DOMAIN f)
      BY SumSame
<1>3. SumFunctionOnSet(f, DOMAIN f) \in Int
      BY SumInt
<1>   QED BY <1>1, <1>2, <1>3 DEF SumFunction

LEMMA SumAllPlus ==
    ASSUME NEW f, NEW g, NEW h, IsFiniteSet(DOMAIN f), DOMAIN g = DOMAIN f, DOMAIN h = DOMAIN f,
           \A x \in DOMAIN f : f[x] \in Int /\ g[x] \in Int /\ h[x] = f[x] + g[x]
    PROVE  SumFunction(h) = SumFunction(f) + SumFunction(g)
PROOF BY SumPlus DEF SumFunction

\* what is zero can be left out
LEMMA SumAllSubset ==
    ASSUME NEW f, IsFiniteSet(DOMAIN f), \A x \in DOMAIN f : f[x] \in Int,
           NEW R \in SUBSET DOMAIN f, \A x \in DOMAIN f \ R : f[x] = 0
    PROVE  SumFunction([x \in R |-> f[x]]) = SumFunction(f)
PROOF
<1> DEFINE g == [x \in R |-> f[x]]
<1>1. SumFunctionOnSet(f, DOMAIN f) = SumFunctionOnSet(f, R)
      BY SumSubset
<1>2. IsFiniteSet(R) /\ \A x \in R : g[x] = f[x]
      BY FS_Subset
<1>3. SumFunctionOnSet(g, R) = SumFunctionOnSet(f, R)
      BY <1>2, SumSame
<1>   QED BY <1>1, <1>3 DEF SumFunction

LEMMA SumAllSplit ==
    ASSUME NEW f, IsFiniteSet(DOMAIN f), \A x \in DOMAIN f : f[x] \in Int,
           NEW R \in SUBSET DOMAIN f
    PROVE  SumFunction(f) =
               SumFunction([x \in R |-> f[x]]) + SumFunction([x \in DOMAIN f \ R |-> f[x]])
PROOF
<1> DEFINE g == [x \in R |-> f[x]]
           Q == DOMAIN f \ R
           h == [x \in Q |-> f[x]]
<1>1. SumFunctionOnSet(f, DOMAIN f) = SumFunctionOnSet(f, R) + SumFunctionOnSet(f, Q)
      BY SumSplit
<1>2. IsFiniteSet(R) /\ IsFiniteSet(Q) /\ (\A x \in R : g[x] = f[x]) /\ \A x \in Q : h[x] = f[x]
      BY FS_Subset
<1> HIDE DEF Q
<1>3. SumFunctionOnSet(g, R) = SumFunctionOnSet(f, R)
      BY <1>2, SumSame
<1>4. SumFunctionOnSet(h, Q) = SumFunctionOnSet(f, Q)
      BY <1>2, SumSame
<1>   QED BY <1>1, <1>3, <1>4 DEF SumFunction, Q

LEMMA SumAllNegated ==
    ASSUME NEW f, NEW g, IsFiniteSet(DOMAIN f), DOMAIN g = DOMAIN f,
           \A x \in DOMAIN f : f[x] \in Int /\ g[x] = -f[x]
    PROVE  /\ SumFunction(f) \in Int /\ SumFunction(g) \in Int
           /\ SumFunction(f) + SumFunction(g) = 0
PROOF
<1> DEFINE z == [x \in DOMAIN f |-> 0]
<1>1. \A x \in DOMAIN f : f[x] \in Int /\ g[x] \in Int /\ z[x] = f[x] + g[x]
      OBVIOUS
<1>2. DOMAIN z = DOMAIN f /\ \A x \in DOMAIN z : z[x] = 0
      OBVIOUS
<1> HIDE DEF z
<1>3. SumFunction(z) = SumFunction(f) + SumFunction(g)
      BY <1>1, <1>2, SumAllPlus
<1>4. SumFunction(z) = 0
      BY <1>2, SumAllZero
<1>5. SumFunction(f) \in Int /\ SumFunction(g) \in Int
      BY <1>1, SumAllInt
<1>   QED BY <1>3, <1>4, <1>5

LEMMA SumOfSingle ==
    ASSUME NEW f, NEW a, f[a] \in Int
    PROVE  SumFunctionOnSet(f, {a}) = f[a] /\ IsFiniteSet({a})
PROOF
<1>1. SumFunctionOnSet(f, {} \cup {a}) = f[a] + SumFunctionOnSet(f, {})
      BY SumOneMore, FS_EmptySet
<1>2. {} \cup {a} = {a}
      OBVIOUS
<1>3. IsFiniteSet({a})
      BY FS_Singleton
<1>4. SumFunctionOnSet(f, {}) = 0
      BY SumEmpty
<1>   QED BY <1>1, <1>2, <1>3, <1>4

LEMMA SumOfOne ==
    ASSUME NEW f, NEW x, DOMAIN f = {x}, f[x] \in Int
    PROVE  SumFunction(f) = f[x]
PROOF BY SumOfSingle DEF SumFunction

ByColumns(m, A, S) == SumFunction([a \in A |-> SumFunction([s \in S |-> m[s][a]])])
ByLines(m, A, S) == SumFunction([s \in S |-> SumFunction([a \in A |-> m[s][a]])])

\* A table adds up by lines to what it adds up to by columns.
LEMMA SumSwap ==
    ASSUME NEW A, IsFiniteSet(A), NEW S, IsFiniteSet(S), NEW m,
           \A s \in S : \A a \in A : m[s][a] \in Int
    PROVE  ByColumns(m, A, S) = ByLines(m, A, S)
PROOF
<1> DEFINE Column(a) == [s \in S |-> m[s][a]]
           Line(s) == [a \in A |-> m[s][a]]
           H == [s \in S |-> SumFunction(Line(s))]
           G(u) == [a \in A |-> SumFunctionOnSet(Column(a), u)]
           T == {u \in SUBSET S : SumFunction(G(u)) # SumFunctionOnSet(H, u)}
<1>0. \A s \in S : SumFunction(Line(s)) \in Int /\ H[s] = SumFunction(Line(s))
  <2> TAKE s \in S
  <2>1. DOMAIN Line(s) = A /\ \A a \in A : Line(s)[a] \in Int
        OBVIOUS
  <2> HIDE DEF Line
  <2>2. SumFunction(Line(s)) \in Int
        BY <2>1, SumAllInt
  <2>   QED BY <2>2
<1>1. \A u \in SUBSET S : \A a \in A : G(u)[a] \in Int
  <2> SUFFICES ASSUME NEW u \in SUBSET S, NEW a \in A PROVE SumFunctionOnSet(Column(a), u) \in Int
        OBVIOUS
  <2>1. IsFiniteSet(u) /\ \A s \in u : Column(a)[s] \in Int
        BY FS_Subset
  <2> HIDE DEF Column
  <2>   QED BY <2>1, SumInt
<1>2. T = {}
  <2> SUFFICES ASSUME T # {} PROVE FALSE
        OBVIOUS
  <2>0. T \subseteq SUBSET S
        OBVIOUS
  <2> HIDE DEF T
  <2>1. PICK u \in T : \A v \in T : v \subseteq u => v = u
        BY <2>0, SmallestSubset
  <2>2. u \in SUBSET S /\ SumFunction(G(u)) # SumFunctionOnSet(H, u) /\ IsFiniteSet(u)
        BY FS_Subset DEF T
  <2>3. u # {}
    <3>1. ASSUME u = {} PROVE SumFunction(G(u)) = 0
      <4>1. DOMAIN G(u) = A /\ \A a \in A : G(u)[a] = 0
            BY <3>1, SumEmpty
      <4> HIDE DEF G
      <4>   QED BY <4>1, SumAllZero
    <3> HIDE DEF G, H
    <3>   QED BY <2>2, <3>1, SumEmpty
  <2> DEFINE p == Pick(u)
             r == u \ {p}
  <2>4. p \in u /\ p \in S /\ r \in SUBSET S /\ r # u /\ r \subseteq u /\ IsFiniteSet(r)
        BY <2>2, <2>3, PickIn, FS_Subset
  <2>5. SumFunction(G(r)) = SumFunctionOnSet(H, r)
        BY <2>1, <2>4 DEF T
  <2>6. SumFunctionOnSet(H, u) = H[p] + SumFunctionOnSet(H, r)
        BY <2>2, <2>3, SumUnfold
  <2>7. \A a \in A : G(u)[a] = Line(p)[a] + G(r)[a]
    <3> SUFFICES ASSUME NEW a \in A
                 PROVE  SumFunctionOnSet(Column(a), u) = m[p][a] + SumFunctionOnSet(Column(a), r)
          OBVIOUS
    <3>1. Column(a)[p] = m[p][a]
          BY <2>4
    <3> HIDE DEF Column
    <3>   QED BY <2>2, <2>3, <3>1, SumUnfold
  <2>8. DOMAIN Line(p) = A /\ DOMAIN G(r) = A /\ DOMAIN G(u) = A
        OBVIOUS
  <2>9. \A a \in A : Line(p)[a] \in Int /\ G(r)[a] \in Int
        BY <1>1, <2>4
  <2>10. SumFunctionOnSet(H, r) \in Int
    <3>1. \A s \in r : H[s] \in Int
          BY <1>0, <2>4
    <3>   QED BY <2>4, <3>1, SumInt
  <2>11. H[p] = SumFunction(Line(p)) /\ H[p] \in Int
        BY <1>0, <2>4
  <2> HIDE DEF G, H, Line, p, r
  <2>12. SumFunction(G(u)) = SumFunction(Line(p)) + SumFunction(G(r))
        BY <2>7, <2>8, <2>9, SumAllPlus
  <2>   QED BY <2>2, <2>5, <2>6, <2>10, <2>11, <2>12
<1>3. SumFunction(G(S)) = SumFunctionOnSet(H, S)
      BY <1>2
<1>4. \A a \in A : SumFunctionOnSet(Column(a), S) = SumFunction(Column(a))
      BY DEF SumFunction
<1>5. G(S) = [a \in A |-> SumFunction(Column(a))]
      BY <1>4
<1>6. SumFunctionOnSet(H, S) = SumFunction(H)
      BY DEF SumFunction
<1>7. ByColumns(m, A, S) = SumFunction(G(S))
      BY <1>5 DEF ByColumns
<1>   QED BY <1>3, <1>6, <1>7 DEF ByLines

SumsOfKeys(f, k, K) ==
    SumFunction([a \in K |-> SumFunction([x \in {y \in DOMAIN f : k[y] = a} |-> f[x]])])

\* Values added up for each key, and then over all the keys.
LEMMA SumByKey ==
    ASSUME NEW f, IsFiniteSet(DOMAIN f), \A x \in DOMAIN f : f[x] \in Int,
           NEW K, IsFiniteSet(K), NEW k, \A x \in DOMAIN f : k[x] \in K
    PROVE  SumsOfKeys(f, k, K) = SumFunction(f)
PROOF
<1> DEFINE S == DOMAIN f
           Part(a) == {y \in S : k[y] = a}
           m == [x \in S |-> [a \in K |-> IF k[x] = a THEN f[x] ELSE 0]]
           Column(a) == [x \in S |-> m[x][a]]
           Line(x) == [a \in K |-> m[x][a]]
<1>1. \A a \in K : SumFunction([x \in Part(a) |-> f[x]]) = SumFunction(Column(a))
  <2> TAKE a \in K
  <2>1. /\ DOMAIN Column(a) = S
        /\ \A x \in S : Column(a)[x] = IF k[x] = a THEN f[x] ELSE 0
        OBVIOUS
  <2> DEFINE R == Part(a)
  <2>2. /\ R \in SUBSET S /\ \A x \in R : Column(a)[x] = f[x]
        /\ \A x \in S \ R : Column(a)[x] = 0
        /\ \A x \in S : Column(a)[x] \in Int
        BY <2>1
  <2>3. [x \in R |-> f[x]] = [x \in R |-> Column(a)[x]]
        BY <2>2
  <2> HIDE DEF R, Column
  <2>4. SumFunction([x \in R |-> Column(a)[x]]) = SumFunction(Column(a))
        BY <2>1, <2>2, SumAllSubset
  <2>   QED BY <2>3, <2>4 DEF R
<1>2. \A x \in S : SumFunction(Line(x)) = f[x]
  <2> TAKE x \in S
  <2>1. /\ DOMAIN Line(x) = K /\ k[x] \in K
        /\ \A a \in K : Line(x)[a] = IF k[x] = a THEN f[x] ELSE 0
        OBVIOUS
  <2>2. /\ {k[x]} \in SUBSET K /\ Line(x)[k[x]] = f[x] /\ f[x] \in Int
        /\ \A a \in K \ {k[x]} : Line(x)[a] = 0
        /\ \A a \in K : Line(x)[a] \in Int
        BY <2>1
  <2> DEFINE g == [a \in {k[x]} |-> Line(x)[a]]
  <2>3. DOMAIN g = {k[x]} /\ g[k[x]] = f[x]
        BY <2>2
  <2> HIDE DEF Line
  <2>4. SumFunction(g) = SumFunction(Line(x))
        BY <2>1, <2>2, SumAllSubset
  <2> HIDE DEF g
  <2>5. SumFunction(g) = g[k[x]]
        BY <2>2, <2>3, SumOfOne
  <2>   QED BY <2>3, <2>4, <2>5
<1>3. \A x \in S : \A a \in K : m[x][a] \in Int
      OBVIOUS
<1>4. /\ [a \in K |-> SumFunction([x \in Part(a) |-> f[x]])] = [a \in K |-> SumFunction(Column(a))]
      /\ [x \in S |-> SumFunction(Line(x))] = [x \in S |-> f[x]]
      BY <1>1, <1>2
<1>5. SumFunction([x \in S |-> f[x]]) = SumFunction(f)
  <2> DEFINE g == [x \in S |-> f[x]]
  <2>1. DOMAIN g = DOMAIN f /\ \A x \in DOMAIN f : g[x] = f[x]
        OBVIOUS
  <2> HIDE DEF g
  <2>2. SumFunction(g) = SumFunction(f)
        BY <2>1, SumAllSame
  <2>   QED BY <2>2 DEF g
<1> HIDE DEF m, S
<1>6. IsFiniteSet(S)
      BY DEF S
<1>7. ByColumns(m, K, S) = ByLines(m, K, S)
      BY <1>3, <1>6, SumSwap
<1>8. /\ ByColumns(m, K, S) = SumFunction([a \in K |-> SumFunction(Column(a))])
      /\ ByLines(m, K, S) = SumFunction([x \in S |-> SumFunction(Line(x))])
      BY DEF ByColumns, ByLines
<1>   QED BY <1>4, <1>5, <1>7, <1>8 DEF S, SumsOfKeys

\* sums written out
LEMMA SumOfTwo ==
    ASSUME NEW f, NEW a, NEW b, b # a, f[a] \in Int, f[b] \in Int
    PROVE  SumFunctionOnSet(f, {a, b}) = f[a] + f[b] /\ IsFiniteSet({a, b})
PROOF
<1>1. b \notin {a} /\ \A y \in {a} \cup {b} : f[y] \in Int
      OBVIOUS
<1>2. SumFunctionOnSet(f, {a}) = f[a] /\ IsFiniteSet({a})
      BY SumOfSingle
<1>3. SumFunctionOnSet(f, {a} \cup {b}) = f[b] + SumFunctionOnSet(f, {a})
      BY <1>1, <1>2, SumOneMore
<1>4. IsFiniteSet({a} \cup {b})
      BY <1>2, FS_AddElement
<1>5. SumFunctionOnSet(f, {a} \cup {b}) = f[a] + f[b]
  <2>1. SumFunctionOnSet(f, {a} \cup {b}) = f[b] + f[a]
        BY <1>2, <1>3
  <2>   QED BY <2>1
<1>6. {a, b} = {a} \cup {b}
      OBVIOUS
<1>   QED BY <1>4, <1>5, <1>6

LEMMA SumOfThree ==
    ASSUME NEW f, NEW a, NEW b, NEW c, b # a, c \notin {a, b},
           f[a] \in Int, f[b] \in Int, f[c] \in Int
    PROVE  SumFunctionOnSet(f, {a, b, c}) = f[a] + f[b] + f[c]
PROOF
<1> DEFINE two == SumFunctionOnSet(f, {a, b})
           three == SumFunctionOnSet(f, {a, b} \cup {c})
<1>1. {a, b, c} = {a, b} \cup {c} /\ \A y \in {a, b} \cup {c} : f[y] \in Int
      OBVIOUS
<1>2. two = f[a] + f[b] /\ IsFiniteSet({a, b})
      BY SumOfTwo
<1>3. three = f[c] + two
      BY <1>1, <1>2, SumOneMore
<1> HIDE DEF two, three
<1>4. three = f[a] + f[b] + f[c]
      BY <1>2, <1>3
<1>   QED BY <1>1, <1>4 DEF three
\* Every value times c.
LEMMA SumAllTimes ==
    ASSUME NEW f, NEW g, IsFiniteSet(DOMAIN f), DOMAIN g = DOMAIN f, NEW c \in Int,
           \A x \in DOMAIN f : f[x] \in Int /\ g[x] = c * f[x]
    PROVE  SumFunction(g) = c * SumFunction(f)
PROOF
<1> DEFINE S == DOMAIN f
           F(s) == SumFunctionOnSet(f, s)
           G(s) == SumFunctionOnSet(g, s)
           T == {s \in SUBSET S : G(s) # c * F(s)}
<1>1. SUFFICES ASSUME T # {} PROVE FALSE
  <2>1. T = {} => G(S) = c * F(S)
        OBVIOUS
  <2>   QED BY <2>1 DEF SumFunction
<1>2. T \subseteq SUBSET S
      OBVIOUS
<1> HIDE DEF T
<1>3. PICK m \in T : \A u \in T : u \subseteq m => u = m
      BY <1>1, <1>2, SmallestSubset
<1>4. m \in SUBSET S /\ G(m) # c * F(m) /\ IsFiniteSet(m)
      BY FS_Subset DEF T
<1>5. m # {}
  <2>1. F({}) = 0 /\ G({}) = 0 /\ 0 = c * 0
        BY SumEmpty
  <2> HIDE DEF F, G
  <2>   QED BY <1>4, <2>1
<1> DEFINE p == Pick(m)
           r == m \ {p}
<1>6. p \in m /\ r \in SUBSET S /\ r # m /\ r \subseteq m
      BY <1>4, <1>5, PickIn
<1>7. F(m) = f[p] + F(r) /\ G(m) = g[p] + G(r)
      BY <1>4, <1>5, SumUnfold
<1>8. IsFiniteSet(r)
      BY <1>6, FS_Subset
<1> HIDE DEF p, r
<1>9. G(r) = c * F(r)
      BY <1>3, <1>6 DEF T
<1>10. F(r) \in Int /\ f[p] \in Int /\ g[p] = c * f[p]
      BY <1>4, <1>6, <1>8, SumInt
<1> HIDE DEF F, G
<1>11. \A a, b \in Int : c * (a + b) = c * a + c * b
      OBVIOUS
<1>   QED BY <1>4, <1>7, <1>9, <1>10, <1>11

\* A sum of values none of which is greater than c.
LEMMA SumAtMost ==
    ASSUME NEW f, NEW S, IsFiniteSet(S), NEW c \in Int,
           \A x \in S : f[x] \in Int /\ f[x] <= c
    PROVE  SumFunctionOnSet(f, S) <= c * Cardinality(S)
PROOF
<1> DEFINE F(s) == SumFunctionOnSet(f, s)
           C(s) == c * Cardinality(s)
           T == {s \in SUBSET S : ~(F(s) <= C(s))}
<1> SUFFICES ASSUME T # {} PROVE FALSE
      OBVIOUS
<1>1. T \subseteq SUBSET S
      OBVIOUS
<1> HIDE DEF T
<1>2. PICK m \in T : \A u \in T : u \subseteq m => u = m
      BY <1>1, SmallestSubset
<1>3. m \in SUBSET S /\ ~(F(m) <= C(m)) /\ IsFiniteSet(m)
      BY FS_Subset DEF T
<1>4. m # {}
  <2>1. F({}) = 0 /\ Cardinality({}) = 0
        BY SumEmpty, FS_EmptySet
  <2>2. C({}) = 0
        BY <2>1
  <2> HIDE DEF F, C
  <2>   QED BY <1>3, <2>1, <2>2
<1> DEFINE p == Pick(m)
           r == m \ {p}
<1>5. p \in m /\ r \in SUBSET S /\ r # m /\ r \subseteq m
      BY <1>3, <1>4, PickIn
<1>6. F(m) = f[p] + F(r)
      BY <1>3, <1>4, SumUnfold
<1>7. IsFiniteSet(r) /\ Cardinality(r) = Cardinality(m) - 1
      BY <1>3, <1>5, FS_RemoveElement
<1>8. Cardinality(m) \in Nat /\ Cardinality(r) \in Nat
      BY <1>3, <1>7, FS_CardinalityType
<1> HIDE DEF p, r
<1>9. F(r) <= C(r)
      BY <1>2, <1>5 DEF T
<1>10. F(r) \in Int /\ f[p] \in Int /\ f[p] <= c
      BY <1>3, <1>5, <1>7, SumInt
<1>11. \A n \in Int : c * n \in Int /\ c * (n - 1) = c * n - c
      OBVIOUS
<1>12. C(m) \in Int /\ C(r) = C(m) - c
      BY <1>7, <1>8, <1>11
<1> HIDE DEF F, C
<1>   QED BY <1>3, <1>6, <1>9, <1>10, <1>12

\* Values between -c and c, and zero outside R, add up to no more than c for each in R.
LEMMA SumAllWithin ==
    ASSUME NEW f, IsFiniteSet(DOMAIN f), NEW c \in Int, NEW R \in SUBSET DOMAIN f,
           \A x \in DOMAIN f : f[x] \in Int /\ f[x] <= c /\ -f[x] <= c,
           \A x \in DOMAIN f \ R : f[x] = 0
    PROVE  /\ SumFunction(f) \in Int
           /\ SumFunction(f) <= c * Cardinality(R) /\ -SumFunction(f) <= c * Cardinality(R)
PROOF
<1> DEFINE g == [x \in DOMAIN f |-> -f[x]]
<1>1. IsFiniteSet(R) /\ R \subseteq DOMAIN f
      BY FS_Subset
<1>2. \A x \in DOMAIN f : g[x] = -f[x] /\ g[x] \in Int
      OBVIOUS
<1>3. DOMAIN g = DOMAIN f /\ (\A x \in R : g[x] <= c) /\ \A x \in DOMAIN f \ R : g[x] = 0
      OBVIOUS
<1> HIDE DEF g
<1>4. SumFunctionOnSet(f, DOMAIN f) = SumFunctionOnSet(f, R)
      BY SumSubset
<1>5. SumFunctionOnSet(g, DOMAIN f) = SumFunctionOnSet(g, R)
      BY <1>2, <1>3, SumSubset
<1>6. SumFunctionOnSet(f, R) <= c * Cardinality(R)
      BY <1>1, SumAtMost
<1>7. SumFunctionOnSet(g, R) <= c * Cardinality(R)
      BY <1>1, <1>2, <1>3, SumAtMost
<1>8. /\ SumFunction(f) \in Int /\ SumFunction(g) \in Int
      /\ SumFunction(f) + SumFunction(g) = 0
      BY <1>2, <1>3, SumAllNegated
<1>9. SumFunction(f) <= c * Cardinality(R) /\ SumFunction(g) <= c * Cardinality(R)
      BY <1>3, <1>4, <1>5, <1>6, <1>7 DEF SumFunction
<1>10. SumFunction(g) = -SumFunction(f)
      BY <1>8
<1>   QED BY <1>8, <1>9, <1>10

\* Of some numbers that are finitely many one is the largest.
LEMMA LargestOf ==
    ASSUME NEW S, IsFiniteSet(S), S # {}, NEW f, \A x \in S : f[x] \in Nat
    PROVE  \E x \in S : \A y \in S : f[y] <= f[x]
PROOF
<1> DEFINE above(x) == {y \in S : f[x] < f[y]}
           T == {above(x) : x \in S}
<1>0. T \subseteq SUBSET S /\ T # {}
    OBVIOUS
<1> HIDE DEF T
<1>1. PICK m \in T : \A u \in T : u \subseteq m => u = m
    BY <1>0, SmallestSubset
<1> USE DEF T
<1>2. PICK x \in S : m = above(x)
    BY <1>1
<1>3. ASSUME NEW y \in S, f[x] < f[y] PROVE FALSE
  <2>1. above(y) \subseteq above(x)
      BY <1>3
  <2>2. above(y) = above(x)
      BY <1>1, <1>2, <2>1
  <2> QED BY <1>3, <2>2
<1> QED BY <1>3
===============================================================================
