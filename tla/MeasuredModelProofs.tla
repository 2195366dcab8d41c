------------------------- MODULE MeasuredModelProofs -------------------------
(***************************************************************************)
(* The measured model keeps what it promises for every set of variables,   *)
(* any requests and any limits.  No model is passed over even if the       *)
(* solver makes rounding errors; without them a model it returns has a     *)
(* measure, and false is answered only where there is none.                *)
(*                                                                         *)
(* The argument: the points are all valid evaluations, each once, numbered *)
(* by rank.  A subset of them, in all contacts that the negative atoms     *)
(* allow, is a model if its positive atoms hold and its points have a      *)
(* measure; it is hopeless if no part of it is a model.  The calls of      *)
(* generate_model that wait are about subsets that shrink strictly, so     *)
(* none of them is the one that is looked at; what has been processed is   *)
(* theirs or hopeless, and each of them is not a model itself and has      *)
(* taken out the points before the current one in vain.  Solutions of a    *)
(* system are measures of the points, as sums over numbers of points are   *)
(* sums over the points.                                                   *)
(***************************************************************************)
EXTENDS MeasuredModel, PointsProofs, FiniteSetsExt, FiniteSetTheorems, WellFoundedInduction,
        SequenceTheorems, TLAPS

-----------------------------------------------------------------------------
(* Sums of the values of a function over finite sets, as MapThenSumSet of  *)
(* FiniteSetsExt computes them, taking out one element after another.      *)
(* What is shown by induction over finite sets elsewhere is shown here by  *)
(* a smallest set for which it fails.                                      *)

Sum(w, P) == MapThenSumSet(LAMBDA i : w[i], P)

LEMMA SmallestSet ==
  ASSUME NEW S, IsFiniteSet(S), NEW B, B \subseteq SUBSET S, B # {}
  PROVE  \E U \in B : \A V \in B : V \subseteq U => V = U
<1>1. B \subseteq FiniteSubsetsOf(S)
  BY FS_Subset DEF FiniteSubsetsOf
<1>2. PICK U \in B : \A V \in B : ~(<<V, U>> \in StrictSubsetOrdering(S))
  BY <1>1, FS_StrictSubsetOrderingWellFounded, WFMin, Zenon
<1> QED  BY <1>1, <1>2 DEF StrictSubsetOrdering

-----------------------------------------------------------------------------
(* The sums are defined.                                                   *)

\* The element that is taken out of s.
Taken(s) == CHOOSE x \in s : TRUE

LEMMA TakenIsElement == \A s : s # {} => Taken(s) \in s
BY DEF Taken

Rest(s) == s \ {Taken(s)}

Step(w, P, f) ==
  [s \in SUBSET P |-> IF s = {} THEN 0 ELSE w[Taken(s)] + f[Rest(s)]]

AreSums(w, P, f) == f = Step(w, P, f)
Sums(w, P) == CHOOSE f : AreSums(w, P, f)

LEMMA SumIsLast ==
  ASSUME NEW w, NEW P
  PROVE  Sum(w, P) = Sums(w, P)[P]
BY DEF Sum, MapThenSumSet, MapThenFoldSet, Sums, AreSums, Step, Taken, Rest

LEMMA SumsOfSet ==
  ASSUME NEW w, NEW P, NEW f, AreSums(w, P, f)
  PROVE  /\ f[{}] = 0
         /\ \A s \in SUBSET P : s # {} => f[s] = w[Taken(s)] + f[Rest(s)]
<1>1. f = Step(w, P, f)
  BY DEF AreSums
<1>2. \A s \in SUBSET P : Step(w, P, f)[s] = IF s = {} THEN 0 ELSE w[Taken(s)] + f[Rest(s)]
  BY DEF Step
<1> QED  BY <1>1, <1>2

LEMMA SumsAgree ==
  ASSUME NEW w, NEW P, NEW f, AreSums(w, P, f), NEW Q, NEW g, AreSums(w, Q, g),
         NEW T, T \subseteq P, T \subseteq Q, IsFiniteSet(T)
  PROVE  f[T] = g[T]
<1> SUFFICES ASSUME f[T] # g[T] PROVE FALSE
  OBVIOUS
<1> DEFINE B == {s \in SUBSET T : f[s] # g[s]}
<1>1. PICK U \in B : \A V \in B : V \subseteq U => V = U
  <2>1. B \subseteq SUBSET T /\ B # {}
    OBVIOUS
  <2> HIDE DEF B
  <2> QED  BY <2>1, SmallestSet
<1>2. U \in SUBSET P /\ U \in SUBSET Q /\ U \in SUBSET T
  BY <1>1
<1>3. CASE U = {}
  <2>1. f[U] = g[U]
    BY <1>3, SumsOfSet
  <2> QED  BY <1>1, <2>1
<1>4. CASE U # {}
  <2> DEFINE V == Rest(U)
  <2>1. V \in SUBSET T /\ V \subseteq U /\ V # U
    BY <1>2, <1>4, TakenIsElement DEF Rest
  <2>2. f[V] = g[V]
    BY <1>1, <2>1
  <2>3. \A s \in SUBSET P : s # {} => f[s] = w[Taken(s)] + f[Rest(s)]
    BY SumsOfSet
  <2>4. \A s \in SUBSET Q : s # {} => g[s] = w[Taken(s)] + g[Rest(s)]
    BY SumsOfSet
  <2>5. f[U] = w[Taken(U)] + f[V] /\ g[U] = w[Taken(U)] + g[V]
    BY <1>2, <1>4, <2>3, <2>4
  <2> QED  BY <1>1, <2>2, <2>5
<1> QED  BY <1>3, <1>4

LEMMA SumsExist ==
  ASSUME NEW w, NEW P, IsFiniteSet(P)
  PROVE  AreSums(w, P, Sums(w, P))
<1> SUFFICES \E f : AreSums(w, P, f)
  BY DEF Sums
<1> SUFFICES ASSUME ~ \E f : AreSums(w, P, f) PROVE FALSE
  OBVIOUS
<1> DEFINE B == {s \in SUBSET P : ~ \E f : AreSums(w, s, f)}
<1>1. PICK U \in B : \A V \in B : V \subseteq U => V = U
  <2>1. B \subseteq SUBSET P /\ B # {}
    OBVIOUS
  <2> HIDE DEF B
  <2> QED  BY <2>1, SmallestSet
<1>2. IsFiniteSet(U) /\ U \subseteq P /\ ~ \E f : AreSums(w, U, f)
  BY <1>1, FS_Subset
<1> DEFINE G(s) == Sums(w, s)
<1>3. \A V \in SUBSET U : V # U => AreSums(w, V, G(V))
  <2> SUFFICES ASSUME NEW V \in SUBSET U, V # U PROVE AreSums(w, V, G(V))
    OBVIOUS
  <2>1. \E f : AreSums(w, V, f)
    BY <1>1, <1>2
  <2> QED  BY <2>1 DEF Sums
<1> HIDE DEF G
<1> DEFINE h == [s \in SUBSET U |-> IF s = {} THEN 0 ELSE w[Taken(s)] + G(Rest(s))[Rest(s)]]
<1>4. \A s \in SUBSET U : s # {} => Rest(s) \in SUBSET U /\ Rest(s) # U /\ IsFiniteSet(Rest(s))
  BY <1>2, TakenIsElement, FS_Subset DEF Rest
<1>5. \A V \in SUBSET U : V # U => h[V] = G(V)[V]
  <2> SUFFICES ASSUME NEW V \in SUBSET U, V # U PROVE h[V] = G(V)[V]
    OBVIOUS
  <2>1. AreSums(w, V, G(V))
    BY <1>3
  <2>2. CASE V = {}
    BY <2>1, <2>2, SumsOfSet
  <2>3. CASE V # {}
    <3>1. G(V)[V] = w[Taken(V)] + G(V)[Rest(V)]
      BY <2>1, <2>3, SumsOfSet
    <3>2. h[V] = w[Taken(V)] + G(Rest(V))[Rest(V)]
      BY <2>3
    <3>3. Rest(V) \in SUBSET U /\ Rest(V) # U /\ IsFiniteSet(Rest(V)) /\ Rest(V) \subseteq V
      BY <1>4, <2>3 DEF Rest
    <3>4. AreSums(w, Rest(V), G(Rest(V)))
      BY <1>3, <3>3
    <3> HIDE DEF h
    <3>5. G(V)[Rest(V)] = G(Rest(V))[Rest(V)]
      BY <2>1, <3>3, <3>4, SumsAgree
    <3> QED  BY <3>1, <3>2, <3>5
  <2> QED  BY <2>2, <2>3
<1>6. AreSums(w, U, h)
  <2>1. \A s \in SUBSET U : h[s] = IF s = {} THEN 0 ELSE w[Taken(s)] + h[Rest(s)]
    BY <1>4, <1>5
  <2>2. Step(w, U, h) = [s \in SUBSET U |-> IF s = {} THEN 0 ELSE w[Taken(s)] + h[Rest(s)]]
    BY DEF Step
  <2> QED  BY <2>1, <2>2 DEF AreSums
<1> QED  BY <1>2, <1>6

LEMMA SumOfTaken ==
  ASSUME NEW w, NEW P, IsFiniteSet(P)
  PROVE  Sum(w, P) = IF P = {} THEN 0 ELSE w[Taken(P)] + Sum(w, Rest(P))
<1>1. AreSums(w, P, Sums(w, P)) /\ Sum(w, P) = Sums(w, P)[P]
  BY SumsExist, SumIsLast
<1>2. CASE P = {}
  BY <1>1, <1>2, SumsOfSet
<1>3. CASE P # {}
  <2> DEFINE Q == Rest(P)
  <2>1. IsFiniteSet(Q) /\ Q \subseteq P
    BY FS_Subset DEF Rest
  <2>2. AreSums(w, Q, Sums(w, Q)) /\ Sum(w, Q) = Sums(w, Q)[Q]
    BY <2>1, SumsExist, SumIsLast
  <2>3. Sums(w, P)[P] = w[Taken(P)] + Sums(w, P)[Q]
    BY <1>1, <1>3, SumsOfSet
  <2> HIDE DEF Q
  <2>4. Sums(w, P)[Q] = Sums(w, Q)[Q]
    BY <1>1, <2>1, <2>2, SumsAgree
  <2>5. Sum(w, P) = w[Taken(P)] + Sum(w, Q)
    BY <1>1, <2>2, <2>3, <2>4
  <2> QED  BY <1>3, <2>5 DEF Q
<1> QED  BY <1>2, <1>3

-----------------------------------------------------------------------------
(* What sums of natural numbers are like.                                  *)

LEMMA SumOfNone == \A w : Sum(w, {}) = 0
BY SumOfTaken, FS_EmptySet

LEMMA SumIsNatural ==
  ASSUME NEW w, NEW P, IsFiniteSet(P), \A x \in P : w[x] \in Nat
  PROVE  Sum(w, P) \in Nat
<1> SUFFICES ASSUME Sum(w, P) \notin Nat PROVE FALSE
  OBVIOUS
<1> DEFINE B == {s \in SUBSET P : Sum(w, s) \notin Nat}
<1>1. PICK U \in B : \A V \in B : V \subseteq U => V = U
  <2>1. B \subseteq SUBSET P /\ B # {}
    OBVIOUS
  <2> HIDE DEF B
  <2> QED  BY <2>1, SmallestSet
<1>2. IsFiniteSet(U) /\ U \subseteq P /\ U # {}
  <2>1. U \in SUBSET P /\ Sum(w, U) \notin Nat
    BY <1>1
  <2>2. U # {}
    BY <2>1, SumOfNone
  <2> QED  BY <2>1, <2>2, FS_Subset
<1> DEFINE V == Rest(U)
<1>3. Taken(U) \in P /\ V \in SUBSET P /\ V \subseteq U /\ V # U
  BY <1>2, TakenIsElement DEF Rest
<1>4. Sum(w, V) \in Nat
  BY <1>1, <1>3
<1>5. Sum(w, U) = w[Taken(U)] + Sum(w, V)
  BY <1>2, SumOfTaken
<1> HIDE DEF V
<1> QED  BY <1>1, <1>3, <1>4, <1>5

\* It does not matter which element is taken out.
LEMMA SumWithout ==
  ASSUME NEW w, NEW P, IsFiniteSet(P), \A x \in P : w[x] \in Nat, NEW x \in P
  PROVE  Sum(w, P) = w[x] + Sum(w, P \ {x})
<1> DEFINE Holds(s, y) == Sum(w, s) = w[y] + Sum(w, s \ {y})
           B == {s \in SUBSET P : \E y \in s : ~Holds(s, y)}
<1> SUFFICES ASSUME B # {} PROVE FALSE
  OBVIOUS
<1>1. PICK U \in B : \A V \in B : V \subseteq U => V = U
  <2>1. B \subseteq SUBSET P
    OBVIOUS
  <2> HIDE DEF B
  <2> QED  BY <2>1, SmallestSet
<1>2. PICK y \in U : ~Holds(U, y)
  BY <1>1
<1> DEFINE c == Taken(U)
           V == U \ {c}
           W == U \ {y}
<1>3. U \subseteq P /\ IsFiniteSet(U) /\ c \in U
  BY <1>1, <1>2, FS_Subset, TakenIsElement
<1>4. Holds(U, c)
  BY <1>2, <1>3, SumOfTaken DEF Rest
<1>5. y # c
  BY <1>2, <1>4
<1> HIDE DEF c
<1>6. V \in SUBSET P /\ V \subseteq U /\ V # U /\ y \in V
  BY <1>3, <1>5
<1>7. W \in SUBSET P /\ W \subseteq U /\ W # U /\ c \in W
  BY <1>3, <1>5
<1>8. Holds(V, y) /\ Holds(W, c)
  BY <1>1, <1>6, <1>7
<1>9. V \ {y} = W \ {c} /\ IsFiniteSet(V \ {y}) /\ V \ {y} \subseteq P
  BY <1>3, FS_Subset
<1>10. Sum(w, V \ {y}) \in Nat /\ w[c] \in Nat /\ w[y] \in Nat
  BY <1>3, <1>9, SumIsNatural
<1>11. /\ Sum(w, U) = w[c] + Sum(w, V)
       /\ Sum(w, V) = w[y] + Sum(w, V \ {y})
       /\ Sum(w, W) = w[c] + Sum(w, V \ {y})
  BY <1>4, <1>8, <1>9
<1>12. Sum(w, U) = w[y] + Sum(w, W)
  <2> HIDE DEF V, W
  <2> QED  BY <1>10, <1>11
<1> QED  BY <1>2, <1>12

\* The elements may be renamed.
LEMMA SumRenamed ==
  ASSUME NEW w, NEW v, NEW P, IsFiniteSet(P), \A x \in P : w[x] \in Nat,
         NEW f, \A x \in P : v[f[x]] = w[x], \A x, y \in P : f[x] = f[y] => x = y,
         NEW Q, Q = {f[x] : x \in P}
  PROVE  Sum(v, Q) = Sum(w, P)
<1> DEFINE Image(s) == {f[x] : x \in s}
           B == {s \in SUBSET P : Sum(v, Image(s)) # Sum(w, s)}
<1> SUFFICES ASSUME B # {} PROVE FALSE
  <2>1. Q = Image(P)
    OBVIOUS
  <2> QED  BY <2>1
<1>1. PICK U \in B : \A V \in B : V \subseteq U => V = U
  <2>1. B \subseteq SUBSET P
    OBVIOUS
  <2> HIDE DEF B
  <2> QED  BY <2>1, SmallestSet
<1>2. U \subseteq P /\ IsFiniteSet(U) /\ Sum(v, Image(U)) # Sum(w, U)
  BY <1>1, FS_Subset
<1>3. U # {}
  <2>1. Image({}) = {}
    OBVIOUS
  <2> QED  BY <1>2, <2>1, SumOfNone
<1>4. PICK x \in U : TRUE
  BY <1>3
<1> DEFINE V == U \ {x}
<1>5. V \in SUBSET P /\ V \subseteq U /\ V # U
  BY <1>2, <1>4
<1>6. Sum(v, Image(V)) = Sum(w, V)
  BY <1>1, <1>5
<1>7. Image(V) = Image(U) \ {f[x]} /\ f[x] \in Image(U)
  BY <1>2, <1>4
<1>8. IsFiniteSet(Image(U))
  <2> DEFINE g == [y \in U |-> f[y]]
             I == Image(U)
  <2>1. g \in [U -> I] /\ \A t \in I : \E y \in U : g[y] = t
    OBVIOUS
  <2> HIDE DEF g, I
  <2>2. g \in Surjection(U, I)
    BY <2>1 DEF Surjection
  <2>3. IsFiniteSet(I)
    BY <1>2, <2>2, FS_Surjection
  <2> QED  BY <2>3 DEF I
<1>9. \A t \in Image(U) : v[t] \in Nat
  BY <1>2
<1>10. Sum(w, U) = w[x] + Sum(w, V)
  BY <1>2, <1>4, SumWithout
<1> HIDE DEF Image
<1>11. Sum(v, Image(U)) = v[f[x]] + Sum(v, Image(U) \ {f[x]})
  BY <1>7, <1>8, <1>9, SumWithout
<1>12. v[f[x]] = w[x]
  BY <1>2, <1>4
<1> HIDE DEF V
<1> QED  BY <1>2, <1>6, <1>7, <1>10, <1>11, <1>12

LEMMA SumIsSplit ==
  ASSUME NEW w, NEW P, IsFiniteSet(P), \A x \in P : w[x] \in Nat,
         NEW A, NEW Q, A = P \ Q, Q \subseteq P
  PROVE  Sum(w, P) = Sum(w, A) + Sum(w, Q)
<1> DEFINE B == {s \in SUBSET P : Sum(w, s) # Sum(w, s \ Q) + Sum(w, s \cap Q)}
<1> SUFFICES ASSUME B # {} PROVE FALSE
  <2>1. P \ Q = A /\ P \cap Q = Q
    OBVIOUS
  <2> QED  BY <2>1
<1>1. PICK U \in B : \A V \in B : V \subseteq U => V = U
  <2>1. B \subseteq SUBSET P
    OBVIOUS
  <2> HIDE DEF B
  <2> QED  BY <2>1, SmallestSet
<1>2. U \subseteq P /\ IsFiniteSet(U) /\ Sum(w, U) # Sum(w, U \ Q) + Sum(w, U \cap Q)
  BY <1>1, FS_Subset
<1>3. U # {}
  BY <1>2, SumOfNone
<1>4. PICK x \in U : TRUE
  BY <1>3
<1> DEFINE V == U \ {x}
<1>5. V \in SUBSET P /\ V \subseteq U /\ V # U
  BY <1>2, <1>4
<1>6. Sum(w, V) = Sum(w, V \ Q) + Sum(w, V \cap Q)
  BY <1>1, <1>5
<1>7. Sum(w, U) = w[x] + Sum(w, V) /\ w[x] \in Nat
  BY <1>2, <1>4, SumWithout
<1>8. /\ IsFiniteSet(U \ Q) /\ IsFiniteSet(U \cap Q) /\ IsFiniteSet(V \ Q) /\ IsFiniteSet(V \cap Q)
      /\ U \ Q \subseteq P /\ U \cap Q \subseteq P /\ V \ Q \subseteq P /\ V \cap Q \subseteq P
  BY <1>2, FS_Subset
<1>9. Sum(w, V \ Q) \in Nat /\ Sum(w, V \cap Q) \in Nat
  BY <1>8, SumIsNatural
<1>10. CASE x \in Q
  <2>1. V \ Q = U \ Q /\ V \cap Q = (U \cap Q) \ {x} /\ x \in U \cap Q
    BY <1>4, <1>10
  <2>2. Sum(w, U \cap Q) = w[x] + Sum(w, (U \cap Q) \ {x})
    BY <1>8, <2>1, SumWithout
  <2>3. Sum(w, V \ Q) = Sum(w, U \ Q)
    BY <2>1
  <2>4. Sum(w, U \cap Q) = w[x] + Sum(w, V \cap Q)
    BY <2>1, <2>2
  <2> HIDE DEF V
  <2> QED  BY <1>2, <1>6, <1>7, <1>9, <2>3, <2>4
<1>11. CASE x \notin Q
  <2>1. V \cap Q = U \cap Q /\ V \ Q = (U \ Q) \ {x} /\ x \in U \ Q
    BY <1>4, <1>11
  <2>2. Sum(w, U \ Q) = w[x] + Sum(w, (U \ Q) \ {x})
    BY <1>8, <2>1, SumWithout
  <2>3. Sum(w, V \cap Q) = Sum(w, U \cap Q)
    BY <2>1
  <2>4. Sum(w, U \ Q) = w[x] + Sum(w, V \ Q)
    BY <2>1, <2>2
  <2> HIDE DEF V
  <2> QED  BY <1>2, <1>6, <1>7, <1>9, <2>3, <2>4
<1> QED  BY <1>10, <1>11

\* What is in both sets does not change their difference.
LEMMA SumsCompared ==
  ASSUME NEW w, NEW P, NEW Q, IsFiniteSet(P), IsFiniteSet(Q),
         \A x \in P \cup Q : w[x] \in Nat
  PROVE  /\ Sum(w, P) \in Nat /\ Sum(w, Q) \in Nat
         /\ Sum(w, P \ Q) \in Nat /\ Sum(w, Q \ P) \in Nat
         /\ Sum(w, P) - Sum(w, Q) = Sum(w, P \ Q) - Sum(w, Q \ P)
<1> DEFINE A == P \ Q
           B == Q \ P
           C == P \cap Q
<1>1. A = P \ C /\ B = Q \ C /\ C \subseteq P /\ C \subseteq Q
  OBVIOUS
<1>2. IsFiniteSet(A) /\ IsFiniteSet(B) /\ IsFiniteSet(C)
  BY FS_Subset
<1>3. /\ \A x \in P : w[x] \in Nat
      /\ \A x \in Q : w[x] \in Nat
      /\ \A x \in A : w[x] \in Nat
      /\ \A x \in B : w[x] \in Nat
      /\ \A x \in C : w[x] \in Nat
  OBVIOUS
<1> HIDE DEF A, B, C
<1>4. /\ Sum(w, P) \in Nat /\ Sum(w, Q) \in Nat
      /\ Sum(w, A) \in Nat /\ Sum(w, B) \in Nat /\ Sum(w, C) \in Nat
  BY <1>2, <1>3, SumIsNatural
<1>5. Sum(w, P) = Sum(w, A) + Sum(w, C)
  BY <1>1, <1>3, SumIsSplit
<1>6. Sum(w, Q) = Sum(w, B) + Sum(w, C)
  BY <1>1, <1>3, SumIsSplit
<1> QED  BY <1>4, <1>5, <1>6 DEF A, B

USE VariableAssumption

-----------------------------------------------------------------------------
(* Elements in a row, by how many are before them.                         *)

IsOrder(S, Before) ==
  /\ IsFiniteSet(S) /\ Before \in [S -> SUBSET S]
  /\ \A e \in S : e \notin Before[e]
  /\ \A e, f \in S : f \in Before[e] => Before[f] \subseteq Before[e]
  /\ \A e, f \in S : e # f => e \in Before[f] \/ f \in Before[e]

LEMMA Ranks ==
  ASSUME NEW S, NEW Before, IsOrder(S, Before)
  PROVE  /\ Cardinality(S) \in Nat
         /\ \A e, f \in S : Cardinality(Before[e]) = Cardinality(Before[f]) => e = f
         /\ \A e \in S : Cardinality(Before[e]) + 1 \in 1..Cardinality(S)
         /\ \A k \in 1..Cardinality(S) : \E e \in S : Cardinality(Before[e]) = k - 1
<1>1. IsFiniteSet(S) /\ Cardinality(S) \in Nat
  BY FS_CardinalityType DEF IsOrder
<1>2. \A e \in S : /\ Before[e] \subseteq S /\ e \notin Before[e]
                   /\ IsFiniteSet(Before[e]) /\ Cardinality(Before[e]) \in Nat
  BY <1>1, FS_Subset, FS_CardinalityType DEF IsOrder
<1>3. \A e, f \in S : f \in Before[e] => Cardinality(Before[f]) < Cardinality(Before[e])
  <2> SUFFICES ASSUME NEW e \in S, NEW f \in S, f \in Before[e]
               PROVE  Cardinality(Before[f]) < Cardinality(Before[e])
    OBVIOUS
  <2>1. Before[f] \subseteq Before[e] /\ Before[f] # Before[e]
    BY <1>2 DEF IsOrder
  <2> QED  BY <1>2, <2>1, FS_Subset
<1>4. \A e, f \in S : Cardinality(Before[e]) = Cardinality(Before[f]) => e = f
  <2> SUFFICES ASSUME NEW e \in S, NEW f \in S, e # f
               PROVE  Cardinality(Before[e]) # Cardinality(Before[f])
    OBVIOUS
  <2>1. e \in Before[f] \/ f \in Before[e]
    BY DEF IsOrder
  <2> QED  BY <1>2, <1>3, <2>1
<1>5. \A e \in S : Cardinality(Before[e]) + 1 \in 1..Cardinality(S)
  <2> SUFFICES ASSUME NEW e \in S PROVE Cardinality(Before[e]) + 1 \in 1..Cardinality(S)
    OBVIOUS
  <2>1. Before[e] \subseteq S /\ Before[e] # S
    BY <1>2
  <2>2. Cardinality(Before[e]) < Cardinality(S)
    BY <1>1, <1>2, <2>1, FS_Subset
  <2> QED  BY <1>1, <1>2, <2>2
<1>6. \A k \in 1..Cardinality(S) : \E e \in S : Cardinality(Before[e]) = k - 1
  <2> DEFINE T == 1..Cardinality(S)
             rank == [e \in S |-> Cardinality(Before[e]) + 1]
  <2>1. IsFiniteSet(T) /\ Cardinality(T) = Cardinality(S)
    BY <1>1, FS_Interval
  <2>2. rank \in [S -> T]
    BY <1>5
  <2>3. \A e, f \in S : rank[e] = rank[f] => e = f
    BY <1>2, <1>4
  <2>4. rank \in Injection(S, T)
    BY <2>2, <2>3 DEF Injection, IsInjective
  <2>5. rank \in Surjection(S, T)
    <3> HIDE DEF rank, T
    <3> QED  BY <1>1, <2>1, <2>4, FS_Injection
  <2>6. \A k \in T : \E e \in S : rank[e] = k
    BY <2>5 DEF Surjection
  <2> QED  BY <1>2, <2>6
<1> QED  BY <1>1, <1>4, <1>5, <1>6

\* The elements of S are in s by their ranks.
IsRanked(S, Before, s) ==
  /\ s = [k \in 1..Cardinality(S) |-> s[k]]
  /\ \A k \in 1..Cardinality(S) : (\E e \in S : Cardinality(Before[e]) = k - 1)
       => s[k] \in S /\ Cardinality(Before[s[k]]) = k - 1

\* Each is there once.
LEMMA InOrder ==
  ASSUME NEW S, NEW Before, IsOrder(S, Before),
         NEW s, IsRanked(S, Before, s)
  PROVE  /\ s \in Seq(S) /\ Len(s) = Cardinality(S) /\ Cardinality(S) \in Nat
         /\ \A i, j \in 1..Len(s) : s[i] = s[j] => i = j
         /\ \A e \in S : \E i \in 1..Len(s) : s[i] = e
<1>1. \A k \in 1..Cardinality(S) : s[k] \in S /\ Cardinality(Before[s[k]]) = k - 1
  BY Ranks DEF IsRanked
<1>2. Cardinality(S) \in Nat
  BY Ranks
<1>3. s \in Seq(S) /\ Len(s) = Cardinality(S)
  <2>1. s \in [1..Cardinality(S) -> S]
    BY <1>1 DEF IsRanked
  <2> QED  BY <1>2, <2>1
<1>4. \A i, j \in 1..Len(s) : s[i] = s[j] => i = j
  BY <1>1, <1>2, <1>3
<1>5. ASSUME NEW e \in S PROVE \E i \in 1..Len(s) : s[i] = e
  <2> DEFINE k == Cardinality(Before[e]) + 1
  <2>1. k \in 1..Cardinality(S) /\ Cardinality(Before[e]) \in Nat
    BY Ranks, FS_Subset, FS_CardinalityType DEF IsOrder
  <2>2. s[k] \in S /\ Cardinality(Before[s[k]]) = Cardinality(Before[e])
    BY <1>1, <2>1
  <2>3. s[k] = e
    BY <2>2, Ranks
  <2> QED  BY <1>3, <2>1, <2>3
<1> QED  BY <1>2, <1>3, <1>4, <1>5

LEMMA PrecedesIsLess ==
  \A e, f \in SUBSET Variable : Precedes(e, f) <=> Less(e, f, Variable)
BY DEF Precedes, Less

LEMMA LessIsTotal ==
  ASSUME NEW e \in SUBSET Variable, NEW f \in SUBSET Variable, e # f
  PROVE  Less(e, f, Variable) \/ Less(f, e, Variable)
<1> DEFINE D == (e \ f) \cup (f \ e)
<1>1. D # {} /\ D \subseteq Nat
  BY DEF VariableAssumption
<1> HIDE DEF D
<1>2. PICK m \in D : \A n \in D : m <= n
  BY <1>1, LeastElement
<1>3. \A p \in Variable : p < m => p \notin D
  BY <1>1, <1>2
<1> QED  BY <1>2, <1>3 DEF Less, D

\* The points that the negative atoms of r allow.
ValidOf(r) == {e \in SUBSET r.used_variables : IsValidPoint(r, e)}

\* construct_all_valid_points finds each of them once.
LEMMA AllValidPointsAreAll ==
  ASSUME NEW r \in Request
  PROVE  AllValid(r, AllValidPoints(r))
<1> DEFINE S == ValidOf(r)
           Before == [e \in S |-> {f \in S : Precedes(f, e)}]
           s == AllValidPoints(r)
<1>1. S \subseteq SUBSET Variable /\ IsFiniteSet(S)
  <2>1. S \subseteq SUBSET r.used_variables /\ IsFiniteSet(SUBSET r.used_variables)
    BY UsedIsFinite, FS_SUBSET DEF ValidOf
  <2> QED  BY <2>1, UsedIsFinite, FS_Subset
<1>2. IsOrder(S, Before)
  <2>1. \A e, f \in S : f \in Before[e] <=> Less(f, e, Variable)
    BY <1>1, PrecedesIsLess
  <2>2. Before \in [S -> SUBSET S]
    OBVIOUS
  <2> HIDE DEF S, Before
  <2>3. \A e \in S : e \notin Before[e]
    BY <2>1, NotBeforeItself
  <2>4. ASSUME NEW e \in S, NEW f \in S, f \in Before[e] PROVE Before[f] \subseteq Before[e]
    <3> SUFFICES ASSUME NEW g \in Before[f] PROVE g \in Before[e]
      OBVIOUS
    <3>1. g \in S
      BY <2>2
    <3>2. Less(g, f, Variable) /\ Less(f, e, Variable)
      BY <2>1, <2>4, <3>1
    <3>3. Less(g, e, Variable)
      BY <3>2, LessIsTransitive DEF VariableAssumption
    <3> QED  BY <2>1, <3>1, <3>3
  <2>5. ASSUME NEW e \in S, NEW f \in S, e # f PROVE e \in Before[f] \/ f \in Before[e]
    BY <1>1, <2>1, <2>5, LessIsTotal
  <2> QED  BY <1>1, <2>2, <2>3, <2>4, <2>5 DEF IsOrder
<1>3. s = [k \in 1..Cardinality(S) |->
             CHOOSE e \in S : Cardinality({f \in S : Precedes(f, e)}) = k - 1]
  BY DEF AllValidPoints, ValidOf
<1>4. \A k \in 1..Cardinality(S) : (\E e \in S : Cardinality(Before[e]) = k - 1)
        => s[k] \in S /\ Cardinality(Before[s[k]]) = k - 1
  <2> SUFFICES ASSUME NEW k \in 1..Cardinality(S), \E e \in S : Cardinality(Before[e]) = k - 1
               PROVE  s[k] \in S /\ Cardinality(Before[s[k]]) = k - 1
    OBVIOUS
  <2>1. \A e \in S : Before[e] = {f \in S : Precedes(f, e)}
    OBVIOUS
  <2>2. s[k] = CHOOSE e \in S : Cardinality({f \in S : Precedes(f, e)}) = k - 1
    BY <1>3
  <2>3. \E e \in S : Cardinality({f \in S : Precedes(f, e)}) = k - 1
    BY <2>1
  <2>4. s[k] \in S /\ Cardinality({f \in S : Precedes(f, s[k])}) = k - 1
    BY <2>2, <2>3
  <2> QED  BY <2>1, <2>4
<1>5. IsRanked(S, Before, s)
  <2>1. s = [k \in 1..Cardinality(S) |-> s[k]]
    BY <1>3
  <2> HIDE DEF S, Before, s
  <2> QED  BY <1>4, <2>1 DEF IsRanked
<1> HIDE DEF S, Before, s
<1>6. /\ s \in Seq(S)
      /\ \A i, j \in 1..Len(s) : s[i] = s[j] => i = j
      /\ \A e \in S : \E i \in 1..Len(s) : s[i] = e
  BY <1>2, <1>5, InOrder
<1>7. S = {e \in SUBSET r.used_variables : IsValidPoint(r, e)}
  BY DEF S, ValidOf
<1>8. AllValid(r, s)
  BY <1>6, <1>7 DEF AllValid, GoodPoints, Has
<1> QED  BY <1>8 DEF s

-----------------------------------------------------------------------------
(* The points of a subset, and those of the model made of it.              *)

\* The points numbered by P.
Image(points, P) == {points[i] : i \in P}

\* get_points_from_subset takes each of them once.
LEMMA SubsetIsNumbered ==
  ASSUME NEW r, GoodPoints(r, all_valid_points),
         NEW P, P \subseteq 1..Len(all_valid_points), P # {},
         NEW points, points = PointsFromSubset(P)
  PROVE  GoodPoints(r, points) /\ points # <<>> /\ PointsOfModel(points) = Image(all_valid_points, P)
<1> DEFINE Before == [i \in P |-> {j \in P : j < i}]
           Nth(k) == CHOOSE i \in P : Cardinality({j \in P : j < i}) = k - 1
           s == [k \in 1..Cardinality(P) |-> Nth(k)]
<1>0. Len(all_valid_points) \in Nat
  BY DEF GoodPoints
<1>1. IsFiniteSet(P) /\ P \subseteq Nat
  <2>1. P \subseteq Nat
    OBVIOUS
  <2> QED  BY <1>0, <2>1, FinitePart
<1>2. IsOrder(P, Before)
  <2>1. \A i, j \in P : j \in Before[i] <=> j < i
    OBVIOUS
  <2>2. Before \in [P -> SUBSET P]
    OBVIOUS
  <2> HIDE DEF Before
  <2>3. \A i \in P : i \notin Before[i]
    BY <1>1, <2>1
  <2>4. ASSUME NEW i \in P, NEW j \in P, j \in Before[i] PROVE Before[j] \subseteq Before[i]
    <3> SUFFICES ASSUME NEW k \in Before[j] PROVE k \in Before[i]
      OBVIOUS
    <3>1. k \in P
      BY <2>2
    <3>2. k < j /\ j < i
      BY <2>1, <2>4, <3>1
    <3> QED  BY <1>1, <2>1, <3>1, <3>2
  <2>5. ASSUME NEW i \in P, NEW j \in P, i # j PROVE i \in Before[j] \/ j \in Before[i]
    BY <1>1, <2>1, <2>5
  <2> QED  BY <1>1, <2>2, <2>3, <2>4, <2>5 DEF IsOrder
<1>3. \A k \in 1..Cardinality(P) : (\E i \in P : Cardinality(Before[i]) = k - 1)
        => s[k] \in P /\ Cardinality(Before[s[k]]) = k - 1
  <2> SUFFICES ASSUME NEW k \in 1..Cardinality(P), \E i \in P : Cardinality(Before[i]) = k - 1
               PROVE  s[k] \in P /\ Cardinality(Before[s[k]]) = k - 1
    OBVIOUS
  <2>1. \A i \in P : Before[i] = {j \in P : j < i}
    OBVIOUS
  <2>2. s[k] = CHOOSE i \in P : Cardinality({j \in P : j < i}) = k - 1
    OBVIOUS
  <2>3. \E i \in P : Cardinality({j \in P : j < i}) = k - 1
    BY <2>1
  <2>4. s[k] \in P /\ Cardinality({j \in P : j < s[k]}) = k - 1
    BY <2>2, <2>3
  <2> QED  BY <2>1, <2>4
<1>4. IsRanked(P, Before, s)
  <2> HIDE DEF Nth, Before
  <2>1. s = [k \in 1..Cardinality(P) |-> s[k]]
    OBVIOUS
  <2> HIDE DEF s
  <2> QED  BY <1>3, <2>1 DEF IsRanked
<1>5. points = [k \in 1..Cardinality(P) |-> all_valid_points[s[k]]]
  BY DEF PointsFromSubset
<1> HIDE DEF Before, s
<1>6. /\ s \in Seq(P)
      /\ \A i, j \in 1..Len(s) : s[i] = s[j] => i = j
      /\ \A i \in P : \E k \in 1..Len(s) : s[k] = i
  BY <1>2, <1>4, InOrder
<1>7. Len(s) = Cardinality(P) /\ Cardinality(P) \in Nat
  BY <1>2, <1>4, InOrder
<1>8. \A k \in 1..Len(s) : s[k] \in P
  BY <1>6
<1>9. \A k \in 1..Len(s) : points[k] = all_valid_points[s[k]] /\ s[k] \in 1..Len(all_valid_points)
  BY <1>5, <1>7, <1>8
<1>10. points \in Seq(SUBSET r.used_variables) /\ Len(points) = Len(s)
  <2>1. \A k \in 1..Cardinality(P) : all_valid_points[s[k]] \in SUBSET r.used_variables
    BY <1>7, <1>9 DEF GoodPoints
  <2>2. points \in [1..Cardinality(P) -> SUBSET r.used_variables]
    BY <1>5, <2>1
  <2> QED  BY <1>7, <2>2
<1>11. GoodPoints(r, points) /\ points # <<>>
  <2>1. \A i, j \in 1..Len(points) : points[i] = points[j] => i = j
    BY <1>6, <1>9, <1>10 DEF GoodPoints
  <2>2. \A i \in 1..Len(points) : IsValidPoint(r, points[i])
    BY <1>9, <1>10 DEF GoodPoints
  <2>3. Len(points) # 0
    <3>1. PICK i \in P : TRUE
      OBVIOUS
    <3>2. PICK k \in 1..Len(s) : s[k] = i
      BY <1>6
    <3> QED  BY <1>7, <1>10, <3>2
  <2> QED  BY <1>10, <2>1, <2>2, <2>3 DEF GoodPoints
<1>12. PointsOfModel(points) = Image(all_valid_points, P)
  <2>1. ASSUME NEW e \in PointsOfModel(points) PROVE e \in Image(all_valid_points, P)
    <3>1. PICK k \in 1..Len(points) : e = points[k]
      BY DEF PointsOfModel
    <3>2. s[k] \in P /\ e = all_valid_points[s[k]]
      BY <1>8, <1>9, <1>10, <3>1
    <3> QED  BY <3>2 DEF Image
  <2>2. ASSUME NEW e \in Image(all_valid_points, P) PROVE e \in PointsOfModel(points)
    <3>1. PICK i \in P : e = all_valid_points[i]
      BY DEF Image
    <3>2. PICK k \in 1..Len(s) : s[k] = i
      BY <1>6
    <3>3. k \in 1..Len(points) /\ e = points[k]
      BY <1>9, <1>10, <3>1, <3>2
    <3> QED  BY <3>3 DEF PointsOfModel
  <2> QED  BY <2>1, <2>2
<1> QED  BY <1>11, <1>12

-----------------------------------------------------------------------------
(* Measures and solutions.                                                 *)

Where(points, P, t) == {i \in P : points[i] \in t}

\* The rows of a system over the points numbered by P.
RowsOver(r, points, P) ==
  LET Rows(atoms, op) ==
        {Inequality(Where(points, P, m[1]), Where(points, P, m[2]), op) : m \in atoms}
  IN Rows(r.measured_less_eq_T, "LE") \cup Rows(r.measured_less_eq_F, "G")

IsSystemOver(r, points, P, system) == system.rows = RowsOver(r, points, P)

LEMMA SystemOfSubsetIs ==
  ASSUME all_valid_points \in Seq(SUBSET Variable), NEW P, P \subseteq 1..Len(all_valid_points)
  PROVE  /\ IsSystemOver(request, all_valid_points, P, SystemOfSubset(P))
         /\ SystemOfSubset(P).variables = 1..Len(all_valid_points)
<1>1. \A t : RestrictedTo(P, t) = Where(all_valid_points, P, t)
  BY EvaluateIsPointwise DEF RestrictedTo, PointsIn, Where
<1>2. DOMAIN all_valid_points = 1..Len(all_valid_points)
  OBVIOUS
<1> QED  BY <1>1, <1>2 DEF SystemOfSubset, SystemOver, IsSystemOver, RowsOver

LEMMA SystemOfModelIs ==
  ASSUME NEW points \in Seq(SUBSET Variable)
  PROVE  /\ IsSystemOver(request, points, 1..Len(points), SystemOfModel(points))
         /\ SystemOfModel(points).variables = 1..Len(points)
<1>1. \A t : PointsIn(t, points) = Where(points, 1..Len(points), t)
  BY EvaluateIsPointwise DEF PointsIn, Where
<1>2. DOMAIN points = 1..Len(points)
  OBVIOUS
<1> QED  BY <1>1, <1>2 DEF SystemOfModel, SystemOver, IsSystemOver, RowsOver

LEMMA WeightIsSum == \A w, P : WeightOf(P, w) = Sum(w, P)
BY DEF WeightOf, Sum

Within(E, t) == E \cap t

\* w is a weight of the points numbered by P, v of the points themselves.
Agree(w, v, points, P) ==
  /\ IsFiniteSet(P)
  /\ \A i, j \in P : points[i] = points[j] => i = j
  /\ \A i \in P : w[i] \in Nat /\ v[points[i]] = w[i]

LEMMA WeightsAgree ==
  ASSUME NEW points, NEW P, NEW w, NEW v, Agree(w, v, points, P), NEW t
  PROVE  /\ IsFiniteSet(Where(points, P, t)) /\ Where(points, P, t) \subseteq P
         /\ Sum(w, Where(points, P, t)) \in Nat
         /\ Sum(v, Within(Image(points, P), t)) = Sum(w, Where(points, P, t))
<1> DEFINE A == Where(points, P, t)
           Q == Within(Image(points, P), t)
<1>1. A \subseteq P /\ IsFiniteSet(A)
  <2>1. A \subseteq P
    BY DEF Where
  <2> QED  BY <2>1, FS_Subset DEF Agree
<1>2. Q = {points[i] : i \in A}
  BY DEF Where, Image, Within
<1> HIDE DEF A, Q
<1>3. \A i \in A : w[i] \in Nat /\ v[points[i]] = w[i]
  BY <1>1 DEF Agree
<1>4. \A i, j \in A : points[i] = points[j] => i = j
  BY <1>1 DEF Agree
<1>5. Sum(w, A) \in Nat
  BY <1>1, <1>3, SumIsNatural
<1>6. Sum(v, Q) = Sum(w, A)
  BY <1>1, <1>2, <1>3, <1>4, SumRenamed
<1> QED  BY <1>1, <1>5, <1>6 DEF A, Q

\* The row of an atom holds if the measures of its terms compare so.
LEMMA RowIsAtom ==
  ASSUME NEW points, NEW P, NEW w, NEW v, Agree(w, v, points, P), NEW a, NEW b, NEW op
  PROVE  IsSatisfied(Inequality(Where(points, P, a), Where(points, P, b), op), w) <=>
           IF op = "LE" THEN WeightOf(Within(Image(points, P), a), v)
                               <= WeightOf(Within(Image(points, P), b), v)
           ELSE WeightOf(Within(Image(points, P), a), v)
                  > WeightOf(Within(Image(points, P), b), v)
<1> DEFINE A == Where(points, P, a)
           B == Where(points, P, b)
           X == Within(Image(points, P), a)
           Y == Within(Image(points, P), b)
           row == Inequality(A, B, op)
           l == Sum(w, A \ B)
           h == Sum(w, B \ A)
<1>1. IsFiniteSet(A) /\ A \subseteq P /\ Sum(w, A) \in Nat /\ Sum(v, X) = Sum(w, A)
  BY WeightsAgree
<1>2. IsFiniteSet(B) /\ B \subseteq P /\ Sum(w, B) \in Nat /\ Sum(v, Y) = Sum(w, B)
  BY WeightsAgree
<1> HIDE DEF A, B, X, Y
<1>3. row.lhs = A \ B /\ row.rhs = B \ A /\ row.op = op
  BY DEF Inequality
<1>4. \A i \in A \cup B : w[i] \in Nat
  BY <1>1, <1>2 DEF Agree
<1>5. Excess(row, w) = l - h
  BY <1>3, WeightIsSum DEF Excess
<1>6. l \in Nat /\ h \in Nat /\ Sum(w, A) - Sum(w, B) = l - h
  BY <1>1, <1>2, <1>4, SumsCompared
<1>7. WeightOf(X, v) = Sum(w, A) /\ WeightOf(Y, v) = Sum(w, B)
  BY <1>1, <1>2, WeightIsSum
<1>8. IsSatisfied(row, w) <=> IF op = "LE" THEN Excess(row, w) <= 0 ELSE Excess(row, w) >= 1
  BY <1>3 DEF IsSatisfied
<1> HIDE DEF l, h, row
<1>9. IsSatisfied(row, w) <=>
        IF op = "LE" THEN WeightOf(X, v) <= WeightOf(Y, v) ELSE WeightOf(X, v) > WeightOf(Y, v)
  BY <1>1, <1>2, <1>5, <1>6, <1>7, <1>8
<1> QED  BY <1>9 DEF A, B, X, Y, row

LEMMA MeasureIsSolution ==
  ASSUME NEW r, NEW points, NEW P, NEW w, NEW v, Agree(w, v, points, P),
         NEW system, IsSystemOver(r, points, P, system)
  PROVE  Solves(w, system) <=> IsMeasure(r, Image(points, P), v)
<1> DEFINE Row(m, op) == Inequality(Where(points, P, m[1]), Where(points, P, m[2]), op)
           Size(m, k) == WeightOf(Within(Image(points, P), m[k]), v)
<1>1. Solves(w, system) <=> /\ \A m \in r.measured_less_eq_T : IsSatisfied(Row(m, "LE"), w)
                            /\ \A m \in r.measured_less_eq_F : IsSatisfied(Row(m, "G"), w)
  <2>1. system.rows = {Row(m, "LE") : m \in r.measured_less_eq_T}
                        \cup {Row(m, "G") : m \in r.measured_less_eq_F}
    BY DEF IsSystemOver, RowsOver
  <2> HIDE DEF Row
  <2> QED  BY <2>1 DEF Solves
<1>2. \A m, op : IsSatisfied(Row(m, op), w)
                   <=> IF op = "LE" THEN Size(m, 1) <= Size(m, 2) ELSE Size(m, 1) > Size(m, 2)
  BY RowIsAtom
<1>3. IsMeasure(r, Image(points, P), v) <=>
        /\ \A m \in r.measured_less_eq_T : Size(m, 1) <= Size(m, 2)
        /\ \A m \in r.measured_less_eq_F : Size(m, 1) > Size(m, 2)
  BY DEF IsMeasure, Within
<1>4. "G" # "LE"
  OBVIOUS
<1> HIDE DEF Row, Size
<1> QED  BY <1>1, <1>2, <1>3, <1>4

\* Weights up to the bound solve the system if they measure the points.
LEMMA SolvableIsMeasurable ==
  ASSUME NEW r, NEW points, NEW P, IsFiniteSet(P), P # {},
         \A i, j \in P : points[i] = points[j] => i = j,
         NEW system, IsSystemOver(r, points, P, system), NEW variables, P \subseteq variables
  PROVE  (\E w \in Weights(variables) : Solves(w, system)) <=> HasMeasure(r, Image(points, P))
<1> DEFINE E == Image(points, P)
<1>1. ASSUME NEW w \in Weights(variables), Solves(w, system) PROVE HasMeasure(r, E)
  <2> DEFINE At(e) == CHOOSE i \in P : points[i] = e
             v == [e \in E |-> w[At(e)]]
  <2>1. \A i \in P : points[i] \in E /\ At(points[i]) = i
    BY DEF Image
  <2>2. \A e \in E : At(e) \in P
    BY DEF Image
  <2>3. \A i \in P : w[i] \in 1..MaxWeight
    BY DEF Weights
  <2> HIDE DEF At, E
  <2>4. v \in Weights(E)
    BY <2>2, <2>3 DEF Weights
  <2>5. \A i \in P : w[i] \in Nat /\ v[points[i]] = w[i]
    BY <2>1, <2>3
  <2>6. Agree(w, v, points, P)
    BY <2>5 DEF Agree
  <2> HIDE DEF v
  <2>7. IsMeasure(r, E, v)
    BY <1>1, <2>6, MeasureIsSolution DEF E
  <2> QED  BY <2>4, <2>7 DEF HasMeasure
<1>2. ASSUME NEW v \in Weights(E), IsMeasure(r, E, v)
      PROVE  \E w \in Weights(variables) : Solves(w, system)
  <2>1. PICK p \in P : TRUE
    OBVIOUS
  <2> DEFINE w == [i \in variables |-> IF i \in P THEN v[points[i]] ELSE v[points[p]]]
  <2>2. \A i \in P : points[i] \in E /\ v[points[i]] \in 1..MaxWeight
    BY DEF Weights, Image
  <2>3. w \in Weights(variables)
    BY <2>1, <2>2 DEF Weights
  <2>4. \A i \in P : w[i] \in Nat /\ v[points[i]] = w[i]
    BY <2>2
  <2> HIDE DEF w, E
  <2>5. Agree(w, v, points, P)
    BY <2>4 DEF Agree
  <2>6. Solves(w, system)
    BY <1>2, <2>5, MeasureIsSolution DEF E
  <2> QED  BY <2>3, <2>6
<1> QED  BY <1>1, <1>2 DEF HasMeasure

\* All contacts that the negative atoms of r leave.
Allowed(r, points) ==
  [i \in 1..Len(points) |->
     {j \in 1..Len(points) : IsContactsFConnectivityRuleSatisfied(r, points[i], points[j])}]

LEMMA AllowedAreAll ==
  ASSUME NEW r, NEW points
  PROVE  AllContacts(r, points, Allowed(r, points))
BY DEF AllContacts, Allowed

\* The matrix has them, but it has no rows if there are no variables.
LEMMA MatrixHasAllContacts ==
  ASSUME request \in Request, NEW points, GoodPoints(request, points)
  PROVE  /\ HasVariables(request) => ContactMatrix(points) = Allowed(request, points)
         /\ ~HasVariables(request) => DOMAIN ContactMatrix(points) = {}
<1>1. points \in Seq(SUBSET Variable) /\ DOMAIN points = 1..Len(points)
  BY UsedIsFinite DEF GoodPoints
<1>2. \A t : PointsIn(t, points) = {i \in 1..Len(points) : points[i] \in t}
  BY <1>1, EvaluateIsPointwise DEF PointsIn
<1> DEFINE Apart(c, i, j) == LET v_a == PointsIn(c[1], points)
                                 v_b == PointsIn(c[2], points)
                             IN ~(i \in v_a /\ j \in v_b) /\ ~(i \in v_b /\ j \in v_a)
<1>3. \A i, j \in 1..Len(points) : \A c :
        Apart(c, i, j) <=> ~(points[i] \in c[1] /\ points[j] \in c[2])
                             /\ ~(points[j] \in c[1] /\ points[i] \in c[2])
  BY <1>2
<1>4. ContactMatrix(points) =
        [i \in IF HasVariables(request) THEN 1..Len(points) ELSE {} |->
           {j \in 1..Len(points) : \A c \in request.contacts_F : Apart(c, i, j)}]
  BY <1>1 DEF ContactMatrix
<1> HIDE DEF Apart
<1>5. \A i, j \in 1..Len(points) :
        (\A c \in request.contacts_F : Apart(c, i, j))
          <=> IsContactsFConnectivityRuleSatisfied(request, points[i], points[j])
  BY <1>3 DEF IsContactsFConnectivityRuleSatisfied
<1>6. CASE HasVariables(request)
  <2>1. ContactMatrix(points) =
          [i \in 1..Len(points) |->
             {j \in 1..Len(points) : \A c \in request.contacts_F : Apart(c, i, j)}]
    BY <1>4, <1>6
  <2>2. \A i \in 1..Len(points) :
          {j \in 1..Len(points) : \A c \in request.contacts_F : Apart(c, i, j)}
            = {j \in 1..Len(points) :
                 IsContactsFConnectivityRuleSatisfied(request, points[i], points[j])}
    BY <1>5
  <2> QED  BY <1>6, <2>1, <2>2 DEF Allowed
<1>7. CASE ~HasVariables(request)
  BY <1>4, <1>7
<1> QED  BY <1>6, <1>7

-----------------------------------------------------------------------------
(* The structures that a subset of the points allows.                      *)

\* The positive atoms hold in the points numbered by P, in all contacts.
PositiveIn(r, points, P) ==
  /\ \A z \in r.zero_terms_F : \E i \in P : points[i] \in z
  /\ \A c \in r.contacts_T : \E i, j \in P :
       /\ points[i] \in c[1] /\ points[j] \in c[2]
       /\ IsContactsFConnectivityRuleSatisfied(r, points[i], points[j])

LEMMA PositiveIsTested ==
  ASSUME request \in Request, GoodPoints(request, all_valid_points),
         HasVariables(request) \/ ~AreTermsNeeded,
         NEW P, P \subseteq 1..Len(all_valid_points)
  PROVE  ArePositiveAtomsSatisfied(P) <=> PositiveIn(request, all_valid_points, P)
<1>0. CASE ~AreTermsNeeded
  BY <1>0 DEF AreTermsNeeded, ArePositiveAtomsSatisfied, PositiveIn
<1> SUFFICES ASSUME HasVariables(request)
             PROVE  ArePositiveAtomsSatisfied(P) <=> PositiveIn(request, all_valid_points, P)
  BY <1>0
<1> DEFINE R == ContactMatrix(all_valid_points)
<1>1. all_valid_points \in Seq(SUBSET Variable)
  BY UsedIsFinite DEF GoodPoints
<1>2. \A t : RestrictedTo(P, t) = {i \in P : all_valid_points[i] \in t}
  BY <1>1, EvaluateIsPointwise DEF RestrictedTo, PointsIn
<1>3. AllContacts(request, all_valid_points, R)
  BY MatrixHasAllContacts, AllowedAreAll
<1> HIDE DEF R
<1>4. \A i \in P : i \in R[i]
  BY <1>3, ContactsAreSymmetric
<1>5. \A i, j \in P : (i = j \/ j \in R[i]) <=>
        IsContactsFConnectivityRuleSatisfied(request, all_valid_points[i], all_valid_points[j])
  BY <1>3, <1>4 DEF AllContacts
<1>6. ArePositiveAtomsSatisfied(P) <=>
        /\ \A z \in request.zero_terms_F : RestrictedTo(P, z) # {}
        /\ \A c \in request.contacts_T :
             \E i \in RestrictedTo(P, c[1]), j \in RestrictedTo(P, c[2]) : i = j \/ j \in R[i]
  BY DEF ArePositiveAtomsSatisfied, R
<1>7. \A z : RestrictedTo(P, z) # {} <=> \E i \in P : all_valid_points[i] \in z
  BY <1>2
<1>8. \A c : (\E i \in RestrictedTo(P, c[1]), j \in RestrictedTo(P, c[2]) : i = j \/ j \in R[i])
        <=> \E i, j \in P :
              /\ all_valid_points[i] \in c[1] /\ all_valid_points[j] \in c[2]
              /\ IsContactsFConnectivityRuleSatisfied(request, all_valid_points[i], all_valid_points[j])
  <2>1. \A i, t : i \in RestrictedTo(P, t) <=> i \in P /\ all_valid_points[i] \in t
    BY <1>2
  <2> SUFFICES ASSUME NEW c
               PROVE  (\E i \in RestrictedTo(P, c[1]), j \in RestrictedTo(P, c[2]) :
                         i = j \/ j \in R[i])
                      <=> \E i, j \in P :
                            /\ all_valid_points[i] \in c[1] /\ all_valid_points[j] \in c[2]
                            /\ IsContactsFConnectivityRuleSatisfied(request, all_valid_points[i],
                                                                    all_valid_points[j])
    OBVIOUS
  <2> DEFINE A == RestrictedTo(P, c[1])
             B == RestrictedTo(P, c[2])
  <2>2. \A i : i \in A <=> i \in P /\ all_valid_points[i] \in c[1]
    BY <2>1
  <2>3. \A i : i \in B <=> i \in P /\ all_valid_points[i] \in c[2]
    BY <2>1
  <2> HIDE DEF A, B
  <2>4. (\E i \in A, j \in B : i = j \/ j \in R[i])
          <=> \E i, j \in P :
                /\ all_valid_points[i] \in c[1] /\ all_valid_points[j] \in c[2]
                /\ IsContactsFConnectivityRuleSatisfied(request, all_valid_points[i],
                                                        all_valid_points[j])
    BY <1>5, <2>2, <2>3
  <2> QED  BY <2>4 DEF A, B
<1> QED  BY <1>6, <1>7, <1>8 DEF PositiveIn

LEMMA LargestHasContacts ==
  ASSUME NEW P
  PROVE  /\ LargestStructure(P).points = Image(all_valid_points, P)
         /\ \A x : x \in LargestStructure(P).contacts <=>
              /\ x \in Image(all_valid_points, P) \X Image(all_valid_points, P)
              /\ IsContactsFConnectivityRuleSatisfied(request, x[1], x[2])
BY DEF LargestStructure, Image

LEMMA PositiveIsEnough ==
  ASSUME request \in Request, GoodPoints(request, all_valid_points),
         NEW P, P \subseteq 1..Len(all_valid_points)
  PROVE  Satisfies(LargestStructure(P), request) <=> PositiveIn(request, all_valid_points, P)
<1> DEFINE s == LargestStructure(P)
           E == Image(all_valid_points, P)
<1>1. /\ s.points = E
      /\ \A x : x \in s.contacts <=>
           x \in E \X E /\ IsContactsFConnectivityRuleSatisfied(request, x[1], x[2])
  BY LargestHasContacts
<1>2. /\ \A i \in P : all_valid_points[i] \in E
      /\ \A e \in E : \E i \in P : e = all_valid_points[i]
  BY DEF Image
<1> HIDE DEF s, E
<1>3. \A e \in E : IsValidPoint(request, e)
  BY <1>2 DEF GoodPoints
<1>4. \A z \in request.zero_terms_T : s.points \cap z = {}
  BY <1>1, <1>3 DEF IsValidPoint, AreZeroTermsTSatisfied
<1>5. \A c \in request.contacts_F : s.contacts \cap (c[1] \X c[2]) = {}
  <2> SUFFICES ASSUME NEW c \in request.contacts_F, NEW x \in s.contacts, x \in c[1] \X c[2]
               PROVE  FALSE
    OBVIOUS
  <2> QED  BY <1>1 DEF IsContactsFConnectivityRuleSatisfied
<1>6. \A z : s.points \cap z # {} <=> \E i \in P : all_valid_points[i] \in z
  BY <1>1, <1>2
<1>7. \A c : s.contacts \cap (c[1] \X c[2]) # {} <=>
        \E i, j \in P :
          /\ all_valid_points[i] \in c[1] /\ all_valid_points[j] \in c[2]
          /\ IsContactsFConnectivityRuleSatisfied(request, all_valid_points[i], all_valid_points[j])
  <2> SUFFICES ASSUME NEW c
               PROVE  s.contacts \cap (c[1] \X c[2]) # {} <=>
                        \E i, j \in P :
                          /\ all_valid_points[i] \in c[1] /\ all_valid_points[j] \in c[2]
                          /\ IsContactsFConnectivityRuleSatisfied(request, all_valid_points[i],
                                                                  all_valid_points[j])
    OBVIOUS
  <2>1. ASSUME NEW x \in s.contacts, x \in c[1] \X c[2]
        PROVE  \E i, j \in P :
                 /\ all_valid_points[i] \in c[1] /\ all_valid_points[j] \in c[2]
                 /\ IsContactsFConnectivityRuleSatisfied(request, all_valid_points[i],
                                                         all_valid_points[j])
    <3>1. x[1] \in E /\ x[2] \in E /\ x[1] \in c[1] /\ x[2] \in c[2]
      BY <1>1, <2>1
    <3> QED  BY <1>1, <1>2, <3>1
  <2>2. ASSUME NEW i \in P, NEW j \in P,
               all_valid_points[i] \in c[1] /\ all_valid_points[j] \in c[2],
               IsContactsFConnectivityRuleSatisfied(request, all_valid_points[i], all_valid_points[j])
        PROVE  s.contacts \cap (c[1] \X c[2]) # {}
    <3> DEFINE x == <<all_valid_points[i], all_valid_points[j]>>
    <3>1. x \in E \X E /\ x[1] = all_valid_points[i] /\ x[2] = all_valid_points[j]
          /\ x \in c[1] \X c[2]
      BY <1>2, <2>2
    <3> HIDE DEF x
    <3>2. x \in s.contacts
      BY <1>1, <2>2, <3>1
    <3> QED  BY <3>1, <3>2
  <2> QED  BY <2>1, <2>2
<1>8. Satisfies(s, request) <=> PositiveIn(request, all_valid_points, P)
  BY <1>4, <1>5, <1>6, <1>7 DEF Satisfies, PositiveIn
<1> QED  BY <1>8 DEF s

-----------------------------------------------------------------------------
(* The calls that wait.                                                    *)

Call == [points : SUBSET Nat, point_pos : Nat]

\* Each call but the last is about what the one before it has left, and none
\* is about a point that an earlier one has taken out.
Chain(calls, last) ==
  \A k \in 1..Len(calls) :
    /\ calls[k].point_pos \in calls[k].points
    /\ calls[k].points \ {calls[k].point_pos} = IF k = Len(calls) THEN last ELSE calls[k + 1].points
    /\ last \subseteq calls[k].points \ {calls[k].point_pos}
    /\ \A l \in 1..Len(calls) : k < l => calls[l].points \subseteq calls[k].points \ {calls[k].point_pos}

\* What the first call is about.
Root(calls, last) == IF calls = <<>> THEN last ELSE calls[1].points

LEMMA CallIsMade ==
  ASSUME NEW calls \in Seq(Call), NEW last, Chain(calls, last), NEW i \in last,
         NEW call \in Call, call.points = last, call.point_pos = i
  PROVE  /\ Append(calls, call) \in Seq(Call)
         /\ Chain(Append(calls, call), last \ {i})
         /\ Root(Append(calls, call), last \ {i}) = Root(calls, last)
<1> DEFINE new == Append(calls, call)
           n == Len(calls)
<1>1. /\ new \in Seq(Call) /\ n \in Nat /\ Len(new) = n + 1 /\ new[n + 1] = call
      /\ \A k \in 1..n : new[k] = calls[k]
  OBVIOUS
<1>2. new # <<>> /\ (calls # <<>> => n # 0) /\ (calls = <<>> => n = 0)
  OBVIOUS
<1> HIDE DEF new, n
<1>3. Root(new, last \ {i}) = Root(calls, last)
  BY <1>1, <1>2 DEF Root
<1>4. ASSUME NEW k \in 1..n
      PROVE  /\ new[k].point_pos \in new[k].points
             /\ new[k].points \ {new[k].point_pos} = IF k = n THEN last ELSE new[k + 1].points
             /\ last \subseteq new[k].points \ {new[k].point_pos}
             /\ \A l \in 1..n : k < l => new[l].points \subseteq new[k].points \ {new[k].point_pos}
  <2>1. k + 1 \in 1..n \/ k = n
    BY <1>1
  <2> QED  BY <1>1, <2>1 DEF Chain, n
<1>5. ASSUME NEW k \in 1..(n + 1)
      PROVE  /\ new[k].point_pos \in new[k].points
             /\ new[k].points \ {new[k].point_pos}
                  = IF k = n + 1 THEN last \ {i} ELSE new[k + 1].points
             /\ last \ {i} \subseteq new[k].points \ {new[k].point_pos}
             /\ \A l \in 1..(n + 1) : k < l
                  => new[l].points \subseteq new[k].points \ {new[k].point_pos}
  <2>1. CASE k \in 1..n
    <3>1. new[k].points \ {new[k].point_pos} = new[k + 1].points
      BY <1>1, <1>4, <2>1
    <3>2. \A l \in 1..(n + 1) : l \in 1..n \/ l = n + 1
      BY <1>1
    <3>3. new[n + 1].points = last
      BY <1>1
    <3>4. k # n + 1
      BY <1>1, <2>1
    <3> QED  BY <1>4, <2>1, <3>1, <3>2, <3>3, <3>4
  <2>2. CASE k = n + 1
    <3>1. new[k].points = last /\ new[k].point_pos = i
      BY <1>1, <2>2
    <3>2. \A l \in 1..(n + 1) : ~(k < l)
      BY <1>1, <2>2
    <3> QED  BY <2>2, <3>1, <3>2
  <2> QED  BY <1>1, <2>1, <2>2
<1>6. Chain(new, last \ {i})
  BY <1>1, <1>5 DEF Chain
<1> QED  BY <1>1, <1>3, <1>6 DEF new

LEMMA CallReturns ==
  ASSUME NEW calls \in Seq(Call), calls # <<>>, NEW last, Chain(calls, last),
         NEW waiting, waiting = SubSeq(calls, 1, Len(calls) - 1)
  PROVE  /\ waiting \in Seq(Call) /\ calls[Len(calls)] \in Call
         /\ Chain(waiting, calls[Len(calls)].points)
         /\ Root(waiting, calls[Len(calls)].points) = Root(calls, last)
<1> DEFINE n == Len(calls)
<1>1. /\ n \in Nat \ {0} /\ n \in 1..n
      /\ waiting \in Seq(Call) /\ Len(waiting) = n - 1
      /\ \A k \in 1..(n - 1) : waiting[k] = calls[k] /\ k \in 1..n /\ k < n
  <2>1. n \in Nat \ {0} /\ n \in 1..n
    OBVIOUS
  <2>2. waiting \in Seq(Call) /\ Len(waiting) = n - 1
    <3>1. \A k \in 1..(n - 1) : calls[k] \in Call
      BY <2>1
    <3> HIDE DEF n
    <3>2. /\ SubSeq(calls, 1, n - 1) \in Seq(Call)
          /\ Len(SubSeq(calls, 1, n - 1)) = IF 1 <= n - 1 THEN (n - 1) - 1 + 1 ELSE 0
      BY <2>1, <3>1, SubSeqProperties
    <3>3. Len(SubSeq(calls, 1, n - 1)) = n - 1
      BY <2>1, <3>2
    <3>4. waiting = SubSeq(calls, 1, n - 1)
      BY DEF n
    <3> QED  BY <3>2, <3>3, <3>4
  <2>3. \A k \in 1..(n - 1) : waiting[k] = calls[k] /\ k \in 1..n /\ k < n
    BY <2>1
  <2> QED  BY <2>1, <2>2, <2>3
<1>2. calls[n] \in Call
  BY <1>1
<1>3. n = 1 => waiting = <<>>
  BY <1>1
<1>4. n # 1 => waiting # <<>> /\ waiting[1] = calls[1]
  <2> SUFFICES ASSUME n # 1 PROVE waiting # <<>> /\ waiting[1] = calls[1]
    OBVIOUS
  <2>1. 1 \in 1..(n - 1) /\ Len(waiting) # 0
    BY <1>1
  <2> QED  BY <1>1, <2>1
<1> HIDE DEF n
<1>5. Root(waiting, calls[n].points) = Root(calls, last)
  BY <1>3, <1>4 DEF Root
<1>6. ASSUME NEW k \in 1..(n - 1)
      PROVE  /\ waiting[k].point_pos \in waiting[k].points
             /\ waiting[k].points \ {waiting[k].point_pos}
                  = IF k = n - 1 THEN calls[n].points ELSE waiting[k + 1].points
             /\ calls[n].points \subseteq waiting[k].points \ {waiting[k].point_pos}
             /\ \A l \in 1..(n - 1) : k < l
                  => waiting[l].points \subseteq waiting[k].points \ {waiting[k].point_pos}
  <2>1. /\ calls[k].point_pos \in calls[k].points
        /\ calls[k].points \ {calls[k].point_pos} = calls[k + 1].points
        /\ \A l \in 1..n : k < l => calls[l].points \subseteq calls[k].points \ {calls[k].point_pos}
    BY <1>1 DEF Chain, n
  <2>2. waiting[k] = calls[k]
    BY <1>1
  <2>3. k # n - 1 => k + 1 \in 1..(n - 1)
    BY <1>1
  <2>4. k # n - 1 => waiting[k + 1] = calls[k + 1]
    BY <1>1, <2>3
  <2>5. k = n - 1 => k + 1 = n
    BY <1>1
  <2>6. \A l \in 1..(n - 1) : l \in 1..n /\ waiting[l] = calls[l]
    BY <1>1
  <2>7. calls[n].points \subseteq calls[k].points \ {calls[k].point_pos}
    BY <1>1, <2>1
  <2> QED  BY <2>1, <2>2, <2>4, <2>5, <2>6, <2>7
<1>7. Chain(waiting, calls[n].points)
  <2>1. Len(waiting) = n - 1
    BY <1>1
  <2> SUFFICES ASSUME NEW k \in 1..Len(waiting)
               PROVE  /\ waiting[k].point_pos \in waiting[k].points
                      /\ waiting[k].points \ {waiting[k].point_pos}
                           = IF k = Len(waiting) THEN calls[n].points ELSE waiting[k + 1].points
                      /\ calls[n].points \subseteq waiting[k].points \ {waiting[k].point_pos}
                      /\ \A l \in 1..Len(waiting) : k < l
                           => waiting[l].points \subseteq waiting[k].points \ {waiting[k].point_pos}
    BY DEF Chain
  <2> QED  BY <1>6, <2>1
<1> QED  BY <1>1, <1>2, <1>5, <1>7 DEF n

-----------------------------------------------------------------------------
(* What is searched.                                                       *)

\* The points numbered by P are those of a model.
IsModelOf(r, points, P) == PositiveIn(r, points, P) /\ HasMeasure(r, Image(points, P))

\* So are no points among them.
Hopeless(r, points, P) == \A Q \in (SUBSET P) \ {{}} : ~IsModelOf(r, points, Q)

LEMMA UnsatisfiedIsHopeless ==
  ASSUME request \in Request, GoodPoints(request, all_valid_points),
         HasVariables(request) \/ ~AreTermsNeeded,
         NEW P, P \subseteq 1..Len(all_valid_points), ~ArePositiveAtomsSatisfied(P)
  PROVE  Hopeless(request, all_valid_points, P)
<1>1. ~PositiveIn(request, all_valid_points, P)
  BY PositiveIsTested
<1>2. \A Q \in SUBSET P : PositiveIn(request, all_valid_points, Q) => PositiveIn(request, all_valid_points, P)
  BY DEF PositiveIn
<1> QED  BY <1>1, <1>2 DEF Hopeless, IsModelOf

LEMMA HopelessBelow ==
  ASSUME NEW r, NEW points, NEW P, ~IsModelOf(r, points, P), \A i \in P : Hopeless(r, points, P \ {i})
  PROVE  Hopeless(r, points, P)
<1> SUFFICES ASSUME NEW Q \in (SUBSET P) \ {{}} PROVE ~IsModelOf(r, points, Q)
  BY DEF Hopeless
<1>1. CASE Q = P
  BY <1>1
<1>2. CASE Q # P
  <2>1. PICK i \in P : i \notin Q
    BY <1>2
  <2>2. Q \in (SUBSET (P \ {i})) \ {{}}
    BY <2>1
  <2> QED  BY <2>2 DEF Hopeless
<1> QED  BY <1>1, <1>2

LEMMA OnePointHasNoSmaller ==
  ASSUME NEW r, NEW points, NEW n \in Nat, NEW P, P \subseteq 1..n, P # {},
         ~HasSmaller(P), ~IsModelOf(r, points, P)
  PROVE  Hopeless(r, points, P)
<1> SUFFICES ASSUME NEW Q \in (SUBSET P) \ {{}} PROVE Q = P
  BY DEF Hopeless
<1>1. IsFiniteSet(P) /\ Cardinality(P) \in Nat /\ IsFiniteSet(Q) /\ Cardinality(Q) \in Nat
  <2>1. Q \subseteq 1..n
    OBVIOUS
  <2> QED  BY <2>1, FinitePart
<1>2. Cardinality(Q) # 0
  BY <1>1, FS_EmptySet
<1>3. Cardinality(P) <= 1
  BY <1>1 DEF HasSmaller
<1>4. Cardinality(Q) <= Cardinality(P) /\ (Cardinality(P) = Cardinality(Q) => P = Q)
  BY <1>1, FS_Subset
<1> QED  BY <1>1, <1>2, <1>3, <1>4

LEMMA SmallerHasPoints ==
  ASSUME NEW P, HasSmaller(P), NEW i \in P
  PROVE  P \ {i} # {}
<1> SUFFICES ASSUME P = {i} PROVE FALSE
  OBVIOUS
<1>1. Cardinality({i}) = 1
  BY FS_Singleton
<1> QED  BY <1>1 DEF HasSmaller

LEMMA MinIsLeast ==
  ASSUME NEW S, S \subseteq Nat, S # {}
  PROVE  Min(S) \in S /\ \A i \in S : Min(S) <= i
<1>1. \E m \in S : \A i \in S : m <= i
  BY LeastElement
<1> QED  BY <1>1 DEF Min

\* Which systems the solver may find solvable or not.
LEMMA SolverIsRight ==
  ASSUME request \in Request, GoodPoints(request, all_valid_points),
         NEW P, P \subseteq 1..Len(all_valid_points), P # {}
  PROVE  /\ FALSE \in SolverAnswers(SystemOfSubset(P))
              => ~HasMeasure(request, Image(all_valid_points, P))
         /\ TRUE \in SolverAnswers(SystemOfSubset(P)) /\ ExactArithmetic = TRUE
              => HasMeasure(request, Image(all_valid_points, P))
<1> DEFINE system == SystemOfSubset(P)
<1>1. all_valid_points \in Seq(SUBSET Variable) /\ Len(all_valid_points) \in Nat
  BY UsedIsFinite DEF GoodPoints
<1>2. /\ IsSystemOver(request, all_valid_points, P, system)
      /\ system.variables = 1..Len(all_valid_points)
  BY <1>1, SystemOfSubsetIs
<1>3. IsFiniteSet(P) /\ \A i, j \in P : all_valid_points[i] = all_valid_points[j] => i = j
  BY <1>1, FinitePart DEF GoodPoints
<1> HIDE DEF system
<1>4. (\E w \in Weights(system.variables) : Solves(w, system))
        <=> HasMeasure(request, Image(all_valid_points, P))
  BY <1>2, <1>3, SolvableIsMeasurable
<1>5. /\ FALSE \in SolverAnswers(system)
           => ~ \E w \in Weights(system.variables) : Solves(w, system)
      /\ TRUE \in SolverAnswers(system) /\ ExactArithmetic = TRUE
           => \E w \in Weights(system.variables) : Solves(w, system)
  BY DEF SolverAnswers
<1> QED  BY <1>4, <1>5 DEF system

-----------------------------------------------------------------------------
(* The model that is saved.                                                *)

GoodModel(r, points, contacts, system) ==
  /\ GoodPoints(r, points) /\ points # <<>>
  /\ HasVariables(r) => contacts = Allowed(r, points)
  /\ ~HasVariables(r) => DOMAIN contacts = {}
  /\ \A z \in r.zero_terms_F : \E i \in 1..Len(points) : points[i] \in z
  /\ \A c \in r.contacts_T : \E i, j \in 1..Len(points) :
       /\ points[i] \in c[1] /\ points[j] \in c[2]
       /\ IsContactsFConnectivityRuleSatisfied(r, points[i], points[j])
  /\ IsSystemOver(r, points, 1..Len(points), system)
  /\ system.variables = 1..Len(points)
  /\ ExactArithmetic = TRUE => HasMeasure(r, PointsOfModel(points)) /\ system.is_solvable

LEMMA SavedIsModel ==
  ASSUME request \in Request, GoodPoints(request, all_valid_points),
         HasVariables(request) \/ ~AreTermsNeeded,
         NEW P, P \subseteq 1..Len(all_valid_points), P # {}, ArePositiveAtomsSatisfied(P),
         TRUE \in SolverAnswers(SystemOfSubset(P)),
         NEW points, points = PointsFromSubset(P),
         NEW contacts, contacts = ContactMatrix(points),
         NEW res, res \in SolverAnswers(SystemOfModel(points)),
         NEW system, system = [SystemOfModel(points) EXCEPT !.is_solvable = res]
  PROVE  GoodModel(request, points, contacts, system)
<1>1. /\ GoodPoints(request, points) /\ points # <<>>
      /\ PointsOfModel(points) = Image(all_valid_points, P)
  BY SubsetIsNumbered
<1>2. /\ HasVariables(request) => contacts = Allowed(request, points)
      /\ ~HasVariables(request) => DOMAIN contacts = {}
  BY <1>1, MatrixHasAllContacts
<1>3. PositiveIn(request, all_valid_points, P)
  BY PositiveIsTested
<1>4. \A i \in P : \E k \in 1..Len(points) : points[k] = all_valid_points[i]
  BY <1>1 DEF PointsOfModel, Image
<1>5. \A z \in request.zero_terms_F : \E i \in 1..Len(points) : points[i] \in z
  <2> SUFFICES ASSUME NEW z \in request.zero_terms_F
               PROVE  \E i \in 1..Len(points) : points[i] \in z
    OBVIOUS
  <2>1. PICK i \in P : all_valid_points[i] \in z
    BY <1>3 DEF PositiveIn
  <2> QED  BY <1>4, <2>1
<1>6. ASSUME NEW c \in request.contacts_T
      PROVE  \E i, j \in 1..Len(points) :
               /\ points[i] \in c[1] /\ points[j] \in c[2]
               /\ IsContactsFConnectivityRuleSatisfied(request, points[i], points[j])
  <2>1. PICK i \in P, j \in P :
          /\ all_valid_points[i] \in c[1] /\ all_valid_points[j] \in c[2]
          /\ IsContactsFConnectivityRuleSatisfied(request, all_valid_points[i], all_valid_points[j])
    BY <1>3 DEF PositiveIn
  <2>2. PICK k \in 1..Len(points) : points[k] = all_valid_points[i]
    BY <1>4
  <2>3. PICK l \in 1..Len(points) : points[l] = all_valid_points[j]
    BY <1>4
  <2> QED  BY <2>1, <2>2, <2>3
<1>7. points \in Seq(SUBSET Variable) /\ Len(points) \in Nat
  BY <1>1, UsedIsFinite DEF GoodPoints
<1> DEFINE system_of == SystemOfModel(points)
<1>8. /\ IsSystemOver(request, points, 1..Len(points), system_of)
      /\ system_of.variables = 1..Len(points)
  BY <1>7, SystemOfModelIs
<1>9. system_of = [variables |-> system_of.variables, rows |-> system_of.rows,
                   is_solvable |-> system_of.is_solvable]
  BY DEF SystemOfModel, SystemOver
<1>10. /\ system.rows = system_of.rows /\ system.variables = system_of.variables
       /\ system.is_solvable = res
  <2> HIDE DEF system_of
  <2>1. system = [system_of EXCEPT !.is_solvable = res]
    BY DEF system_of
  <2> QED  BY <1>9, <2>1
<1>11. ASSUME ExactArithmetic = TRUE PROVE HasMeasure(request, PointsOfModel(points)) /\ res = TRUE
  <2>1. HasMeasure(request, PointsOfModel(points))
    BY <1>1, <1>11, SolverIsRight
  <2>2. /\ IsFiniteSet(1..Len(points)) /\ 1..Len(points) # {}
        /\ \A i, j \in 1..Len(points) : points[i] = points[j] => i = j
    <3>1. Len(points) # 0
      BY <1>1, <1>7
    <3>2. 1 \in 1..Len(points)
      BY <1>7, <3>1
    <3>3. IsFiniteSet(1..Len(points))
      BY <1>7, FS_Interval
    <3> QED  BY <1>1, <3>2, <3>3 DEF GoodPoints
  <2>3. PointsOfModel(points) = Image(points, 1..Len(points))
    BY DEF PointsOfModel, Image
  <2> DEFINE N == 1..Len(points)
  <2> HIDE DEF system_of, N
  <2>4. \E w \in Weights(system_of.variables) : Solves(w, system_of)
    <3>1. IsSystemOver(request, points, N, system_of) /\ N \subseteq system_of.variables
      BY <1>8 DEF N
    <3>2. IsFiniteSet(N) /\ N # {} /\ \A i, j \in N : points[i] = points[j] => i = j
      BY <2>2 DEF N
    <3>3. HasMeasure(request, Image(points, N))
      BY <2>1, <2>3 DEF N
    <3> QED  BY <3>1, <3>2, <3>3, SolvableIsMeasurable
  <2>5. SolverAnswers(system_of) = {TRUE}
    BY <2>4 DEF SolverAnswers
  <2> QED  BY <2>1, <2>5 DEF system_of
<1> HIDE DEF system_of
<1>12. IsSystemOver(request, points, 1..Len(points), system) /\ system.variables = 1..Len(points)
  BY <1>8, <1>10 DEF IsSystemOver
<1>13. ExactArithmetic = TRUE => HasMeasure(request, PointsOfModel(points)) /\ system.is_solvable
  BY <1>10, <1>11
<1> QED  BY <1>1, <1>2, <1>5, <1>6, <1>12, <1>13 DEF GoodModel

\* A call that waits: what it has taken points out of so far is no use.
Tried(r, points, call) ==
  /\ ~IsModelOf(r, points, call.points)
  /\ \A i \in call.points : i < call.point_pos => Hopeless(r, points, call.points \ {i})

\* What has been processed is no use, or still being searched.
Searched(r, points, calls, processed) ==
  /\ \A P \in processed :
       Hopeless(r, points, P) \/ \E k \in 1..Len(calls) : P = calls[k].points
  /\ \A k \in 1..Len(calls) : Tried(r, points, calls[k])

LEMMA AppendedCalls ==
  ASSUME NEW calls \in Seq(Call), NEW call \in Call, NEW new, new = Append(calls, call)
  PROVE  /\ Len(calls) \in Nat /\ Len(new) = Len(calls) + 1 /\ Len(new) \in 1..Len(new)
         /\ new[Len(new)] = call
         /\ \A k \in 1..Len(calls) : k \in 1..Len(new) /\ new[k] = calls[k]
         /\ \A k \in 1..Len(new) : k \in 1..Len(calls) \/ k = Len(new)
OBVIOUS

LEMMA SearchGoesOn ==
  ASSUME NEW r, NEW points, NEW calls \in Seq(Call), NEW processed,
         Searched(r, points, calls, processed),
         NEW call \in Call, Tried(r, points, call), NEW new, new = Append(calls, call)
  PROVE  Searched(r, points, new, processed \cup {call.points})
<1>1. /\ Len(new) \in 1..Len(new) /\ new[Len(new)] = call
      /\ \A k \in 1..Len(calls) : k \in 1..Len(new) /\ new[k] = calls[k]
      /\ \A k \in 1..Len(new) : k \in 1..Len(calls) \/ k = Len(new)
  BY AppendedCalls
<1>2. \A k \in 1..Len(new) : Tried(r, points, new[k])
  BY <1>1 DEF Searched
<1>3. ASSUME NEW P \in processed \cup {call.points}
      PROVE  Hopeless(r, points, P) \/ \E k \in 1..Len(new) : P = new[k].points
  <2>1. CASE P = call.points
    BY <1>1, <2>1
  <2>2. CASE P \in processed
    <3>1. Hopeless(r, points, P) \/ \E k \in 1..Len(calls) : P = calls[k].points
      BY <2>2 DEF Searched
    <3> QED  BY <1>1, <3>1
  <2> QED  BY <2>1, <2>2
<1> QED  BY <1>2, <1>3 DEF Searched

LEMMA SearchFails ==
  ASSUME NEW r, NEW points, NEW calls, NEW processed, Searched(r, points, calls, processed),
         NEW P, Hopeless(r, points, P)
  PROVE  Searched(r, points, calls, processed \cup {P})
BY DEF Searched

LEMMA WaitingCalls ==
  ASSUME NEW calls \in Seq(Call), calls # <<>>,
         NEW waiting, waiting = SubSeq(calls, 1, Len(calls) - 1)
  PROVE  /\ waiting \in Seq(Call) /\ Len(calls) \in Nat /\ Len(calls) \in 1..Len(calls)
         /\ calls[Len(calls)] \in Call
         /\ \A k \in 1..Len(waiting) : k \in 1..Len(calls) /\ waiting[k] = calls[k]
         /\ \A k \in 1..Len(calls) : k \in 1..Len(waiting) \/ k = Len(calls)
<1>1. Len(calls) \in Nat \ {0} /\ Len(calls) \in 1..Len(calls) /\ calls[Len(calls)] \in Call
  OBVIOUS
<1>2. \A k \in 1..(Len(calls) - 1) : calls[k] \in Call
  BY <1>1
<1> DEFINE n == Len(calls)
<1> HIDE DEF n
<1>3. /\ SubSeq(calls, 1, n - 1) \in Seq(Call)
      /\ Len(SubSeq(calls, 1, n - 1)) = IF 1 <= n - 1 THEN (n - 1) - 1 + 1 ELSE 0
      /\ \A k \in 1..((n - 1) - 1 + 1) : SubSeq(calls, 1, n - 1)[k] = calls[1 + k - 1]
  BY <1>1, <1>2, SubSeqProperties DEF n
<1>4. n \in Nat \ {0} /\ waiting = SubSeq(calls, 1, n - 1)
  BY <1>1 DEF n
<1>5. Len(waiting) = n - 1 /\ \A k \in 1..(n - 1) : waiting[k] = calls[k]
  BY <1>3, <1>4
<1> QED  BY <1>1, <1>3, <1>4, <1>5 DEF n

LEMMA SearchReturns ==
  ASSUME NEW r, NEW points, NEW calls \in Seq(Call), calls # <<>>, NEW processed,
         Searched(r, points, calls, processed), Hopeless(r, points, calls[Len(calls)].points),
         NEW waiting, waiting = SubSeq(calls, 1, Len(calls) - 1)
  PROVE  Searched(r, points, waiting, processed)
<1>1. /\ \A k \in 1..Len(waiting) : k \in 1..Len(calls) /\ waiting[k] = calls[k]
      /\ \A k \in 1..Len(calls) : k \in 1..Len(waiting) \/ k = Len(calls)
  BY WaitingCalls
<1>2. \A k \in 1..Len(waiting) : Tried(r, points, waiting[k])
  BY <1>1 DEF Searched
<1>3. ASSUME NEW P \in processed
      PROVE  Hopeless(r, points, P) \/ \E k \in 1..Len(waiting) : P = waiting[k].points
  <2>1. Hopeless(r, points, P) \/ \E k \in 1..Len(calls) : P = calls[k].points
    BY DEF Searched
  <2> QED  BY <1>1, <2>1
<1> QED  BY <1>2, <1>3 DEF Searched

LEMMA SearchMoves ==
  ASSUME NEW r, NEW points, NEW calls \in Seq(Call), calls # <<>>, NEW processed,
         Searched(r, points, calls, processed),
         NEW waiting, waiting = SubSeq(calls, 1, Len(calls) - 1),
         NEW call \in Call, call.points = calls[Len(calls)].points, Tried(r, points, call),
         NEW new, new = Append(waiting, call)
  PROVE  Searched(r, points, new, processed)
<1>1. /\ waiting \in Seq(Call)
      /\ \A k \in 1..Len(waiting) : k \in 1..Len(calls) /\ waiting[k] = calls[k]
      /\ \A k \in 1..Len(calls) : k \in 1..Len(waiting) \/ k = Len(calls)
  BY WaitingCalls
<1>2. /\ Len(new) \in 1..Len(new) /\ new[Len(new)] = call
      /\ \A k \in 1..Len(waiting) : k \in 1..Len(new) /\ new[k] = waiting[k]
      /\ \A k \in 1..Len(new) : k \in 1..Len(waiting) \/ k = Len(new)
  BY <1>1, AppendedCalls
<1>3. \A k \in 1..Len(new) : Tried(r, points, new[k])
  BY <1>1, <1>2 DEF Searched
<1>4. ASSUME NEW P \in processed
      PROVE  Hopeless(r, points, P) \/ \E k \in 1..Len(new) : P = new[k].points
  <2>1. Hopeless(r, points, P) \/ \E k \in 1..Len(calls) : P = calls[k].points
    BY DEF Searched
  <2>2. \A k \in 1..Len(calls) : \E l \in 1..Len(new) : new[l].points = calls[k].points
    BY <1>1, <1>2
  <2> QED  BY <2>1, <2>2
<1> QED  BY <1>3, <1>4 DEF Searched

-----------------------------------------------------------------------------
(* The invariant.                                                          *)

Numbers == 1..Len(all_valid_points)
IsRunning == pc \in {"generate", "return"}

Typed ==
  /\ pc \in {"idle", "points", "generate", "return", "done", "terminated", "aborted"}
  /\ request \in Request
  /\ GoodPoints(request, all_valid_points)
  /\ subset \subseteq Numbers
  /\ processed_combinations_ \subseteq SUBSET Numbers /\ {} \notin processed_combinations_
  /\ stack \in Seq(Call)
  /\ created \in BOOLEAN
  /\ ~IsRunning => stack = <<>>
  /\ pc = "points" => subset = {} /\ processed_combinations_ = {} /\ ~created

\* The recursion is about all valid points, within the limits.
Calls ==
  /\ Chain(stack, subset)
  /\ \A k \in 1..Len(stack) : stack[k].points \in processed_combinations_
  /\ IsRunning => /\ subset # {} /\ Root(stack, subset) = Numbers
                  /\ AllValid(request, all_valid_points) /\ ~ExceedsLimits(request)

Explored ==
  IsRunning /\ ~created =>
    /\ Searched(request, all_valid_points, stack, processed_combinations_)
    /\ pc = "return" => Hopeless(request, all_valid_points, subset)

NoSolution(r) == ExceedsLimits(r) \/ MeasuredSolutions(r) = {}

Answered ==
  /\ ~created => points_ = <<>> /\ contact_relations_ = <<>>
  /\ created => /\ pc \in {"return", "done"} /\ ~ExceedsLimits(request)
                /\ GoodModel(request, points_, contact_relations_, system_)
  /\ pc = "done" /\ ~created => NoSolution(request)

IInv == Typed /\ Calls /\ Explored /\ Answered

LEMMA NothingYet ==
  ASSUME NEW e, e = <<>>
  PROVE  Len(e) = 0 /\ 1..Len(e) = {} /\ \A S : e \in Seq(S)
OBVIOUS

LEMMA NoPointsAreGood ==
  ASSUME NEW r, NEW e, e = <<>>
  PROVE  GoodPoints(r, e)
BY NothingYet DEF GoodPoints

LEMMA NoCalls ==
  ASSUME NEW e, e = <<>>, NEW last
  PROVE  Chain(e, last) /\ Root(e, last) = last /\ e \in Seq(Call)
BY NothingYet DEF Chain, Root

LEMMA InvariantInit == Init => IInv
<1> SUFFICES ASSUME Init PROVE IInv
  OBVIOUS
<1>1. request \in Request
  BY RequestAssumption DEF Init
<1>2. /\ all_valid_points = <<>> /\ subset = {} /\ stack = <<>> /\ processed_combinations_ = {}
      /\ points_ = <<>> /\ contact_relations_ = <<>> /\ pc = "idle" /\ created = FALSE
  BY DEF Init
<1>3. GoodPoints(request, all_valid_points)
  BY <1>2, NoPointsAreGood
<1>4. Chain(stack, subset) /\ stack \in Seq(Call) /\ 1..Len(stack) = {}
  BY <1>2, NoCalls, NothingYet
<1>5. Typed
  BY <1>1, <1>2, <1>3, <1>4 DEF Typed, IsRunning
<1>6. Calls /\ Explored /\ Answered
  BY <1>2, <1>4 DEF Calls, Explored, Answered, IsRunning
<1> QED  BY <1>5, <1>6 DEF IInv

LEMMA StartKeeps == Start => IInv'
<1> SUFFICES ASSUME Start PROVE IInv'
  OBVIOUS
<1>1. /\ request' \in Request /\ pc' = "points" /\ created' = FALSE
      /\ all_valid_points' = <<>> /\ subset' = {} /\ stack' = <<>> /\ processed_combinations_' = {}
      /\ points_' = <<>> /\ contact_relations_' = <<>>
  BY DEF Start
<1>2. GoodPoints(request', all_valid_points')
  BY <1>1, NoPointsAreGood
<1>3. Chain(stack', subset') /\ stack' \in Seq(Call) /\ 1..Len(stack') = {}
  BY <1>1, NoCalls, NothingYet
<1>4. Typed'
  BY <1>1, <1>2, <1>3 DEF Typed, IsRunning
<1>5. Calls' /\ Explored' /\ Answered'
  BY <1>1, <1>3 DEF Calls, Explored, Answered, IsRunning
<1> QED  BY <1>4, <1>5 DEF IInv

LEMMA LookUpFailsKeeps == IInv /\ LookUpFails => IInv'
<1> SUFFICES ASSUME IInv, LookUpFails PROVE IInv'
  OBVIOUS
<1>1. /\ request' \in Request /\ pc' = "aborted" /\ created' = FALSE
      /\ all_valid_points' = <<>> /\ subset' = {} /\ stack' = <<>> /\ processed_combinations_' = {}
      /\ points_' = <<>> /\ contact_relations_' = <<>>
  BY DEF LookUpFails, IInv, Typed
<1>2. GoodPoints(request', all_valid_points')
  BY <1>1, NoPointsAreGood
<1>3. Chain(stack', subset') /\ stack' \in Seq(Call) /\ 1..Len(stack') = {}
  BY <1>1, NoCalls, NothingYet
<1>4. Typed'
  BY <1>1, <1>2, <1>3 DEF Typed, IsRunning
<1>5. Calls' /\ Explored' /\ Answered'
  BY <1>1, <1>3 DEF Calls, Explored, Answered, IsRunning
<1> QED  BY <1>4, <1>5 DEF IInv

\* A solution has its points among the valid ones.
LEMMA HopelessIsNoSolution ==
  ASSUME NEW r \in Request, NEW points, AllValid(r, points), Hopeless(r, points, 1..Len(points))
  PROVE  MeasuredSolutions(r) = {}
<1> SUFFICES ASSUME NEW s \in MeasuredSolutions(r) PROVE FALSE
  OBVIOUS
<1>1. s \in Solutions(r) /\ HasMeasure(r, s.points)
  BY DEF MeasuredSolutions
<1>2. /\ s.points # {} /\ s.points \subseteq SUBSET r.used_variables
      /\ s.contacts \subseteq s.points \X s.points
      /\ \A e \in s.points : IsValidPoint(r, e)
      /\ \A x \in s.contacts : IsContactsFConnectivityRuleSatisfied(r, x[1], x[2])
  BY <1>1, SolutionsPass
<1> DEFINE P == {i \in 1..Len(points) : points[i] \in s.points}
<1>3. \A e \in s.points : \E i \in P : points[i] = e
  BY <1>2 DEF AllValid, Has
<1>4. Image(points, P) = s.points
  BY <1>3 DEF Image
<1>5. P \in (SUBSET (1..Len(points))) \ {{}}
  BY <1>2, <1>3
<1> HIDE DEF P
<1>6. \A z \in r.zero_terms_F : \E i \in P : points[i] \in z
  <2>1. \A z \in r.zero_terms_F : \E e \in s.points : e \in z
    BY <1>1 DEF Solutions, Satisfies
  <2> QED  BY <1>3, <2>1
<1>7. ASSUME NEW c \in r.contacts_T
      PROVE  \E i, j \in P : /\ points[i] \in c[1] /\ points[j] \in c[2]
                             /\ IsContactsFConnectivityRuleSatisfied(r, points[i], points[j])
  <2>1. PICK x \in s.contacts : x \in c[1] \X c[2]
    BY <1>1 DEF Solutions, Satisfies
  <2>2. x[1] \in s.points /\ x[2] \in s.points /\ x[1] \in c[1] /\ x[2] \in c[2]
    BY <1>2, <2>1
  <2>3. IsContactsFConnectivityRuleSatisfied(r, x[1], x[2])
    BY <1>2
  <2> QED  BY <1>3, <2>2, <2>3
<1>8. IsModelOf(r, points, P)
  BY <1>1, <1>4, <1>6, <1>7 DEF IsModelOf, PositiveIn
<1> QED  BY <1>5, <1>8 DEF Hopeless

LEMMA ConstructPointsKeeps == IInv /\ ConstructPoints => IInv'
<1> SUFFICES ASSUME IInv, ConstructPoints PROVE IInv'
  OBVIOUS
<1>0. /\ pc = "points" /\ request \in Request /\ request' = request /\ ~created /\ created' = created
      /\ stack' = stack /\ stack = <<>> /\ subset = {} /\ processed_combinations_ = {}
      /\ processed_combinations_' = processed_combinations_
      /\ points_ = <<>> /\ points_' = points_
      /\ contact_relations_ = <<>> /\ contact_relations_' = contact_relations_
  BY DEF ConstructPoints, IInv, Typed, IsRunning, Answered
<1>1. AllValid(request, AllValidPoints(request))
  BY <1>0, AllValidPointsAreAll
<1>2. 1..Len(stack) = {}
  BY <1>0, NothingYet
<1>3. CASE pc' = "done" /\ (ExceedsLimits(request) \/ AllValidPoints(request) = <<>>)
           /\ UNCHANGED <<all_valid_points, subset, system_>>
  <2>1. NoSolution(request)
    <3>1. CASE ExceedsLimits(request)
      BY <3>1 DEF NoSolution
    <3>2. CASE AllValidPoints(request) = <<>>
      <4>1. 1..Len(AllValidPoints(request)) = {}
        BY <3>2, NothingYet
      <4>2. Hopeless(request, AllValidPoints(request), 1..Len(AllValidPoints(request)))
        BY <4>1 DEF Hopeless
      <4> QED  BY <1>0, <1>1, <4>2, HopelessIsNoSolution DEF NoSolution
    <3> QED  BY <1>3, <3>1, <3>2
  <2>2. Typed'
    BY <1>0, <1>3 DEF IInv, Typed, IsRunning, Numbers
  <2>3. Calls' /\ Explored' /\ Answered'
    BY <1>0, <1>2, <1>3, <2>1 DEF IInv, Calls, Explored, Answered, IsRunning
  <2> QED  BY <2>2, <2>3 DEF IInv
<1>4. CASE /\ ~ExceedsLimits(request) /\ AllValidPoints(request) # <<>>
           /\ pc' = "generate"
           /\ all_valid_points' = AllValidPoints(request)
           /\ subset' = DOMAIN all_valid_points'
  <2>1. AllValid(request', all_valid_points') /\ GoodPoints(request', all_valid_points')
    BY <1>0, <1>1, <1>4 DEF AllValid
  <2>2. subset' = Numbers' /\ Len(all_valid_points') \in Nat /\ Len(all_valid_points') # 0
    BY <1>4, <2>1 DEF GoodPoints, Numbers
  <2>3. subset' # {}
    <3>1. 1 \in 1..Len(all_valid_points')
      BY <2>2
    <3> QED  BY <2>2, <3>1 DEF Numbers
  <2>4. Chain(stack', subset') /\ Root(stack', subset') = subset' /\ stack' \in Seq(Call)
    BY <1>0, NoCalls
  <2>5. ~ExceedsLimits(request')
    BY <1>0, <1>4
  <2>6. Typed'
    <3>1. created' \in BOOLEAN
      BY <1>0 DEF IInv, Typed
    <3>2. processed_combinations_' = {} /\ pc' = "generate" /\ request' \in Request
      BY <1>0, <1>4
    <3> QED  BY <2>1, <2>2, <2>4, <3>1, <3>2 DEF Typed, IsRunning
  <2>7. Calls'
    BY <1>0, <1>2, <2>1, <2>2, <2>3, <2>4, <2>5 DEF Calls, IsRunning
  <2>8. Explored' /\ Answered'
    BY <1>0, <1>2, <1>4 DEF Explored, Searched, Answered
  <2> QED  BY <2>6, <2>7, <2>8 DEF IInv
<1> QED  BY <1>3, <1>4 DEF ConstructPoints

\* generate_model gives a subset up.
LEMMA FalseKeeps ==
  ASSUME IInv, pc = "generate", pc' = "return", created' = FALSE,
         UNCHANGED <<request, all_valid_points, subset, stack, points_, contact_relations_>>,
         processed_combinations_' = processed_combinations_ \cup {subset},
         Hopeless(request, all_valid_points, subset)
  PROVE  IInv'
<1>1. /\ IsRunning /\ IsRunning' /\ subset # {} /\ created = FALSE
      /\ subset \in SUBSET Numbers /\ Numbers' = Numbers
  BY DEF IInv, Typed, Calls, Answered, IsRunning, Numbers
<1>2. Typed'
  <2>1. processed_combinations_' \subseteq SUBSET Numbers' /\ {} \notin processed_combinations_'
    BY <1>1 DEF IInv, Typed
  <2> QED  BY <1>1, <2>1 DEF IInv, Typed
<1>3. Calls'
  BY <1>1 DEF IInv, Calls
<1>4. Explored'
  <2>1. Searched(request, all_valid_points, stack, processed_combinations_ \cup {subset})
    BY <1>1, SearchFails DEF IInv, Explored
  <2> QED  BY <2>1 DEF Explored
<1>5. Answered'
  BY <1>1 DEF IInv, Answered
<1> QED  BY <1>2, <1>3, <1>4, <1>5 DEF IInv

\* What is about to be processed again has been given up, no call waits for it.
LEMMA ProcessedIsHopeless ==
  ASSUME IInv, pc = "generate", subset \in processed_combinations_
  PROVE  Hopeless(request, all_valid_points, subset)
<1>1. IsRunning /\ ~created
  BY DEF IInv, Answered, IsRunning
<1>2. Hopeless(request, all_valid_points, subset)
        \/ \E k \in 1..Len(stack) : subset = stack[k].points
  BY <1>1 DEF IInv, Explored, Searched
<1>3. ASSUME NEW k \in 1..Len(stack) PROVE subset # stack[k].points
  <2>1. /\ stack[k].point_pos \in stack[k].points
        /\ subset \subseteq stack[k].points \ {stack[k].point_pos}
    BY DEF IInv, Calls, Chain
  <2> QED  BY <2>1
<1> QED  BY <1>2, <1>3

LEMMA AlreadyProcessedKeeps == IInv /\ pc = "generate" /\ AlreadyProcessed => IInv'
<1> SUFFICES ASSUME IInv, pc = "generate", AlreadyProcessed PROVE IInv'
  OBVIOUS
<1>1. /\ pc' = "return" /\ created' = FALSE /\ subset \in processed_combinations_
      /\ UNCHANGED <<request, all_valid_points, subset, stack, points_, contact_relations_>>
      /\ processed_combinations_' = processed_combinations_
  BY DEF AlreadyProcessed, ReturnFalse, callVars
<1>2. processed_combinations_' = processed_combinations_ \cup {subset}
  BY <1>1
<1> QED  BY <1>1, <1>2, ProcessedIsHopeless, FalseKeeps

\* save_as_model has its model.
LEMMA SavedKeeps ==
  ASSUME IInv, pc = "generate", HasVariables(request) \/ ~AreTermsNeeded,
         ArePositiveAtomsSatisfied(subset),
         TRUE \in SolverAnswers(SystemOfSubset(subset)), SaveAsModel,
         processed_combinations_' = processed_combinations_ \cup {subset}
  PROVE  IInv'
<1>1. /\ IsRunning /\ IsRunning' /\ subset # {}
      /\ subset \in SUBSET Numbers /\ Numbers' = Numbers
      /\ GoodPoints(request, all_valid_points) /\ request \in Request
      /\ pc' = "return" /\ created' = TRUE /\ ~ExceedsLimits(request)
      /\ UNCHANGED <<request, all_valid_points, subset, stack>>
  BY DEF IInv, Typed, Calls, IsRunning, Numbers, SaveAsModel, callVars
<1>2. Typed'
  <2>1. processed_combinations_' \subseteq SUBSET Numbers' /\ {} \notin processed_combinations_'
    BY <1>1 DEF IInv, Typed
  <2> QED  BY <1>1, <2>1 DEF IInv, Typed
<1>3. Calls'
  BY <1>1 DEF IInv, Calls
<1>4. Explored'
  BY <1>1 DEF Explored
<1>5. PICK res \in SolverAnswers(SystemOfModel(points_')) :
        system_' = [SystemOfModel(points_') EXCEPT !.is_solvable = res]
  BY DEF SaveAsModel
<1>6. points_' = PointsFromSubset(subset) /\ contact_relations_' = ContactMatrix(points_')
  BY DEF SaveAsModel
<1>7. GoodModel(request, points_', contact_relations_', system_')
  <2> DEFINE points == points_'
             contacts == contact_relations_'
             system == system_'
  <2>1. subset \subseteq 1..Len(all_valid_points)
    BY <1>1 DEF Numbers
  <2>2. /\ points = PointsFromSubset(subset) /\ contacts = ContactMatrix(points)
        /\ res \in SolverAnswers(SystemOfModel(points))
        /\ system = [SystemOfModel(points) EXCEPT !.is_solvable = res]
    BY <1>5, <1>6
  <2> HIDE DEF points, contacts, system
  <2>3. GoodModel(request, points, contacts, system)
    BY <1>1, <2>1, <2>2, SavedIsModel
  <2> QED  BY <2>3 DEF points, contacts, system
<1>8. Answered'
  BY <1>1, <1>7 DEF Answered
<1> QED  BY <1>2, <1>3, <1>4, <1>8 DEF IInv

\* The first recursive call is about the subset without its first point.
LEMMA FirstCallKeeps ==
  ASSUME IInv, pc = "generate", ~IsModelOf(request, all_valid_points, subset), HasSmaller(subset),
         stack' = Append(stack, [points |-> subset, point_pos |-> Min(subset)]),
         subset' = subset \ {Min(subset)}, pc' = pc,
         UNCHANGED <<request, all_valid_points, points_, contact_relations_, created>>,
         processed_combinations_' = processed_combinations_ \cup {subset}
  PROVE  IInv'
<1>1. /\ IsRunning /\ IsRunning' /\ subset # {} /\ created = FALSE /\ created' = FALSE
      /\ subset \in SUBSET Numbers /\ Numbers' = Numbers /\ Numbers \subseteq Nat
      /\ stack \in Seq(Call) /\ Chain(stack, subset) /\ Root(stack, subset) = Numbers
  BY DEF IInv, Typed, Calls, Answered, IsRunning, Numbers
<1>2. Min(subset) \in subset /\ \A i \in subset : Min(subset) <= i
  BY <1>1, MinIsLeast
<1> DEFINE i == Min(subset)
           call == [points |-> subset, point_pos |-> i]
<1>3. call \in Call /\ call.points = subset /\ call.point_pos = i
  BY <1>1, <1>2 DEF Call
<1>4. stack' = Append(stack, call) /\ subset' = subset \ {i}
  OBVIOUS
<1>5. Tried(request, all_valid_points, call)
  <2>1. ASSUME NEW j \in subset PROVE ~(j < i)
    <3>1. j \in Nat /\ i \in Nat /\ i <= j
      BY <1>1, <1>2
    <3> QED  BY <3>1
  <2> QED  BY <1>3, <2>1 DEF Tried
<1> HIDE DEF i, call
<1>6. /\ stack' \in Seq(Call) /\ Chain(stack', subset') /\ Root(stack', subset') = Numbers
  BY <1>1, <1>2, <1>3, <1>4, CallIsMade DEF i
<1>7. subset' # {}
  BY <1>2, <1>4, SmallerHasPoints DEF i
<1>8. Typed'
  <2>1. processed_combinations_' \subseteq SUBSET Numbers' /\ {} \notin processed_combinations_'
    BY <1>1 DEF IInv, Typed
  <2>2. subset' \subseteq Numbers'
    BY <1>1, <1>4
  <2> QED  BY <1>1, <1>6, <2>1, <2>2 DEF IInv, Typed
<1>9. Calls'
  <2>1. ASSUME NEW k \in 1..Len(stack') PROVE stack'[k].points \in processed_combinations_'
    <3> DEFINE new == stack'
    <3>1. new = Append(stack, call)
      BY <1>4
    <3> HIDE DEF new
    <3>2. /\ \A l \in 1..Len(stack) : new[l] = stack[l]
          /\ k \in 1..Len(stack) \/ new[k] = call
      <4>1. k \in 1..Len(new)
        BY DEF new
      <4> QED  BY <1>1, <1>3, <3>1, <4>1, AppendedCalls
    <3>3. new[k].points \in processed_combinations_ \/ new[k].points = subset
      BY <1>3, <3>2 DEF IInv, Calls
    <3> QED  BY <3>3 DEF new
  <2> QED  BY <1>1, <1>6, <1>7, <2>1 DEF IInv, Calls
<1>10. Explored'
  <2> DEFINE new == stack'
  <2>1. new = Append(stack, call) /\ Searched(request, all_valid_points, stack, processed_combinations_)
    BY <1>1, <1>4 DEF IInv, Explored
  <2> HIDE DEF new
  <2>2. Searched(request, all_valid_points, new, processed_combinations_ \cup {call.points})
    BY <1>1, <1>3, <1>5, <2>1, SearchGoesOn
  <2>3. Searched(request', all_valid_points', stack', processed_combinations_')
    BY <1>3, <2>2 DEF new
  <2> QED  BY <2>3 DEF Explored
<1>11. Answered'
  BY <1>1 DEF IInv, Answered
<1> QED  BY <1>8, <1>9, <1>10, <1>11 DEF IInv

LEMMA NewSubsetKeeps == IInv /\ pc = "generate" /\ NewSubset => IInv'
<1> SUFFICES ASSUME IInv, pc = "generate", NewSubset PROVE IInv'
  OBVIOUS
<1>1. /\ subset # {} /\ subset \subseteq 1..Len(all_valid_points)
      /\ GoodPoints(request, all_valid_points) /\ request \in Request
      /\ Len(all_valid_points) \in Nat
  BY DEF IInv, Typed, Calls, IsRunning, Numbers, GoodPoints
<1>2. /\ processed_combinations_' = processed_combinations_ \cup {subset}
      /\ HasVariables(request) \/ ~AreTermsNeeded
  BY DEF NewSubset
<1>3. CASE Unsatisfied
  <2>1. /\ pc' = "return" /\ created' = FALSE /\ ~ArePositiveAtomsSatisfied(subset)
        /\ UNCHANGED <<request, all_valid_points, subset, stack, points_, contact_relations_>>
    BY <1>3 DEF Unsatisfied, ReturnFalse, callVars
  <2>2. Hopeless(request, all_valid_points, subset)
    BY <1>1, <1>2, <2>1, UnsatisfiedIsHopeless
  <2> QED  BY <1>2, <2>1, <2>2, FalseKeeps
<1>4. CASE /\ ArePositiveAtomsSatisfied(subset) /\ TRUE \in SolverAnswers(SystemOfSubset(subset))
           /\ SaveAsModel
  BY <1>2, <1>4, SavedKeeps
<1>5. CASE FALSE \in SolverAnswers(SystemOfSubset(subset)) /\ TrySmaller
  <2>1. ~IsModelOf(request, all_valid_points, subset)
    BY <1>1, <1>5, SolverIsRight DEF IsModelOf
  <2>2. CASE ~HasSmaller(subset) /\ ReturnFalse
    <3>1. /\ pc' = "return" /\ created' = FALSE
          /\ UNCHANGED <<request, all_valid_points, subset, stack, points_, contact_relations_>>
      BY <2>2 DEF ReturnFalse, callVars
    <3>2. Hopeless(request, all_valid_points, subset)
      BY <1>1, <2>1, <2>2, OnePointHasNoSmaller
    <3> QED  BY <1>2, <3>1, <3>2, FalseKeeps
  <2>3. CASE /\ HasSmaller(subset)
             /\ stack' = Append(stack, [points |-> subset, point_pos |-> Min(subset)])
             /\ subset' = subset \ {Min(subset)}
             /\ UNCHANGED <<pc, callVars, points_, contact_relations_, created>>
    <3>1. pc' = pc /\ UNCHANGED <<request, all_valid_points, points_, contact_relations_, created>>
      BY <2>3 DEF callVars
    <3> QED  BY <1>2, <2>1, <2>3, <3>1, FirstCallKeeps
  <2> QED  BY <1>5, <2>2, <2>3 DEF TrySmaller
<1>6. ASSUME ArePositiveAtomsSatisfied(subset),
             NEW answer \in SolverAnswers(SystemOfSubset(subset)),
             (answer /\ SaveAsModel) \/ (~answer /\ TrySmaller)
      PROVE  IInv'
  <2>1. answer \in BOOLEAN
    BY <1>6 DEF SolverAnswers
  <2>2. answer = TRUE \/ answer = FALSE
    BY <2>1
  <2> QED  BY <1>4, <1>5, <1>6, <2>2
<1>7. Unsatisfied \/ (/\ ArePositiveAtomsSatisfied(subset)
                      /\ \E answer \in SolverAnswers(SystemOfSubset(subset)) :
                           (answer /\ SaveAsModel) \/ (~answer /\ TrySmaller))
  BY Zenon DEF NewSubset
<1>8. CASE /\ ArePositiveAtomsSatisfied(subset)
           /\ \E answer \in SolverAnswers(SystemOfSubset(subset)) :
                (answer /\ SaveAsModel) \/ (~answer /\ TrySmaller)
  <2>1. PICK answer \in SolverAnswers(SystemOfSubset(subset)) :
          (answer /\ SaveAsModel) \/ (~answer /\ TrySmaller)
    BY <1>8
  <2> QED  BY <1>6, <1>8, <2>1
<1> QED  BY <1>3, <1>7, <1>8

LEMMA GeneratesKeeps == IInv /\ GenerateModel => IInv'
BY AlreadyProcessedKeeps, NewSubsetKeeps DEF GenerateModel

\* A call that has taken out all of its points has found nothing.
LEMMA CallFails ==
  ASSUME NEW r, NEW points, NEW call \in Call, Tried(r, points, call),
         Hopeless(r, points, call.points \ {call.point_pos}), NextPositions(call) = {}
  PROVE  Hopeless(r, points, call.points)
<1>1. call.points \subseteq Nat /\ call.point_pos \in Nat
  BY DEF Call
<1>2. ASSUME NEW i \in call.points PROVE Hopeless(r, points, call.points \ {i})
  <2>1. i \in Nat /\ ~(i > call.point_pos)
    BY <1>1 DEF NextPositions
  <2>2. i < call.point_pos \/ i = call.point_pos
    BY <1>1, <2>1
  <2> QED  BY <2>2 DEF Tried
<1> QED  BY <1>2, HopelessBelow DEF Tried

\* One that goes on passes over none of them.
LEMMA CallGoesOn ==
  ASSUME NEW r, NEW points, NEW call \in Call, Tried(r, points, call),
         Hopeless(r, points, call.points \ {call.point_pos}),
         NEW i \in NextPositions(call), \A j \in NextPositions(call) : i <= j,
         NEW next \in Call, next.points = call.points, next.point_pos = i
  PROVE  Tried(r, points, next)
<1>1. call.points \subseteq Nat /\ call.point_pos \in Nat /\ i \in Nat
  BY DEF Call, NextPositions
<1>2. ASSUME NEW j \in call.points, j < i PROVE Hopeless(r, points, call.points \ {j})
  <2>1. j \in Nat /\ ~(j > call.point_pos)
    BY <1>1, <1>2 DEF NextPositions
  <2>2. j < call.point_pos \/ j = call.point_pos
    BY <1>1, <2>1
  <2> QED  BY <2>2 DEF Tried
<1> QED  BY <1>2 DEF Tried

\* The call that waits for the one that has returned.
LEMMA LastCall ==
  ASSUME IInv, stack # <<>>
  PROVE  /\ stack[Len(stack)] \in Call
         /\ stack[Len(stack)].points \in processed_combinations_
         /\ stack[Len(stack)].points \in SUBSET Numbers /\ stack[Len(stack)].points # {}
         /\ stack[Len(stack)].point_pos \in stack[Len(stack)].points
         /\ subset = stack[Len(stack)].points \ {stack[Len(stack)].point_pos}
<1>1. stack \in Seq(Call) /\ Len(stack) \in 1..Len(stack) /\ stack[Len(stack)] \in Call
  BY WaitingCalls DEF IInv, Typed
<1>2. stack[Len(stack)].points \in processed_combinations_
  BY <1>1 DEF IInv, Calls
<1>3. /\ stack[Len(stack)].point_pos \in stack[Len(stack)].points
      /\ subset = stack[Len(stack)].points \ {stack[Len(stack)].point_pos}
  BY <1>1 DEF IInv, Calls, Chain
<1> QED  BY <1>1, <1>2, <1>3 DEF IInv, Typed

LEMMA ReturnsKeeps ==
  ASSUME IInv, pc = "return", pc' = pc, stack # <<>>, created \/ NextPositions(stack[Len(stack)]) = {},
         subset' = stack[Len(stack)].points, stack' = SubSeq(stack, 1, Len(stack) - 1),
         UNCHANGED <<callVars, processed_combinations_, modelVars, created>>
  PROVE  IInv'
<1> DEFINE call == stack[Len(stack)]
           waiting == stack'
<1>1. /\ IsRunning /\ IsRunning' /\ Numbers' = Numbers
      /\ stack \in Seq(Call) /\ Chain(stack, subset) /\ Root(stack, subset) = Numbers
      /\ UNCHANGED <<request, all_valid_points, processed_combinations_, created>>
      /\ UNCHANGED <<system_, points_, contact_relations_>>
      /\ waiting = SubSeq(stack, 1, Len(stack) - 1)
  BY DEF IInv, Typed, Calls, IsRunning, Numbers, callVars, modelVars
<1>2. /\ call \in Call /\ call.points \in processed_combinations_
      /\ call.points \in SUBSET Numbers /\ call.points # {} /\ subset' = call.points
      /\ subset = call.points \ {call.point_pos}
  BY LastCall
<1>3. /\ waiting \in Seq(Call) /\ Chain(waiting, call.points) /\ Root(waiting, call.points) = Numbers
      /\ \A k \in 1..Len(waiting) : k \in 1..Len(stack) /\ waiting[k] = stack[k]
  <2> HIDE DEF waiting
  <2>1. /\ waiting \in Seq(Call) /\ Chain(waiting, call.points)
        /\ Root(waiting, call.points) = Root(stack, subset)
    BY <1>1, CallReturns
  <2>2. \A k \in 1..Len(waiting) : k \in 1..Len(stack) /\ waiting[k] = stack[k]
    BY <1>1, WaitingCalls
  <2> QED  BY <1>1, <2>1, <2>2
<1>4. Typed'
  BY <1>1, <1>2, <1>3 DEF IInv, Typed
<1>5. Calls'
  <2>1. \A k \in 1..Len(stack') : stack'[k].points \in processed_combinations_'
    BY <1>1, <1>3 DEF IInv, Calls
  <2> QED  BY <1>1, <1>2, <1>3, <2>1 DEF IInv, Calls
<1>6. Explored'
  <2> SUFFICES ASSUME ~created
               PROVE  /\ Searched(request, all_valid_points, stack', processed_combinations_)
                      /\ Hopeless(request, all_valid_points, call.points)
    BY <1>1, <1>2 DEF Explored
  <2>1. /\ Searched(request, all_valid_points, stack, processed_combinations_)
        /\ Hopeless(request, all_valid_points, subset)
    BY <1>1 DEF IInv, Explored
  <2>2. Tried(request, all_valid_points, call)
    BY <1>1, <2>1, WaitingCalls DEF Searched
  <2>3. Hopeless(request, all_valid_points, call.points)
    BY <1>2, <2>1, <2>2, CallFails
  <2> HIDE DEF waiting
  <2>4. Searched(request, all_valid_points, waiting, processed_combinations_)
    BY <1>1, <2>1, <2>3, SearchReturns
  <2> QED  BY <2>3, <2>4 DEF waiting
<1>7. Answered'
  BY <1>1 DEF IInv, Answered
<1> QED  BY <1>4, <1>5, <1>6, <1>7 DEF IInv

LEMMA NextCallKeeps ==
  ASSUME IInv, pc = "return", pc' = "generate", stack # <<>>, ~created,
         NEW i \in NextPositions(stack[Len(stack)]),
         \A j \in NextPositions(stack[Len(stack)]) : i <= j,
         stack' = Append(SubSeq(stack, 1, Len(stack) - 1), [stack[Len(stack)] EXCEPT !.point_pos = i]),
         subset' = stack[Len(stack)].points \ {i},
         UNCHANGED <<callVars, processed_combinations_, modelVars, created>>
  PROVE  IInv'
<1> DEFINE call == stack[Len(stack)]
           waiting == SubSeq(stack, 1, Len(stack) - 1)
           next == [call EXCEPT !.point_pos = i]
           new == stack'
<1>1. /\ IsRunning /\ IsRunning' /\ Numbers' = Numbers
      /\ stack \in Seq(Call) /\ Chain(stack, subset) /\ Root(stack, subset) = Numbers
      /\ UNCHANGED <<request, all_valid_points, processed_combinations_, created>>
      /\ UNCHANGED <<system_, points_, contact_relations_>>
      /\ new = Append(waiting, next)
  BY DEF IInv, Typed, Calls, IsRunning, Numbers, callVars, modelVars
<1>2. /\ call \in Call /\ call.points \in processed_combinations_
      /\ call.points \in SUBSET Numbers /\ call.points # {} /\ subset' = call.points \ {i}
      /\ call.point_pos \in call.points /\ subset = call.points \ {call.point_pos}
  BY LastCall
<1>3. i \in call.points /\ i # call.point_pos /\ i \in Nat
  BY <1>2 DEF NextPositions, Call
<1>4. next \in Call /\ next.points = call.points /\ next.point_pos = i
  BY <1>2, <1>3 DEF Call
<1>5. /\ waiting \in Seq(Call) /\ Chain(waiting, call.points) /\ Root(waiting, call.points) = Numbers
      /\ \A k \in 1..Len(waiting) : k \in 1..Len(stack) /\ waiting[k] = stack[k]
  <2>1. waiting = SubSeq(stack, 1, Len(stack) - 1)
    OBVIOUS
  <2> HIDE DEF waiting
  <2>2. /\ waiting \in Seq(Call) /\ Chain(waiting, call.points)
        /\ Root(waiting, call.points) = Root(stack, subset)
    BY <1>1, <2>1, CallReturns
  <2>3. \A k \in 1..Len(waiting) : k \in 1..Len(stack) /\ waiting[k] = stack[k]
    BY <1>1, <2>1, WaitingCalls
  <2> QED  BY <1>1, <2>2, <2>3
<1> HIDE DEF next
<1>6. /\ new \in Seq(Call) /\ Chain(new, subset') /\ Root(new, subset') = Numbers
      /\ \A k \in 1..Len(new) : (k \in 1..Len(waiting) /\ new[k] = waiting[k]) \/ new[k] = next
  <2> HIDE DEF waiting, new
  <2>1. /\ new \in Seq(Call) /\ Chain(new, subset')
        /\ Root(new, subset') = Root(waiting, call.points)
    <3> DEFINE last == call.points
    <3>1. /\ i \in last /\ Chain(waiting, last) /\ next.points = last /\ subset' = last \ {i}
          /\ next \in Call /\ next.point_pos = i /\ waiting \in Seq(Call)
      BY <1>2, <1>3, <1>4, <1>5
    <3> HIDE DEF last
    <3>2. /\ Append(waiting, next) \in Seq(Call)
          /\ Chain(Append(waiting, next), last \ {i})
          /\ Root(Append(waiting, next), last \ {i}) = Root(waiting, last)
      BY ONLY <3>1, CallIsMade
    <3> QED  BY <1>1, <3>1, <3>2 DEF last
  <2>2. \A k \in 1..Len(new) : (k \in 1..Len(waiting) /\ new[k] = waiting[k]) \/ new[k] = next
    BY <1>1, <1>4, <1>5, AppendedCalls
  <2> QED  BY <1>2, <1>5, <2>1, <2>2
<1>7. subset' # {} /\ subset' \subseteq Numbers
  BY <1>2, <1>3
<1>8. Typed'
  BY <1>1, <1>6, <1>7 DEF IInv, Typed
<1>9. Calls'
  <2>1. \A k \in 1..Len(waiting) : waiting[k].points \in processed_combinations_
    BY <1>5 DEF IInv, Calls
  <2>2. \A k \in 1..Len(stack') : stack'[k].points \in processed_combinations_'
    <3> HIDE DEF waiting
    <3> QED  BY <1>1, <1>2, <1>4, <1>6, <2>1
  <2> QED  BY <1>1, <1>6, <1>7, <2>2 DEF IInv, Calls
<1>10. Explored'
  <2>1. /\ Searched(request, all_valid_points, stack, processed_combinations_)
        /\ Hopeless(request, all_valid_points, subset)
    BY <1>1 DEF IInv, Explored
  <2>2. Tried(request, all_valid_points, call)
    BY <1>1, <2>1, WaitingCalls DEF Searched
  <2>3. Tried(request, all_valid_points, next)
    BY <1>2, <1>4, <2>1, <2>2, CallGoesOn
  <2>4. Searched(request, all_valid_points, new, processed_combinations_)
    <3>1. waiting = SubSeq(stack, 1, Len(stack) - 1)
      OBVIOUS
    <3> HIDE DEF waiting, new
    <3> QED  BY <1>1, <1>4, <2>1, <2>3, <3>1, SearchMoves
  <2> QED  BY <1>1, <2>4 DEF Explored
<1>11. Answered'
  BY <1>1 DEF IInv, Answered
<1> QED  BY <1>8, <1>9, <1>10, <1>11 DEF IInv

LEMMA ReturnKeeps == IInv /\ Return => IInv'
<1> SUFFICES ASSUME IInv, Return PROVE IInv'
  OBVIOUS
<1> DEFINE call == stack[Len(stack)]
           next == NextPositions(call)
<1>1. /\ pc = "return" /\ stack # <<>>
      /\ UNCHANGED <<callVars, processed_combinations_, modelVars, created>>
  BY DEF Return
<1>2. CASE /\ created \/ next = {}
           /\ subset' = call.points /\ stack' = SubSeq(stack, 1, Len(stack) - 1) /\ pc' = pc
  BY <1>1, <1>2, ReturnsKeeps
<1>3. CASE /\ ~created /\ next # {}
           /\ stack' = Append(SubSeq(stack, 1, Len(stack) - 1), [call EXCEPT !.point_pos = Min(next)])
           /\ subset' = call.points \ {Min(next)}
           /\ pc' = "generate"
  <2>1. next \subseteq Nat
    BY <1>1, LastCall DEF NextPositions, Call
  <2>2. Min(next) \in next /\ \A j \in next : Min(next) <= j
    BY <1>3, <2>1, MinIsLeast
  <2> QED  BY <1>1, <1>3, <2>2, NextCallKeeps
<1> QED  BY <1>2, <1>3 DEF Return

LEMMA FinishKeeps == IInv /\ Finish => IInv'
<1> SUFFICES ASSUME IInv, Finish PROVE IInv'
  OBVIOUS
<1>1. /\ pc = "return" /\ pc' = "done" /\ stack = <<>> /\ stack' = stack
      /\ UNCHANGED <<request, all_valid_points, subset, processed_combinations_, created>>
      /\ UNCHANGED <<system_, points_, contact_relations_>>
  BY DEF Finish, callVars, modelVars
<1>2. Typed'
  BY <1>1 DEF IInv, Typed, IsRunning, Numbers
<1>3. Calls' /\ Explored'
  BY <1>1 DEF IInv, Calls, Explored, IsRunning
<1>4. ~created => NoSolution(request)
  <2>1. subset = Numbers /\ AllValid(request, all_valid_points) /\ request \in Request
    BY <1>1 DEF IInv, Typed, Calls, IsRunning, Root
  <2>2. ~created => Hopeless(request, all_valid_points, 1..Len(all_valid_points))
    BY <1>1, <2>1 DEF IInv, Explored, IsRunning, Numbers
  <2> QED  BY <2>1, <2>2, HopelessIsNoSolution DEF NoSolution
<1>5. Answered'
  BY <1>1, <1>4 DEF IInv, Answered
<1> QED  BY <1>2, <1>3, <1>5 DEF IInv

LEMMA TerminateKeeps == IInv /\ Terminate => IInv'
<1> SUFFICES ASSUME IInv, Terminate PROVE IInv'
  OBVIOUS
<1>1. /\ pc = "generate" /\ pc' = "terminated" /\ stack' = <<>>
      /\ UNCHANGED <<request, all_valid_points, subset, processed_combinations_, created>>
      /\ UNCHANGED <<system_, points_, contact_relations_>>
  BY DEF Terminate, callVars, modelVars
<1>2. Chain(stack', subset') /\ stack' \in Seq(Call) /\ 1..Len(stack') = {}
  BY <1>1, NoCalls, NothingYet
<1>3. Typed'
  BY <1>1, <1>2 DEF IInv, Typed, IsRunning, Numbers
<1>4. Calls' /\ Explored' /\ Answered'
  BY <1>1, <1>2 DEF IInv, Calls, Explored, Answered, IsRunning
<1> QED  BY <1>3, <1>4 DEF IInv

LEMMA NothingHappensKeeps == IInv /\ UNCHANGED vars => IInv'
<1> SUFFICES ASSUME IInv, UNCHANGED vars PROVE IInv'
  OBVIOUS
<1>1. UNCHANGED <<pc, request, all_valid_points, subset, stack, processed_combinations_,
                  system_, points_, contact_relations_, created>>
  BY DEF vars, callVars, modelVars
<1> QED  BY <1>1 DEF IInv, Typed, Calls, Explored, Answered, IsRunning, Numbers

LEMMA InvariantStep == IInv /\ [Next]_vars => IInv'
<1> SUFFICES ASSUME IInv, [Next]_vars PROVE IInv'
  OBVIOUS
<1>1. CASE Start
  BY <1>1, StartKeeps
<1>2. CASE ConstructPoints
  BY <1>2, ConstructPointsKeeps
<1>3. CASE GenerateModel
  BY <1>3, GeneratesKeeps
<1>4. CASE LookUpFails
  BY <1>4, LookUpFailsKeeps
<1>5. CASE Return
  BY <1>5, ReturnKeeps
<1>6. CASE Finish
  BY <1>6, FinishKeeps
<1>7. CASE Terminate
  BY <1>7, TerminateKeeps
<1>8. CASE UNCHANGED vars
  BY <1>8, NothingHappensKeeps
<1> QED  BY <1>1, <1>2, <1>3, <1>4, <1>5, <1>6, <1>7, <1>8 DEF Next, Search

LEMMA Invariant == Spec => []IInv
BY InvariantInit, InvariantStep, PTL DEF Spec

-----------------------------------------------------------------------------
(***************************************************************************)
(* The state is typed; the calls of generate_model that wait are about     *)
(* smaller and smaller subsets, each but the point that its caller has     *)
(* taken out; a model has a point, its system an unknown for each and its  *)
(* contact matrix a row for each, but no row if there are no variables.    *)
(***************************************************************************)
THEOREM TypeCorrect == Spec => []TypeOK
<1>1. IInv => TypeOK
  <2> SUFFICES ASSUME IInv PROVE TypeOK
    OBVIOUS
  <2>1. DOMAIN all_valid_points = Numbers /\ DOMAIN stack = 1..Len(stack) /\ stack \in Seq(Call)
    BY DEF IInv, Typed, GoodPoints, Numbers
  <2>2. \A i \in DOMAIN all_valid_points : IsValidPoint(request, all_valid_points[i])
    BY <2>1 DEF IInv, Typed, GoodPoints, Numbers
  <2>3. subset \subseteq DOMAIN all_valid_points
        /\ processed_combinations_ \subseteq (SUBSET DOMAIN all_valid_points) \ {{}}
    BY <2>1 DEF IInv, Typed
  <2>4. \A k \in DOMAIN stack :
          /\ stack[k].points \in processed_combinations_
          /\ stack[k].point_pos \in stack[k].points
          /\ stack[k].points \ {stack[k].point_pos} =
               IF k = Len(stack) THEN subset ELSE stack[k + 1].points
    BY <2>1 DEF IInv, Calls, Chain
  <2>5. /\ DOMAIN contact_relations_ = IF HasVariables(request) THEN DOMAIN points_ ELSE {}
        /\ created => points_ # <<>> /\ system_.variables = DOMAIN points_
    <3>1. CASE created
      <4>1. /\ GoodPoints(request, points_) /\ points_ # <<>>
            /\ HasVariables(request) => contact_relations_ = Allowed(request, points_)
            /\ ~HasVariables(request) => DOMAIN contact_relations_ = {}
            /\ system_.variables = 1..Len(points_)
        BY <3>1 DEF IInv, Answered, GoodModel
      <4>2. DOMAIN points_ = 1..Len(points_)
        BY <4>1 DEF GoodPoints
      <4>3. DOMAIN Allowed(request, points_) = 1..Len(points_)
        BY DEF Allowed
      <4> QED  BY <4>1, <4>2, <4>3
    <3>2. CASE ~created
      <4>1. points_ = <<>> /\ contact_relations_ = <<>>
        BY <3>2 DEF IInv, Answered
      <4>2. DOMAIN points_ = {} /\ DOMAIN contact_relations_ = {}
        BY <4>1
      <4> QED  BY <3>2, <4>2
    <3> QED  BY <3>1, <3>2
  <2> QED  BY <2>2, <2>3, <2>4, <2>5 DEF IInv, Typed, TypeOK
<1> QED  BY <1>1, Invariant, PTL

(***************************************************************************)
(* generate_model returns false only if no subset of its points is the     *)
(* set of points of a model, rounding errors or not: neither the order in  *)
(* which points are taken out, nor what is passed over because it has been *)
(* processed, nor the subsets given up for their positive atoms lose one.  *)
(***************************************************************************)
THEOREM SearchCorrect == Spec => []NoModelIsPassedOver
<1>1. IInv => NoModelIsPassedOver
  <2> SUFFICES ASSUME IInv, pc = "return", ~created, NEW P \in (SUBSET subset) \ {{}}
               PROVE  ~(/\ Satisfies(LargestStructure(P), request)
                        /\ HasMeasure(request, {all_valid_points[i] : i \in P}))
    BY DEF NoModelIsPassedOver
  <2>1. P \subseteq 1..Len(all_valid_points) /\ request \in Request
        /\ GoodPoints(request, all_valid_points)
    BY DEF IInv, Typed, Numbers
  <2>2. ~IsModelOf(request, all_valid_points, P)
    BY DEF IInv, Explored, IsRunning, Hopeless
  <2>3. Satisfies(LargestStructure(P), request) => PositiveIn(request, all_valid_points, P)
    BY <2>1, PositiveIsEnough
  <2> QED  BY <2>2, <2>3 DEF IsModelOf, Image
<1> QED  BY <1>1, Invariant, PTL

\* The points of a model under all contacts that they may have are a solution.
LEMMA ModelIsSolution ==
  ASSUME ExactArithmetic = TRUE, NEW r \in Request, NEW points, NEW contacts, NEW system,
         GoodModel(r, points, contacts, system)
  PROVE  [points |-> PointsOfModel(points), contacts |-> ContactsOfModel(points, Allowed(r, points))]
           \in MeasuredSolutions(r)
<1> DEFINE P == PointsOfModel(points)
           allowed == Allowed(r, points)
           s == [points |-> P, contacts |-> ContactsOfModel(points, allowed)]
<1>1. /\ GoodPoints(r, points) /\ points # <<>> /\ AllContacts(r, points, allowed)
      /\ HasMeasure(r, P)
  BY AllowedAreAll DEF GoodModel
<1>2. /\ points \in Seq(SUBSET r.used_variables) /\ points \in Seq(SUBSET Variable)
      /\ \A i, j \in 1..Len(points) : points[i] = points[j] => i = j
      /\ \A i \in 1..Len(points) : IsValidPoint(r, points[i])
  BY <1>1, UsedIsFinite DEF GoodPoints
<1> HIDE DEF allowed
<1>3. /\ \A i \in 1..Len(points) : i \in allowed[i]
      /\ \A i, j \in 1..Len(points) : j \in allowed[i] => i \in allowed[j]
  BY <1>1, ContactsAreSymmetric
<1>4. \A i, j \in 1..Len(points) :
        j \in allowed[i] <=> IsContactsFConnectivityRuleSatisfied(r, points[i], points[j])
  BY <1>1 DEF AllContacts
<1>5. s \in Structures(r.used_variables)
  BY <1>1, <1>2, <1>3, ModelIsStructure
<1>6. Satisfies(s, r)
  <2>1. /\ \A z \in r.zero_terms_F : \E i \in 1..Len(points) : points[i] \in z
        /\ \A c \in r.contacts_T : \E i, j \in 1..Len(points) :
             /\ points[i] \in c[1] /\ points[j] \in c[2]
             /\ IsContactsFConnectivityRuleSatisfied(r, points[i], points[j])
    BY DEF GoodModel
  <2>2. \A c \in r.contacts_T : \E i, j \in 1..Len(points) :
          j \in allowed[i] /\ points[i] \in c[1] /\ points[j] \in c[2]
    BY <1>4, <2>1
  <2> QED  BY <1>2, <1>4, <2>1, <2>2, ModelSatisfies
<1>7. P \in (SUBSET SUBSET r.used_variables) \ {{}}
  <2>1. Len(points) \in Nat /\ Len(points) # 0
    BY <1>1, <1>2
  <2>2. 1 \in 1..Len(points)
    BY <2>1
  <2> QED  BY <1>2, <2>2 DEF PointsOfModel
<1>8. s.points = P
  OBVIOUS
<1>9. s \in MeasuredSolutions(r)
  <2> HIDE DEF P, s
  <2> QED  BY <1>1, <1>5, <1>6, <1>7, <1>8 DEF MeasuredSolutions, Solutions
<1> QED  BY <1>9 DEF allowed

\* The structure that a model represents is found: that solution, or its points
\* without contacts.
LEMMA ModelIsFound ==
  ASSUME ExactArithmetic = TRUE, NEW r \in Request, NEW points, NEW contacts, NEW system,
         GoodModel(r, points, contacts, system),
         NEW rows, rows = [i \in DOMAIN points |-> IF i \in DOMAIN contacts THEN contacts[i] ELSE {}]
  PROVE  StructureOf(VariableEvaluations(points), rows, Len(points)) \in Found(r)
<1>1. points \in Seq(SUBSET Variable) /\ DOMAIN points = 1..Len(points)
  BY UsedIsFinite DEF GoodModel, GoodPoints
<1>2. StructureOf(VariableEvaluations(points), rows, Len(points))
        = [points |-> PointsOfModel(points), contacts |-> ContactsOfModel(points, rows)]
  BY <1>1, StructureIsPointwise
<1> DEFINE s == [points |-> PointsOfModel(points),
                 contacts |-> ContactsOfModel(points, Allowed(r, points))]
<1>3. s \in MeasuredSolutions(r)
  BY ModelIsSolution
<1>4. CASE HasVariables(r)
  <2>1. contacts = Allowed(r, points)
    BY <1>4 DEF GoodModel
  <2>2. rows = Allowed(r, points)
    BY <1>1, <2>1 DEF Allowed
  <2> QED  BY <1>2, <1>3, <1>4, <2>2 DEF Found
<1>5. CASE ~HasVariables(r)
  <2>1. DOMAIN contacts = {}
    BY <1>5 DEF GoodModel
  <2>2. \A i \in 1..Len(points) : rows[i] = {}
    BY <1>1, <2>1
  <2>3. ContactsOfModel(points, rows) = {}
    BY <2>2 DEF ContactsOfModel
  <2>4. [s EXCEPT !.contacts = {}] = [points |-> PointsOfModel(points), contacts |-> {}]
    OBVIOUS
  <2> HIDE DEF s
  <2> QED  BY <1>2, <1>3, <1>5, <2>3, <2>4 DEF Found
<1> QED  BY <1>4, <1>5

(***************************************************************************)
(* If the solver makes no rounding errors, the system that save_as_model   *)
(* sets up anew is solvable, as asserted there, and its solutions are      *)
(* measures of the points of the model, in their order.                    *)
(***************************************************************************)
THEOREM MeasuresCorrect ==
  ASSUME ExactArithmetic = TRUE
  PROVE  Spec => []MeasuredValuesFitTheModel
<1>1. IInv => MeasuredValuesFitTheModel
  <2> SUFFICES ASSUME IInv, created
               PROVE  /\ system_.is_solvable
                      /\ \E w \in Weights(system_.variables) : Solves(w, system_)
                      /\ \A w \in Weights(system_.variables) : Solves(w, system_) =>
                           IsMeasure(request, Structure.points,
                                     [e \in Structure.points |->
                                        w[CHOOSE i \in DOMAIN points_ : points_[i] = e]])
    BY DEF MeasuredValuesFitTheModel
  <2> DEFINE N == 1..Len(points_)
             E == Structure.points
             At(e) == CHOOSE i \in DOMAIN points_ : points_[i] = e
  <2>1. /\ GoodPoints(request, points_) /\ points_ # <<>> /\ request \in Request
        /\ IsSystemOver(request, points_, N, system_) /\ system_.variables = N
        /\ HasMeasure(request, PointsOfModel(points_)) /\ system_.is_solvable
    BY DEF IInv, Typed, Answered, GoodModel
  <2>2. /\ points_ \in Seq(SUBSET Variable) /\ DOMAIN points_ = N /\ Len(points_) \in Nat
        /\ \A i, j \in N : points_[i] = points_[j] => i = j
    BY <2>1, UsedIsFinite DEF GoodPoints
  <2>3. E = Image(points_, N) /\ E = PointsOfModel(points_)
    BY <2>2, StructureIsPointwise DEF Structure, PointsOfModel, Image
  <2>4. IsFiniteSet(N) /\ N # {}
    <3>1. Len(points_) # 0
      BY <2>1, <2>2
    <3>2. 1 \in 1..Len(points_)
      BY <2>2, <3>1
    <3>3. IsFiniteSet(1..Len(points_))
      BY <2>2, FS_Interval
    <3> QED  BY <3>2, <3>3
  <2>5. \A i \in N : points_[i] \in E /\ At(points_[i]) = i
    BY <2>2, <2>3 DEF Image
  <2> HIDE DEF N, E
  <2>6. \E w \in Weights(system_.variables) : Solves(w, system_)
    <3>1. HasMeasure(request, Image(points_, N)) /\ N \subseteq system_.variables
      BY <2>1, <2>3
    <3> QED  BY <2>1, <2>2, <2>4, <3>1, SolvableIsMeasurable
  <2>7. ASSUME NEW w \in Weights(system_.variables), Solves(w, system_)
        PROVE  IsMeasure(request, E, [e \in E |-> w[At(e)]])
    <3> DEFINE v == [e \in E |-> w[At(e)]]
    <3>1. \A i \in N : w[i] \in Nat /\ v[points_[i]] = w[i]
      <4>1. \A i \in N : w[i] \in Nat
        BY <2>1 DEF Weights
      <4> QED  BY <2>5, <4>1
    <3> HIDE DEF v, At
    <3>2. Agree(w, v, points_, N)
      BY <2>2, <2>4, <3>1 DEF Agree
    <3>3. IsMeasure(request, Image(points_, N), v)
      BY <2>1, <2>7, <3>2, MeasureIsSolution
    <3> QED  BY <2>3, <3>3 DEF v
  <2> QED  BY <2>1, <2>6, <2>7 DEF E
<1> QED  BY <1>1, Invariant, PTL

answers == IF pc = "done" THEN {IF created THEN Structure ELSE None} ELSE {}
Solution == [r \in Request |-> IF ExceedsLimits(r) THEN {} ELSE Found(r)]

LEMMA FinishAnswers ==
  ASSUME ExactArithmetic = TRUE, IInv', pc' = "done"
  PROVE  \E a \in IF Solution[request'] = {} THEN {None} ELSE Solution[request'] : answers' = {a}
<1>1. request' \in Request
  BY DEF IInv, Typed
<1>2. Solution[request'] = IF ExceedsLimits(request') THEN {} ELSE Found(request')
  BY <1>1 DEF Solution
<1>3. CASE ~created'
  <2>1. ExceedsLimits(request') \/ MeasuredSolutions(request') = {}
    BY <1>3 DEF IInv, Answered, NoSolution
  <2>2. Solution[request'] = {}
    BY <1>2, <2>1 DEF Found
  <2> QED  BY <1>3, <2>2 DEF answers
<1>4. CASE created'
  <2> DEFINE points == points_'
             contacts == contact_relations_'
             system == system_'
             r == request'
             rows == [i \in DOMAIN points |-> IF i \in DOMAIN contacts THEN contacts[i] ELSE {}]
             s == StructureOf(VariableEvaluations(points), rows, Len(points))
  <2>1. GoodModel(r, points, contacts, system) /\ ~ExceedsLimits(r)
    BY <1>4 DEF IInv, Answered
  <2>2. Structure' = s
    BY DEF Structure, ContactsOf
  <2> HIDE DEF points, contacts, system, r
  <2>3. s \in Found(r)
    <3> HIDE DEF rows
    <3>1. rows = [i \in DOMAIN points |-> IF i \in DOMAIN contacts THEN contacts[i] ELSE {}]
      BY DEF rows
    <3> QED  BY <1>1, <2>1, <3>1, ModelIsFound DEF r
  <2> HIDE DEF s
  <2>4. s \in Solution[request']
    BY <1>2, <2>1, <2>3 DEF r
  <2> QED  BY <1>4, <2>2, <2>4 DEF answers
<1> QED  BY <1>3, <1>4

LEMMA StepIsAbstract ==
  ASSUME ExactArithmetic = TRUE, IInv, IInv', [Next]_vars
  PROVE  [Creation!Next]_<<request, answers>>
<1> USE DEF Creation!Next, Creation!Call, Creation!Answer
<1>1. CASE Start
  <2>1. request' \in Request /\ answers' = {}
    BY <1>1 DEF Start, answers
  <2> QED  BY <2>1 DEF answers
<1>2. CASE pc # "done" /\ pc' = "done" /\ request' = request
  <2>1. answers = {}
    BY <1>2 DEF answers
  <2>2. \E a \in IF Solution[request] = {} THEN {None} ELSE Solution[request] : answers' = {a}
    BY <1>2, FinishAnswers
  <2> QED  BY <1>2, <2>1, <2>2 DEF answers, Solution
<1>3. CASE pc # "done" /\ pc' # "done" /\ request' = request
  BY <1>3 DEF answers
<1>4. CASE UNCHANGED vars
  BY <1>4 DEF vars, callVars, modelVars, answers, Structure, ContactsOf
<1>5. ASSUME ConstructPoints \/ LookUpFails \/ Return \/ Finish \/ Terminate
      PROVE  pc # "done" /\ request' = request
  BY <1>5 DEF ConstructPoints, LookUpFails, Return, Finish, Terminate, callVars
<1>6. ASSUME GenerateModel PROVE pc # "done" /\ request' = request
  <2>1. pc = "generate" /\ (AlreadyProcessed \/ NewSubset)
    BY <1>6 DEF GenerateModel
  <2>2. request' = request
    BY <2>1 DEF AlreadyProcessed, NewSubset, Unsatisfied, SaveAsModel, TrySmaller, ReturnFalse,
                callVars
  <2> QED  BY <2>1, <2>2
<1> QED  BY <1>1, <1>2, <1>3, <1>4, <1>5, <1>6 DEF Next, Search

(***************************************************************************)
(* If the solver makes no rounding errors, create answers what it          *)
(* promises, for every request within its limits: true and a structure     *)
(* with a measure in which the atoms of the path hold if there is one,     *)
(* though without its contacts if the formula has no variables, and false  *)
(* only if there is none.                                                  *)
(***************************************************************************)
THEOREM Implements ==
  ASSUME ExactArithmetic = TRUE
  PROVE  Spec => ImplementsCreation
<1>1. Init => Creation!Init
  <2> SUFFICES ASSUME Init PROVE Creation!Init  OBVIOUS
  <2>1. request \in Request /\ pc # "done"
    BY RequestAssumption DEF Init
  <2> QED  BY <2>1 DEF Creation!Init
<1>2. IInv /\ IInv' /\ [Next]_vars => [Creation!Next]_Creation!vars
  BY StepIsAbstract DEF Creation!vars, answers
<1> QED  BY <1>1, <1>2, Invariant, PTL DEF Spec, ImplementsCreation, Creation!Spec
==============================================================================
