----------------------------- MODULE PointsProofs -----------------------------
(***************************************************************************)
(* Facts about points and requests on which the proofs about the model     *)
(* classes rest: the enumeration meets every evaluation, a model keeps the *)
(* points it was given, a part of a structure that satisfies a request     *)
(* passes the tests for points, and what passes them is such a structure.  *)
(***************************************************************************)
EXTENDS Points, FiniteSetTheorems, WellFoundedInduction, TLAPS

-----------------------------------------------------------------------------
(* The enumeration.                                                        *)

LEMMA LeastElement ==
  ASSUME NEW S, S \subseteq Nat, S # {}
  PROVE  \E m \in S : \A n \in S : m <= n
<1>1. PICK m \in S : \A n \in S : <<n, m>> \notin OpToRel(<, Nat)
  BY NatLessThanWellFounded, WFMin, Zenon
<1>2. \A n \in S : ~(n < m)
  BY <1>1 DEF OpToRel
<1> QED  BY <1>2

LEMMA LargestElement ==
  ASSUME NEW S, S \subseteq Nat, IsFiniteSet(S), S # {}
  PROVE  \E m \in S : \A n \in S : n <= m
<1> DEFINE From(m) == {n \in S : n >= m}
           Upper == {From(m) : m \in S}
<1>1. \A m \in S : From(m) \in FiniteSubsetsOf(S)
  BY FS_Subset DEF FiniteSubsetsOf
<1>2. Upper \subseteq FiniteSubsetsOf(S) /\ Upper # {}
  BY <1>1
<1>3. PICK U \in Upper : \A V \in Upper : ~(<<V, U>> \in StrictSubsetOrdering(S))
  BY <1>2, FS_StrictSubsetOrderingWellFounded, WFMin, Zenon
<1>4. PICK m \in S : U = From(m)
  BY <1>3
<1>5. ASSUME NEW n \in S, n > m PROVE FALSE
  <2>1. From(n) \in Upper /\ U \subseteq S
    BY <1>4, <1>5
  <2>2. m \in U /\ m \notin From(n)
    BY <1>4, <1>5
  <2>3. \A x \in From(n) : x \in U
    BY <1>4, <1>5
  <2>4. From(n) \in Upper /\ From(n) \subseteq U /\ From(n) # U /\ U \subseteq S
    BY <2>1, <2>2, <2>3
  <2> HIDE DEF From, Upper
  <2> QED  BY <1>3, <2>4 DEF StrictSubsetOrdering
<1> QED  BY <1>5

\* Evaluation e is met before f: they differ first in a variable of f.
Less(e, f, vars) ==
  \E id \in f \ e : id \in vars /\ \A i \in vars : i < id => (i \in e <=> i \in f)

LEMMA NothingIsLess == \A e, vars : ~Less(e, {}, vars)
BY DEF Less

\* What is before the next evaluation is the current one or before that.
LEMMA NextIsNext ==
  ASSUME NEW vars, vars \subseteq Nat, NEW e, e \subseteq vars, NEW f, f \subseteq vars,
         Less(f, NextEvaluation(e, vars), vars)
  PROVE  f = e \/ Less(f, e, vars)
<1> DEFINE next == NextEvaluation(e, vars)
<1>1. PICK id \in next \ f : id \in vars /\ \A i \in vars : i < id => (i \in f <=> i \in next)
  BY DEF Less
<1>2. CASE id \in e
  <2>1. ~IsReached(id, e, vars)
    BY <1>1, <1>2 DEF NextEvaluation
  <2>2. \A i \in vars : i < id => ~IsReached(i, e, vars)
    BY <2>1, <1>1 DEF IsReached
  <2>3. \A i \in vars : i < id => (i \in e <=> i \in next)
    BY <2>2 DEF NextEvaluation
  <2> QED  BY <1>1, <1>2, <2>3 DEF Less
<1>3. CASE id \notin e
  <2>1. IsReached(id, e, vars)
    BY <1>1, <1>3 DEF NextEvaluation
  <2>2. \A i \in vars : i < id => ~IsReached(i, e, vars)
    BY <1>1, <1>3 DEF IsReached
  <2>3. \A i \in vars : i < id => (i \in e <=> i \in next)
    BY <2>2 DEF NextEvaluation
  <2>4. CASE f = e
    BY <2>4
  <2>5. CASE f # e
    <3> DEFINE D == {i \in vars : ~(i \in e <=> i \in f)}
    <3>1. D # {} /\ D \subseteq Nat
      BY <2>5
    <3>2. PICK m \in D : \A n \in D : m <= n
      BY <3>1, LeastElement
    <3>3. m > id
      BY <3>2, <1>1, <1>3, <2>3
    <3>4. m \in e \ f
      BY <3>3, <3>2, <2>1 DEF IsReached
    <3>5. \A i \in vars : i < m => (i \in f <=> i \in e)
      BY <3>2
    <3> QED  BY <3>4, <3>5, <3>2 DEF Less
  <2> QED  BY <2>4, <2>5
<1> QED  BY <1>2, <1>3

\* The last evaluation comes after all others.
LEMMA LastIsLast ==
  ASSUME NEW vars, vars \subseteq Nat, NEW e, IsLast(e, vars), NEW f, f \subseteq vars, f # e,
         e \subseteq vars
  PROVE  Less(f, e, vars)
<1>1. vars \ f # {} /\ vars \ f \subseteq Nat
  BY DEF IsLast
<1>2. PICK m \in vars \ f : \A n \in vars \ f : m <= n
  BY <1>1, LeastElement
<1>3. \A i \in vars : i < m => (i \in f <=> i \in e)
  BY <1>2 DEF IsLast
<1> QED  BY <1>2, <1>3 DEF Less, IsLast

LEMMA NextIsLater ==
  ASSUME NEW vars, vars \subseteq Nat, IsFiniteSet(vars), NEW e, e \subseteq vars, ~IsLast(e, vars)
  PROVE  Less(e, NextEvaluation(e, vars), vars)
<1>1. vars \ e # {} /\ vars \ e \subseteq Nat /\ IsFiniteSet(vars \ e)
  BY FS_Difference DEF IsLast
<1>2. PICK m \in vars \ e : \A n \in vars \ e : n <= m
  BY <1>1, LargestElement
<1>3. IsReached(m, e, vars)
  BY <1>2 DEF IsReached
<1>4. m \in NextEvaluation(e, vars) \ e
  BY <1>2, <1>3 DEF NextEvaluation
<1>5. \A i \in vars : i < m => ~IsReached(i, e, vars)
  BY <1>2 DEF IsReached
<1>6. \A i \in vars : i < m => (i \in e <=> i \in NextEvaluation(e, vars))
  BY <1>5 DEF NextEvaluation
<1> QED  BY <1>4, <1>6 DEF Less

LEMMA LessIsTransitive ==
  ASSUME NEW vars, vars \subseteq Nat, NEW e, NEW f, NEW g, Less(e, f, vars), Less(f, g, vars)
  PROVE  Less(e, g, vars)
<1>1. PICK i \in f \ e : i \in vars /\ \A k \in vars : k < i => (k \in e <=> k \in f)
  BY DEF Less
<1>2. PICK j \in g \ f : j \in vars /\ \A k \in vars : k < j => (k \in f <=> k \in g)
  BY DEF Less
<1>3. CASE i < j
  <2>1. i \in g \ e /\ \A k \in vars : k < i => (k \in e <=> k \in g)
    BY <1>1, <1>2, <1>3
  <2> QED  BY <1>1, <2>1 DEF Less
<1>4. CASE j < i
  <2>1. j \in g \ e /\ \A k \in vars : k < j => (k \in e <=> k \in g)
    BY <1>1, <1>2, <1>4
  <2> QED  BY <1>2, <2>1 DEF Less
<1> QED  BY <1>1, <1>2, <1>3, <1>4

\* So the evaluations before the next one are known exactly.
LEMMA BeforeNext ==
  ASSUME NEW vars, vars \subseteq Nat, IsFiniteSet(vars), NEW e, e \subseteq vars,
         ~IsLast(e, vars), NEW f, f \subseteq vars
  PROVE  Less(f, NextEvaluation(e, vars), vars) <=> f = e \/ Less(f, e, vars)
BY NextIsNext, NextIsLater, LessIsTransitive

LEMMA NotBeforeItself == \A e, vars : ~Less(e, e, vars)
BY DEF Less

LEMMA NextIsEvaluation ==
  ASSUME NEW vars, NEW e, e \subseteq vars
  PROVE  NextEvaluation(e, vars) \subseteq vars
BY DEF NextEvaluation

-----------------------------------------------------------------------------
(* The model that points stand for.                                        *)

LEMMA PointIsKept ==
  ASSUME NEW points, NEW i \in DOMAIN points, points[i] \subseteq Variable
  PROVE  PointOf(VariableEvaluations(points), i) = points[i]
<1>1. \A p \in Variable : i \in VariableEvaluations(points)[p] <=> p \in points[i]
  BY DEF VariableEvaluations
<1> QED  BY <1>1 DEF PointOf

LEMMA EvaluateIsPointwise ==
  ASSUME NEW points \in Seq(SUBSET Variable), NEW t
  PROVE  Evaluate(t, VariableEvaluations(points), Len(points))
           = {i \in 1..Len(points) : points[i] \in t}
<1>1. \A i \in 1..Len(points) : PointOf(VariableEvaluations(points), i) = points[i]
  BY PointIsKept
<1> QED  BY <1>1 DEF Evaluate

\* The points break no negative atom if none does by itself and no two that
\* are in contact do together.
LEMMA NegativeAtomsAreLocal ==
  ASSUME NEW r \in Request, NEW points \in Seq(SUBSET Variable), NEW contacts,
         \A i \in 1..Len(points) : IsValidPoint(r, points[i]),
         \A i, j \in 1..Len(points) : j \in contacts[i] =>
           IsContactsFConnectivityRuleSatisfied(r, points[i], points[j])
  PROVE  NegativeAtomsHold(r, VariableEvaluations(points), contacts, Len(points))
<1> DEFINE E(t) == Evaluate(t, VariableEvaluations(points), Len(points))
<1>1. \A t : E(t) = {i \in 1..Len(points) : points[i] \in t}
  BY EvaluateIsPointwise
<1>2. \A z \in r.zero_terms_T : E(z) = {}
  BY <1>1 DEF IsValidPoint, AreZeroTermsTSatisfied
<1>3. ASSUME NEW c \in r.contacts_F
      PROVE  ~IsContactSatisfied(c, VariableEvaluations(points), contacts, Len(points))
  <2> SUFFICES ASSUME NEW i \in E(c[1]), NEW j \in contacts[i] \cap E(c[2])
               PROVE  FALSE
    BY DEF IsContactSatisfied
  <2>1. i \in 1..Len(points) /\ points[i] \in c[1] /\ j \in 1..Len(points) /\ points[j] \in c[2]
    BY <1>1
  <2> QED  BY <2>1 DEF IsContactsFConnectivityRuleSatisfied
<1> QED  BY <1>2, <1>3 DEF NegativeAtomsHold

-----------------------------------------------------------------------------
(* Structures.                                                             *)

\* The parts of a structure that satisfies r pass the tests.
LEMMA SolutionsPass ==
  ASSUME NEW r \in Request, NEW s \in Solutions(r)
  PROVE  /\ s.points # {} /\ s.points \subseteq SUBSET r.used_variables
         /\ s.contacts \subseteq s.points \X s.points
         /\ \A e \in s.points : IsValidPoint(r, e)
         /\ \A x \in s.contacts : IsContactsFConnectivityRuleSatisfied(r, x[1], x[2])
<1> DEFINE Pairs(P) == {S \in SUBSET P : Cardinality(S) = 2}
           Closure(P, E) == {x \in P \X P : x[1] = x[2] \/ {x[1], x[2]} \in E}
<1>0. PICK P \in (SUBSET (SUBSET r.used_variables)) \ {{}} :
        s \in {[points |-> P, contacts |-> Closure(P, E)] : E \in SUBSET Pairs(P)}
  BY DEF Solutions, Structures
<1>1. PICK E \in SUBSET Pairs(P) : s = [points |-> P, contacts |-> Closure(P, E)]
  BY <1>0
<1>2. s.points = P /\ s.contacts = Closure(P, E)
  BY <1>1
<1>3. \A e \in P : <<e, e>> \in s.contacts
  BY <1>2
<1>4. \A x \in s.contacts : <<x[1], x[2]>> \in s.contacts /\ <<x[2], x[1]>> \in s.contacts
  <2> SUFFICES ASSUME NEW x \in s.contacts
               PROVE  <<x[1], x[2]>> \in s.contacts /\ <<x[2], x[1]>> \in s.contacts
    OBVIOUS
  <2>1. x \in P \X P /\ (x[1] = x[2] \/ {x[1], x[2]} \in E)
    BY <1>2
  <2>2. {x[2], x[1]} = {x[1], x[2]}
    OBVIOUS
  <2> QED  BY <1>2, <2>1, <2>2
<1>5. Satisfies(s, r)
  BY DEF Solutions
<1>6. \A c \in r.contacts_F : \A x, y : <<x, y>> \in s.contacts => ~(x \in c[1] /\ y \in c[2])
  <2> SUFFICES ASSUME NEW c \in r.contacts_F, NEW x, NEW y, <<x, y>> \in s.contacts,
                      x \in c[1], y \in c[2]
               PROVE  FALSE
    OBVIOUS
  <2>1. <<x, y>> \in s.contacts \cap (c[1] \X c[2])
    OBVIOUS
  <2> QED  BY <2>1, <1>5 DEF Satisfies
<1>7. \A e \in P : IsValidPoint(r, e)
  <2>1. \A e \in P : AreZeroTermsTSatisfied(r, e)
    BY <1>2, <1>5 DEF Satisfies, AreZeroTermsTSatisfied
  <2>2. \A e \in P : IsContactsFReflexiveRuleSatisfied(r, e)
    BY <1>3, <1>6 DEF IsContactsFReflexiveRuleSatisfied
  <2> QED  BY <2>1, <2>2 DEF IsValidPoint
<1>8. \A x \in s.contacts : IsContactsFConnectivityRuleSatisfied(r, x[1], x[2])
  BY <1>4, <1>6 DEF IsContactsFConnectivityRuleSatisfied
<1> QED  BY <1>1, <1>2, <1>7, <1>8

LEMMA PairHasTwo ==
  ASSUME NEW x, NEW y, x # y
  PROVE  Cardinality({x, y}) = 2
<1>1. IsFiniteSet({x}) /\ Cardinality({x}) = 1
  BY FS_Singleton
<1>2. Cardinality({x} \cup {y}) = 1 + 1
  BY <1>1, FS_AddElement
<1>3. {x} \cup {y} = {x, y}
  OBVIOUS
<1> QED  BY <1>2, <1>3

\* What a model stands for, point by point.
PointsOfModel(points) == {points[i] : i \in 1..Len(points)}
ContactsOfModel(points, contacts) ==
  {<<points[x[1]], points[x[2]]>> :
     x \in {y \in (1..Len(points)) \X (1..Len(points)) : y[2] \in contacts[y[1]]}}

LEMMA StructureIsPointwise ==
  ASSUME NEW points \in Seq(SUBSET Variable), NEW contacts
  PROVE  StructureOf(VariableEvaluations(points), contacts, Len(points))
           = [points |-> PointsOfModel(points), contacts |-> ContactsOfModel(points, contacts)]
<1> DEFINE n == Len(points)
           v == VariableEvaluations(points)
           Touching == {y \in (1..n) \X (1..n) : y[2] \in contacts[y[1]]}
<1>1. \A i \in 1..n : PointOf(v, i) = points[i]
  BY PointIsKept
<1>2. {PointOf(v, i) : i \in 1..n} = PointsOfModel(points)
  <2> HIDE DEF v
  <2> QED  BY <1>1 DEF PointsOfModel
<1>3. {<<PointOf(v, x[1]), PointOf(v, x[2])>> : x \in Touching} = ContactsOfModel(points, contacts)
  <2>1. \A x \in Touching : PointOf(v, x[1]) = points[x[1]] /\ PointOf(v, x[2]) = points[x[2]]
    BY <1>1
  <2> HIDE DEF v
  <2> QED  BY <2>1 DEF ContactsOfModel
<1> QED  BY <1>2, <1>3 DEF StructureOf

LEMMA StructureFromPairs ==
  ASSUME NEW vars, NEW P, P \in (SUBSET (SUBSET vars)) \ {{}},
         NEW E, \A S \in E : S \subseteq P /\ Cardinality(S) = 2,
         NEW C, C = {x \in P \X P : x[1] = x[2] \/ {x[1], x[2]} \in E}
  PROVE  [points |-> P, contacts |-> C] \in Structures(vars)
<1> DEFINE Of(Q) == {[points |-> Q, contacts |-> {x \in Q \X Q : x[1] = x[2] \/ {x[1], x[2]} \in F}]
                       : F \in SUBSET {S \in SUBSET Q : Cardinality(S) = 2}}
<1>1. Structures(vars) = UNION {Of(Q) : Q \in (SUBSET (SUBSET vars)) \ {{}}}
  BY DEF Structures
<1>2. [points |-> P, contacts |-> C] \in Of(P)
  OBVIOUS
<1>3. Of(P) \in {Of(Q) : Q \in (SUBSET (SUBSET vars)) \ {{}}}
  <2> HIDE DEF Of
  <2> QED  OBVIOUS
<1> HIDE DEF Of
<1> QED  BY <1>1, <1>2, <1>3

\* Distinct points under a reflexive and symmetric relation are a structure.
LEMMA ModelIsStructure ==
  ASSUME NEW vars, NEW points \in Seq(SUBSET vars), points # <<>>,
         \A i, j \in 1..Len(points) : points[i] = points[j] => i = j,
         NEW contacts,
         \A i \in 1..Len(points) : i \in contacts[i],
         \A i, j \in 1..Len(points) : j \in contacts[i] => i \in contacts[j]
  PROVE  [points |-> PointsOfModel(points), contacts |-> ContactsOfModel(points, contacts)]
           \in Structures(vars)
<1> DEFINE n == Len(points)
           P == PointsOfModel(points)
           C == ContactsOfModel(points, contacts)
           Apart == {y \in (1..n) \X (1..n) : y[2] \in contacts[y[1]] /\ y[1] # y[2]}
           E == {{points[x[1]], points[x[2]]} : x \in Apart}
           Touching == {x \in P \X P : x[1] = x[2] \/ {x[1], x[2]} \in E}
<1>1. P \in (SUBSET (SUBSET vars)) \ {{}}
  <2>1. \A i \in 1..n : points[i] \in SUBSET vars
    OBVIOUS
  <2>2. 1 \in 1..n
    OBVIOUS
  <2> QED  BY <2>1, <2>2 DEF PointsOfModel
<1>2. \A S \in E : S \subseteq P /\ Cardinality(S) = 2
  <2> SUFFICES ASSUME NEW x \in Apart
               PROVE  /\ {points[x[1]], points[x[2]]} \subseteq P
                      /\ Cardinality({points[x[1]], points[x[2]]}) = 2
    OBVIOUS
  <2>1. points[x[1]] \in P /\ points[x[2]] \in P
    BY DEF PointsOfModel
  <2>2. points[x[1]] # points[x[2]]
    OBVIOUS
  <2> QED  BY <2>1, <2>2, PairHasTwo
<1>3. C = Touching
  <2>1. ASSUME NEW c \in C PROVE c \in Touching
    <3>1. PICK i \in 1..n, j \in 1..n : j \in contacts[i] /\ c = <<points[i], points[j]>>
      BY <2>1 DEF ContactsOfModel
    <3>2. points[i] \in P /\ points[j] \in P
      BY DEF PointsOfModel
    <3>3. CASE i = j
      BY <3>1, <3>2, <3>3
    <3>4. CASE i # j
      <4>1. <<i, j>> \in Apart
        BY <3>1, <3>4
      <4>2. {points[i], points[j]} \in E
        BY <4>1
      <4> QED  BY <3>1, <3>2, <4>2
    <3> QED  BY <3>3, <3>4
  <2>2. ASSUME NEW c \in Touching PROVE c \in C
    <3>1. PICK i \in 1..n, j \in 1..n : c = <<points[i], points[j]>>
      BY <2>2 DEF PointsOfModel
    <3>2. ASSUME NEW k \in 1..n, NEW l \in 1..n, l \in contacts[k], c = <<points[k], points[l]>>
          PROVE  c \in C
      <4>1. <<k, l>> \in {y \in (1..n) \X (1..n) : y[2] \in contacts[y[1]]}
        BY <3>2
      <4> QED  BY <4>1, <3>2 DEF ContactsOfModel
    <3>3. CASE points[i] = points[j]
      <4>1. i \in contacts[i] /\ c = <<points[i], points[i]>>
        BY <3>1, <3>3
      <4> QED  BY <4>1, <3>2
    <3>4. CASE {points[i], points[j]} \in E
      <4>1. PICK k \in 1..n, l \in 1..n :
              l \in contacts[k] /\ {points[i], points[j]} = {points[k], points[l]}
        BY <3>4
      <4>2. k \in contacts[l]
        BY <4>1
      <4>3. \/ points[i] = points[k] /\ points[j] = points[l]
            \/ points[i] = points[l] /\ points[j] = points[k]
        BY <4>1
      <4> QED  BY <3>1, <3>2, <4>1, <4>2, <4>3
    <3> QED  BY <2>2, <3>1, <3>3, <3>4
  <2> QED  BY <2>1, <2>2
<1> HIDE DEF P, C, E
<1> QED  BY <1>1, <1>2, <1>3, StructureFromPairs DEF P, C

\* It satisfies r if its points pass the tests and have what r asks for.
LEMMA ModelSatisfies ==
  ASSUME NEW r \in Request, NEW points, NEW contacts,
         \A i \in 1..Len(points) : IsValidPoint(r, points[i]),
         \A i, j \in 1..Len(points) : j \in contacts[i] =>
           IsContactsFConnectivityRuleSatisfied(r, points[i], points[j]),
         \A z \in r.zero_terms_F : \E i \in 1..Len(points) : points[i] \in z,
         \A c \in r.contacts_T : \E i, j \in 1..Len(points) :
           j \in contacts[i] /\ points[i] \in c[1] /\ points[j] \in c[2]
  PROVE  Satisfies([points |-> PointsOfModel(points),
                    contacts |-> ContactsOfModel(points, contacts)], r)
<1> DEFINE n == Len(points)
           P == PointsOfModel(points)
           C == ContactsOfModel(points, contacts)
<1>1. \A i, j \in 1..n : j \in contacts[i] => <<points[i], points[j]>> \in C
  <2> SUFFICES ASSUME NEW i \in 1..n, NEW j \in 1..n, j \in contacts[i]
               PROVE  <<points[i], points[j]>> \in C
    OBVIOUS
  <2>1. <<i, j>> \in {y \in (1..n) \X (1..n) : y[2] \in contacts[y[1]]}
    OBVIOUS
  <2> QED  BY <2>1 DEF ContactsOfModel
<1>2. \A z \in r.zero_terms_T : P \cap z = {}
  BY DEF PointsOfModel, IsValidPoint, AreZeroTermsTSatisfied
<1>3. \A z \in r.zero_terms_F : P \cap z # {}
  BY DEF PointsOfModel
<1>4. ASSUME NEW c \in r.contacts_F PROVE C \cap (c[1] \X c[2]) = {}
  <2> SUFFICES ASSUME NEW x \in C, x \in c[1] \X c[2] PROVE FALSE
    OBVIOUS
  <2>1. PICK i \in 1..n, j \in 1..n : j \in contacts[i] /\ x = <<points[i], points[j]>>
    BY DEF ContactsOfModel
  <2>2. points[i] \in c[1] /\ points[j] \in c[2]
    BY <2>1
  <2> QED  BY <2>1, <2>2 DEF IsContactsFConnectivityRuleSatisfied
<1>5. ASSUME NEW c \in r.contacts_T PROVE C \cap (c[1] \X c[2]) # {}
  <2>1. PICK i \in 1..n, j \in 1..n : j \in contacts[i] /\ points[i] \in c[1] /\ points[j] \in c[2]
    OBVIOUS
  <2>2. <<points[i], points[j]>> \in C /\ <<points[i], points[j]>> \in c[1] \X c[2]
    BY <1>1, <2>1
  <2> QED  BY <2>2
<1> QED  BY <1>2, <1>3, <1>4, <1>5 DEF Satisfies

\* What r asks for, a structure that satisfies it has, in points that pass.
LEMMA SolutionsHavePoints ==
  ASSUME NEW r \in Request, NEW s \in Solutions(r)
  PROVE  /\ \A z \in r.zero_terms_F : \E e \in SUBSET r.used_variables : e \in z /\ IsValidPoint(r, e)
         /\ \A c \in r.contacts_T : \E e, f \in SUBSET r.used_variables :
              /\ e \in c[1] /\ IsValidPoint(r, e)
              /\ f \in c[2] /\ IsValidPoint(r, f)
              /\ IsContactsFConnectivityRuleSatisfied(r, e, f)
         /\ \E e \in SUBSET r.used_variables : IsValidPoint(r, e)
<1>1. /\ s.points # {} /\ s.points \subseteq SUBSET r.used_variables
      /\ s.contacts \subseteq s.points \X s.points
      /\ \A e \in s.points : IsValidPoint(r, e)
      /\ \A x \in s.contacts : IsContactsFConnectivityRuleSatisfied(r, x[1], x[2])
  BY SolutionsPass
<1>2. Satisfies(s, r)
  BY DEF Solutions
<1>3. \A z \in r.zero_terms_F : \E e \in s.points : e \in z
  BY <1>2 DEF Satisfies
<1>4. ASSUME NEW c \in r.contacts_T
      PROVE  \E e, f \in s.points : e \in c[1] /\ f \in c[2]
                                    /\ IsContactsFConnectivityRuleSatisfied(r, e, f)
  <2>1. PICK x \in s.contacts : x \in c[1] \X c[2]
    BY <1>2 DEF Satisfies
  <2>2. x[1] \in s.points /\ x[2] \in s.points /\ x[1] \in c[1] /\ x[2] \in c[2]
    BY <2>1, <1>1
  <2> QED  BY <2>2, <1>1
<1> QED  BY <1>1, <1>3, <1>4

-----------------------------------------------------------------------------
(* The points of a model of a request.                                     *)

LEMMA UsedIsFinite ==
  ASSUME NEW r \in Request
  PROVE  r.used_variables \subseteq Variable /\ r.used_variables \subseteq Nat
         /\ IsFiniteSet(r.used_variables)
BY RequestAssumption, VariableAssumption, FS_Subset

LEMMA FinitePart ==
  ASSUME NEW n \in Nat, NEW S, S \subseteq 1..n
  PROVE  IsFiniteSet(S) /\ Cardinality(S) \in Nat
<1>1. IsFiniteSet(1..n)
  BY FS_Interval
<1> QED  BY <1>1, FS_Subset, FS_CardinalityType

\* Points that a model of the negative atoms can have, each once.
GoodPoints(r, points) ==
  /\ points \in Seq(SUBSET r.used_variables)
  /\ \A i, j \in 1..Len(points) : points[i] = points[j] => i = j
  /\ \A i \in 1..Len(points) : IsValidPoint(r, points[i])

\* All contacts that the negative atoms allow.
AllContacts(r, points, contacts) ==
  /\ contacts \in [1..Len(points) -> SUBSET (1..Len(points))]
  /\ \A i, j \in 1..Len(points) :
       j \in contacts[i] <=> IsContactsFConnectivityRuleSatisfied(r, points[i], points[j])

\* Point e is one of points, and all valid points are.
Has(points, e) == \E i \in 1..Len(points) : points[i] = e

AllValid(r, points) ==
  /\ GoodPoints(r, points)
  /\ \A f \in SUBSET r.used_variables : IsValidPoint(r, f) => Has(points, f)

LEMMA ContactsAreSymmetric ==
  ASSUME NEW r, NEW points, NEW contacts, GoodPoints(r, points), AllContacts(r, points, contacts)
  PROVE  /\ \A i \in 1..Len(points) : i \in contacts[i]
         /\ \A i, j \in 1..Len(points) : j \in contacts[i] => i \in contacts[j]
<1>1. \A e : IsValidPoint(r, e) => IsContactsFConnectivityRuleSatisfied(r, e, e)
  BY DEF IsValidPoint, IsContactsFReflexiveRuleSatisfied, IsContactsFConnectivityRuleSatisfied
<1>2. \A e, f : IsContactsFConnectivityRuleSatisfied(r, e, f)
                  => IsContactsFConnectivityRuleSatisfied(r, f, e)
  BY DEF IsContactsFConnectivityRuleSatisfied
<1> QED  BY <1>1, <1>2 DEF GoodPoints, AllContacts
=============================================================================
