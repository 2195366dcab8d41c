------------------------------ MODULE Visitors ------------------------------
(***************************************************************************)
(* The visitors of parser_lib/visitor.cpp on whole ASTs, and what an AST   *)
(* is taken to mean.  A visitor goes down to the leaves and makes something *)
(* of a node from what it has made of the children: a node again if it     *)
(* refines the AST, else what it finds out about the node.  One that       *)
(* refines formulas only does not go into terms, which is the same as      *)
(* leaving them as they are.                                               *)
(*                                                                         *)
(* The structures of the logic are members of Model, described by the      *)
(* atomic formulas that they make true: a structure is made of points, a   *)
(* point of the variables that it is in.                                   *)
(***************************************************************************)
EXTENDS Refiners

CONSTANTS
  Model,        \* the structures that a model class can return
  Empty,        \* Empty[u]: the structures with no point in u
  InContact,    \* InContact[u][v]: those with a point of u in contact with one of v
  LessEq        \* LessEq[u][v]: those where u has at most the measure of v

Point == SUBSET Variable

ASSUME ModelAssumption == Model # {}

\* Structures have a point, and contact is reflexive and symmetric
\* (model.cpp:34-37, 56-75).
ASSUME StructureAssumption ==
  /\ Empty \in [SUBSET Point -> SUBSET Model]
  /\ InContact \in [SUBSET Point -> [SUBSET Point -> SUBSET Model]]
  /\ LessEq \in [SUBSET Point -> [SUBSET Point -> SUBSET Model]]
  /\ Empty[{}] = Model /\ Empty[Point] = {}
  /\ \A u \in SUBSET Point : InContact[{}][u] = {} /\ InContact[u][u] = Model \ Empty[u]
  /\ \A u \in SUBSET Point : InContact[u][Point] = Model \ Empty[u]
  /\ \A u, v \in SUBSET Point : Empty[u \cup v] = Empty[u] \cap Empty[v]
  /\ \A u, v \in SUBSET Point : InContact[u][v] = InContact[v][u]
  /\ \A u, v, w \in SUBSET Point :
       InContact[u \cup v][w] = InContact[u][w] \cup InContact[v][w]

-----------------------------------------------------------------------------
(* What a node means, c being what its children mean: as a term the points *)
(* in it, as a formula the structures in which it holds.                   *)

Value(n, c) ==
  CASE n[1] = "constant_true" -> Point
    [] n[1] = "variable" -> {e \in Point : n[2] \in e}
    [] n[1] = "union_" -> c[2].value \cup c[3].value
    [] n[1] = "intersection" -> c[2].value \cap c[3].value
    [] n[1] = "complement" -> Point \ c[2].value
    [] OTHER -> {}

Holds(n, c) ==
  CASE n[1] = "constant_true" -> Model
    [] n[1] = "conjunction" -> c[2].models \cap c[3].models
    [] n[1] = "disjunction" -> c[2].models \cup c[3].models
    [] n[1] = "implication" -> (Model \ c[2].models) \cup c[3].models
    [] n[1] = "equality" -> {m \in Model : m \in c[2].models <=> m \in c[3].models}
    [] n[1] = "negation" -> Model \ c[2].models
    [] n[1] = "eq_zero" -> Empty[c[2].value]
    [] n[1] = "less_eq" -> Empty[c[2].value \ c[3].value]
    [] n[1] = "contact" -> InContact[c[2].value][c[3].value]
    [] n[1] = "measured_less_eq" -> LessEq[c[2].value][c[3].value]
    [] OTHER -> {}

-----------------------------------------------------------------------------
(* formula::evaluate_internal.  measured: nothing but <=m was looked at,   *)
(* so that the value does not count.                                       *)

Evaluation(value, measured) == [value |-> value, measured |-> measured]
Fails(e) == ~e.measured /\ ~e.value

Conjunction(left, right) ==
  IF Fails(left) \/ Fails(right) THEN Evaluation(FALSE, FALSE)
  ELSE Evaluation(TRUE, left.measured /\ right.measured)

MutantDisjunction(left, right) == Conjunction(left, right)
Disjunction(left, right) ==
  IF ~left.measured /\ left.value THEN Evaluation(TRUE, FALSE)
  ELSE IF Fails(right) THEN Evaluation(FALSE, FALSE)
  ELSE Evaluation(TRUE, left.measured /\ right.measured)

\* c is what has been evaluated of the children; <-> , -> and <= are never evaluated.
EvaluateInternal(n, c, m) ==
  CASE n[1] = "conjunction" -> Conjunction(c[2].truth[m], c[3].truth[m])
    [] n[1] = "disjunction" -> Disjunction(c[2].truth[m], c[3].truth[m])
    [] n[1] = "negation" -> Evaluation(~c[2].truth[m].value, c[2].truth[m].measured)
    [] n[1] = "eq_zero" -> Evaluation(m \in Empty[c[2].value], FALSE)
    [] n[1] = "contact" -> Evaluation(m \in InContact[c[2].value][c[3].value], FALSE)
    [] n[1] = "measured_less_eq" -> Evaluation(TRUE, TRUE)
    [] OTHER -> Evaluation(TRUE, FALSE)

-----------------------------------------------------------------------------
\* What visitor v makes of n before it visits the children.
Before(v, n) ==
  IF v = "convert_disjunction_in_contact_less_eq" THEN SplitDisjInLessEqAndContacts(n) ELSE n

\* What visitor v makes of n, c being n with what it has made of the children.
At(v, n, c) ==
  CASE v = "convert_implication_equality" -> ConvertImplicationEqualityToConjDisj(c)
    [] v = "convert_contact_less_eq_with_same_terms" -> ConvertLessEqContactWithEqualTerms(c)
    [] v = "convert_disjunction_in_contact_less_eq" -> c
    [] v = "convert_less_eq" -> ConvertLessEqToEqZero(c)
    [] v = "reduce_constants" -> ReduceConstants(c)
    [] v = "reduce_contacts_with_constants" -> ConvertContactsWithConstantTerms(c)
    [] v = "remove_double_negation" -> ReduceDoubleNegation(c)
    [] v = "identity" -> IF n[1] = "contact" THEN <<n[1], Children(c)>> ELSE c
    [] v = "nodes" -> {n} \cup UNION Children(c)
    [] v = "means" -> [value |-> Value(n, c), models |-> Holds(n, c)]
    [] v = "evaluate" ->
         [value |-> Value(n, c), truth |-> [m \in Model |-> EvaluateInternal(n, c, m)]]

\* accept.
Visit(v, n) ==
  LET visit[m \in Trees[Depth(n)]] ==
        LET k == Before(v, m) IN At(v, k, OnChildren(visit, k))
  IN visit[n]

-----------------------------------------------------------------------------
\* The structures in which the formula f holds.
Meaning(f) == Visit("means", f).models

\* What operator== compares of n: the order of the sides of a contact is left out.
Identity(n) == Visit("identity", n)

\* The nodes at and below n.
Nodes(n) == Visit("nodes", n)

\* VVariablesGetter.
VariablesOf(n) == {k[2] : k \in {j \in Nodes(n) : j[1] = "variable"}}

\* n has the children that its operation calls for.
IsFormulaNode(n) ==
  n[1] \in {"constant_true", "constant_false"} \cup UnaryFormula \cup BinaryFormula
             \cup UnaryAtomic \cup BinaryAtomic
IsTermNode(n) ==
  n[1] \in {"constant_true", "constant_false", "variable"} \cup UnaryTerm \cup BinaryTerm

Fits(n) ==
  \A c \in Children(n) :
    IF n[1] \in UnaryFormula \cup BinaryFormula THEN IsFormulaNode(c) ELSE IsTermNode(c)

IsFormula(n) ==
  /\ IsTree(n)
  /\ IsFormulaNode(n)
  /\ \A k \in Nodes(n) : Fits(k)
=============================================================================
