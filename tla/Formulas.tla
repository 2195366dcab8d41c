------------------------------ MODULE Formulas ------------------------------
(***************************************************************************)
(* The formulas the provers work on (formula_lib/private/formula.h) and    *)
(* what it means for one of them to hold.                                  *)
(*                                                                         *)
(* A formula is the value of an AST node: two nodes that operator==        *)
(* identifies (C(a,b) and C(b,a) among them) are one element of Formula.   *)
(* The left and right children are functions, so that a specification can  *)
(* be proved about for every set of formulas and not for one shape of AST. *)
(***************************************************************************)
CONSTANTS
  Formula,      \* the nodes of the formulas under consideration
  Op,           \* operation_t of a node
  Left,         \* the left child formula of a formula operation
  Right,        \* the right child formula of a conjunction or disjunction
  LeftTerm,     \* the left child term of an atomic formula
  RightTerm,    \* the right child term of C and <=m
  Models,       \* the structures a model class searches through
  Theory        \* Theory[M]: the set of formulas that hold in structure M

Constants == {"constant_true", "constant_false"}
Atomics == {"c", "eq_zero", "measured_less_eq"}
FormulaOperations == {"negation", "conjunction", "disjunction"}

OperationT == Constants \cup Atomics \cup FormulaOperations

IsConstant(f) == Op[f] \in Constants
IsFormulaOperation(f) == Op[f] \in FormulaOperations

(***************************************************************************)
(* Every node is well formed: it has the children its operation calls for. *)
(***************************************************************************)
ASSUME SyntaxAssumption ==
  /\ Op \in [Formula -> OperationT]
  /\ \A f \in Formula : IsFormulaOperation(f) => Left[f] \in Formula
  /\ \A f \in Formula :
       Op[f] \in {"conjunction", "disjunction"} => Right[f] \in Formula

(***************************************************************************)
(* There is a structure, and the connectives have their classical meaning  *)
(* in every structure.                                                     *)
(***************************************************************************)
ASSUME NonemptyAssumption == Models # {}

ASSUME SemanticsAssumption ==
  \A M \in Models : \A f \in Formula :
    /\ Op[f] = "constant_true"  => f \in Theory[M]
    /\ Op[f] = "constant_false" => f \notin Theory[M]
    /\ Op[f] = "negation"    => (f \in Theory[M] <=> Left[f] \notin Theory[M])
    /\ Op[f] = "conjunction" => (f \in Theory[M] <=> /\ Left[f] \in Theory[M]
                                                     /\ Right[f] \in Theory[M])
    /\ Op[f] = "disjunction" => (f \in Theory[M] <=> \/ Left[f] \in Theory[M]
                                                     \/ Right[f] \in Theory[M])

(***************************************************************************)
(* C(a,b) -> a # 0 & b # 0, the rule of contact (tableau.cpp:308): terms   *)
(* in contact are not empty in any structure.                              *)
(***************************************************************************)
ASSUME ContactRuleAssumption ==
  \A c \in {f \in Formula : Op[f] = "c"} :
    \A z \in {f \in Formula : Op[f] = "eq_zero"} :
      LeftTerm[z] \in {LeftTerm[c], RightTerm[c]} =>
        \A M \in Models : c \in Theory[M] => z \notin Theory[M]

(***************************************************************************)
(* f is satisfiable when some structure makes it true.                     *)
(***************************************************************************)
IsSatisfiable(f) == \E M \in Models : f \in Theory[M]
=============================================================================
