------------------------------ MODULE Refiners ------------------------------
(***************************************************************************)
(* The AST of a formula (parser_lib/ast.h), and what the visitors of       *)
(* parser_lib/visitor.cpp that rewrite it before the prover sees it do at  *)
(* a node.  Module Visitors applies them to all the nodes.                 *)
(*                                                                         *)
(* A node is its operation followed by its children, a variable is         *)
(* followed by its name.  Formulas and terms have their constants in       *)
(* common.  The code rewrites in place; that each visitor deep-copies what *)
(* it needs twice is left out with the ownership of nodes.                 *)
(***************************************************************************)
EXTENDS Naturals

CONSTANT Variable     \* the names of variables

True == <<"constant_true">>
False == <<"constant_false">>
Not(f) == <<"negation", f>>
EqZero(t) == <<"eq_zero", t>>

UnaryFormula == {"negation"}
BinaryFormula == {"conjunction", "disjunction", "implication", "equality"}
UnaryAtomic == {"eq_zero"}
BinaryAtomic == {"contact", "less_eq", "measured_less_eq"}
UnaryTerm == {"complement"}
BinaryTerm == {"union_", "intersection"}

Unary == UnaryFormula \cup UnaryAtomic \cup UnaryTerm
Binary == BinaryFormula \cup BinaryAtomic \cup BinaryTerm
Leaf == {True, False} \cup ({"variable"} \X Variable)

\* Trees[d]: the trees of nodes with at most d nodes above each other and a leaf.
Trees[d \in Nat] ==
  LET below == IF d = 0 THEN {} ELSE Trees[d - 1]
  IN Leaf \cup (Unary \X below) \cup (Binary \X below \X below)

\* The depth of the tree n.
Depth(n) ==
  LET from[d \in Nat] == IF n \in Trees[d] THEN d ELSE from[d + 1] IN from[0]

IsTree(n) == Depth(n) \in Nat /\ n \in Trees[Depth(n)]

Children(n) ==
  IF n[1] \in Binary THEN {n[2], n[3]} ELSE IF n[1] \in Unary THEN {n[2]} ELSE {}

\* n with f of its children.
OnChildren(f, n) ==
  IF n[1] \in Binary THEN <<n[1], f[n[2]], f[n[3]]>>
  ELSE IF n[1] \in Unary THEN <<n[1], f[n[2]]>> ELSE n

-----------------------------------------------------------------------------
(* What a visitor makes of a node whose children it has visited.           *)

\* (f -> g) => (~f | g), (f <-> g) => ((f & g) | (~f & ~g)).
MutantImplicationToDisj(n) ==
  IF n[1] = "implication" THEN <<"disjunction", Not(n[2]), n[3]>> ELSE n

ConvertImplicationEqualityToConjDisj(n) ==
  CASE n[1] = "implication" -> <<"disjunction", Not(n[2]), n[3]>>
    [] n[1] = "equality" -> <<"disjunction", <<"conjunction", n[2], n[3]>>,
                                             <<"conjunction", Not(n[2]), Not(n[3])>>>>
    [] OTHER -> n

\* C(a,a) -> ~(a=0), <=(a,a) -> T.
MutantEqualTerms(n) ==
  IF n[1] \in {"contact", "less_eq"} /\ n[2] = n[3] THEN True ELSE n

ConvertLessEqContactWithEqualTerms(n) ==
  CASE n[1] = "contact" /\ n[2] = n[3] -> Not(EqZero(n[3]))
    [] n[1] = "less_eq" /\ n[2] = n[3] -> True
    [] OTHER -> n

\* <=(l,r) -> (l * -r) = 0.
ConvertLessEqToEqZero(n) ==
  IF n[1] = "less_eq" THEN EqZero(<<"intersection", n[2], <<"complement", n[3]>>>>) ELSE n

ReduceConstants(n) ==
  LET some(c) == c \in Children(n)
      other(c) == IF n[3] = c THEN n[2] ELSE n[3]
  IN CASE n[1] \in {"negation", "complement"} ->
            IF some(False) THEN True ELSE IF some(True) THEN False ELSE n
       [] n[1] \in {"conjunction", "intersection"} ->
            IF some(True) THEN other(True) ELSE IF some(False) THEN False ELSE n
       [] n[1] \in {"disjunction", "union_"} ->
            IF some(False) THEN other(False) ELSE IF some(True) THEN True ELSE n
       [] n[1] = "eq_zero" ->
            IF some(False) THEN True ELSE IF some(True) THEN False ELSE n
       [] n[1] = "contact" ->
            IF some(False) THEN False ELSE IF Children(n) = {True} THEN True ELSE n
       [] n[1] = "less_eq" ->
            IF n[2] = False \/ n[3] = True THEN True ELSE n
       [] OTHER -> n

\* C(a,1) -> ~(a=0), C(1,a) -> ~(a=0).  The children of a formula node may be
\* formulas or terms (Node*), so that the equation could be forgotten.
MutantContactsWithConstantTerms(n) ==
  CASE n[1] = "contact" /\ n[3] = True -> Not(n[2])
    [] n[1] = "contact" /\ n[3] # True /\ n[2] = True -> Not(n[3])
    [] OTHER -> n

ConvertContactsWithConstantTerms(n) ==
  CASE n[1] = "contact" /\ n[3] = True -> Not(EqZero(n[2]))
    [] n[1] = "contact" /\ n[3] # True /\ n[2] = True -> Not(EqZero(n[3]))
    [] OTHER -> n

\* --g -> g and --a -> a.
ReduceDoubleNegation(n) ==
  IF n[1] \in {"negation", "complement"} /\ n[2][1] = n[1] THEN n[2][2] ELSE n

-----------------------------------------------------------------------------
\* What a visitor makes of a node whose children it visits afterwards:
\* <=(a+b,c) -> <=(a,c) & <=(b,c), C(a+b,c) -> C(a,c) | C(b,c), C(a,b+c) -> C(a,b) | C(a,c).
SplitDisjInLessEqAndContacts(n) ==
  CASE n[1] = "less_eq" /\ n[2][1] = "union_" ->
         <<"conjunction", <<n[1], n[2][2], n[3]>>, <<n[1], n[2][3], n[3]>>>>
    [] n[1] = "contact" /\ n[2][1] = "union_" ->
         <<"disjunction", <<n[1], n[2][2], n[3]>>, <<n[1], n[2][3], n[3]>>>>
    [] n[1] = "contact" /\ n[2][1] # "union_" /\ n[3][1] = "union_" ->
         <<"disjunction", <<n[1], n[2], n[3][2]>>, <<n[1], n[2], n[3][3]>>>>
    [] OTHER -> n
=============================================================================
