----------------------------- MODULE MCFormulaMgr -----------------------------
(***************************************************************************)
(* FormulaMgr on texts over two variables: every contact and inclusion of  *)
(* the sample terms, and every combination of a few atomic formulas, with  *)
(* all the refiners, none, and all but one.  The structures have one or    *)
(* two points.                                                             *)
(***************************************************************************)
EXTENDS FormulaMgr

MCVariable == {"a", "b"}

A == <<"variable", "a">>
B == <<"variable", "b">>
Union(t, u) == <<"union_", t, u>>
Intersection(t, u) == <<"intersection", t, u>>
Complement(t) == <<"complement", t>>

Terms == {A, True, False, Union(A, B), Union(B, False), Intersection(A, True),
          Complement(Complement(A)), Complement(True)}

Contact(t, u) == <<"contact", t, u>>
Less(t, u) == <<"less_eq", t, u>>
Measured(t, u) == <<"measured_less_eq", t, u>>

Atoms ==
  {Contact(t, u) : t, u \in Terms} \cup {Less(t, u) : t, u \in Terms}
    \cup {EqZero(t) : t \in Terms}
    \cup {Measured(t, True) : t \in Terms} \cup {Measured(A, B)}

Parts == {True, False, Contact(A, True), Not(Contact(A, Union(B, B))), Less(A, Union(A, B)),
          EqZero(Intersection(B, False)), Measured(A, B)}

Combined(S) == {<<op, f, g>> : op \in BinaryFormula, f, g \in S}

Nested == {<<op, f, Not(g)>> : op \in {"implication", "disjunction"},
                               f \in {Not(Not(Contact(A, B))), Less(A, B)},
                               g \in Combined({Contact(B, True), Not(Less(B, A)), True})}

Texts == Atoms \cup {Not(Not(Not(f))) : f \in Parts} \cup Combined(Parts) \cup Nested

\* All the refiners, none, and all but one.
Flags == {Flag, {}} \cup {Flag \ {name} : name \in Flag}

MCInput == [ast : Texts \cup {NoAST}, flags : Flags]

\* <=m(a,b) | ~C(a,b)
EitherMeasured ==
  {[ast |-> <<"disjunction", Measured(A, B), Not(Contact(A, B))>>, flags |-> Flag]}

-----------------------------------------------------------------------------
(* The structures: one or two points, contacts between them.               *)

Points == SUBSET MCVariable

MCModel ==
  UNION {
    {[points |-> P, contacts |-> C \cup {{p} : p \in P}] :
       C \in SUBSET ({{p, q} : p, q \in P} \ {{p} : p \in P})}
    : P \in {Q \in SUBSET Points : Cardinality(Q) \in {1, 2}}}

\* A point in more variables weighs more.
MeasureOf(s, u) == MapThenSumSet(LAMBDA p : 1 + Cardinality(p), s.points \cap u)

MCEmpty ==
  [u \in SUBSET Points |-> {m \in MCModel : m.points \cap u = {}}]
MCInContact ==
  [u \in SUBSET Points |-> [v \in SUBSET Points |->
     {m \in MCModel : \E p \in u, q \in v : {p, q} \in m.contacts}]]
MCLessEq ==
  [u \in SUBSET Points |-> [v \in SUBSET Points |->
     {m \in MCModel : MeasureOf(m, u) <= MeasureOf(m, v)}]]
=============================================================================
