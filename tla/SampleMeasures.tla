--------------------------- MODULE SampleMeasures ---------------------------
(***************************************************************************)
(* Atoms of paths for the measured model: four variables, of which most    *)
(* paths use the first two, and measures of terms over them.               *)
(***************************************************************************)
EXTENDS Naturals, FiniteSets

SampleVariable == 0..3

One == SUBSET SampleVariable
a == {e \in One : 0 \in e}
b == {e \in One : 1 \in e}
NotA == One \ a
NotB == One \ b
OnlyA == a \ b
OnlyB == b \ a
Neither == NotA \ b

UpTo(n, S) == {P \in SUBSET S : Cardinality(P) <= n}

Contacts == {<<a, b>>, <<OnlyA, NotA>>}
Measured == {<<a, b>>, <<b, a>>, <<OnlyB, {}>>, <<NotA, OnlyA>>}

\* An open path has no atom with both signs.
IsOpen(r) ==
  /\ r.contacts_T \cap r.contacts_F = {}
  /\ r.zero_terms_T \cap r.zero_terms_F = {}
  /\ \A c \in r.contacts_T : {c[1], c[2]} \cap r.zero_terms_T = {}
  /\ r.measured_less_eq_T \cap r.measured_less_eq_F = {}

\* Paths that only have atoms about measures.
Measures(less_eq_T, less_eq_F, names) ==
  [contacts_T |-> {}, contacts_F |-> {}, zero_terms_T |-> {}, zero_terms_F |-> {},
   measured_less_eq_T |-> less_eq_T, measured_less_eq_F |-> less_eq_F,
   used_variables |-> names, variable_names |-> names]

\* Paths of formulas without variables: ~C(0,1), which one point satisfies,
\* ~C(1,1), which none does, and <=m(1,0).
NoContact(c) == [Measures({}, {}, {}) EXCEPT !.contacts_F = {c}]
ConstantRequest == {NoContact(<<{}, One>>), NoContact(<<One, One>>), Measures({<<One, {}>>}, {}, {})}

\* Paths that exceed the limits.
Extremes == {Measures({<<a, b>>}, {}, 0..2), Measures({<<a, b>>}, {}, SampleVariable)}

\* At most three atoms, and at most two of them not about measures.
Size(r) ==
  Cardinality(r.contacts_T) + Cardinality(r.contacts_F)
    + Cardinality(r.zero_terms_T) + Cardinality(r.zero_terms_F)
MeasuredSize(r) == Cardinality(r.measured_less_eq_T) + Cardinality(r.measured_less_eq_F)

MeasuredRequest ==
  {r \in [contacts_T : UpTo(1, Contacts), contacts_F : UpTo(1, Contacts),
          zero_terms_T : UpTo(1, {OnlyA}), zero_terms_F : UpTo(1, {OnlyA, b}),
          measured_less_eq_T : UpTo(2, Measured), measured_less_eq_F : UpTo(2, Measured),
          used_variables : {{0, 1}}, variable_names : {SampleVariable}] :
     IsOpen(r) /\ Size(r) <= 2 /\ MeasuredSize(r) <= 2 /\ Size(r) + MeasuredSize(r) <= 3}
    \cup Extremes \cup ConstantRequest

\* <=m(a+b, -a) & ~<=m(a*b, a*-b + -a*b) & ~<=m(a, -a*-b): the first and the
\* last contradict each other, by no more than one unit.
CloseRequest ==
  {Measures({<<a \cup b, NotA>>}, {<<a \cap b, OnlyA \cup OnlyB>>, <<a, Neither>>}, {0, 1})}
=============================================================================
