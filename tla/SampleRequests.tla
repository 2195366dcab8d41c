--------------------------- MODULE SampleRequests ---------------------------
(***************************************************************************)
(* Atoms of paths for the model classes: three variables, of which the     *)
(* paths use those with the ids 0 and 2, and the terms a, -a, b and -a*b   *)
(* over them.                                                              *)
(***************************************************************************)
EXTENDS Naturals, FiniteSets

SampleVariable == 0..2

a == {e \in SUBSET SampleVariable : 0 \in e}
b == {e \in SUBSET SampleVariable : 2 \in e}
NotA == {e \in SUBSET SampleVariable : 0 \notin e}
BNotA == b \ a

\* The subsets of S with up to n elements.
UpTo(n, S) == {P \in SUBSET S : Cardinality(P) <= n}

Contacts == {<<a, b>>, <<a, NotA>>, <<b, NotA>>, <<NotA, BNotA>>}
ZeroTerms == {a, BNotA}
NonZeroTerms == {NotA, b, BNotA}

\* An open path has no atom with both signs, and the contact rule of the
\* tableau closes it if a term in contact is zero.
IsOpen(r) ==
  /\ r.contacts_T \cap r.contacts_F = {}
  /\ r.zero_terms_T \cap r.zero_terms_F = {}
  /\ \A c \in r.contacts_T : {c[1], c[2]} \cap r.zero_terms_T = {}

\* A path with measures only: the models here do not look at those.
NoAtoms(used) ==
  [contacts_T |-> {}, contacts_F |-> {}, zero_terms_T |-> {}, zero_terms_F |-> {},
   used_variables |-> used]

FastRequest ==
  {r \in [contacts_T : UpTo(2, Contacts), contacts_F : UpTo(2, Contacts),
          zero_terms_T : UpTo(1, ZeroTerms), zero_terms_F : UpTo(1, NonZeroTerms),
          used_variables : {{0, 2}}] : IsOpen(r)}
    \cup {NoAtoms({})}

-----------------------------------------------------------------------------
(* Requests that tear the points apart, into up to four components, and    *)
(* one over a variable more than the connected model is set to.            *)

NotB == {e \in SUBSET SampleVariable : 2 \notin e}
AAndB == a \cap b

ConnectedRequest ==
  {r \in [contacts_T : UpTo(1, {<<a, b>>, <<b, NotA>>}),
          contacts_F : UpTo(2, {<<a, NotA>>, <<b, NotB>>, <<a, b>>, <<BNotA, NotB \ a>>}),
          zero_terms_T : UpTo(1, {BNotA, NotB}),
          zero_terms_F : UpTo(2, {a, NotA, b, AAndB}),
          used_variables : {{0, 2}}] : IsOpen(r)}
    \cup {NoAtoms({}), NoAtoms(SampleVariable)}
=============================================================================
