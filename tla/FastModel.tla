------------------------------ MODULE FastModel ------------------------------
(***************************************************************************)
(* model::create of formula_lib/private/model.cpp, the fast model: two     *)
(* points in contact for each C(a,b) of the path, a point for each a # 0,  *)
(* one point if there is neither.  Each is searched for by enumerating the *)
(* evaluations; the contacts are kept in a matrix of fixed size.           *)
(*                                                                         *)
(* One action tests one evaluation.  The atoms come out of hash sets, in   *)
(* any order.  The tableau hands the same model to one call after another. *)
(***************************************************************************)
EXTENDS Points

CONSTANT None   \* the answer of a call that finds no model

VARIABLES
  pc,                 \* what create() does next
  request,            \* the atoms of the path, of any path before the first call
  contacts_T,         \* the contacts not looked at yet
  zero_terms_F,       \* the non-zero terms not looked at yet
  atom,               \* the terms, one or two, that points are searched for
  left_eval,          \* the evaluation of its (left) point
  right_eval,         \* the evaluation of the right point of a contact
  points_,            \* the points of the model
  contact_relations_, \* the matrix: for each row the columns set in it
  created             \* what create() has returned

atomVars == <<contacts_T, zero_terms_F>>
evalVars == <<left_eval, right_eval>>
modelVars == <<points_, contact_relations_>>
vars == <<pc, request, atomVars, atom, evalVars, modelVars, created>>

used == request.used_variables

Init ==
  /\ pc = "idle"
  /\ request = CHOOSE r \in Request : TRUE
  /\ contacts_T = {} /\ zero_terms_F = {}
  /\ atom = <<>> /\ left_eval = {} /\ right_eval = {}
  /\ points_ = <<>> /\ contact_relations_ = <<>>
  /\ created = FALSE

-----------------------------------------------------------------------------
(* The helpers.                                                            *)

\* does_point_evaluation_satisfies_basic_rules.
Fits(t, e) == e \in t /\ IsValidPoint(request, e)

MutantMatrixSize(r) ==
  LET n == Cardinality(r.contacts_T) + Cardinality(r.zero_terms_F)
  IN IF n = 0 THEN 1 ELSE n

\* expected_maximal_number_of_modal_points.
MatrixSize(r) ==
  LET n == 2 * Cardinality(r.contacts_T) + Cardinality(r.zero_terms_F)
  IN IF n = 0 THEN 1 ELSE n

\* add_point: an evaluation that is a point already is not added again.
WithPoint(points, e) ==
  IF \E i \in DOMAIN points : points[i] = e THEN points ELSE Append(points, e)

\* get_point_index.
PointIndex(points, e) == CHOOSE i \in DOMAIN points : points[i] = e

MutantWithContact(matrix, i, j) == [matrix EXCEPT ![i] = @ \cup {j}]

\* add_contact, between two points of the model.
WithContact(matrix, i, j) == [matrix EXCEPT ![i] = @ \cup {j}, ![j] = @ \cup {i}]

\* reduce_contact_matrix: the rows and columns of the points are left.
Reduced(matrix, n) == [i \in 1..n |-> matrix[i] \cap 1..n]

MutantCleared(points) == points

\* clear: the points of an earlier call are gone.
Cleared(points) == <<>>

-----------------------------------------------------------------------------
\* create is called: clear and construct_contact_matrix.
Start ==
  /\ pc \in {"idle", "done", "terminated"}
  /\ pc' = "atoms"
  /\ request' \in Request
  /\ contacts_T' = request'.contacts_T
  /\ zero_terms_F' = request'.zero_terms_F
  /\ atom' = <<>> /\ left_eval' = {} /\ right_eval' = {}
  /\ points_' = Cleared(points_)
  /\ contact_relations_' = [i \in 1..MatrixSize(request') |-> {i}]
  /\ created' = FALSE

\* create returns false.
GiveUp ==
  /\ pc' = "done"
  /\ created' = FALSE
  /\ UNCHANGED <<request, atomVars, atom, evalVars, modelVars>>

-----------------------------------------------------------------------------
(* construct_contact_model_points.                                         *)

TakeContact ==
  /\ pc = "atoms"
  /\ \E c \in contacts_T : contacts_T' = contacts_T \ {c} /\ atom' = c
  /\ left_eval' = {}
  /\ pc' = "left"
  /\ UNCHANGED <<request, zero_terms_F, right_eval, modelVars, created>>

\* One more left point is looked for, or there is none.
NextLeft ==
  \/ /\ IsLast(left_eval, used)
     /\ GiveUp
  \/ /\ ~IsLast(left_eval, used)
     /\ left_eval' = NextEvaluation(left_eval, used)
     /\ pc' = "left"
     /\ UNCHANGED <<request, atomVars, atom, right_eval, modelVars, created>>

TestLeft ==
  /\ pc = "left"
  /\ \/ /\ Fits(atom[1], left_eval)
        /\ right_eval' = {}
        /\ pc' = "right"
        /\ UNCHANGED <<request, atomVars, atom, left_eval, modelVars, created>>
     \/ /\ ~Fits(atom[1], left_eval)
        /\ NextLeft

\* The right point has to get on with the left one too.
RightFits(e) ==
  Fits(atom[2], e) /\ IsContactsFConnectivityRuleSatisfied(request, left_eval, e)

AddContact ==
  LET points == WithPoint(WithPoint(points_, left_eval), right_eval)
  IN /\ points_' = points
     /\ contact_relations_' = WithContact(contact_relations_, PointIndex(points, left_eval),
                                          PointIndex(points, right_eval))
     /\ pc' = "atoms"
     /\ UNCHANGED <<request, atomVars, atom, evalVars, created>>

\* If no evaluation fits the right term, another left point is of no use.
NextRight ==
  \/ /\ ~IsLast(right_eval, used)
     /\ right_eval' = NextEvaluation(right_eval, used)
     /\ UNCHANGED <<pc, request, atomVars, atom, left_eval, modelVars, created>>
  \/ /\ IsLast(right_eval, used)
     /\ \E e \in SUBSET used : Fits(atom[2], e)
     /\ pc' = "left done"
     /\ UNCHANGED <<request, atomVars, atom, evalVars, modelVars, created>>
  \/ /\ IsLast(right_eval, used)
     /\ \A e \in SUBSET used : ~Fits(atom[2], e)
     /\ GiveUp

TestRight ==
  /\ pc = "right"
  /\ \/ RightFits(right_eval) /\ AddContact
     \/ ~RightFits(right_eval) /\ NextRight

LeaveLeft ==
  /\ pc = "left done"
  /\ NextLeft

-----------------------------------------------------------------------------
(* construct_non_zero_model_points, once the contacts have their points,   *)
(* and construct_point for a path that asks for none.                      *)

TakeZeroTerm ==
  /\ pc = "atoms"
  /\ contacts_T = {}
  /\ \E z \in zero_terms_F : zero_terms_F' = zero_terms_F \ {z} /\ atom' = <<z>>
  /\ left_eval' = {}
  /\ pc' = "point"
  /\ UNCHANGED <<request, contacts_T, right_eval, modelVars, created>>

TakeNoTerm ==
  /\ pc = "atoms"
  /\ contacts_T = {} /\ zero_terms_F = {}
  /\ points_ = <<>>
  /\ atom' = <<Evaluation>>
  /\ left_eval' = {}
  /\ pc' = "point"
  /\ UNCHANGED <<request, atomVars, right_eval, modelVars, created>>

TestPoint ==
  /\ pc = "point"
  /\ \/ /\ Fits(atom[1], left_eval)
        /\ points_' = WithPoint(points_, left_eval)
        /\ pc' = "atoms"
        /\ UNCHANGED <<request, atomVars, atom, evalVars, contact_relations_, created>>
     \/ /\ ~Fits(atom[1], left_eval)
        /\ ~IsLast(left_eval, used)
        /\ left_eval' = NextEvaluation(left_eval, used)
        /\ UNCHANGED <<pc, request, atomVars, atom, right_eval, modelVars, created>>
     \/ /\ ~Fits(atom[1], left_eval)
        /\ IsLast(left_eval, used)
        /\ GiveUp

-----------------------------------------------------------------------------
\* Every atom has its points: create returns true.
Complete ==
  /\ pc = "atoms"
  /\ contacts_T = {} /\ zero_terms_F = {}
  /\ points_ # <<>>
  /\ contact_relations_' = Reduced(contact_relations_, Len(points_))
  /\ created' = TRUE
  /\ pc' = "done"
  /\ UNCHANGED <<request, atomVars, atom, evalVars, points_>>

\* TERMINATE_IF_NEEDED throws: before an atom, or before one more left point.
Terminate ==
  /\ \/ pc = "atoms" /\ (contacts_T # {} \/ zero_terms_F # {})
     \/ pc = "left done"
  /\ pc' = "terminated"
  /\ UNCHANGED <<request, atomVars, atom, evalVars, modelVars, created>>

Search ==
  \/ TakeContact \/ TestLeft \/ TestRight \/ LeaveLeft
  \/ TakeZeroTerm \/ TakeNoTerm \/ TestPoint \/ Complete

Next == Start \/ Search \/ Terminate

Spec == Init /\ [][Next]_vars

\* The thread that has called create() keeps running.
FairSpec == Spec /\ WF_vars(Search)
-----------------------------------------------------------------------------
Evaluations == SUBSET UNION {r.used_variables : r \in Request}

\* The model that create() leaves to its caller, with the variables evaluated
\* over its points.
Structure ==
  StructureOf(VariableEvaluations(points_), contact_relations_, Len(points_))

\* Type invariant.  The points of a call are distinct and fit into the matrix,
\* which has as many rows as points once the model is complete.
TypeOK ==
  /\ pc \in {"idle", "atoms", "left", "right", "left done", "point", "done", "terminated"}
  /\ request \in Request
  /\ contacts_T \subseteq request.contacts_T
  /\ zero_terms_F \subseteq request.zero_terms_F
  /\ atom \in {<<>>, <<Evaluation>>} \cup request.contacts_T
               \cup {<<z>> : z \in request.zero_terms_F}
  /\ {left_eval, right_eval} \subseteq Evaluations
  /\ \A i \in DOMAIN points_ : points_[i] \in SUBSET used
  /\ \A i, j \in DOMAIN points_ : points_[i] = points_[j] => i = j
  /\ DOMAIN points_ \subseteq DOMAIN contact_relations_
  /\ \A i \in DOMAIN contact_relations_ :
       contact_relations_[i] \subseteq DOMAIN contact_relations_
  /\ created \in BOOLEAN
  /\ created => DOMAIN contact_relations_ = DOMAIN points_

\* At every moment of a call, the points that it has built break no negative
\* atom of its path: none lies in a term that is zero or in both terms of a
\* ~C, and no two that are in contact lie in the two terms of a ~C.  Points are
\* tested when they are added, against the left point only, and contacts are
\* kept by index (model.cpp:182-225).
NegativeAtomsAreKept ==
  NegativeAtomsHold(request, VariableEvaluations(points_), contact_relations_, Len(points_))

\* create() answers what it promises: true and a structure in which every atom
\* of the path holds if there is one, also one that has points or contacts the
\* search never tries, and false only if there is none.  Earlier atoms stay
\* satisfied while later ones add points and contacts (model.cpp:10-47).
Creation == INSTANCE ModelCreation WITH
  Solution <- [r \in Request |-> Solutions(r)],
  answers <- IF pc = "done" THEN {IF created THEN Structure ELSE None} ELSE {}

ImplementsCreation == Creation!Spec

\* The nested enumerations of a call end (model.cpp:133, 157-177).
CreateEnds == pc = "atoms" ~> pc \in {"done", "terminated"}
=============================================================================
