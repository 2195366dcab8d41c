---------------------------- MODULE ConnectedModel ----------------------------
(***************************************************************************)
(* connected_model::create of formula_lib/private/connected_model.cpp: all *)
(* points that the negative atoms allow, in all contacts that they allow,  *)
(* and then a connected component of these that is a model by itself.      *)
(*                                                                         *)
(* One action tests one evaluation, visits one point or tries one          *)
(* component.  The tableau hands the same model to one call after another. *)
(***************************************************************************)
EXTENDS Points

CONSTANT max_variables_count_  \* no model is built over more variables

ASSUME LimitAssumption == max_variables_count_ \in Nat

VARIABLES
  pc,                    \* what create() does next
  request,               \* the atoms of the path, of any path before the first call
  evaluation,            \* the evaluation that construct_all_valid_points is at
  points_,               \* the points of the model
  variable_evaluations_, \* for each variable the points where it is true
  contact_relations_,    \* for each point the points in contact with it
  not_visited_points,    \* the points not in a component yet
  root_point_id,         \* the point that the current component starts from
  q,                     \* the queue of its traversal
  connected_component,   \* the current component
  connected_components,  \* those found, and later those not tried yet
  created                \* what create() has returned

modelVars == <<points_, variable_evaluations_, contact_relations_>>
traversalVars == <<not_visited_points, root_point_id, q, connected_component,
                   connected_components>>
vars == <<pc, request, evaluation, modelVars, traversalVars, created>>

Used == request.used_variables
Size == Len(points_)

Init ==
  /\ pc = "idle"
  /\ request = CHOOSE r \in Request : TRUE
  /\ evaluation = {}
  /\ points_ = <<>>
  /\ variable_evaluations_ = [p \in Variable |-> {}]
  /\ contact_relations_ = <<>>
  /\ not_visited_points = {} /\ root_point_id = 0 /\ q = {}
  /\ connected_component = {} /\ connected_components = <<>>
  /\ created = FALSE

\* create returns false.
GiveUp == pc' = "done" /\ UNCHANGED <<request, evaluation, traversalVars, created>>

-----------------------------------------------------------------------------
(* The biggest model of the negative atoms.                                *)

MutantIsTooLarge(variables) == Cardinality(variables) >= max_variables_count_
IsTooLarge(variables) == Cardinality(variables) > max_variables_count_

\* create is called: clear, and the limit on the variables.
Start ==
  /\ pc \in {"idle", "done", "terminated"}
  /\ request' \in Request
  /\ pc' = IF IsTooLarge(request'.used_variables) THEN "done" ELSE "points"
  /\ evaluation' = {}
  /\ points_' = <<>>
  /\ variable_evaluations_' = [p \in Variable |-> {}]
  /\ contact_relations_' = <<>>
  /\ not_visited_points' = {} /\ root_point_id' = 0 /\ q' = {}
  /\ connected_component' = {} /\ connected_components' = <<>>
  /\ created' = FALSE

\* One evaluation of construct_all_valid_points.
TestEvaluation ==
  /\ pc = "points"
  /\ points_' = IF IsValidPoint(request, evaluation)
                THEN Append(points_, evaluation) ELSE points_
  /\ \/ /\ IsLast(evaluation, Used)
        /\ pc' = "existence"
        /\ UNCHANGED evaluation
     \/ /\ ~IsLast(evaluation, Used)
        /\ evaluation' = NextEvaluation(evaluation, Used)
        /\ UNCHANGED pc
  /\ UNCHANGED <<request, variable_evaluations_, contact_relations_, traversalVars, created>>

\* is_zero_terms_F_rule_satisfied and is_contacts_T_existence_rule_satisfied.
HavePoints(v) ==
  \A t \in request.zero_terms_F \cup TermsOf(request.contacts_T) : Evaluate(t, v, Size) # {}

CheckExistence ==
  /\ pc = "existence"
  /\ variable_evaluations_' = VariableEvaluations(points_)
  /\ UNCHANGED <<points_, contact_relations_>>
  /\ \/ /\ points_ # <<>> /\ HavePoints(variable_evaluations_')
        /\ pc' = "contacts"
        /\ UNCHANGED <<request, evaluation, traversalVars, created>>
     \/ /\ ~(points_ # <<>> /\ HavePoints(variable_evaluations_'))
        /\ GiveUp

\* connection_remover for c, in both directions.
IsSeparated(c, i, j) ==
  LET v_a == Evaluate(c[1], variable_evaluations_, Size)
      v_b == Evaluate(c[2], variable_evaluations_, Size)
  IN (i \in v_a /\ j \in v_b) \/ (i \in v_b /\ j \in v_a)

BuildContacts ==
  /\ pc = "contacts"
  /\ contact_relations_' = [i \in 1..Size |->
       {j \in 1..Size : \A c \in request.contacts_F : ~IsSeparated(c, i, j)}]
  /\ UNCHANGED <<points_, variable_evaluations_>>
  /\ \/ /\ \A c \in request.contacts_T :
             IsContactSatisfied(c, variable_evaluations_, contact_relations_', Size)
        /\ pc' = "roots"
        /\ not_visited_points' = 1..Size
        /\ UNCHANGED <<request, evaluation, root_point_id, q, connected_component,
                       connected_components, created>>
     \/ /\ \E c \in request.contacts_T :
             ~IsContactSatisfied(c, variable_evaluations_, contact_relations_', Size)
        /\ GiveUp

-----------------------------------------------------------------------------
(* get_connected_components: the traversal.  The queue is the set of the   *)
(* points that wait in it, because a point is passed over when it comes up *)
(* again, and any order of visits gives the component.                     *)

NextRoot ==
  /\ pc = "roots"
  /\ LET roots == {i \in not_visited_points : i > root_point_id}
     IN \/ /\ roots # {}
           /\ root_point_id' = CHOOSE i \in roots : \A j \in roots : i <= j
           /\ q' = {root_point_id'}
           /\ connected_component' = {}
           /\ pc' = "visits"
           /\ UNCHANGED <<not_visited_points, connected_components>>
        \/ /\ roots = {}
           /\ pc' = "components"
           /\ UNCHANGED traversalVars
  /\ UNCHANGED <<request, evaluation, modelVars, created>>

MutantReached(point) == contact_relations_[point] \cap not_visited_points \cap point..Size

\* The points that wait in the queue once point has been visited: itself only
\* if it is the first of its neighbours, before it is marked.
Reached(point) ==
  LET fresh == contact_relations_[point] \cap not_visited_points
  IN IF \A i \in fresh : point <= i THEN fresh ELSE fresh \ {point}

Visit ==
  /\ pc = "visits"
  /\ \E point \in q :
       \/ /\ point \in not_visited_points
          /\ Reached(point) # {}
          /\ q' = (q \ {point}) \cup Reached(point)
          /\ connected_component' = connected_component \cup {point}
          /\ not_visited_points' = not_visited_points \ {point}
       \/ /\ point \notin not_visited_points \/ Reached(point) = {}
          /\ q' = q \ {point}
          /\ UNCHANGED <<connected_component, not_visited_points>>
  /\ UNCHANGED <<pc, request, evaluation, modelVars, root_point_id, connected_components, created>>

AddComponent ==
  /\ pc = "visits"
  /\ q = {}
  /\ connected_components' = Append(connected_components, connected_component)
  /\ pc' = "roots"
  /\ UNCHANGED <<request, evaluation, modelVars, not_visited_points, root_point_id, q,
                 connected_component, created>>

-----------------------------------------------------------------------------
(* The components.                                                         *)

\* reduce_variable_evaluations_to_subset_of_points.
ReducedTo(v, subset) == [p \in Variable |-> v[p] \cap subset]

\* point_id_old_to_new: the points of subset are numbered through.
NewId(subset, i) == Cardinality({j \in subset : j <= i})
OldId(subset, k) == CHOOSE i \in subset : NewId(subset, i) = k

ReducedPoints(subset) == [k \in 1..Cardinality(subset) |-> points_[OldId(subset, k)]]
MutantReducedContacts(subset) ==
  [k \in 1..Cardinality(subset) |-> contact_relations_[OldId(subset, k)] \cap subset]
ReducedContacts(subset) ==
  [k \in 1..Cardinality(subset) |->
     {NewId(subset, j) : j \in contact_relations_[OldId(subset, k)] \cap subset}]

\* The positive atoms hold with the evaluations restricted to the component.
\* A complement in a term is that to all points nevertheless (term.cpp:132).
MutantIsModel(component) ==
  \A z \in request.zero_terms_F :
    Evaluate(z, ReducedTo(variable_evaluations_, component), Size) # {}
IsModel(component) ==
  PositiveAtomsHold(request, ReducedTo(variable_evaluations_, component),
                    contact_relations_, Size)

\* The next component becomes the model (reduce_model_to_subset_of_points), or
\* the evaluations are rolled back.
TryComponent ==
  /\ pc = "components"
  /\ connected_components # <<>>
  /\ connected_components' = Tail(connected_components)
  /\ LET component == Head(connected_components)
     IN \/ /\ IsModel(component)
           /\ points_' = ReducedPoints(component)
           /\ contact_relations_' = ReducedContacts(component)
           /\ variable_evaluations_' = VariableEvaluations(points_')
           /\ created' = TRUE
           /\ pc' = "done"
        \/ /\ ~IsModel(component)
           /\ UNCHANGED <<pc, modelVars, created>>
  /\ UNCHANGED <<request, evaluation, not_visited_points, root_point_id, q,
                 connected_component>>

NoComponentLeft ==
  /\ pc = "components"
  /\ connected_components = <<>>
  /\ GiveUp
  /\ UNCHANGED modelVars

\* TERMINATE_IF_NEEDED throws: after the points, the existence check and the
\* contacts (lines 44, 52, 59), before a component is looked for, and before one
\* is tried.
Terminate ==
  /\ \/ pc = "existence" /\ points_ # <<>>
     \/ pc = "contacts"
     \/ pc = "roots" /\ \E i \in not_visited_points : i > root_point_id
     \/ pc = "components" /\ connected_components # <<>>
  /\ pc' = "terminated"
  /\ variable_evaluations_' = IF pc = "existence" THEN VariableEvaluations(points_)
                              ELSE variable_evaluations_
  /\ UNCHANGED <<request, evaluation, points_, contact_relations_, traversalVars, created>>

Next ==
  \/ Start \/ TestEvaluation \/ CheckExistence \/ BuildContacts
  \/ NextRoot \/ Visit \/ AddComponent
  \/ TryComponent \/ NoComponentLeft
  \/ Terminate

Spec == Init /\ [][Next]_vars
-----------------------------------------------------------------------------
Structure == StructureOf(variable_evaluations_, contact_relations_, Size)

\* Type invariant: all ids of points are below the number of points.
TypeOK ==
  /\ pc \in {"idle", "points", "existence", "contacts", "roots", "visits", "components",
            "done", "terminated"}
  /\ request \in Request
  /\ evaluation \in SUBSET Used \/ pc = "idle"
  /\ \A i \in DOMAIN points_ : points_[i] \in SUBSET Used
  /\ variable_evaluations_ \in [Variable -> SUBSET (1..Size)]
  /\ contact_relations_ \in {<<>>} \cup [1..Size -> SUBSET (1..Size)]
  /\ root_point_id \in Nat
  /\ created \in BOOLEAN
  /\ ~created =>
       /\ not_visited_points \cup q \cup connected_component \subseteq 1..Size
       /\ \A k \in DOMAIN connected_components : connected_components[k] \subseteq 1..Size

IsSearching == pc \in {"contacts", "roots", "visits", "components"}

\* The biggest model has every evaluation that breaks no a = 0 and no ~C by
\* itself as a point, each exactly once: what the binary counter passes over
\* or comes to twice would be missed or doubled (utils.cpp:93-102).
PointsAreAllValid ==
  IsSearching =>
    /\ {points_[i] : i \in 1..Size} = {e \in SUBSET Used : IsValidPoint(request, e)}
    /\ \A i, j \in 1..Size : points_[i] = points_[j] => i = j

\* While the components are looked for, every point belongs to one component
\* found, to the current one or to those not visited, and no contact leaves a
\* finished component, also if the traversal marks and queues points late
\* (connected_model.cpp:237-258); each finished component is connected.
ComponentsAreSeparate ==
  pc \in {"roots", "visits"} =>
    LET found == {connected_components[k] : k \in DOMAIN connected_components}
        current == IF pc = "visits" THEN connected_component ELSE {}
        Contacts(P) == {x \in P \X P : x[2] \in contact_relations_[x[1]]}
    IN /\ (UNION found) \cup current = 1..Size \ not_visited_points
       /\ Cardinality(found) = Len(connected_components)
       /\ \A C \in found :
            /\ C # {} /\ C \cap current = {}
            /\ \A D \in found : C = D \/ C \cap D = {}
            /\ \A i \in C : contact_relations_[i] \subseteq C
            /\ IsConnected(C, Contacts(C))

\* Without a complement to lead it astray, a positive atom holds in the model:
\* what is left of a structure when points are taken away.
AreSafeTerms(r) == \A t \in r.zero_terms_F \cup TermsOf(r.contacts_T) : {} \notin t

\* A model that create() returns is a connected structure.  Taking points away
\* from the biggest model has broken no negative atom (connected_model.h:48),
\* and if no term holds where all variables are false, no positive one either.
ModelIsConnected ==
  created =>
    /\ Structure \in Structures(Used)
    /\ IsConnected(Structure.points, Structure.contacts)
    /\ NegativeAtomsHold(request, variable_evaluations_, contact_relations_, Size)
    /\ AreSafeTerms(request) => Satisfies(Structure, request)

\* create() returns false only if no connected structure satisfies the atoms, or
\* if there are too many variables: it suffices to look at the components of
\* the biggest model (connected_model.h:44-50).
AnswerIsComplete ==
  pc = "done" /\ ~created /\ Cardinality(Used) <= max_variables_count_ =>
    \A s \in Solutions(request) : ~IsConnected(s.points, s.contacts)

\* What connected_model.cpp:78 says of a component that has passed the test:
\* "The connected component is also a valid model."
CreateIsSound == created => Satisfies(Structure, request)
=============================================================================
