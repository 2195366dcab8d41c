---------------------------- MODULE MeasuredModel ----------------------------
(***************************************************************************)
(* measured_model::create of formula_lib/private/measured_model.cpp: all   *)
(* points that the negative atoms allow, in all contacts that they allow,  *)
(* and then a subset of these that satisfies the positive atoms and has    *)
(* weights for its points that satisfy the atoms about measures.           *)
(*                                                                         *)
(* generate_model is recursive: stack has the calls that are waiting for   *)
(* the one on a smaller subset.  The solver of inequalities (library/kiwi) *)
(* is taken by what it answers.                                            *)
(***************************************************************************)
EXTENDS Points, FiniteSetsExt

CONSTANTS
  None,                          \* the answer of a call that finds no model
  max_used_variables_support,    \* no model is built over as many variables
  max_valid_modal_points_count_, \* nor if there are more points than this
  MaxWeight,                     \* weights up to this solve what can be solved
  ExactArithmetic                \* the solver makes no rounding errors

ASSUME MeasureAssumption ==
  \A r \in Request :
    /\ r.measured_less_eq_T \subseteq Contact /\ r.measured_less_eq_F \subseteq Contact
    /\ r.used_variables \subseteq r.variable_names /\ r.variable_names \subseteq Variable

VARIABLES
  pc,                      \* what create() does next
  request,                 \* the atoms of the path, of any path before the first call
  all_valid_points,        \* the points that break no negative atom by themselves
  subset,                  \* the points that the current call of generate_model is about
  stack,                   \* the calls that wait for it: their points, and the one taken out
  processed_combinations_, \* the subsets looked at so far
  system_,                 \* the inequalities over the points
  points_,                 \* the points of the model
  contact_relations_,      \* for each point the points in contact with it
  created                  \* what the last call to return has returned

callVars == <<request, all_valid_points>>
modelVars == <<system_, points_, contact_relations_>>
vars == <<pc, callVars, subset, stack, processed_combinations_, modelVars, created>>

EmptySystem(n) == [variables |-> 1..n, rows |-> {}, is_solvable |-> TRUE]

Init ==
  /\ pc = "idle"
  /\ request = CHOOSE r \in Request : TRUE
  /\ all_valid_points = <<>> /\ subset = {} /\ stack = <<>>
  /\ processed_combinations_ = {}
  /\ system_ = EmptySystem(0)
  /\ points_ = <<>> /\ contact_relations_ = <<>>
  /\ created = FALSE

-----------------------------------------------------------------------------
(* The points, and what holds in a subset of them.                         *)

\* Evaluation e is enumerated before f: the smallest id is the most significant.
Precedes(e, f) == \E id \in f \ e : \A p \in Variable : p < id => (p \in e <=> p \in f)

\* construct_all_valid_points.
AllValidPoints(r) ==
  LET valid == {e \in SUBSET r.used_variables : IsValidPoint(r, e)}
  IN [k \in 1..Cardinality(valid) |->
        CHOOSE e \in valid : Cardinality({f \in valid : Precedes(f, e)}) = k - 1]

\* The evaluation of term t over points.
PointsIn(t, points) == Evaluate(t, VariableEvaluations(points), Len(points))

\* The formula has variables.  How many points there are is only known from
\* the evaluation of a variable.
HasVariables(r) == r.variable_names # {}

\* build_contact_relations_matrix: no row for any point if there is no variable.
ContactMatrix(points) ==
  [i \in IF HasVariables(request) THEN DOMAIN points ELSE {} |->
     {j \in DOMAIN points :
        \A c \in request.contacts_F :
          LET v_a == PointsIn(c[1], points)
              v_b == PointsIn(c[2], points)
          IN ~(i \in v_a /\ j \in v_b) /\ ~(i \in v_b /\ j \in v_a)}]

\* The cached evaluation of a term, restricted to the points of P.
RestrictedTo(P, t) == PointsIn(t, all_valid_points) \cap P

\* are_zero_terms_F_satisfied and are_contacts_T_satisfied.
ArePositiveAtomsSatisfied(P) ==
  /\ \A z \in request.zero_terms_F : RestrictedTo(P, z) # {}
  /\ \A c \in request.contacts_T :
       \E i \in RestrictedTo(P, c[1]), j \in RestrictedTo(P, c[2]) :
         i = j \/ j \in ContactMatrix(all_valid_points)[i]

\* The terms of positive atoms and of measures are looked up, although
\* add_term_evaluations caches nothing if there is no variable.
AreTermsNeeded ==
  \/ request.zero_terms_F # {} \/ request.contacts_T # {}
  \/ request.measured_less_eq_T # {} \/ request.measured_less_eq_F # {}

-----------------------------------------------------------------------------
(* system_of_inequalities: positive unknowns, the weights of the points.   *)

\* add_constraint: what is on both sides is left out.
Inequality(v_a, v_b, op) == [lhs |-> v_a \ v_b, rhs |-> v_b \ v_a, op |-> op]

WeightOf(P, weights) == MapThenSumSet(LAMBDA i : weights[i], P)

\* How much the two sides of a row are off, in units of the smallest weight.
Excess(row, weights) == WeightOf(row.lhs, weights) - WeightOf(row.rhs, weights)
IsSatisfied(row, weights) ==
  IF row.op = "LE" THEN Excess(row, weights) <= 0 ELSE Excess(row, weights) >= 1

Weights(variables) == [variables -> 1..MaxWeight]

\* get_variables_values: a solution.
Solves(weights, system) == \A row \in system.rows : IsSatisfied(row, weights)

\* The solver takes for zero what is below 1e-8 (kiwi/util.h:19), the very
\* bound that is set for the smallest weight: an inequality that is missed by
\* one unit passes or not, as the sums are rounded.
IsNearlySatisfied(row, weights) ==
  IF row.op = "LE" THEN Excess(row, weights) <= 1 ELSE Excess(row, weights) >= 0

MayBeAccepted(system) ==
  \E row \in system.rows : \E weights \in Weights(system.variables) :
    /\ IsNearlySatisfied(row, weights)
    /\ \A other \in system.rows \ {row} : IsSatisfied(other, weights)

\* The answers of is_solvable.
SolverAnswers(system) ==
  IF \E weights \in Weights(system.variables) : Solves(weights, system) THEN {TRUE}
  ELSE IF ~ExactArithmetic /\ MayBeAccepted(system) THEN BOOLEAN
  ELSE {FALSE}

\* create_system_of_inequalities over variables, where t holds in PointsOf(t).
SystemOver(variables, PointsOf(_)) ==
  LET Rows(atoms, op) == {Inequality(PointsOf(m[1]), PointsOf(m[2]), op) : m \in atoms}
  IN [variables |-> variables,
      rows |-> Rows(request.measured_less_eq_T, "LE") \cup Rows(request.measured_less_eq_F, "G"),
      is_solvable |-> TRUE]

-----------------------------------------------------------------------------
\* What is too much for create(): it answers false.
ExceedsLimits(r) ==
  \/ Cardinality(r.used_variables) >= max_used_variables_support
  \/ Len(AllValidPoints(r)) > max_valid_modal_points_count_

\* create is called: clear.  After an abort that is in a new process.
Start ==
  /\ pc \in {"idle", "done", "terminated", "aborted"}
  /\ pc' = "points"
  /\ request' \in Request
  /\ all_valid_points' = <<>> /\ subset' = {} /\ stack' = <<>>
  /\ processed_combinations_' = {}
  /\ system_' = [system_ EXCEPT !.rows = {}, !.is_solvable = TRUE]
  /\ points_' = <<>> /\ contact_relations_' = <<>>
  /\ created' = FALSE

\* create up to the first call of generate_model.
ConstructPoints ==
  /\ pc = "points"
  /\ \/ /\ ExceedsLimits(request) \/ AllValidPoints(request) = <<>>
        /\ pc' = "done"
        /\ UNCHANGED <<all_valid_points, subset, system_>>
     \/ /\ ~ExceedsLimits(request) /\ AllValidPoints(request) # <<>>
        /\ pc' = "generate"
        /\ all_valid_points' = AllValidPoints(request)
        /\ subset' = DOMAIN all_valid_points'
        /\ system_' = EmptySystem(Len(all_valid_points'))
  /\ UNCHANGED <<request, stack, processed_combinations_, points_, contact_relations_, created>>

\* generate_model returns false.
ReturnFalse ==
  /\ pc' = "return"
  /\ created' = FALSE
  /\ UNCHANGED <<callVars, subset, stack, points_, contact_relations_>>

AlreadyProcessed ==
  /\ subset \in processed_combinations_
  /\ ReturnFalse
  /\ UNCHANGED <<processed_combinations_, system_>>

\* No smaller subset has the points that this one lacks.
Unsatisfied ==
  /\ ~ArePositiveAtomsSatisfied(subset)
  /\ ReturnFalse
  /\ UNCHANGED system_

MutantSystemOfSubset(P) ==
  SystemOver(DOMAIN all_valid_points, LAMBDA t : PointsIn(t, all_valid_points))
\* The system of generate_model: all valid points are unknowns of it.
SystemOfSubset(P) == SystemOver(DOMAIN all_valid_points, LAMBDA t : RestrictedTo(P, t))

\* get_points_from_subset.
PointsFromSubset(P) ==
  [k \in 1..Cardinality(P) |->
     all_valid_points[CHOOSE i \in P : Cardinality({j \in P : j < i}) = k - 1]]

MutantSystemOfModel(points) ==
  SystemOver(DOMAIN points, LAMBDA t : PointsIn(t, all_valid_points) \cap DOMAIN points)
\* The system that save_as_model leaves behind, over the points of the model.
SystemOfModel(points) == SystemOver(DOMAIN points, LAMBDA t : PointsIn(t, points))

\* save_as_model; that its system is solvable too is asserted only.
SaveAsModel ==
  /\ points_' = PointsFromSubset(subset)
  /\ contact_relations_' = ContactMatrix(points_')
  /\ \E res \in SolverAnswers(SystemOfModel(points_')) :
       system_' = [SystemOfModel(points_') EXCEPT !.is_solvable = res]
  /\ created' = TRUE
  /\ pc' = "return"
  /\ UNCHANGED <<callVars, subset, stack>>

MutantHasSmaller(P) == Cardinality(P) > 0
\* A model has at least one point.
HasSmaller(P) == Cardinality(P) > 1

\* The first recursive call, or the subset has no smaller one.
TrySmaller ==
  /\ system_' = [SystemOfSubset(subset) EXCEPT !.is_solvable = FALSE]
  /\ \/ /\ ~HasSmaller(subset)
        /\ ReturnFalse
     \/ /\ HasSmaller(subset)
        /\ stack' = Append(stack, [points |-> subset, point_pos |-> Min(subset)])
        /\ subset' = subset \ {Min(subset)}
        /\ UNCHANGED <<pc, callVars, points_, contact_relations_, created>>

NewSubset ==
  /\ subset \notin processed_combinations_
  /\ HasVariables(request) \/ ~AreTermsNeeded
  /\ processed_combinations_' = processed_combinations_ \cup {subset}
  /\ \/ Unsatisfied
     \/ /\ ArePositiveAtomsSatisfied(subset)
        /\ \E answer \in SolverAnswers(SystemOfSubset(subset)) :
             \/ answer /\ SaveAsModel
             \/ ~answer /\ TrySmaller

\* A term is looked up that is not there.  The assertion ends the process, and
\* so does, without assertions, the access to the end of the map.
LookUpFails ==
  /\ pc = "generate"
  /\ subset \notin processed_combinations_
  /\ ~HasVariables(request) /\ AreTermsNeeded
  /\ pc' = "aborted"
  /\ all_valid_points' = <<>> /\ subset' = {} /\ stack' = <<>>
  /\ processed_combinations_' = {}
  /\ system_' = EmptySystem(0)
  /\ points_' = <<>> /\ contact_relations_' = <<>>
  /\ created' = FALSE
  /\ UNCHANGED request

GenerateModel == pc = "generate" /\ (AlreadyProcessed \/ NewSubset)

MutantNextPositions(call) == call.points
MutantSkipsOne(call) == {i \in call.points : i > call.point_pos + 1}
\* find_next: the points that are still to be taken out by a call that waits.
NextPositions(call) == {i \in call.points : i > call.point_pos}

\* The call has returned to the one that waits for it: that returns too, or
\* takes out the next point.
Return ==
  /\ pc = "return"
  /\ stack # <<>>
  /\ LET call == stack[Len(stack)]
         waiting == SubSeq(stack, 1, Len(stack) - 1)
         next == NextPositions(call)
     IN \/ /\ created \/ next = {}
           /\ subset' = call.points
           /\ stack' = waiting
           /\ UNCHANGED pc
        \/ /\ ~created /\ next # {}
           /\ LET i == Min(next)
              IN /\ stack' = Append(waiting, [call EXCEPT !.point_pos = i])
                 /\ subset' = call.points \ {i}
           /\ pc' = "generate"
  /\ UNCHANGED <<callVars, processed_combinations_, modelVars, created>>

Finish ==
  /\ pc = "return"
  /\ stack = <<>>
  /\ pc' = "done"
  /\ UNCHANGED <<callVars, subset, stack, processed_combinations_, modelVars, created>>

\* TERMINATE_IF_NEEDED throws out of all the calls.
Terminate ==
  /\ pc = "generate"
  /\ pc' = "terminated"
  /\ stack' = <<>>
  /\ UNCHANGED <<callVars, subset, processed_combinations_, modelVars, created>>

Search == ConstructPoints \/ GenerateModel \/ LookUpFails \/ Return \/ Finish

Next == Start \/ Search \/ Terminate

Spec == Init /\ [][Next]_vars

\* The thread that has called create() keeps running.
FairSpec == Spec /\ WF_vars(Search)

-----------------------------------------------------------------------------
(* What is true of the points of a structure, whatever create() does.      *)

\* weights make the measured atoms of r true over points.
IsMeasure(r, points, weights) ==
  /\ \A m \in r.measured_less_eq_T :
       WeightOf(points \cap m[1], weights) <= WeightOf(points \cap m[2], weights)
  /\ \A m \in r.measured_less_eq_F :
       WeightOf(points \cap m[1], weights) > WeightOf(points \cap m[2], weights)

HasMeasure(r, points) == \E weights \in Weights(points) : IsMeasure(r, points, weights)

\* The points of P in all the contacts that the negative atoms allow.
LargestStructure(P) ==
  LET points == {all_valid_points[i] : i \in P}
  IN [points |-> points,
      contacts |-> {x \in points \X points :
                      IsContactsFConnectivityRuleSatisfied(request, x[1], x[2])}]

MeasuredSolutions(r) ==
  LET measurable == {P \in (SUBSET SUBSET r.used_variables) \ {{}} : HasMeasure(r, P)}
  IN {s \in Solutions(r) : s.points \in measurable}

\* The points in contact with point i of the model, none if it has no row.
ContactsOf(i) == IF i \in DOMAIN contact_relations_ THEN contact_relations_[i] ELSE {}

Structure ==
  StructureOf(VariableEvaluations(points_), [i \in DOMAIN points_ |-> ContactsOf(i)], Len(points_))

\* Type invariant.  The calls that wait are about smaller and smaller subsets,
\* each without the point that the caller has taken out; a model has a point,
\* its system an unknown and its matrix a row for each point, but the matrix
\* is empty if the formula has no variables (utils.cpp:110-113).
TypeOK ==
  /\ pc \in {"idle", "points", "generate", "return", "done", "terminated", "aborted"}
  /\ request \in Request
  /\ \A i \in DOMAIN all_valid_points : IsValidPoint(request, all_valid_points[i])
  /\ subset \subseteq DOMAIN all_valid_points
  /\ processed_combinations_ \subseteq (SUBSET DOMAIN all_valid_points) \ {{}}
  /\ \A k \in DOMAIN stack :
       /\ stack[k].points \in processed_combinations_
       /\ stack[k].point_pos \in stack[k].points
       /\ stack[k].points \ {stack[k].point_pos} =
            IF k = Len(stack) THEN subset ELSE stack[k + 1].points
  /\ DOMAIN contact_relations_ = IF HasVariables(request) THEN DOMAIN points_ ELSE {}
  /\ created \in BOOLEAN
  /\ created => points_ # <<>> /\ system_.variables = DOMAIN points_

\* generate_model returns false only if no subset of its points, in whatever
\* contact, is a measured model: neither giving up a subset whose positive atoms
\* fail, nor passing over one that has been processed, nor the order in which
\* points are taken out loses a model (measured_model.cpp:186-240).
NoModelIsPassedOver ==
  pc = "return" /\ ~created =>
    \A P \in (SUBSET subset) \ {{}} :
      ~(/\ Satisfies(LargestStructure(P), request)
        /\ HasMeasure(request, {all_valid_points[i] : i \in P}))

\* The values that a model gives to its points are weights that make the
\* measured atoms true in it: the system that save_as_model sets up anew has
\* the points of the model in their order, and is solvable as asserted
\* (measured_model.cpp:255-264).
MeasuredValuesFitTheModel ==
  created =>
    /\ system_.is_solvable
    /\ \E w \in Weights(system_.variables) : Solves(w, system_)
    /\ \A w \in Weights(system_.variables) : Solves(w, system_) =>
         IsMeasure(request, Structure.points,
                   [e \in Structure.points |-> w[CHOOSE i \in DOMAIN points_ : points_[i] = e]])

\* What create() finds of the solutions: their contacts are lost if the formula
\* has no variables (utils.cpp:110-113).
Found(r) ==
  IF HasVariables(r) THEN MeasuredSolutions(r)
  ELSE {[s EXCEPT !.contacts = {}] : s \in MeasuredSolutions(r)}

\* create() answers what it promises, within its limits: a structure with a
\* measure in which the atoms of the path hold if there is one, also one with
\* fewer contacts than the model has, and false only if there is none.  Without
\* variables the answer is right too, but the structure has no contacts.
Creation == INSTANCE ModelCreation WITH
  Solution <- [r \in Request |-> IF ExceedsLimits(r) THEN {} ELSE Found(r)],
  answers <- IF pc = "done" THEN {IF created THEN Structure ELSE None} ELSE {}

ImplementsCreation == Creation!Spec

\* The recursion ends (measured_model.cpp:226-238).
CreateEnds == pc = "points" ~> pc \in {"done", "terminated", "aborted"}

\* "Searching for a strictly positive solution! (i.e. Xi > 0 for each variable)"
\* (system_of_inequalities.h:26): a model returned has measures for its points.
MeasureExists == created => HasMeasure(request, Structure.points)
=============================================================================
