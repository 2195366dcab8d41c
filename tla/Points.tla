------------------------------- MODULE Points -------------------------------
(***************************************************************************)
(* What the model classes share: points, the terms evaluated over them,    *)
(* and the structures that create() looks for.                             *)
(*                                                                         *)
(* A point is an evaluation of the variables, the set of those that are    *)
(* true in it.  A term is a Boolean function of the variables, the set of  *)
(* the evaluations that make it true, however it is written.               *)
(***************************************************************************)
EXTENDS Naturals, Sequences, FiniteSets

CONSTANTS
  Variable,     \* the ids of the variables of the formula
  Request       \* the atoms of paths, as they are handed to create()

Evaluation == SUBSET Variable
Term == SUBSET Evaluation
Contact == Term \X Term

TermsOf(C) == {c[1] : c \in C} \cup {c[2] : c \in C}

(***************************************************************************)
(* A request has the atoms of a path, by kind and sign.  A term of it only *)
(* depends on the used variables (get_used_variables).                     *)
(***************************************************************************)
ASSUME VariableAssumption == Variable \subseteq Nat /\ IsFiniteSet(Variable)

ASSUME RequestAssumption ==
  /\ Request # {}
  /\ \A r \in Request :
       /\ r.contacts_T \subseteq Contact
       /\ r.contacts_F \subseteq Contact
       /\ r.zero_terms_T \subseteq Term
       /\ r.zero_terms_F \subseteq Term
       /\ r.used_variables \subseteq Variable
       /\ \A t \in TermsOf(r.contacts_T \cup r.contacts_F)
                     \cup r.zero_terms_T \cup r.zero_terms_F :
            \A e \in Evaluation : e \in t <=> e \cap r.used_variables \in t

-----------------------------------------------------------------------------
(* The enumeration of evaluations: a binary counter over the ids of vars,  *)
(* the largest id being the least significant.                             *)

MutantIsLast(e, vars) == Cardinality(e) > Cardinality(vars)
IsLast(e, vars) == vars \subseteq e

\* The increment reaches id: every less significant variable is 1.
IsReached(id, e, vars) == \A i \in vars : i > id => i \in e

MutantNextEvaluation(e, vars) == e \cup {id \in vars \ e : IsReached(id, e, vars)}
NextEvaluation(e, vars) ==
  {id \in e : id \in vars => ~IsReached(id, e, vars)}
    \cup {id \in vars \ e : IsReached(id, e, vars)}

-----------------------------------------------------------------------------
(* Which points the negative atoms of request r leave.                     *)

AreZeroTermsTSatisfied(r, e) == \A z \in r.zero_terms_T : e \notin z

IsContactsFReflexiveRuleSatisfied(r, e) ==
  \A c \in r.contacts_F : ~(e \in c[1] /\ e \in c[2])

IsContactsFConnectivityRuleSatisfied(r, a, b) ==
  \A c \in r.contacts_F : ~(a \in c[1] /\ b \in c[2]) /\ ~(b \in c[1] /\ a \in c[2])

\* Point e can be in a model.
IsValidPoint(r, e) == AreZeroTermsTSatisfied(r, e) /\ IsContactsFReflexiveRuleSatisfied(r, e)

-----------------------------------------------------------------------------
(* A model: its points in a row, v(p) for each variable p, and for each    *)
(* point the points it is in contact with.                                 *)

VariableEvaluations(points) ==
  [v \in Variable |-> {i \in DOMAIN points : v \in points[i]}]

\* The evaluation that point i has by v, and the points where term t holds.
PointOf(v, i) == {p \in Variable : i \in v[p]}
Evaluate(t, v, n) == {i \in 1..n : PointOf(v, i) \in t}

IsContactSatisfied(c, v, contacts, n) ==
  \E i \in Evaluate(c[1], v, n) : contacts[i] \cap Evaluate(c[2], v, n) # {}

\* formula_mgr::is_model_satisfiable for the atoms of a request.
NegativeAtomsHold(r, v, contacts, n) ==
  /\ \A z \in r.zero_terms_T : Evaluate(z, v, n) = {}
  /\ \A c \in r.contacts_F : ~IsContactSatisfied(c, v, contacts, n)

PositiveAtomsHold(r, v, contacts, n) ==
  /\ \A z \in r.zero_terms_F : Evaluate(z, v, n) # {}
  /\ \A c \in r.contacts_T : IsContactSatisfied(c, v, contacts, n)

-----------------------------------------------------------------------------
(* The structures of the logic: distinct points, at least one, under a     *)
(* reflexive and symmetric contact relation.                               *)

Structures(vars) ==
  LET Pairs(P) == {S \in SUBSET P : Cardinality(S) = 2}
      Closure(P, E) == {x \in P \X P : x[1] = x[2] \/ {x[1], x[2]} \in E}
  IN UNION {{[points |-> P, contacts |-> Closure(P, E)] : E \in SUBSET Pairs(P)}
              : P \in (SUBSET (SUBSET vars)) \ {{}}}

\* Structure s satisfies request r.
Satisfies(s, r) ==
  /\ \A z \in r.zero_terms_T : s.points \cap z = {}
  /\ \A z \in r.zero_terms_F : s.points \cap z # {}
  /\ \A c \in r.contacts_F : s.contacts \cap (c[1] \X c[2]) = {}
  /\ \A c \in r.contacts_T : s.contacts \cap (c[1] \X c[2]) # {}

\* What create() should find for request r.
Solutions(r) == {s \in Structures(r.used_variables) : Satisfies(s, r)}

\* No part of the points is cut off from the rest.
IsConnected(points, contacts) ==
  \A P \in (SUBSET points) \ {{}, points} : \E a \in P, b \in points \ P : <<a, b>> \in contacts

\* The structure that a model represents.
StructureOf(v, contacts, n) ==
  [points |-> {PointOf(v, i) : i \in 1..n},
   contacts |-> {<<PointOf(v, x[1]), PointOf(v, x[2])>> :
                   x \in {y \in (1..n) \X (1..n) : y[2] \in contacts[y[1]]}}]
=============================================================================
