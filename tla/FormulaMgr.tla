------------------------------ MODULE FormulaMgr ------------------------------
(***************************************************************************)
(* formula_mgr of formula_lib/private/formula_mgr.cpp: a text is parsed,   *)
(* refined by the visitors that its flags ask for and built into the       *)
(* formula f_, which is then given to the tableau, as often as the caller  *)
(* likes.  A caller has a manager and a model for each text; a text that   *)
(* was refused may be tried again.                                         *)
(*                                                                         *)
(* The tableau is taken by what module Tableau shows of it: it finds a     *)
(* structure of the formula if there is one.                               *)
(***************************************************************************)
EXTENDS Visitors, FiniteSetsExt, Sequences

CONSTANTS
  Input,        \* what is given to build: the AST of the text, and the flags
  NoAST,        \* the text does not parse
  Nothing       \* a model that has been cleared, or was never created

VARIABLES
  pc,           \* what the manager has done last
  input,        \* the text
  stage,        \* the refiner to be applied next
  formula_AST,  \* the AST so far
  f_,           \* the formula
  variables_,   \* the variables, in the order of their ids
  out_model,    \* the model that the caller hands over each time
  result        \* the last answer

vars == <<pc, input, stage, formula_AST, f_, variables_, out_model, result>>

Flag == {"convert_contact_less_eq_with_same_terms", "convert_disjunction_in_contact_less_eq",
         "reduce_constants", "reduce_contacts_with_constants", "remove_double_negation"}

\* What the parser makes of a text is a formula.
ASSUME InputAssumption == \A i \in Input : i.ast = NoAST \/ IsFormula(i.ast)

-----------------------------------------------------------------------------
MutantStages ==
  <<"convert_implication_equality", "convert_contact_less_eq_with_same_terms",
    "convert_disjunction_in_contact_less_eq", "convert_contact_less_eq_with_same_terms",
    "convert_less_eq", "reduce_constants", "remove_double_negation",
    "reduce_contacts_with_constants">>
\* The refiners in their order, those without a flag by a name of their own.
Stages ==
  <<"convert_implication_equality", "convert_contact_less_eq_with_same_terms",
    "convert_disjunction_in_contact_less_eq", "convert_contact_less_eq_with_same_terms",
    "convert_less_eq", "reduce_constants", "reduce_contacts_with_constants",
    "remove_double_negation">>

\* The stage after s, given flags.
NextStage(s, flags) ==
  Min({i \in s + 1 .. Len(Stages) : Stages[i] \in flags \/ Stages[i] \notin Flag}
        \cup {Len(Stages) + 1})

Init ==
  /\ pc = "idle"
  /\ input \in Input
  /\ stage = 0
  /\ formula_AST = NoAST /\ f_ = NoAST
  /\ variables_ = {}
  /\ out_model = Nothing
  /\ result = FALSE

\* build: clear, and the parser.
Build ==
  /\ pc = "idle"
  /\ formula_AST' = input.ast
  /\ f_' = NoAST
  /\ variables_' = {}
  /\ \/ input.ast = NoAST /\ pc' = "idle" /\ stage' = 0
     \/ input.ast # NoAST /\ pc' = "refine" /\ stage' = NextStage(0, input.flags)
  /\ UNCHANGED <<input, out_model, result>>

Refine ==
  /\ pc = "refine"
  /\ stage <= Len(Stages)
  /\ formula_AST' = Visit(Stages[stage], formula_AST)
  /\ stage' = NextStage(stage, input.flags)
  /\ UNCHANGED <<pc, input, f_, variables_, out_model, result>>

\* formula::build has no case for the other operations.
CanBeBuilt(n) == \A k \in Nodes(n) : k[1] \notin {"implication", "equality", "less_eq"}

\* The AST is released, f_ is what has been built.
BuildFormula ==
  /\ pc = "refine"
  /\ stage > Len(Stages)
  /\ variables_' = VariablesOf(formula_AST)
  /\ f_' = IF CanBeBuilt(formula_AST) THEN formula_AST ELSE NoAST
  /\ pc' = IF CanBeBuilt(formula_AST) THEN "built" ELSE "idle"
  /\ formula_AST' = NoAST
  /\ stage' = 0
  /\ UNCHANGED <<input, out_model, result>>

MutantModelFor(f) == {out_model}
\* A constant leaves the model as it is.
ModelFor(f) == IF f \in {True, False} THEN {out_model}
               ELSE IF Meaning(f) = {} THEN {Nothing} ELSE Meaning(f)

\* is_model_satisfiable.
IsModelSatisfiable(m) == ~Fails(Visit("evaluate", f_).truth[m])

\* is_satisfiable.
IsSatisfiable ==
  /\ pc \in {"built", "solved"}
  /\ result' = (Meaning(f_) # {})
  /\ out_model' \in ModelFor(f_)
  /\ pc' = "solved"
  /\ UNCHANGED <<input, stage, formula_AST, f_, variables_>>

Next == Build \/ Refine \/ BuildFormula \/ IsSatisfiable

Spec == Init /\ [][Next]_vars
-----------------------------------------------------------------------------
\* Type invariant: every refiner leaves a well-formed AST.
TypeOK ==
  /\ pc \in {"idle", "refine", "built", "solved"}
  /\ input \in Input
  /\ stage \in 0..Len(Stages) + 1
  /\ \A n \in {formula_AST, f_} : n = NoAST \/ IsFormula(n)
  /\ variables_ \subseteq Variable
  /\ out_model \in Model \cup {Nothing}
  /\ result \in BOOLEAN

\* No refiner, whichever others have run before it, changes the meaning of the
\* formula (formula_mgr.cpp:50-119).
MeaningIsKept ==
  \A n \in {formula_AST, f_} : n # NoAST => Meaning(n) = Meaning(input.ast)

\* Whatever the flags, what the refiners leave can be built: no implication,
\* equality or <= is left anywhere, also not one that a refiner has moved or
\* copied (formula.cpp:114-118).
EveryTextIsBuilt ==
  pc \in {"built", "solved"} \/ stage > Len(Stages) =>
    LET n == IF stage > Len(Stages) THEN formula_AST ELSE f_
    IN CanBeBuilt(n)

HasDoubleNegation(n) == n[1] \in {"negation", "complement"} /\ n[2][1] = n[1]

\* After the constants have been reduced, one is the whole formula or a side of
\* an atomic formula; with the contacts converted, a side of <=m only.
HasConstant(n, allowed) ==
  /\ n[1] \notin allowed
  /\ Children(n) \cap {True, False} # {}

\* What a flag asks for is true of the formula in the end, although later
\* refiners bring in negations and move terms about: one pass of each, in this
\* order, is enough.
FlagsAreObeyed ==
  pc = "built" =>
    /\ "remove_double_negation" \in input.flags =>
         ~\E n \in Nodes(f_) : HasDoubleNegation(n)
    /\ "reduce_constants" \in input.flags =>
         ~\E n \in Nodes(f_) : HasConstant(n,
            IF "reduce_contacts_with_constants" \in input.flags
            THEN {"measured_less_eq"} ELSE {"measured_less_eq", "contact"})

\* What is_model_satisfiable finds of a formula without <=m and F is true of
\* the model, in spite of the values that it takes for these (formula.cpp:207-292).
EvaluationIsExact ==
  pc = "built" /\ ~(\E n \in Nodes(f_) : n[1] \in {"measured_less_eq", "constant_false"}) =>
    \A m \in Model : IsModelSatisfiable(m) <=> m \in Meaning(f_)

\* The answer and the model are about the text that was given to build; only a
\* formula that is reduced to T comes without a model (tableau.cpp:13-16).
AnswerIsAboutTheText ==
  pc = "solved" =>
    /\ result <=> Meaning(input.ast) # {}
    /\ result => out_model \in Meaning(input.ast) \/ (f_ = True /\ out_model = Nothing)
    /\ ~result => out_model = Nothing

\* assert(is_model_satisfiable(out_model)) (formula_mgr.cpp:164).
ModelIsSatisfiable == pc = "solved" /\ result => IsModelSatisfiable(out_model)
=============================================================================
