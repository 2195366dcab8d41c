------------------------------ MODULE MCTableau ------------------------------
(***************************************************************************)
(* Tableau on the sample formulas.                                         *)
(***************************************************************************)
EXTENDS SampleFormulas, Tableau

\* TLC evaluates a definition without parameters once, but not the one that
\* a constant stands for, so the constants stand for these.
MCRoot == Roots
MCFormula == Subformulas
MCOp == TheOp
MCLeft == TheLeft
MCRight == TheRight
MCLeftTerm == TheLeftTerm
MCRightTerm == TheRightTerm
MCModels == Structures
MCTheory == TheTheory
=============================================================================
