---------------------------- MODULE MCRestServer ----------------------------
(***************************************************************************)
(* RestServer with a few requests.                                         *)
(***************************************************************************)
EXTENDS RestServer, TLC

\* Sound for the safety properties only.
Symmetry == Permutations(Request) \cup Permutations(OpId)
=============================================================================
