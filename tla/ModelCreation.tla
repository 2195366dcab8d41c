---------------------------- MODULE ModelCreation ----------------------------
(***************************************************************************)
(* What imodel::create promises the tableau (tableau.cpp:664): a structure *)
(* in which the atoms of the path hold, or false if there is none.  A call *)
(* that is terminated answers nothing.                                     *)
(***************************************************************************)
CONSTANTS
  Request,      \* the atoms of paths
  Solution,     \* Solution[r]: the structures of the class that satisfy r
  None          \* there is no model

VARIABLES
  request,      \* the atoms of the call
  answers       \* its answer, once it is given: at most one

vars == <<request, answers>>

Init ==
  /\ request \in Request
  /\ answers = {}

Call ==
  /\ request' \in Request
  /\ answers' = {}

Answer ==
  /\ answers = {}
  /\ \E a \in IF Solution[request] = {} THEN {None} ELSE Solution[request] :
       answers' = {a}
  /\ UNCHANGED request

Next == Call \/ Answer

Spec == Init /\ [][Next]_vars
=============================================================================
