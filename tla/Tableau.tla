------------------------------- MODULE Tableau -------------------------------
(***************************************************************************)
(* The semantic tableau of formula_lib/private/tableau.cpp: a depth-first, *)
(* destructive search.  One set of signed formulas is modified on the way  *)
(* down and restored on the way up; the C++ call stack remembers what each *)
(* satisfiable_step() must undo.  The stack is explicit here, and a step   *)
(* runs from one entry or return of satisfiable_step() to the next.        *)
(*                                                                         *)
(* formulas_T_, contacts_T_, zero_terms_T_ and measured_less_eq_T_ hold    *)
(* the T formulas of one kind each: they partition path["T"], and          *)
(* likewise for F.  The order of the hash sets decides which formula       *)
(* begin() returns: it is arbitrary.                                       *)
(*                                                                         *)
(* A definition named Mutant... is a plausible slip in the definition that *)
(* follows it; nothing uses it, it shows that a property is not vacuous.   *)
(***************************************************************************)
EXTENDS Formulas, Naturals, Sequences

CONSTANTS
  Root,         \* the formulas is_satisfiable may be asked about
  NoModel       \* what a cleared imodel holds

ASSUME RootAssumption == Root \subseteq Formula /\ NoModel \notin Models

VARIABLES
  pc,                 \* what the search is about to do
  root,               \* the formula of the formula_mgr that owns the tableau
  path,               \* path[s]: the formulas signed s on the current path
  contact_T_terms,    \* the term nodes of the T contacts (a pointer multiset)
  stack,              \* the active calls of satisfiable_step, oldest first
  res,                \* the value being returned
  out_model           \* the imodel handed in by the caller

vars == <<pc, root, path, contact_T_terms, stack, res, out_model>>

Sign == {"T", "F"}
Opposite(s) == IF s = "T" THEN "F" ELSE "T"

\* The constant that signed s demands nothing, and the one it contradicts.
MutantGranted(s) == "constant_false"
Granted(s) == IF s = "T" THEN "constant_true" ELSE "constant_false"
Refuted(s) == IF s = "T" THEN "constant_false" ELSE "constant_true"

\* Signed s, the operation asks for both children, or for one of them.
Both(s) == IF s = "T" THEN "conjunction" ELSE "disjunction"
Either(s) == IF s = "T" THEN "disjunction" ELSE "conjunction"

-----------------------------------------------------------------------------
(* The sets of the path: adding, removing and looking up.                  *)

\* Each node of contact_T_terms_ is the left or right term of one contact.
TermNodes(C) == {f \in C : Op[f] = "c"} \X {"left", "right"}
TermOf(n) == IF n[2] = "left" THEN LeftTerm[n[1]] ELSE RightTerm[n[1]]

Insert(p, s, C) == [p EXCEPT ![s] = @ \cup C]
Erase(p, s, C) == [p EXCEPT ![s] = @ \ C]

MutantEraseTerms(terms, s, C) ==
  IF s = "T" THEN terms \ {n \in TermNodes(C) : n[2] = "left"} ELSE terms

InsertTerms(terms, s, C) == IF s = "T" THEN terms \cup TermNodes(C) ELSE terms
EraseTerms(terms, s, C) == IF s = "T" THEN terms \ TermNodes(C) ELSE terms

\* T(C(a,b)) with T(a = 0) or T(b = 0) already on the path, or the reverse.
HasBrokenContactRule(f, p, terms) ==
  \/ /\ Op[f] = "c"
     /\ \E z \in p["T"] : /\ Op[z] = "eq_zero"
                          /\ LeftTerm[z] \in {LeftTerm[f], RightTerm[f]}
  \/ /\ Op[f] = "eq_zero"
     /\ \E n \in terms : TermOf(n) = LeftTerm[f]

MutantClosed(c, s, p, terms) ==
  Op[c] = Refuted(s) \/ (s = "T" /\ HasBrokenContactRule(c, p, terms))

\* Giving child c the sign s contradicts the path.
Closed(c, s, p, terms) ==
  \/ Op[c] = Refuted(s)
  \/ c \in p[Opposite(s)]
  \/ s = "T" /\ HasBrokenContactRule(c, p, terms)

MutantAddition(c, s, p) == IF IsConstant(c) THEN {} ELSE {c}
MutantAdditionOfConstant(c, s, p) == IF c \in p[s] THEN {} ELSE {c}

\* What giving child c the sign s adds: constants and known formulas do not.
Addition(c, s, p) == IF IsConstant(c) \/ c \in p[s] THEN {} ELSE {c}

-----------------------------------------------------------------------------
(* A call of satisfiable_step: the formula f it took out of the set signed *)
(* from, the children it added to the set signed to, and, when f asks for  *)
(* one child only, which one is being tried.  before is the path on entry; *)
(* it is history, and no step reads it.                                    *)

NonConstant == {f \in Formula : ~IsConstant(f)}
Path == [Sign -> SUBSET NonConstant]
Frame == [f : NonConstant, from : Sign, to : Sign, added : SUBSET NonConstant,
          branch : {"only", "left", "right"}, before : Path]

EmptyPath == [s \in Sign |-> {}]

Pending(s) == {f \in path[s] : IsFormulaOperation(f)}

Init ==
  /\ pc = "idle"
  /\ root \in Root
  /\ path = EmptyPath
  /\ contact_T_terms = {}
  /\ stack = <<>>
  /\ res = FALSE
  /\ out_model = NoModel

\* clear: whatever an earlier call left in the sets is dropped.
MutantNotCleared == path
ClearedPath == EmptyPath

\* is_satisfiable, up to the first satisfiable_step.
Start ==
  /\ pc \in {"idle", "done", "terminated"}
  /\ stack' = <<>>
  /\ IF IsConstant(root)
     THEN /\ pc' = "done"
          /\ res' = (Op[root] = "constant_true")
          /\ path' = ClearedPath
          /\ contact_T_terms' = {}
     ELSE /\ pc' = "step"
          /\ res' = FALSE
          /\ path' = Insert(ClearedPath, "T", {root})
          /\ contact_T_terms' = TermNodes({root})
  /\ UNCHANGED <<root, out_model>>

\* A contradiction: return false with the formula put back.
Fail ==
  /\ pc' = "return"
  /\ res' = FALSE
  /\ UNCHANGED <<root, path, contact_T_terms, stack, out_model>>

\* Recurse with f taken out of sign s and C added to sign t.
Descend(f, s, t, C, branch) ==
  /\ path' = Insert(Erase(path, s, {f}), t, C)
  /\ contact_T_terms' = InsertTerms(contact_T_terms, t, C)
  /\ stack' = Append(stack, [f |-> f, from |-> s, to |-> t, added |-> C,
                             branch |-> branch, before |-> path])
  /\ UNCHANGED <<pc, root, res, out_model>>

\* T(~X) -> F(X), and F(~X) -> T(X).
Negation(f, s) ==
  LET X == Left[f]
      t == Opposite(s)
      p == Erase(path, s, {f})
  IN /\ Op[f] = "negation"
     /\ IF Closed(X, t, p, contact_T_terms)
        THEN Fail
        ELSE Descend(f, s, t, Addition(X, t, p), "only")

\* T(X & Y) -> T(X) and T(Y); F(X v Y) -> F(X) and F(Y).  The right child
\* is validated once the left one has been added.
BothChildren(f, s) ==
  LET X == Left[f]
      Y == Right[f]
      p == Erase(path, s, {f})
      C == Addition(X, s, p)
      q == Insert(p, s, C)
  IN /\ Op[f] = Both(s)
     /\ IF \/ Closed(X, s, p, contact_T_terms)
           \/ Closed(Y, s, q, InsertTerms(contact_T_terms, s, C))
        THEN Fail
        ELSE Descend(f, s, s, C \cup Addition(Y, s, q), "only")

\* T(X v Y) -> T(X) or T(Y); F(X & Y) -> F(X) or F(Y).  The right child is
\* tried here only if the left one is contradictory at once.
EitherChild(f, s) ==
  LET X == Left[f]
      Y == Right[f]
      p == Erase(path, s, {f})
  IN /\ Op[f] = Either(s)
     /\ \/ /\ Granted(s) \in {Op[X], Op[Y]}
           /\ Descend(f, s, s, {}, "only")
        \/ /\ Granted(s) \notin {Op[X], Op[Y]}
           /\ ~Closed(X, s, p, contact_T_terms)
           /\ Descend(f, s, s, Addition(X, s, p), "left")
        \/ /\ Granted(s) \notin {Op[X], Op[Y]}
           /\ Closed(X, s, p, contact_T_terms)
           /\ IF Closed(Y, s, p, contact_T_terms)
              THEN Fail
              ELSE Descend(f, s, s, Addition(Y, s, p), "right")

\* One satisfiable_step: some T formula if there is one, else some F formula.
Expand ==
  /\ pc = "step"
  /\ \E s \in Sign : \E f \in Pending(s) :
       /\ s = "T" \/ Pending("T") = {}
       /\ Negation(f, s) \/ BothChildren(f, s) \/ EitherChild(f, s)

\* Structure M agrees with every signed formula of path p.
Agrees(M, p) == p["T"] \subseteq Theory[M] /\ p["F"] \cap Theory[M] = {}

\* has_satisfiable_model: only atomic formulas are left, imodel::create
\* finds a structure that agrees with them if there is one.
HasSatisfiableModel ==
  /\ pc = "step"
  /\ Pending("T") = {} /\ Pending("F") = {}
  /\ pc' = "return"
  /\ \/ /\ res' = TRUE
        /\ \E M \in Models : Agrees(M, path) /\ out_model' = M
     \/ /\ res' = FALSE
        /\ \A M \in Models : ~Agrees(M, path)
        /\ out_model' = NoModel
  /\ UNCHANGED <<root, path, contact_T_terms, stack>>

\* The left child of a frame has failed: C is what the right one adds.
MutantTurnedRight(frame, C) == [frame EXCEPT !.added = C]
TurnedRight(frame, C) == [frame EXCEPT !.added = C, !.branch = "right"]

\* satisfiable_step returns to its caller, which removes what it added and
\* puts f back, or turns from the left child of f to the right one.
Return ==
  LET top == stack[Len(stack)]
      rest == SubSeq(stack, 1, Len(stack) - 1)
      p == Erase(path, top.to, top.added)
      terms == EraseTerms(contact_T_terms, top.to, top.added)
      Y == Right[top.f]
      retry == /\ ~res /\ top.branch = "left"
               /\ ~Closed(Y, top.to, p, terms)
      C == Addition(Y, top.to, p)
  IN /\ pc = "return"
     /\ stack # <<>>
     /\ \/ /\ ~retry
           /\ path' = Insert(p, top.from, {top.f})
           /\ contact_T_terms' = terms
           /\ stack' = rest
           /\ UNCHANGED pc
        \/ /\ retry
           /\ path' = Insert(p, top.to, C)
           /\ contact_T_terms' = InsertTerms(terms, top.to, C)
           /\ stack' = Append(rest, TurnedRight(top, C))
           /\ pc' = "step"
     /\ UNCHANGED <<root, res, out_model>>

\* The outermost satisfiable_step has returned to is_satisfiable.
Finish ==
  /\ pc = "return"
  /\ stack = <<>>
  /\ pc' = "done"
  /\ out_model' = IF res THEN out_model ELSE NoModel
  /\ UNCHANGED <<root, path, contact_T_terms, stack, res>>

\* TERMINATE_IF_NEEDED throws, on entry of satisfiable_step or in the loops
\* of imodel::create after it cleared the model.  Unwinding puts every f
\* back (call_on_destroy) but removes none of the added children.
Terminate ==
  /\ pc = "step"
  /\ pc' = "terminated"
  /\ path' = [s \in Sign |-> path[s] \cup
                {stack[i].f : i \in {j \in DOMAIN stack : stack[j].from = s}}]
  /\ stack' = <<>>
  /\ out_model' \in {out_model} \cup
       (IF Pending("T") = {} /\ Pending("F") = {} THEN {NoModel} ELSE {})
  /\ UNCHANGED <<root, contact_T_terms, res>>

Next == Start \/ Expand \/ HasSatisfiableModel \/ Return \/ Finish \/ Terminate

Spec == Init /\ [][Next]_vars

\* The calling thread keeps running while a call is active; no new call
\* and no termination request is ever owed.
FairSpec ==
  Spec /\ WF_vars(Expand \/ HasSatisfiableModel \/ Return \/ Finish)

-----------------------------------------------------------------------------
Answered == pc = "done"
Searching == pc \in {"step", "return"}

(***************************************************************************)
(* The variables have their types; constants are never kept on a path.     *)
(***************************************************************************)
TypeOK ==
  /\ pc \in {"idle", "step", "return", "done", "terminated"}
  /\ root \in Root
  /\ path \in Path
  /\ contact_T_terms \subseteq NonConstant \X {"left", "right"}
  /\ stack \in Seq(Frame)
  /\ res \in BOOLEAN
  /\ out_model \in Models \cup {NoModel}

(***************************************************************************)
(* The path a search works on never contradicts itself: no formula has     *)
(* both signs and no T contact has a T zero term.  imodel::create relies   *)
(* on it for the sets it is given, whatever was added and removed before.  *)
(***************************************************************************)
IsConsistent(p) ==
  /\ p["T"] \cap p["F"] = {}
  /\ \A c, z \in p["T"] :
       Op[c] = "c" /\ Op[z] = "eq_zero"
         => LeftTerm[z] \notin {LeftTerm[c], RightTerm[c]}

PathIsConsistent == Searching => IsConsistent(path)

(***************************************************************************)
(* contact_T_terms_ holds exactly the terms of the contacts in contacts_T_ *)
(* during a search, so that remove_term always finds its node              *)
(* (tableau.cpp:549) and the contact rule never sees a stale term.         *)
(***************************************************************************)
ContactTermsMatchContacts ==
  Searching => contact_T_terms = TermNodes(path["T"])

(***************************************************************************)
(* A call of satisfiable_step that returns leaves the path as it found it, *)
(* on success and on failure: the sibling branch starts from the state its *)
(* parent had.                                                             *)
(***************************************************************************)
CallsRestoreThePath ==
  [][pc = "return" /\ Len(stack') < Len(stack)
       => path' = stack[Len(stack)].before]_vars

(***************************************************************************)
(* is_satisfiable answers true exactly for the satisfiable formulas, in    *)
(* whatever order the formulas were taken, and after an earlier call was   *)
(* terminated half way.                                                    *)
(***************************************************************************)
AnswerIsCorrect == Answered => (res <=> IsSatisfiable(root))

(***************************************************************************)
(* When is_satisfiable returns true the model it filled in satisfies the   *)
(* whole formula, which formula_mgr::is_satisfiable asserts                *)
(* (formula_mgr.cpp:164), although create only saw the atoms of one path.  *)
(* A constant formula is answered without touching the model.              *)
(***************************************************************************)
ModelSatisfiesFormula ==
  Answered /\ res /\ ~IsConstant(root) =>
    out_model \in Models /\ root \in Theory[out_model]

(***************************************************************************)
(* Every call of is_satisfiable returns or is terminated.                  *)
(***************************************************************************)
EveryCallEnds == Searching ~> pc \in {"done", "terminated"}
=============================================================================
