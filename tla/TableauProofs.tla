---------------------------- MODULE TableauProofs ----------------------------
(***************************************************************************)
(* The tableau is sound and complete: for every set of formulas and every  *)
(* class of structures, is_satisfiable answers true exactly for the        *)
(* satisfiable formulas, and then the model satisfies the whole formula.   *)
(*                                                                         *)
(* The argument follows the call stack.  Every active call satisfies an    *)
(* invariant that ties the path it was entered with to the path of the     *)
(* call below it: undoing what the frame remembers gives the former, and   *)
(* a structure that agrees with the latter agrees with the former.  No     *)
(* induction on formulas is needed, the invariant carries it.              *)
(***************************************************************************)
EXTENDS Tableau, SequenceTheorems, TLAPS

USE SyntaxAssumption, RootAssumption

-----------------------------------------------------------------------------
(* Paths: the laws of Insert and Erase.                                    *)

LEMMA SignOpposite ==
  ASSUME NEW s \in Sign
  PROVE  /\ Opposite(s) \in Sign
         /\ Opposite(s) # s
         /\ \A t \in Sign : t # s => t = Opposite(s)
BY DEF Sign, Opposite

LEMMA InsertErase ==
  ASSUME NEW p \in Path, NEW s \in Sign, NEW C \in SUBSET NonConstant
  PROVE  /\ Insert(p, s, C) \in Path
         /\ Erase(p, s, C) \in Path
         /\ Insert(p, s, C)[s] = p[s] \cup C
         /\ Erase(p, s, C)[s] = p[s] \ C
         /\ \A t \in Sign : t # s => Insert(p, s, C)[t] = p[t]
         /\ \A t \in Sign : t # s => Erase(p, s, C)[t] = p[t]
BY DEF Path, Insert, Erase

LEMMA PathEqual ==
  ASSUME NEW p \in Path, NEW q \in Path, p["T"] = q["T"], p["F"] = q["F"]
  PROVE  p = q
BY DEF Path, Sign

LEMMA EraseUndoesInsert ==
  ASSUME NEW p \in Path, NEW s \in Sign, NEW C \in SUBSET NonConstant,
         C \cap p[s] = {}
  PROVE  Erase(Insert(p, s, C), s, C) = p
BY DEF Path, Insert, Erase, Sign

LEMMA InsertUndoesErase ==
  ASSUME NEW p \in Path, NEW s \in Sign, NEW f \in p[s]
  PROVE  Insert(Erase(p, s, {f}), s, {f}) = p
BY DEF Path, Insert, Erase, Sign

LEMMA EraseConsistent ==
  ASSUME NEW p \in Path, NEW s \in Sign, NEW C \in SUBSET NonConstant,
         IsConsistent(p)
  PROVE  IsConsistent(Erase(p, s, C))
<1>1. Erase(p, s, C)["T"] \subseteq p["T"] /\ Erase(p, s, C)["F"] \subseteq p["F"]
  BY InsertErase DEF Sign
<1> QED  BY <1>1 DEF IsConsistent

-----------------------------------------------------------------------------
(* The term nodes of the contacts follow the T formulas.                   *)

LEMMA TermNodesOfUnion ==
  ASSUME NEW A, NEW B
  PROVE  /\ TermNodes(A \cup B) = TermNodes(A) \cup TermNodes(B)
         /\ A \cap B = {} => TermNodes(A \cup B) \ TermNodes(B) = TermNodes(A)
BY DEF TermNodes

\* Taking a formula operation off the path touches no contact.
LEMMA TermNodesWithout ==
  ASSUME NEW p \in Path, NEW s \in Sign, NEW f \in NonConstant, IsFormulaOperation(f)
  PROVE  TermNodes(Erase(p, s, {f})["T"]) = TermNodes(p["T"])
<1>1. Op[f] # "c"  BY DEF IsFormulaOperation, FormulaOperations
<1>2. \A A : TermNodes(A \ {f}) = TermNodes(A)  BY <1>1 DEF TermNodes
<1> QED  BY <1>2, InsertErase DEF Sign

LEMMA InsertTermsOfPath ==
  ASSUME NEW p \in Path, NEW s \in Sign, NEW C \in SUBSET NonConstant
  PROVE  /\ InsertTerms(TermNodes(p["T"]), s, C) = TermNodes(Insert(p, s, C)["T"])
         /\ C \cap p[s] = {} =>
              EraseTerms(TermNodes(Insert(p, s, C)["T"]), s, C) = TermNodes(p["T"])
<1>1. CASE s = "T"
  BY <1>1, InsertErase, TermNodesOfUnion DEF InsertTerms, EraseTerms
<1>2. CASE s # "T"
  BY <1>2, InsertErase DEF InsertTerms, EraseTerms, Sign
<1> QED  BY <1>1, <1>2

-----------------------------------------------------------------------------
(* Contradictions and additions, read in the structures.                   *)

\* Structure M gives formula c the sign s.
HasSign(M, c, s) == IF s = "T" THEN c \in Theory[M] ELSE c \notin Theory[M]

LEMMA AgreesIsHasSign ==
  ASSUME NEW p \in Path, NEW M \in Models
  PROVE  Agrees(M, p) <=> \A s \in Sign : \A f \in p[s] : HasSign(M, f, s)
BY DEF Agrees, HasSign, Sign

\* Taking a formula off a path takes one demand off the structures.
LEMMA AgreesWithout ==
  ASSUME NEW p \in Path, NEW s \in Sign, NEW f \in p[s], NEW M \in Models
  PROVE  Agrees(M, p) <=> Agrees(M, Erase(p, s, {f})) /\ HasSign(M, f, s)
BY DEF Agrees, HasSign, Sign, Path, Erase

\* A closed child is false in every structure that agrees with the path.
LEMMA ClosedIsContradictory ==
  ASSUME NEW p \in Path, NEW s \in Sign, NEW c \in Formula, NEW M \in Models,
         Agrees(M, p), Closed(c, s, p, TermNodes(p["T"]))
  PROVE  ~HasSign(M, c, s)
<1>1. CASE Op[c] = Refuted(s)
  BY <1>1, SemanticsAssumption DEF Refuted, HasSign
<1>2. CASE c \in p[Opposite(s)]
  BY <1>2 DEF Opposite, Agrees, HasSign, Sign
<1>3. CASE s = "T" /\ HasBrokenContactRule(c, p, TermNodes(p["T"]))
  <2>0. p["T"] \subseteq Formula  BY DEF Path, Sign, NonConstant
  <2>1. CASE /\ Op[c] = "c"
             /\ \E z \in p["T"] : /\ Op[z] = "eq_zero"
                                  /\ LeftTerm[z] \in {LeftTerm[c], RightTerm[c]}
    <3>1. PICK z \in p["T"] : /\ Op[z] = "eq_zero"
                              /\ LeftTerm[z] \in {LeftTerm[c], RightTerm[c]}
      BY <2>1
    <3>2. z \in Theory[M]  BY DEF Agrees
    <3> QED  BY <1>3, <2>0, <2>1, <3>1, <3>2, ContactRuleAssumption DEF HasSign
  <2>2. CASE /\ Op[c] = "eq_zero"
             /\ \E n \in TermNodes(p["T"]) : TermOf(n) = LeftTerm[c]
    <3>1. PICK n \in TermNodes(p["T"]) : TermOf(n) = LeftTerm[c]
      BY <2>2
    <3>2. PICK d \in p["T"] : Op[d] = "c" /\ LeftTerm[c] \in {LeftTerm[d], RightTerm[d]}
      BY <3>1 DEF TermNodes, TermOf
    <3>3. d \in Theory[M]  BY DEF Agrees
    <3> QED  BY <1>3, <2>0, <2>2, <3>2, <3>3, ContactRuleAssumption DEF HasSign
  <2> QED  BY <1>3, <2>1, <2>2 DEF HasBrokenContactRule
<1> QED  BY <1>1, <1>2, <1>3 DEF Closed

\* A child that is not closed can be added: the path stays consistent, the
\* structures that agree are those that give the child its sign.
LEMMA OpenChild ==
  ASSUME NEW p \in Path, NEW s \in Sign, NEW c \in Formula,
         IsConsistent(p), ~Closed(c, s, p, TermNodes(p["T"]))
  PROVE  /\ Addition(c, s, p) \in SUBSET NonConstant
         /\ Addition(c, s, p) \cap p[s] = {}
         /\ IsConsistent(Insert(p, s, Addition(c, s, p)))
         /\ \A M \in Models : Agrees(M, Insert(p, s, Addition(c, s, p)))
                                <=> Agrees(M, p) /\ HasSign(M, c, s)
<1> DEFINE C == Addition(c, s, p)
           q == Insert(p, s, C)
<1>1. C \in SUBSET NonConstant /\ C \cap p[s] = {}
  BY DEF Addition, NonConstant
<1>2. q[s] = p[s] \cup C /\ q[Opposite(s)] = p[Opposite(s)]
  BY <1>1, InsertErase, SignOpposite
<1>3. IsConsistent(q)
  <2>1. CASE C = {}
    <3>1. q = p  BY <2>1 DEF Insert, Path
    <3> QED  BY <3>1
  <2>2. CASE C # {}
    <3>1. C = {c} /\ c \notin p[s] /\ c \notin p[Opposite(s)]
      BY <2>2 DEF Addition, Closed
    <3>2. q["T"] \cap q["F"] = {}
      BY <1>2, <3>1 DEF IsConsistent, Sign, Opposite
    <3>3. ASSUME NEW d \in q["T"], NEW z \in q["T"],
                 Op[d] = "c", Op[z] = "eq_zero",
                 LeftTerm[z] \in {LeftTerm[d], RightTerm[d]}
          PROVE  FALSE
      <4>1. CASE d \in p["T"] /\ z \in p["T"]
        BY <3>3, <4>1 DEF IsConsistent
      <4>2. CASE s = "T" /\ d = c
        <5>1. z \in p["T"]  BY <1>2, <3>1, <3>3, <4>2
        <5> QED  BY <3>3, <4>2, <5>1 DEF Closed, HasBrokenContactRule
      <4>3. CASE s = "T" /\ z = c
        <5>1. d \in p["T"]  BY <1>2, <3>1, <3>3, <4>3
        <5>2. /\ <<d, "left">> \in TermNodes(p["T"])
              /\ <<d, "right">> \in TermNodes(p["T"])
          BY <3>3, <5>1 DEF TermNodes
        <5>3. TermOf(<<d, "left">>) = LeftTerm[d] /\ TermOf(<<d, "right">>) = RightTerm[d]
          BY DEF TermOf
        <5> QED  BY <3>3, <4>3, <5>2, <5>3 DEF Closed, HasBrokenContactRule
      <4> QED  BY <1>2, <3>1, <4>1, <4>2, <4>3 DEF Sign, Opposite
    <3> QED  BY <3>2, <3>3 DEF IsConsistent
  <2> QED  BY <2>1, <2>2
<1>4. ASSUME NEW M \in Models
      PROVE  Agrees(M, q) <=> Agrees(M, p) /\ HasSign(M, c, s)
  <2>1. Agrees(M, q) <=> Agrees(M, p) /\ \A f \in C : HasSign(M, f, s)
    BY <1>2 DEF Agrees, HasSign, Sign, Opposite
  <2>2. CASE C = {c}
    BY <2>1, <2>2
  <2>3. CASE C = {} /\ c \in p[s]
    BY <2>1, <2>3 DEF Agrees, HasSign, Sign
  <2>4. CASE C = {} /\ IsConstant(c)
    <3>1. HasSign(M, c, s)
      BY <2>4, SemanticsAssumption
      DEF IsConstant, Constants, HasSign, Closed, Refuted
    <3> QED  BY <2>1, <2>4, <3>1
  <2> QED  BY <2>2, <2>3, <2>4 DEF Addition
<1> QED  BY <1>1, <1>3, <1>4

\* What a formula operation signed s asks of its children.
LEMMA ChildrenSigns ==
  ASSUME NEW M \in Models, NEW f \in Formula, NEW s \in Sign
  PROVE  /\ Op[f] = "negation" =>
              (HasSign(M, f, s) <=> HasSign(M, Left[f], Opposite(s)))
         /\ Op[f] = Both(s) =>
              (HasSign(M, f, s) <=> HasSign(M, Left[f], s) /\ HasSign(M, Right[f], s))
         /\ Op[f] = Either(s) =>
              (HasSign(M, f, s) <=> HasSign(M, Left[f], s) \/ HasSign(M, Right[f], s))
BY SemanticsAssumption DEF HasSign, Both, Either, Opposite, Sign

-----------------------------------------------------------------------------
(* The inductive invariant.                                                *)

SomeAgrees(p) == \E M \in Models : Agrees(M, p)

\* The path a frame leaves when its formula has been taken out.
Taken(fr) == Erase(fr.before, fr.from, {fr.f})

\* A frame and the path of the call below it.
FrameInv(fr, after) ==
  /\ fr.f \in fr.before[fr.from]
  /\ IsFormulaOperation(fr.f)
  /\ IsConsistent(fr.before)
  /\ fr.added \cap Taken(fr)[fr.to] = {}
  /\ after = Insert(Taken(fr), fr.to, fr.added)
  /\ \A M \in Models : Agrees(M, after) => Agrees(M, fr.before)
  /\ fr.branch # "left" => (SomeAgrees(fr.before) => SomeAgrees(after))
  /\ fr.branch = "left" =>
       /\ Op[fr.f] = Either(fr.from)
       /\ fr.to = fr.from
       /\ \A M \in Models : Agrees(M, fr.before) /\ ~Agrees(M, after)
                              => HasSign(M, Right[fr.f], fr.from)

\* The path that the call at height i of the stack was entered with.
PathAt(stk, p, i) == IF i <= Len(stk) THEN stk[i].before ELSE p

RootPath == Insert(EmptyPath, "T", {root})

StackInv(stk, p) ==
  /\ \A i \in 1..Len(stk) : FrameInv(stk[i], PathAt(stk, p, i + 1))
  /\ PathAt(stk, p, 1) = RootPath

SearchInv ==
  Searching =>
    /\ root \in NonConstant
    /\ StackInv(stack, path)
    /\ IsConsistent(path)
    /\ contact_T_terms = TermNodes(path["T"])

ReturnInv ==
  pc = "return" =>
    /\ res <=> SomeAgrees(path)
    /\ res => out_model \in Models /\ Agrees(out_model, path)

IInv ==
  /\ TypeOK
  /\ SearchInv
  /\ ReturnInv
  /\ AnswerIsCorrect
  /\ ModelSatisfiesFormula

-----------------------------------------------------------------------------
(* The stack: pushing a frame on it, popping one off it.                   *)

LEMMA Push ==
  ASSUME NEW stk \in Seq(Frame), NEW fr \in Frame, NEW q \in Path,
         StackInv(stk, fr.before), FrameInv(fr, q)
  PROVE  /\ Append(stk, fr) \in Seq(Frame)
         /\ StackInv(Append(stk, fr), q)
<1> DEFINE new == Append(stk, fr)
<1>1. /\ new \in Seq(Frame) /\ Len(new) = Len(stk) + 1 /\ Len(stk) \in Nat
      /\ \A i \in 1..Len(stk) : new[i] = stk[i]
      /\ new[Len(stk) + 1] = fr
  BY AppendProperties, LenProperties
<1>2. \A i \in 1..Len(stk) : PathAt(new, q, i + 1) = PathAt(stk, fr.before, i + 1)
  BY <1>1 DEF PathAt
<1>3. PathAt(new, q, 1) = PathAt(stk, fr.before, 1)
  BY <1>1 DEF PathAt
<1>4. PathAt(new, q, Len(stk) + 2) = q
  BY <1>1 DEF PathAt
<1>5. ASSUME NEW i \in 1..Len(new)
      PROVE  FrameInv(new[i], PathAt(new, q, i + 1))
  <2>1. CASE i \in 1..Len(stk)
    BY <1>1, <1>2, <2>1 DEF StackInv
  <2>2. CASE i = Len(stk) + 1
    <3>1. i + 1 = Len(stk) + 2  BY <1>1, <2>2
    <3> QED  BY <1>1, <1>4, <2>2, <3>1
  <2> QED  BY <1>1, <2>1, <2>2
<1> QED  BY <1>1, <1>3, <1>5 DEF StackInv

LEMMA FrontProperties ==
  ASSUME NEW S, NEW seq \in Seq(S), NEW n \in Nat, Len(seq) = n + 1
  PROVE  /\ SubSeq(seq, 1, n) \in Seq(S)
         /\ Len(SubSeq(seq, 1, n)) = n
         /\ \A i \in 1..n : SubSeq(seq, 1, n)[i] = seq[i]
<1>1. \A i \in 1..n : seq[i] \in S
  BY ElementOfSeq
<1>2. /\ SubSeq(seq, 1, n) \in Seq(S)
      /\ Len(SubSeq(seq, 1, n)) = IF 1 <= n THEN n - 1 + 1 ELSE 0
      /\ \A i \in 1..(n - 1 + 1) : SubSeq(seq, 1, n)[i] = seq[1 + i - 1]
  BY <1>1, SubSeqProperties
<1> QED  BY <1>2

LEMMA Pop ==
  ASSUME NEW stk \in Seq(Frame), stk # <<>>, NEW q \in Path, StackInv(stk, q)
  PROVE  /\ stk[Len(stk)] \in Frame
         /\ Len(stk) \in Nat \ {0}
         /\ SubSeq(stk, 1, Len(stk) - 1) \in Seq(Frame)
         /\ Len(SubSeq(stk, 1, Len(stk) - 1)) = Len(stk) - 1
         /\ FrameInv(stk[Len(stk)], q)
         /\ StackInv(SubSeq(stk, 1, Len(stk) - 1), stk[Len(stk)].before)
<1> DEFINE n == Len(stk)
           top == stk[n]
           rest == SubSeq(stk, 1, n - 1)
<1>1. n \in Nat \ {0}  BY EmptySeq
<1>2. top \in Frame  BY <1>1, ElementOfSeq
<1>4. /\ rest \in Seq(Frame)
      /\ Len(rest) = n - 1
      /\ \A i \in 1..(n - 1) : rest[i] = stk[i]
  <2> DEFINE m == n - 1
  <2>1. m \in Nat /\ Len(stk) = m + 1  BY <1>1
  <2> HIDE DEF m
  <2>2. /\ SubSeq(stk, 1, m) \in Seq(Frame)
        /\ Len(SubSeq(stk, 1, m)) = m
        /\ \A i \in 1..m : SubSeq(stk, 1, m)[i] = stk[i]
    BY <2>1, FrontProperties
  <2> QED  BY <2>2 DEF m
<1>5. FrameInv(top, q)
  BY <1>1 DEF StackInv, PathAt
<1>6. \A i \in 1..n : PathAt(rest, top.before, i) = PathAt(stk, q, i)
  BY <1>1, <1>4 DEF PathAt
<1>7. \A i \in 1..Len(rest) : FrameInv(rest[i], PathAt(rest, top.before, i + 1))
  BY <1>1, <1>4, <1>6 DEF StackInv
<1>8. PathAt(rest, top.before, 1) = RootPath
  BY <1>1, <1>6 DEF StackInv
<1> QED  BY <1>1, <1>2, <1>4, <1>5, <1>7, <1>8 DEF StackInv

-----------------------------------------------------------------------------
(* The two ways a satisfiable_step ends at once: a contradiction, and a    *)
(* recursive call.                                                         *)

LEMMA FailKeepsIInv ==
  ASSUME IInv, pc = "step", ~SomeAgrees(path), Fail
  PROVE  IInv'
BY DEF IInv, Fail, TypeOK, SearchInv, ReturnInv, AnswerIsCorrect,
       ModelSatisfiesFormula, Searching, Answered, StackInv, RootPath, SomeAgrees,
       IsConsistent

LEMMA DescendKeepsIInv ==
  ASSUME IInv, pc = "step",
         NEW s \in Sign, NEW f \in Pending(s), NEW t \in Sign,
         NEW C \in SUBSET NonConstant, NEW b \in {"only", "left", "right"},
         Descend(f, s, t, C, b),
         C \cap Erase(path, s, {f})[t] = {},
         IsConsistent(path'),
         \A M \in Models : Agrees(M, path') => Agrees(M, path),
         b # "left" => (SomeAgrees(path) => SomeAgrees(path')),
         b = "left" => /\ Op[f] = Either(s) /\ t = s
                       /\ \A M \in Models : Agrees(M, path) /\ ~Agrees(M, path')
                                              => HasSign(M, Right[f], s)
  PROVE  IInv'
<1> DEFINE fr == [f |-> f, from |-> s, to |-> t, added |-> C,
                  branch |-> b, before |-> path]
<1>1. path \in Path /\ f \in NonConstant /\ f \in path[s] /\ IsFormulaOperation(f)
  BY DEF IInv, TypeOK, Pending, Path
<1>2. fr \in Frame
  BY <1>1 DEF Frame
<1>3. path' = Insert(Erase(path, s, {f}), t, C) /\ path' \in Path
  BY <1>1, InsertErase DEF Descend
<1>4. FrameInv(fr, path')
  BY <1>1, <1>3 DEF FrameInv, Taken, IInv, SearchInv, Searching
<1>5. StackInv(stack, path)
  BY DEF IInv, SearchInv, Searching
<1>6. stack' = Append(stack, fr)
  BY DEF Descend
<1>7. stack' \in Seq(Frame) /\ StackInv(stack', path')
  BY <1>2, <1>3, <1>4, <1>5, <1>6, Push DEF IInv, TypeOK
<1>8. contact_T_terms' = TermNodes(path'["T"])
  <2>1. contact_T_terms = TermNodes(Erase(path, s, {f})["T"])
    BY <1>1, TermNodesWithout DEF IInv, SearchInv, Searching
  <2>2. Erase(path, s, {f}) \in Path  BY <1>1, InsertErase
  <2>3. contact_T_terms' = InsertTerms(contact_T_terms, t, C)
    BY DEF Descend
  <2>4. InsertTerms(TermNodes(Erase(path, s, {f})["T"]), t, C)
          = TermNodes(Insert(Erase(path, s, {f}), t, C)["T"])
    BY <2>2, InsertTermsOfPath
  <2> QED  BY <1>3, <2>1, <2>3, <2>4
<1>9. TypeOK'
  <2>1. path'["T"] \subseteq NonConstant  BY <1>3 DEF Path, Sign
  <2>2. contact_T_terms' \subseteq NonConstant \X {"left", "right"}
    BY <1>8, <2>1 DEF TermNodes
  <2> QED  BY <1>3, <1>7, <2>2 DEF IInv, TypeOK, Descend
<1>10. SearchInv'
  BY <1>7, <1>8 DEF IInv, SearchInv, Searching, Descend, StackInv, RootPath
<1> QED
  BY <1>9, <1>10 DEF IInv, ReturnInv, AnswerIsCorrect, ModelSatisfiesFormula, Answered, Descend

-----------------------------------------------------------------------------
(* The steps of the search.                                                *)

\* What every expansion starts from: f has been taken off the path.
LEMMA TakeFormula ==
  ASSUME IInv, pc = "step", NEW s \in Sign, NEW f \in Pending(s)
  PROVE  /\ path \in Path /\ IsConsistent(path)
         /\ f \in NonConstant /\ f \in Formula /\ f \in path[s]
         /\ Left[f] \in Formula
         /\ Op[f] \in {"conjunction", "disjunction"} => Right[f] \in Formula
         /\ Erase(path, s, {f}) \in Path
         /\ IsConsistent(Erase(path, s, {f}))
         /\ contact_T_terms = TermNodes(Erase(path, s, {f})["T"])
         /\ \A M \in Models : Agrees(M, path)
                                <=> Agrees(M, Erase(path, s, {f})) /\ HasSign(M, f, s)
<1>1. /\ path \in Path /\ IsConsistent(path)
      /\ f \in NonConstant /\ f \in Formula /\ f \in path[s] /\ IsFormulaOperation(f)
  BY DEF IInv, TypeOK, SearchInv, Searching, Pending, Path, NonConstant
<1>2. Erase(path, s, {f}) \in Path /\ IsConsistent(Erase(path, s, {f}))
  BY <1>1, InsertErase, EraseConsistent
<1>3. contact_T_terms = TermNodes(Erase(path, s, {f})["T"])
  BY <1>1, TermNodesWithout DEF IInv, SearchInv, Searching
<1>4. ASSUME NEW M \in Models
      PROVE  Agrees(M, path) <=> Agrees(M, Erase(path, s, {f})) /\ HasSign(M, f, s)
  BY <1>1, AgreesWithout
<1> QED  BY <1>1, <1>2, <1>3, <1>4

LEMMA NegationKeepsIInv ==
  ASSUME IInv, pc = "step", NEW s \in Sign, NEW f \in Pending(s), Negation(f, s)
  PROVE  IInv'
<1> DEFINE X == Left[f]
           t == Opposite(s)
           p == Erase(path, s, {f})
           C == Addition(X, t, p)
<1>1. /\ p \in Path /\ IsConsistent(p) /\ contact_T_terms = TermNodes(p["T"])
      /\ X \in Formula /\ f \in Formula /\ t \in Sign /\ Op[f] = "negation"
  BY TakeFormula, SignOpposite DEF Negation
<1>2. \A M \in Models : Agrees(M, path) <=> Agrees(M, p) /\ HasSign(M, X, t)
  BY <1>1, TakeFormula, ChildrenSigns
<1>3. CASE Closed(X, t, p, contact_T_terms)
  <2>1. ~SomeAgrees(path)
    BY <1>1, <1>2, <1>3, ClosedIsContradictory DEF SomeAgrees
  <2>2. Fail  BY <1>3 DEF Negation
  <2> QED  BY <2>1, <2>2, FailKeepsIInv
<1>4. CASE ~Closed(X, t, p, contact_T_terms)
  <2>1. Descend(f, s, t, C, "only")  BY <1>4 DEF Negation
  <2>2. path' = Insert(p, t, C)  BY <2>1 DEF Descend
  <2>3. /\ C \in SUBSET NonConstant /\ C \cap p[t] = {}
        /\ IsConsistent(path')
        /\ \A M \in Models : Agrees(M, path') <=> Agrees(M, p) /\ HasSign(M, X, t)
    BY <1>1, <1>4, <2>2, OpenChild
  <2>4. \A M \in Models : Agrees(M, path') <=> Agrees(M, path)
    BY <1>2, <2>3
  <2> HIDE DEF C, t
  <2> QED  BY <1>1, <2>1, <2>3, <2>4, DescendKeepsIInv DEF SomeAgrees
<1> QED  BY <1>3, <1>4

LEMMA BothChildrenKeepsIInv ==
  ASSUME IInv, pc = "step", NEW s \in Sign, NEW f \in Pending(s), BothChildren(f, s)
  PROVE  IInv'
<1> DEFINE X == Left[f]
           Y == Right[f]
           p == Erase(path, s, {f})
           C == Addition(X, s, p)
           q == Insert(p, s, C)
           D == Addition(Y, s, q)
           terms == InsertTerms(contact_T_terms, s, C)
<1>1. /\ p \in Path /\ IsConsistent(p) /\ contact_T_terms = TermNodes(p["T"])
      /\ X \in Formula /\ Y \in Formula /\ f \in Formula /\ Op[f] = Both(s)
  BY TakeFormula DEF BothChildren, Both
<1>2. \A M \in Models : Agrees(M, path)
                          <=> Agrees(M, p) /\ HasSign(M, X, s) /\ HasSign(M, Y, s)
  BY <1>1, TakeFormula, ChildrenSigns
<1>3. CASE Closed(X, s, p, contact_T_terms)
  <2>1. ~SomeAgrees(path)
    BY <1>1, <1>2, <1>3, ClosedIsContradictory DEF SomeAgrees
  <2>2. Fail  BY <1>3 DEF BothChildren
  <2> QED  BY <2>1, <2>2, FailKeepsIInv
<1>4. CASE ~Closed(X, s, p, contact_T_terms)
  <2>1. /\ C \in SUBSET NonConstant /\ C \cap p[s] = {}
        /\ IsConsistent(q)
        /\ \A M \in Models : Agrees(M, q) <=> Agrees(M, p) /\ HasSign(M, X, s)
    BY <1>1, <1>4, OpenChild
  <2>2. q \in Path /\ q[s] = p[s] \cup C
    <3> HIDE DEF C, p
    <3> QED  BY <1>1, <2>1, InsertErase
  <2>3. terms = TermNodes(q["T"])
    BY <1>1, <2>1, InsertTermsOfPath
  <2>4. CASE Closed(Y, s, q, terms)
    <3>1. ~SomeAgrees(path)
      BY <1>1, <1>2, <2>1, <2>2, <2>3, <2>4, ClosedIsContradictory DEF SomeAgrees
    <3>2. Fail  BY <2>4 DEF BothChildren
    <3> QED  BY <3>1, <3>2, FailKeepsIInv
  <2>5. CASE ~Closed(Y, s, q, terms)
    <3>1. Descend(f, s, s, C \cup D, "only")  BY <1>4, <2>5 DEF BothChildren
    <3>2. /\ D \in SUBSET NonConstant /\ D \cap q[s] = {}
          /\ IsConsistent(Insert(q, s, D))
          /\ \A M \in Models : Agrees(M, Insert(q, s, D))
                                 <=> Agrees(M, q) /\ HasSign(M, Y, s)
      <4>1. ~Closed(Y, s, q, TermNodes(q["T"]))  BY <2>3, <2>5
      <4> HIDE DEF q, Y
      <4> QED  BY <1>1, <2>1, <2>2, <4>1, OpenChild
    <3>3. Insert(q, s, D) = Insert(p, s, C \cup D)
      <4> HIDE DEF p, C, D
      <4> QED  BY <1>1 DEF Insert, Path
    <3>4. path' = Insert(q, s, D)
      BY <3>1, <3>3 DEF Descend
    <3>5. C \cup D \in SUBSET NonConstant /\ (C \cup D) \cap p[s] = {}
      BY <2>1, <2>2, <3>2
    <3>6. \A M \in Models : Agrees(M, path') <=> Agrees(M, path)
      BY <1>2, <2>1, <3>2, <3>4
    <3>7. IsConsistent(path')  BY <3>2, <3>4
    <3> HIDE DEF C, D, q
    <3> QED  BY <3>1, <3>5, <3>6, <3>7, DescendKeepsIInv DEF SomeAgrees
  <2> QED  BY <2>4, <2>5
<1> QED  BY <1>3, <1>4

LEMMA EitherChildKeepsIInv ==
  ASSUME IInv, pc = "step", NEW s \in Sign, NEW f \in Pending(s), EitherChild(f, s)
  PROVE  IInv'
<1> DEFINE X == Left[f]
           Y == Right[f]
           p == Erase(path, s, {f})
<1>1. /\ path \in Path /\ IsConsistent(path)
      /\ p \in Path /\ IsConsistent(p) /\ contact_T_terms = TermNodes(p["T"])
      /\ X \in Formula /\ Y \in Formula /\ f \in Formula /\ Op[f] = Either(s)
  BY TakeFormula DEF EitherChild, Either
<1>2. \A M \in Models : Agrees(M, path)
                          <=> Agrees(M, p) /\ (HasSign(M, X, s) \/ HasSign(M, Y, s))
  BY <1>1, TakeFormula, ChildrenSigns
<1>3. CASE Descend(f, s, s, {}, "only") /\ Granted(s) \in {Op[X], Op[Y]}
  <2>1. \A M \in Models : HasSign(M, X, s) \/ HasSign(M, Y, s)
    BY <1>1, <1>3, SemanticsAssumption DEF Granted, HasSign
  <2>2. path' = p
    BY <1>1, <1>3 DEF Descend, Insert, Path
  <2>3. {} \in SUBSET NonConstant /\ {} \cap p[s] = {}
    OBVIOUS
  <2> QED  BY <1>1, <1>2, <1>3, <2>1, <2>2, <2>3, DescendKeepsIInv DEF SomeAgrees
<1>4. ASSUME NEW Z \in {X, Y}, NEW b \in {"left", "right"},
             ~Closed(Z, s, p, contact_T_terms),
             b = "left" => Z = X,
             b = "right" => Z = Y /\ Closed(X, s, p, contact_T_terms),
             Descend(f, s, s, Addition(Z, s, p), b)
      PROVE  IInv'
  <2> DEFINE C == Addition(Z, s, p)
  <2>1. path' = Insert(p, s, C)  BY <1>4 DEF Descend
  <2>2. /\ C \in SUBSET NonConstant /\ C \cap p[s] = {}
        /\ IsConsistent(path')
        /\ \A M \in Models : Agrees(M, path') <=> Agrees(M, p) /\ HasSign(M, Z, s)
    <3>1. ~Closed(Z, s, p, TermNodes(p["T"])) /\ Z \in Formula  BY <1>1, <1>4
    <3> HIDE DEF p
    <3> QED  BY <1>1, <2>1, <3>1, OpenChild
  <2>3. \A M \in Models : Agrees(M, path') => Agrees(M, path)
    BY <1>2, <2>2
  <2>4. b = "left" => \A M \in Models : Agrees(M, path) /\ ~Agrees(M, path')
                                          => HasSign(M, Y, s)
    BY <1>2, <1>4, <2>2
  <2>5. b # "left" => (SomeAgrees(path) => SomeAgrees(path'))
    <3>1. b # "left" => \A M \in Models : Agrees(M, p) => ~HasSign(M, X, s)
      BY <1>1, <1>4, ClosedIsContradictory
    <3> QED  BY <1>2, <1>4, <2>2, <3>1 DEF SomeAgrees
  <2>6. Descend(f, s, s, C, b)  BY <1>4
  <2>7. b \in {"only", "left", "right"}  OBVIOUS
  <2> HIDE DEF C
  <2> QED  BY <1>1, <2>2, <2>3, <2>4, <2>5, <2>6, <2>7, DescendKeepsIInv
<1>5. CASE /\ Closed(X, s, p, contact_T_terms)
           /\ Closed(Y, s, p, contact_T_terms)
           /\ Fail
  <2>1. ~SomeAgrees(path)
    BY <1>1, <1>2, <1>5, ClosedIsContradictory DEF SomeAgrees
  <2> QED  BY <1>5, <2>1, FailKeepsIInv
<1> QED  BY <1>3, <1>4, <1>5 DEF EitherChild

LEMMA ExpandKeepsIInv ==
  ASSUME IInv, Expand
  PROVE  IInv'
<1>1. PICK s \in Sign :
        \E f \in Pending(s) :
          Negation(f, s) \/ BothChildren(f, s) \/ EitherChild(f, s)
  BY DEF Expand
<1>2. PICK f \in Pending(s) :
        Negation(f, s) \/ BothChildren(f, s) \/ EitherChild(f, s)
  BY <1>1
<1>3. pc = "step"  BY DEF Expand
<1> QED
  BY <1>2, <1>3, NegationKeepsIInv, BothChildrenKeepsIInv, EitherChildKeepsIInv

LEMMA HasSatisfiableModelKeepsIInv ==
  ASSUME IInv, HasSatisfiableModel
  PROVE  IInv'
<1>1. TypeOK'  BY DEF IInv, TypeOK, HasSatisfiableModel
<1>2. SearchInv'
  BY DEF IInv, HasSatisfiableModel, SearchInv, Searching, StackInv, RootPath, IsConsistent
<1>3. ReturnInv'
  BY DEF IInv, HasSatisfiableModel, ReturnInv, SomeAgrees, TypeOK
<1> QED
  BY <1>1, <1>2, <1>3
  DEF IInv, HasSatisfiableModel, AnswerIsCorrect, ModelSatisfiesFormula, Answered

LEMMA ReturnKeepsIInv ==
  ASSUME IInv, Return
  PROVE  IInv'
<1> DEFINE top == stack[Len(stack)]
           rest == SubSeq(stack, 1, Len(stack) - 1)
           p == Erase(path, top.to, top.added)
           terms == EraseTerms(contact_T_terms, top.to, top.added)
           Y == Right[top.f]
           retry == /\ ~res /\ top.branch = "left"
                    /\ ~Closed(Y, top.to, p, terms)
           C == Addition(Y, top.to, p)
<1>1. /\ pc = "return" /\ stack # <<>> /\ stack \in Seq(Frame) /\ path \in Path
      /\ StackInv(stack, path) /\ root \in NonConstant /\ root \in Root
      /\ contact_T_terms = TermNodes(path["T"])
  BY DEF IInv, TypeOK, Return, SearchInv, Searching
<1>2. /\ top \in Frame /\ FrameInv(top, path)
      /\ rest \in Seq(Frame) /\ StackInv(rest, top.before)
  BY <1>1, Pop
<1>3. /\ top.f \in NonConstant /\ top.f \in Formula /\ top.f \in top.before[top.from]
      /\ top.from \in Sign /\ top.to \in Sign /\ top.added \in SUBSET NonConstant
      /\ top.before \in Path
  BY <1>2 DEF Frame, FrameInv, NonConstant
<1>4. Taken(top) \in Path
  BY <1>3, InsertErase DEF Taken
<1>5. p = Taken(top)
  BY <1>2, <1>3, <1>4, EraseUndoesInsert DEF FrameInv
<1>6. terms = TermNodes(p["T"])
  BY <1>1, <1>2, <1>3, <1>4, <1>5, InsertTermsOfPath DEF FrameInv
<1>7. IsConsistent(p)
  BY <1>2, <1>3, <1>5, EraseConsistent DEF FrameInv, Taken
<1>8. \A M \in Models : Agrees(M, top.before)
                          <=> Agrees(M, p) /\ HasSign(M, top.f, top.from)
  BY <1>3, <1>5, AgreesWithout DEF Taken
<1>9. /\ res <=> SomeAgrees(path)
      /\ res => out_model \in Models /\ Agrees(out_model, path)
  BY <1>1 DEF IInv, ReturnInv
<1>10. top.branch = "left" => /\ Y \in Formula /\ top.to = top.from
                              /\ Op[top.f] = Either(top.from)
  BY <1>2, <1>3 DEF FrameInv, Either
<1>11. CASE /\ ~retry
            /\ path' = Insert(p, top.from, {top.f})
            /\ contact_T_terms' = terms
            /\ stack' = rest
            /\ UNCHANGED <<pc, root, res, out_model>>
  <2>1. path' = top.before
    BY <1>3, <1>5, <1>11, InsertUndoesErase DEF Taken
  <2>2. contact_T_terms' = TermNodes(path'["T"])
    <3>1. IsFormulaOperation(top.f)  BY <1>2 DEF FrameInv
    <3>2. TermNodes(Taken(top)["T"]) = TermNodes(top.before["T"])
      <4> HIDE DEF top
      <4> QED  BY <1>3, <3>1, TermNodesWithout DEF Taken
    <3> QED  BY <1>5, <1>6, <1>11, <2>1, <3>2
  <2>3. res => Agrees(out_model, path')
    BY <1>2, <1>9, <2>1 DEF FrameInv
  <2>4. ~res => ~SomeAgrees(path')
    <3>1. CASE top.branch # "left"
      BY <1>2, <1>9, <2>1, <3>1 DEF FrameInv
    <3>2. CASE ~res /\ top.branch = "left"
      <4>1. Closed(Y, top.to, p, TermNodes(p["T"]))
        BY <1>6, <1>11, <3>2
      <4>2. \A M \in Models : Agrees(M, p) => ~HasSign(M, Y, top.to)
        BY <1>3, <1>4, <1>5, <1>10, <3>2, <4>1, ClosedIsContradictory
      <4>3. \A M \in Models : Agrees(M, top.before) => HasSign(M, Y, top.to)
        BY <1>2, <1>9, <1>10, <3>2 DEF FrameInv, SomeAgrees
      <4> QED  BY <1>8, <2>1, <4>2, <4>3 DEF SomeAgrees
    <3> QED  BY <3>1, <3>2
  <2>5. SearchInv'
    BY <1>1, <1>2, <1>11, <2>1, <2>2 DEF SearchInv, StackInv, RootPath, FrameInv
  <2>6. ReturnInv'
    BY <1>9, <1>11, <2>3, <2>4 DEF ReturnInv, SomeAgrees
  <2>7. TypeOK'
    <3>1. path'["T"] \subseteq NonConstant  BY <1>3, <2>1 DEF Path, Sign
    <3>2. contact_T_terms' \subseteq NonConstant \X {"left", "right"}
      BY <2>2, <3>1 DEF TermNodes
    <3> QED  BY <1>2, <1>3, <1>11, <2>1, <3>2 DEF IInv, TypeOK
  <2> QED
    BY <1>1, <1>11, <2>5, <2>6, <2>7
    DEF IInv, AnswerIsCorrect, ModelSatisfiesFormula, Answered
<1>12. CASE /\ retry
            /\ path' = Insert(p, top.to, C)
            /\ contact_T_terms' = InsertTerms(terms, top.to, C)
            /\ stack' = Append(rest, TurnedRight(top, C))
            /\ pc' = "step"
            /\ UNCHANGED <<root, res, out_model>>
  <2> DEFINE fr == TurnedRight(top, C)
  <2>1. ~Closed(Y, top.to, p, TermNodes(p["T"])) /\ Y \in Formula
    BY <1>6, <1>10, <1>12
  <2>2. /\ C \in SUBSET NonConstant /\ C \cap p[top.to] = {}
        /\ IsConsistent(path')
        /\ \A M \in Models : Agrees(M, path') <=> Agrees(M, p) /\ HasSign(M, Y, top.to)
    <3> HIDE DEF p, Y
    <3> QED  BY <1>3, <1>4, <1>5, <1>7, <1>12, <2>1, OpenChild
  <2>3. path' \in Path
    <3> HIDE DEF p, C
    <3> QED  BY <1>3, <1>4, <1>5, <1>12, <2>2, InsertErase
  <2>4. /\ fr \in Frame /\ fr.f = top.f /\ fr.from = top.from /\ fr.to = top.to
        /\ fr.before = top.before /\ fr.added = C /\ fr.branch = "right"
    <3> HIDE DEF C, top
    <3> QED  BY <1>2, <2>2 DEF TurnedRight, Frame
  <2>5. Taken(fr) = p
    BY <1>5, <2>4 DEF Taken
  <2>6. \A M \in Models : Agrees(M, path') => Agrees(M, top.before)
    BY <1>3, <1>8, <1>10, <1>12, <2>2, ChildrenSigns
  <2>7. SomeAgrees(top.before) => SomeAgrees(path')
    <3>1. \A M \in Models : Agrees(M, top.before) => HasSign(M, Y, top.to)
      BY <1>2, <1>9, <1>10, <1>12 DEF FrameInv, SomeAgrees
    <3> QED  BY <1>8, <2>2, <3>1 DEF SomeAgrees
  <2>8. FrameInv(fr, path')
    BY <1>2, <1>12, <2>2, <2>4, <2>5, <2>6, <2>7 DEF FrameInv
  <2>9. stack' \in Seq(Frame) /\ StackInv(stack', path')
    <3> HIDE DEF fr, rest
    <3>1. stack' = Append(rest, fr)  BY <1>12 DEF fr
    <3> QED  BY <1>2, <2>3, <2>4, <2>8, <3>1, Push
  <2>10. contact_T_terms' = TermNodes(path'["T"])
    <3>1. InsertTerms(TermNodes(p["T"]), top.to, C)
            = TermNodes(Insert(p, top.to, C)["T"])
      <4> HIDE DEF p, C
      <4> QED  BY <1>3, <1>4, <1>5, <2>2, InsertTermsOfPath
    <3> QED  BY <1>6, <1>12, <3>1
  <2>11. TypeOK'
    <3>1. path'["T"] \subseteq NonConstant  BY <2>3 DEF Path, Sign
    <3>2. contact_T_terms' \subseteq NonConstant \X {"left", "right"}
      BY <2>10, <3>1 DEF TermNodes
    <3> QED  BY <1>12, <2>3, <2>9, <3>2 DEF IInv, TypeOK
  <2>12. SearchInv'
    BY <1>1, <1>12, <2>2, <2>9, <2>10 DEF SearchInv, StackInv, RootPath
  <2> QED
    BY <1>12, <2>11, <2>12
    DEF IInv, ReturnInv, AnswerIsCorrect, ModelSatisfiesFormula, Answered
<1> QED  BY <1>11, <1>12 DEF Return

LEMMA FinishKeepsIInv ==
  ASSUME IInv, Finish
  PROVE  IInv'
<1>1. path = RootPath /\ root \in NonConstant /\ root \in Formula
  <2>1. stack = <<>> /\ Searching  BY DEF Finish, Searching
  <2>2. Len(stack) = 0  BY <2>1
  <2> QED  BY <2>1, <2>2 DEF IInv, SearchInv, StackInv, PathAt, NonConstant
<1>2. \A M \in Models : Agrees(M, path) <=> root \in Theory[M]
  BY <1>1 DEF RootPath, Insert, EmptyPath, Agrees, Sign
<1>3. res <=> IsSatisfiable(root)
  BY <1>2 DEF IInv, ReturnInv, Finish, IsSatisfiable, SomeAgrees
<1>4. res => out_model \in Models /\ root \in Theory[out_model]
  BY <1>2 DEF IInv, ReturnInv, Finish
<1>5. TypeOK'  BY DEF IInv, TypeOK, Finish
<1> QED
  BY <1>3, <1>4, <1>5
  DEF IInv, Finish, SearchInv, Searching, ReturnInv, AnswerIsCorrect,
      ModelSatisfiesFormula, Answered, IsSatisfiable

LEMMA StartKeepsIInv ==
  ASSUME IInv, Start
  PROVE  IInv'
<1>1. root \in Formula /\ root \in Root  BY DEF IInv, TypeOK
<1>2. CASE IsConstant(root)
  <2>1. \A M \in Models : root \in Theory[M] <=> Op[root] = "constant_true"
    BY <1>1, <1>2, SemanticsAssumption DEF IsConstant, Constants
  <2>2. TypeOK'
    BY <1>1, <1>2 DEF IInv, TypeOK, Start, ClearedPath, EmptyPath, Path
  <2>3. res' <=> IsSatisfiable(root)
    BY <1>2, <2>1, NonemptyAssumption DEF Start, IsSatisfiable
  <2> QED
    BY <1>2, <2>2, <2>3
    DEF IInv, Start, SearchInv, Searching, ReturnInv, AnswerIsCorrect,
        ModelSatisfiesFormula, Answered, IsSatisfiable
<1>3. CASE ~IsConstant(root)
  <2>1. root \in NonConstant  BY <1>1, <1>3 DEF NonConstant
  <2>2. path' = RootPath /\ RootPath \in Path /\ RootPath["T"] = {root} /\ RootPath["F"] = {}
    BY <1>3, <2>1 DEF Start, RootPath, ClearedPath, EmptyPath, Insert, Path, Sign
  <2>3. IsConsistent(path')  BY <2>2 DEF IsConsistent
  <2>4. contact_T_terms' = TermNodes(path'["T"])  BY <1>3, <2>2 DEF Start
  <2>5. stack' = <<>> /\ Len(stack') = 0 /\ stack' \in Seq(Frame)  BY DEF Start
  <2>6. StackInv(stack', path')  BY <2>2, <2>5 DEF StackInv, PathAt
  <2>7. TypeOK'
    BY <1>1, <1>3, <2>1, <2>2, <2>4, <2>5 DEF IInv, TypeOK, Start, TermNodes
  <2>8. SearchInv'
    <3>1. (RootPath = Insert(EmptyPath, "T", {root}))'  BY DEF RootPath
    <3>2. RootPath' = RootPath  BY DEF RootPath, Start
    <3> QED  BY <2>1, <2>3, <2>4, <2>6, <3>2 DEF SearchInv, StackInv, Start
  <2> QED
    BY <1>3, <2>7, <2>8
    DEF IInv, Start, ReturnInv, AnswerIsCorrect, ModelSatisfiesFormula, Answered
<1> QED  BY <1>2, <1>3

LEMMA TerminateKeepsIInv ==
  ASSUME IInv, Terminate
  PROVE  IInv'
<1>1. path' \in Path
  <2>1. \A i \in DOMAIN stack : stack[i].f \in NonConstant
    <3>1. stack \in Seq(Frame)  BY DEF IInv, TypeOK
    <3>2. \A i \in DOMAIN stack : stack[i] \in Frame  BY <3>1
    <3> QED  BY <3>2 DEF Frame
  <2>2. path \in Path  BY DEF IInv, TypeOK
  <2> QED  BY <2>1, <2>2 DEF Terminate, Path
<1>2. TypeOK'  BY <1>1 DEF IInv, TypeOK, Terminate
<1> QED
  BY <1>2
  DEF IInv, Terminate, SearchInv, Searching, ReturnInv, AnswerIsCorrect,
      ModelSatisfiesFormula, Answered

-----------------------------------------------------------------------------
(* The invariant holds in every behaviour.                                 *)

LEMMA InitIInv == Init => IInv
<1> SUFFICES ASSUME Init PROVE IInv
  OBVIOUS
<1>1. path \in Path  BY DEF Init, EmptyPath, Path
<1>2. stack \in Seq(Frame)  BY EmptySeq DEF Init
<1>3. TypeOK
  <2>1. contact_T_terms \subseteq NonConstant \X {"left", "right"}
    <3> HIDE DEF NonConstant
    <3> QED  BY DEF Init
  <2> QED  BY <1>1, <1>2, <2>1 DEF Init, TypeOK
<1> QED
  BY <1>3 DEF Init, IInv, SearchInv, Searching, ReturnInv, AnswerIsCorrect,
              ModelSatisfiesFormula, Answered

LEMMA NextKeepsIInv == IInv /\ [Next]_vars => IInv'
<1> SUFFICES ASSUME IInv, [Next]_vars PROVE IInv'
  OBVIOUS
<1>1. CASE UNCHANGED vars
  BY <1>1
  DEF vars, IInv, TypeOK, SearchInv, Searching, StackInv, RootPath, ReturnInv,
      AnswerIsCorrect, ModelSatisfiesFormula, Answered
<1> QED
  BY <1>1, StartKeepsIInv, ExpandKeepsIInv, HasSatisfiableModelKeepsIInv,
     ReturnKeepsIInv, FinishKeepsIInv, TerminateKeepsIInv
  DEF Next

LEMMA Invariance == Spec => []IInv
BY InitIInv, NextKeepsIInv, PTL DEF Spec

(***************************************************************************)
(* Type correctness: no step leaves a constant on the path or a frame on   *)
(* the stack that is not a call of satisfiable_step.                       *)
(***************************************************************************)
THEOREM TypeCorrect == Spec => []TypeOK
<1>1. IInv => TypeOK  BY DEF IInv
<1> QED  BY <1>1, Invariance, PTL

(***************************************************************************)
(* The sets imodel::create is given never contradict themselves, and no    *)
(* set does on the way there (tableau.cpp:49-298).                         *)
(***************************************************************************)
THEOREM Consistency == Spec => []PathIsConsistent
<1>1. IInv => PathIsConsistent  BY DEF IInv, SearchInv, PathIsConsistent
<1> QED  BY <1>1, Invariance, PTL

(***************************************************************************)
(* contact_T_terms_ follows contacts_T_, so remove_term finds its term     *)
(* (tableau.cpp:549).                                                      *)
(***************************************************************************)
THEOREM ContactTerms == Spec => []ContactTermsMatchContacts
<1>1. IInv => ContactTermsMatchContacts
  BY DEF IInv, SearchInv, ContactTermsMatchContacts
<1> QED  BY <1>1, Invariance, PTL

(***************************************************************************)
(* Soundness and completeness: is_satisfiable (tableau.cpp:9-31) returns   *)
(* true exactly when some structure satisfies the formula.                 *)
(***************************************************************************)
THEOREM SoundAndComplete == Spec => []AnswerIsCorrect
<1>1. IInv => AnswerIsCorrect  BY DEF IInv
<1> QED  BY <1>1, Invariance, PTL

(***************************************************************************)
(* A model reported by is_satisfiable satisfies the whole formula, as      *)
(* formula_mgr.cpp:164 asserts.                                            *)
(***************************************************************************)
THEOREM ModelCorrect == Spec => []ModelSatisfiesFormula
<1>1. IInv => ModelSatisfiesFormula  BY DEF IInv
<1> QED  BY <1>1, Invariance, PTL

\* A call that returns pops its frame, whose path is the one on entry.
LEMMA PopRestores ==
  ASSUME IInv, [Next]_vars, pc = "return", Len(stack') < Len(stack)
  PROVE  path' = stack[Len(stack)].before
<1>1. stack \in Seq(Frame) /\ Len(stack) \in Nat
  BY DEF IInv, TypeOK
<1>2. Return
  <2>1. ~(UNCHANGED stack)  BY <1>1
  <2> QED
    BY <2>1 DEF Next, vars, Start, Expand, HasSatisfiableModel, Finish, Terminate
<1>3. stack # <<>> /\ path \in Path /\ StackInv(stack, path)
  BY <1>2 DEF IInv, TypeOK, SearchInv, Searching, Return
<1> DEFINE top == stack[Len(stack)]
           rest == SubSeq(stack, 1, Len(stack) - 1)
           p == Erase(path, top.to, top.added)
<1>4. /\ top \in Frame /\ FrameInv(top, path)
      /\ rest \in Seq(Frame) /\ Len(rest) = Len(stack) - 1
  BY <1>1, <1>3, Pop
<1>5. path' = Insert(p, top.from, {top.f})
  <2>1. ASSUME NEW fr, stack' = Append(rest, fr)
        PROVE  FALSE
    <3>1. Len(stack') = Len(stack)
      <4> HIDE DEF rest
      <4> QED  BY <1>1, <1>4, <2>1
    <3> QED  BY <1>1, <3>1
  <2> QED  BY <1>2, <2>1 DEF Return
<1>6. /\ top.f \in NonConstant /\ top.f \in top.before[top.from]
      /\ top.from \in Sign /\ top.to \in Sign /\ top.added \in SUBSET NonConstant
      /\ top.before \in Path
  BY <1>4 DEF Frame, FrameInv
<1>7. Taken(top) \in Path
  BY <1>6, InsertErase DEF Taken
<1>8. p = Taken(top)
  BY <1>4, <1>6, <1>7, EraseUndoesInsert DEF FrameInv
<1> QED  BY <1>5, <1>6, <1>8, InsertUndoesErase DEF Taken

(***************************************************************************)
(* Every call of satisfiable_step that returns has put the path back, on   *)
(* whichever of its ways out (tableau.cpp:49-298).                         *)
(***************************************************************************)
THEOREM Restoration == Spec => CallsRestoreThePath
<1>1. IInv /\ [Next]_vars =>
        [pc = "return" /\ Len(stack') < Len(stack)
           => path' = stack[Len(stack)].before]_vars
  BY PopRestores
<1> QED  BY <1>1, Invariance, PTL DEF Spec, CallsRestoreThePath
=============================================================================
