---------------------------- MODULE FastModelProofs ----------------------------
(***************************************************************************)
(* The fast model finds a structure for every request that has one, and    *)
(* for no other, for every set of variables and in whatever order it takes *)
(* the atoms.                                                              *)
(*                                                                         *)
(* The argument: at every moment the points are distinct, pass the tests   *)
(* and are in permitted contacts only; the matrix has room for those that  *)
(* are still to come; the atoms taken so far hold in the model; and no     *)
(* evaluation enumerated so far was what is searched for.                  *)
(***************************************************************************)
EXTENDS FastModel, PointsProofs

USE VariableAssumption

-----------------------------------------------------------------------------
(* Points and matrices, whatever the state.                                *)

\* A matrix of n rows for points; only points are in contact with each other.
GoodMatrix(r, points, matrix, n) ==
  /\ n \in Nat
  /\ matrix \in [1..n -> SUBSET (1..n)]
  /\ Len(points) <= n
  /\ \A i \in 1..n : i \in matrix[i]
  /\ \A i, j \in 1..n : j \in matrix[i] => i \in matrix[j]
  /\ \A i, j \in 1..n : j \in matrix[i] /\ i # j =>
       /\ i <= Len(points) /\ j <= Len(points)
       /\ IsContactsFConnectivityRuleSatisfied(r, points[i], points[j])

HasPoint(z, points) == \E i \in 1..Len(points) : points[i] \in z
HasContact(c, points, matrix) ==
  \E i, j \in 1..Len(points) : j \in matrix[i] /\ points[i] \in c[1] /\ points[j] \in c[2]

\* The points of one model are those of another, and maybe more.
Extends(new, points) ==
  /\ Len(points) <= Len(new)
  /\ \A i \in 1..Len(points) : new[i] = points[i]

LEMMA WithPointIsGood ==
  ASSUME NEW r \in Request, NEW points, GoodPoints(r, points),
         NEW e \in SUBSET r.used_variables, IsValidPoint(r, e)
  PROVE  LET new == WithPoint(points, e)
         IN /\ GoodPoints(r, new)
            /\ Extends(new, points)
            /\ Len(new) <= Len(points) + 1
            /\ new # <<>>
            /\ HasPoint({e}, new)
<1>1. CASE \E i \in DOMAIN points : points[i] = e
  BY <1>1 DEF WithPoint, GoodPoints, Extends, HasPoint
<1>2. CASE ~ \E i \in DOMAIN points : points[i] = e
  <2> DEFINE new == Append(points, e)
  <2>1. /\ WithPoint(points, e) = new
        /\ new \in Seq(SUBSET r.used_variables)
        /\ Len(new) = Len(points) + 1
        /\ \A i \in 1..Len(points) : new[i] = points[i]
        /\ new[Len(points) + 1] = e
    BY <1>2 DEF WithPoint, GoodPoints
  <2> HIDE DEF new
  <2>2. \A i \in 1..Len(points) : new[i] # e
    BY <1>2, <2>1 DEF GoodPoints
  <2>3. \A i \in 1..Len(new) : i \in 1..Len(points) \/ i = Len(points) + 1
    BY <2>1 DEF GoodPoints
  <2>4. \A i, j \in 1..Len(new) : new[i] = new[j] => i = j
    BY <2>1, <2>2, <2>3 DEF GoodPoints
  <2>5. \A i \in 1..Len(new) : IsValidPoint(r, new[i])
    BY <2>1, <2>3 DEF GoodPoints
  <2>6. Len(points) + 1 \in 1..Len(new)
    BY <2>1 DEF GoodPoints
  <2> QED  BY <2>1, <2>4, <2>5, <2>6 DEF GoodPoints, Extends, HasPoint
<1> QED  BY <1>1, <1>2

LEMMA PointIndexIsOfPoint ==
  ASSUME NEW points, NEW e, HasPoint({e}, points),
         DOMAIN points = 1..Len(points)
  PROVE  PointIndex(points, e) \in 1..Len(points) /\ points[PointIndex(points, e)] = e
BY DEF PointIndex, HasPoint

LEMMA MatrixOfMorePoints ==
  ASSUME NEW r, NEW points, NEW matrix, NEW n, GoodMatrix(r, points, matrix, n),
         NEW new, Extends(new, points), Len(new) \in Nat, Len(points) \in Nat, Len(new) <= n
  PROVE  GoodMatrix(r, new, matrix, n)
BY DEF GoodMatrix, Extends

LEMMA ConnectivityIsSymmetric ==
  ASSUME NEW r, NEW e, NEW f, IsContactsFConnectivityRuleSatisfied(r, e, f)
  PROVE  IsContactsFConnectivityRuleSatisfied(r, f, e)
BY DEF IsContactsFConnectivityRuleSatisfied

LEMMA MatrixWithContact ==
  ASSUME NEW r, NEW points, NEW matrix, NEW n, GoodMatrix(r, points, matrix, n),
         Len(points) \in Nat, NEW i \in 1..Len(points), NEW j \in 1..Len(points),
         IsContactsFConnectivityRuleSatisfied(r, points[i], points[j])
  PROVE  LET new == WithContact(matrix, i, j)
         IN /\ GoodMatrix(r, points, new, n)
            /\ j \in new[i]
            /\ \A k \in 1..n : matrix[k] \subseteq new[k]
<1> DEFINE new == WithContact(matrix, i, j)
<1>1. i \in 1..n /\ j \in 1..n
  BY DEF GoodMatrix
<1>2. /\ new \in [1..n -> SUBSET (1..n)]
      /\ \A k \in 1..n : new[k] = matrix[k] \cup (IF k = i THEN {j} ELSE {})
                                            \cup (IF k = j THEN {i} ELSE {})
  BY <1>1 DEF GoodMatrix, WithContact
<1> HIDE DEF new
<1>3. IsContactsFConnectivityRuleSatisfied(r, points[j], points[i])
  BY ConnectivityIsSymmetric
<1>4. \A k \in 1..n : k \in new[k]
  BY <1>2 DEF GoodMatrix
<1>5. \A k, l \in 1..n : l \in new[k] => k \in new[l]
  BY <1>2 DEF GoodMatrix
<1>6. \A k, l \in 1..n : l \in new[k] /\ k # l =>
        /\ k <= Len(points) /\ l <= Len(points)
        /\ IsContactsFConnectivityRuleSatisfied(r, points[k], points[l])
  BY <1>2, <1>3 DEF GoodMatrix
<1>7. j \in new[i] /\ \A k \in 1..n : matrix[k] \subseteq new[k]
  BY <1>1, <1>2
<1> QED  BY <1>2, <1>4, <1>5, <1>6, <1>7 DEF GoodMatrix, new

LEMMA ReducedMatrix ==
  ASSUME NEW r, NEW points, NEW matrix, NEW n, GoodMatrix(r, points, matrix, n),
         Len(points) \in Nat
  PROVE  /\ GoodMatrix(r, points, Reduced(matrix, Len(points)), Len(points))
         /\ \A c : HasContact(c, points, matrix) =>
                     HasContact(c, points, Reduced(matrix, Len(points)))
<1> DEFINE new == Reduced(matrix, Len(points))
<1>1. 1..Len(points) \subseteq 1..n
  BY DEF GoodMatrix
<1>2. /\ new \in [1..Len(points) -> SUBSET (1..Len(points))]
      /\ \A i \in 1..Len(points) : new[i] = matrix[i] \cap 1..Len(points)
  BY DEF Reduced
<1> HIDE DEF new
<1>3. GoodMatrix(r, points, new, Len(points))
  BY <1>1, <1>2 DEF GoodMatrix
<1>4. \A c : HasContact(c, points, matrix) => HasContact(c, points, new)
  BY <1>2 DEF HasContact
<1> QED  BY <1>3, <1>4 DEF new

\* What holds in a model holds in one with more points and contacts.
LEMMA HasMore ==
  ASSUME NEW points, NEW new, Extends(new, points), Len(new) \in Nat, Len(points) \in Nat,
         NEW matrix, NEW matrix2,
         \A k \in 1..Len(points) : matrix[k] \subseteq matrix2[k]
  PROVE  /\ \A z : HasPoint(z, points) => HasPoint(z, new)
         /\ \A c : HasContact(c, points, matrix) => HasContact(c, new, matrix2)
<1>1. 1..Len(points) \subseteq 1..Len(new)
  BY DEF Extends
<1>2. \A z : HasPoint(z, points) => HasPoint(z, new)
  BY <1>1 DEF Extends, HasPoint
<1>3. \A c : HasContact(c, points, matrix) => HasContact(c, new, matrix2)
  BY <1>1 DEF Extends, HasContact
<1> QED  BY <1>2, <1>3

-----------------------------------------------------------------------------
(* The size of the matrix.                                                 *)

LEMMA AtomsAreFinite ==
  ASSUME NEW r \in Request
  PROVE  IsFiniteSet(r.contacts_T) /\ IsFiniteSet(r.zero_terms_F)
<1>1. IsFiniteSet(Evaluation)
  BY FS_SUBSET DEF Evaluation
<1>2. IsFiniteSet(Term)
  BY <1>1, FS_SUBSET DEF Term
<1>3. IsFiniteSet(Contact)
  BY <1>2, FS_Product DEF Contact
<1>4. r.contacts_T \in SUBSET Contact /\ r.zero_terms_F \in SUBSET Term
  BY RequestAssumption
<1> QED  BY <1>2, <1>3, <1>4, FS_Subset

LEMMA OneLess ==
  ASSUME NEW S, IsFiniteSet(S), NEW x \in S
  PROVE  /\ Cardinality(S) \in Nat /\ Cardinality(S \ {x}) \in Nat
         /\ Cardinality(S) = Cardinality(S \ {x}) + 1
<1>1. IsFiniteSet(S \ {x}) /\ Cardinality(S \ {x}) = Cardinality(S) - 1
  BY FS_RemoveElement
<1> QED  BY <1>1, FS_CardinalityType

LEMMA MatrixSizeIsEnough ==
  ASSUME NEW r \in Request
  PROVE  /\ MatrixSize(r) \in Nat \ {0}
         /\ 2 * Cardinality(r.contacts_T) + Cardinality(r.zero_terms_F) <= MatrixSize(r)
<1>1. Cardinality(r.contacts_T) \in Nat /\ Cardinality(r.zero_terms_F) \in Nat
  BY AtomsAreFinite, FS_CardinalityType
<1> QED  BY <1>1 DEF MatrixSize

-----------------------------------------------------------------------------
(* The invariant.                                                          *)

IsRunning == pc \in {"atoms", "left", "right", "left done", "point"}
HasContactAtom == pc \in {"left", "right", "left done"}

Typed ==
  /\ pc \in {"idle", "atoms", "left", "right", "left done", "point", "done", "terminated"}
  /\ request \in Request
  /\ contacts_T \subseteq request.contacts_T
  /\ zero_terms_F \subseteq request.zero_terms_F
  /\ atom \in {<<>>, <<Evaluation>>} \cup request.contacts_T
               \cup {<<z>> : z \in request.zero_terms_F}
  /\ left_eval \in SUBSET used
  /\ right_eval \in SUBSET used
  /\ created \in BOOLEAN
  /\ HasContactAtom => atom \in request.contacts_T \ contacts_T
  /\ pc = "point" =>
       /\ contacts_T = {}
       /\ \/ atom = <<Evaluation>> /\ zero_terms_F = {}
          \/ \E z \in request.zero_terms_F \ zero_terms_F : atom = <<z>>
  /\ created => pc = "done"

\* The points and contacts so far are permitted.
Permitted ==
  /\ GoodPoints(request, points_)
  /\ \E n \in Nat : GoodMatrix(request, points_, contact_relations_, n)
  /\ IsRunning => GoodMatrix(request, points_, contact_relations_, MatrixSize(request))
  /\ created => GoodMatrix(request, points_, contact_relations_, Len(points_))

\* Points that are still to be added for the atom in hand.
Pending == IF HasContactAtom THEN 2 ELSE IF pc = "point" THEN 1 ELSE 0

\* The matrix has room for all that may come.
HasRoom ==
  IsRunning =>
    Len(points_) + 2 * Cardinality(contacts_T) + Cardinality(zero_terms_F) + Pending
      <= MatrixSize(request)

\* The atoms taken, but for the one in hand, hold in the model.
TakenHold ==
  /\ IsRunning \/ created =>
       /\ \A c \in request.contacts_T \ contacts_T :
            (HasContactAtom /\ c = atom) \/ HasContact(c, points_, contact_relations_)
       /\ \A z \in request.zero_terms_F \ zero_terms_F :
            (pc = "point" /\ atom = <<z>>) \/ HasPoint(z, points_)
  /\ created => contacts_T = {} /\ zero_terms_F = {} /\ points_ # <<>>

\* f is a left point of the contact in hand.
HasRight(f) ==
  /\ Fits(atom[1], f)
  /\ \E g \in SUBSET used : Fits(atom[2], g) /\ IsContactsFConnectivityRuleSatisfied(request, f, g)

\* No evaluation before the current ones is what is searched for.
NoneBefore ==
  /\ HasContactAtom => \A f \in SUBSET used : Less(f, left_eval, used) => ~HasRight(f)
  /\ pc = "right" =>
       /\ Fits(atom[1], left_eval)
       /\ \A g \in SUBSET used : Less(g, right_eval, used) => ~RightFits(g)
  /\ pc = "left done" => ~HasRight(left_eval)
  /\ pc = "point" => \A f \in SUBSET used : Less(f, left_eval, used) => ~Fits(atom[1], f)

IInv == Typed /\ Permitted /\ HasRoom /\ TakenHold /\ NoneBefore

LEMMA NoPointsAreGood ==
  ASSUME NEW r \in Request, NEW n \in Nat
  PROVE  /\ GoodPoints(r, <<>>)
         /\ GoodMatrix(r, <<>>, [i \in 1..n |-> {i}], n)
BY DEF GoodPoints, GoodMatrix

LEMMA InvariantInit == Init => IInv
<1> SUFFICES ASSUME Init PROVE IInv  OBVIOUS
<1>1. request \in Request
  BY RequestAssumption DEF Init
<1>2. Typed
  BY <1>1 DEF Init, Typed, HasContactAtom, used
<1>3. Permitted
  <2>1. GoodPoints(request, <<>>) /\ GoodMatrix(request, <<>>, [i \in 1..0 |-> {i}], 0)
    BY <1>1, NoPointsAreGood
  <2>2. GoodMatrix(request, <<>>, <<>>, 0)
    BY <2>1 DEF GoodMatrix
  <2> QED  BY <2>1, <2>2 DEF Init, Permitted, IsRunning
<1>4. HasRoom /\ TakenHold /\ NoneBefore
  BY DEF Init, HasRoom, TakenHold, NoneBefore, IsRunning, HasContactAtom
<1> QED  BY <1>2, <1>3, <1>4 DEF IInv

-----------------------------------------------------------------------------
(* Every step keeps the invariant.                                         *)

LEMMA PermittedKept ==
  ASSUME Permitted, UNCHANGED <<request, modelVars>>, IsRunning' => IsRunning, created' => created
  PROVE  Permitted'
BY DEF Permitted, modelVars

LEMMA StartKeeps == Start => IInv'
<1> SUFFICES ASSUME Start PROVE IInv'  OBVIOUS
<1>1. request' \in Request /\ pc' = "atoms" /\ points_' = <<>> /\ created' = FALSE
  BY DEF Start, Cleared
<1>2. Typed'
  BY <1>1 DEF Start, Typed, HasContactAtom, used
<1>3. MatrixSize(request') \in Nat
  BY <1>1, MatrixSizeIsEnough
<1>4. Permitted'
  <2>1. contact_relations_' = [i \in 1..MatrixSize(request') |-> {i}]
    BY DEF Start
  <2>2. GoodPoints(request', <<>>) /\ GoodMatrix(request', <<>>, contact_relations_', MatrixSize(request'))
    BY <1>1, <1>3, <2>1, NoPointsAreGood
  <2> QED  BY <1>1, <1>3, <2>2 DEF Permitted, IsRunning
<1>5. HasRoom'
  <2>1. Pending' = 0 /\ Len(points_') = 0
    BY <1>1 DEF Pending, HasContactAtom
  <2>2. Cardinality(contacts_T') \in Nat /\ Cardinality(zero_terms_F') \in Nat
    BY <1>1, AtomsAreFinite, FS_CardinalityType DEF Start
  <2> QED  BY <1>1, <2>1, <2>2, MatrixSizeIsEnough DEF Start, HasRoom
<1>6. TakenHold'
  BY <1>1 DEF Start, TakenHold
<1>7. NoneBefore'
  BY <1>1 DEF NoneBefore, HasContactAtom
<1> QED  BY <1>2, <1>4, <1>5, <1>6, <1>7 DEF IInv

LEMMA GiveUpKeeps == IInv /\ GiveUp => IInv'
<1> SUFFICES ASSUME IInv, GiveUp PROVE IInv'  OBVIOUS
<1>0. pc' = "done" /\ created' = FALSE /\ UNCHANGED <<request, atomVars, atom, evalVars, modelVars>>
  BY DEF GiveUp
<1>1. ~IsRunning' /\ ~HasContactAtom'
  BY <1>0 DEF IsRunning, HasContactAtom
<1>2. Typed'
  BY <1>0, <1>1 DEF IInv, Typed, atomVars, evalVars, used
<1>3. Permitted'
  BY <1>0, <1>1, PermittedKept DEF IInv
<1>4. HasRoom' /\ TakenHold' /\ NoneBefore'
  BY <1>0, <1>1 DEF HasRoom, TakenHold, NoneBefore
<1> QED  BY <1>2, <1>3, <1>4 DEF IInv

LEMMA LengthIsNatural ==
  ASSUME IInv
  PROVE  Len(points_) \in Nat /\ DOMAIN points_ = 1..Len(points_)
BY DEF IInv, Permitted, GoodPoints

LEMMA NumbersOfAtoms ==
  ASSUME IInv
  PROVE  /\ IsFiniteSet(contacts_T) /\ Cardinality(contacts_T) \in Nat
         /\ IsFiniteSet(zero_terms_F) /\ Cardinality(zero_terms_F) \in Nat
         /\ MatrixSize(request) \in Nat \ {0}
<1>1. IsFiniteSet(contacts_T) /\ IsFiniteSet(zero_terms_F)
  BY AtomsAreFinite, FS_Subset DEF IInv, Typed
<1>2. Cardinality(contacts_T) \in Nat /\ Cardinality(zero_terms_F) \in Nat
  BY <1>1, FS_CardinalityType
<1>3. MatrixSize(request) \in Nat \ {0}
  BY MatrixSizeIsEnough DEF IInv, Typed
<1> QED  BY <1>1, <1>2, <1>3

LEMMA TakeContactKeeps == IInv /\ TakeContact => IInv'
<1> SUFFICES ASSUME IInv, TakeContact PROVE IInv'  OBVIOUS
<1>0. /\ pc = "atoms" /\ pc' = "left" /\ left_eval' = {}
      /\ UNCHANGED <<request, zero_terms_F, right_eval, modelVars, created>>
  BY DEF TakeContact
<1>1. PICK c \in contacts_T : contacts_T' = contacts_T \ {c} /\ atom' = c
  BY DEF TakeContact
<1>2. Typed'
  BY <1>0, <1>1 DEF IInv, Typed, HasContactAtom, used
<1>3. Permitted'
  BY <1>0, PermittedKept DEF IInv, IsRunning
<1>4. HasRoom'
  <2>1. IsFiniteSet(contacts_T) /\ IsFiniteSet(zero_terms_F)
    BY NumbersOfAtoms
  <2>2. /\ Cardinality(contacts_T) \in Nat /\ Cardinality(contacts_T') \in Nat
        /\ Cardinality(contacts_T) = Cardinality(contacts_T') + 1
    BY <2>1, <1>1, OneLess
  <2>3. Cardinality(zero_terms_F) \in Nat /\ MatrixSize(request) \in Nat /\ Len(points_) \in Nat
    BY NumbersOfAtoms, LengthIsNatural
  <2>4. Pending = 0 /\ Pending' = 2
    BY <1>0 DEF Pending, HasContactAtom
  <2>5. Len(points_) + 2 * Cardinality(contacts_T) + Cardinality(zero_terms_F) <= MatrixSize(request)
    BY <1>0, <2>2, <2>3, <2>4 DEF IInv, HasRoom, IsRunning
  <2> QED  BY <1>0, <2>2, <2>3, <2>4, <2>5 DEF HasRoom, modelVars
<1>5. TakenHold'
  BY <1>0, <1>1 DEF IInv, Typed, TakenHold, HasContactAtom, IsRunning, modelVars
<1>6. NoneBefore'
  BY <1>0, NothingIsLess DEF NoneBefore, HasContactAtom
<1> QED  BY <1>2, <1>3, <1>4, <1>5, <1>6 DEF IInv

\* The atom in hand and the model stay.
LEMMA SameAtomKeeps ==
  ASSUME IInv, IsRunning, IsRunning', HasContactAtom' <=> HasContactAtom,
         pc' = "point" <=> pc = "point",
         UNCHANGED <<request, atomVars, atom, modelVars, created>>,
         pc' \in {"idle", "atoms", "left", "right", "left done", "point", "done", "terminated"},
         left_eval' \in SUBSET used, right_eval' \in SUBSET used
  PROVE  Typed' /\ Permitted' /\ HasRoom' /\ TakenHold'
<1>1. ~created
  BY DEF IInv, Typed, IsRunning
<1>2. Typed'
  BY <1>1 DEF IInv, Typed, used, atomVars
<1>3. Permitted'
  BY PermittedKept DEF IInv
<1>4. HasRoom'
  <2>1. Pending' = Pending
    BY DEF Pending
  <2> QED  BY <2>1 DEF IInv, HasRoom, atomVars, modelVars
<1>5. TakenHold'
  BY DEF IInv, TakenHold, atomVars, modelVars
<1> QED  BY <1>2, <1>3, <1>4, <1>5

LEMMA NextLeftKeeps ==
  IInv /\ HasContactAtom /\ ~HasRight(left_eval) /\ NextLeft => IInv'
<1> SUFFICES ASSUME IInv, HasContactAtom, ~HasRight(left_eval), NextLeft PROVE IInv'  OBVIOUS
<1>1. CASE IsLast(left_eval, used) /\ GiveUp
  BY <1>1, GiveUpKeeps
<1>2. CASE /\ left_eval' = NextEvaluation(left_eval, used) /\ pc' = "left"
           /\ UNCHANGED <<request, atomVars, atom, right_eval, modelVars, created>>
  <2>1. left_eval' \in SUBSET used /\ used \subseteq Nat
    BY <1>2, NextIsEvaluation, UsedIsFinite DEF IInv, Typed, used
  <2>2. Typed' /\ Permitted' /\ HasRoom' /\ TakenHold'
    BY <1>2, <2>1, SameAtomKeeps DEF IInv, Typed, HasContactAtom, IsRunning
  <2>3. \A f \in SUBSET used : Less(f, left_eval', used) => ~HasRight(f)
    <3> SUFFICES ASSUME NEW f \in SUBSET used, Less(f, left_eval', used) PROVE ~HasRight(f)
      OBVIOUS
    <3>1. f = left_eval \/ Less(f, left_eval, used)
      BY <1>2, <2>1, NextIsNext DEF IInv, Typed
    <3> QED  BY <3>1 DEF IInv, NoneBefore
  <2>4. NoneBefore'
    BY <1>2, <2>3 DEF NoneBefore, HasRight, HasContactAtom, Fits, used
  <2> QED  BY <2>2, <2>4 DEF IInv
<1> QED  BY <1>1, <1>2 DEF NextLeft

LEMMA TestLeftKeeps == IInv /\ TestLeft => IInv'
<1> SUFFICES ASSUME IInv, TestLeft PROVE IInv'  OBVIOUS
<1>0. pc = "left" /\ HasContactAtom
  BY DEF TestLeft, HasContactAtom
<1>1. CASE /\ Fits(atom[1], left_eval) /\ right_eval' = {} /\ pc' = "right"
           /\ UNCHANGED <<request, atomVars, atom, left_eval, modelVars, created>>
  <2>1. Typed' /\ Permitted' /\ HasRoom' /\ TakenHold'
    BY <1>0, <1>1, SameAtomKeeps DEF IInv, Typed, HasContactAtom, IsRunning
  <2>2. NoneBefore'
    BY <1>0, <1>1, NothingIsLess DEF IInv, NoneBefore, HasRight, HasContactAtom, Fits, used
  <2> QED  BY <2>1, <2>2 DEF IInv
<1>2. CASE ~Fits(atom[1], left_eval) /\ NextLeft
  BY <1>0, <1>2, NextLeftKeeps DEF HasRight
<1> QED  BY <1>1, <1>2 DEF TestLeft

LEMMA LeaveLeftKeeps == IInv /\ LeaveLeft => IInv'
<1> SUFFICES ASSUME IInv, LeaveLeft PROVE IInv'  OBVIOUS
<1>1. HasContactAtom /\ ~HasRight(left_eval)
  BY DEF LeaveLeft, HasContactAtom, IInv, NoneBefore
<1> QED  BY <1>1, NextLeftKeeps DEF LeaveLeft

\* The last right point does not fit either.
LEMMA NoRightLeft ==
  ASSUME IInv, pc = "right", ~RightFits(right_eval), IsLast(right_eval, used)
  PROVE  ~HasRight(left_eval)
<1>1. used \subseteq Nat
  BY UsedIsFinite DEF IInv, Typed, used
<1>2. \A g \in SUBSET used : g = right_eval \/ Less(g, right_eval, used)
  BY <1>1, LastIsLast DEF IInv, Typed
<1>3. \A g \in SUBSET used : ~RightFits(g)
  BY <1>2 DEF IInv, NoneBefore
<1> QED  BY <1>3 DEF HasRight, RightFits

LEMMA NextRightKeeps == IInv /\ pc = "right" /\ ~RightFits(right_eval) /\ NextRight => IInv'
<1> SUFFICES ASSUME IInv, pc = "right", ~RightFits(right_eval), NextRight PROVE IInv'  OBVIOUS
<1>1. CASE /\ right_eval' = NextEvaluation(right_eval, used)
           /\ UNCHANGED <<pc, request, atomVars, atom, left_eval, modelVars, created>>
  <2>1. right_eval' \in SUBSET used /\ used \subseteq Nat
    BY <1>1, NextIsEvaluation, UsedIsFinite DEF IInv, Typed, used
  <2>2. Typed' /\ Permitted' /\ HasRoom' /\ TakenHold'
    BY <1>1, <2>1, SameAtomKeeps DEF IInv, Typed, HasContactAtom, IsRunning
  <2>3. \A g \in SUBSET used : Less(g, right_eval', used) => ~RightFits(g)
    <3> SUFFICES ASSUME NEW g \in SUBSET used, Less(g, right_eval', used) PROVE ~RightFits(g)
      OBVIOUS
    <3>1. g = right_eval \/ Less(g, right_eval, used)
      BY <1>1, <2>1, NextIsNext DEF IInv, Typed
    <3> QED  BY <3>1 DEF IInv, NoneBefore
  <2>4. NoneBefore'
    BY <1>1, <2>3 DEF IInv, NoneBefore, HasRight, RightFits, HasContactAtom, Fits, used
  <2> QED  BY <2>2, <2>4 DEF IInv
<1>2. CASE /\ IsLast(right_eval, used) /\ pc' = "left done"
           /\ UNCHANGED <<request, atomVars, atom, evalVars, modelVars, created>>
  <2>1. Typed' /\ Permitted' /\ HasRoom' /\ TakenHold'
    BY <1>2, SameAtomKeeps DEF IInv, Typed, HasContactAtom, IsRunning, evalVars
  <2>2. ~HasRight(left_eval)
    BY <1>2, NoRightLeft
  <2>3. NoneBefore'
    BY <1>2, <2>2 DEF IInv, NoneBefore, HasRight, HasContactAtom, Fits, used, evalVars
  <2> QED  BY <2>1, <2>3 DEF IInv
<1>3. CASE GiveUp
  BY <1>3, GiveUpKeeps
<1> QED  BY <1>1, <1>2, <1>3 DEF NextRight

\* Both points of the contact are added, and their contact.
LEMMA AddContactKeeps == IInv /\ pc = "right" /\ RightFits(right_eval) /\ AddContact => IInv'
<1> SUFFICES ASSUME IInv, pc = "right", RightFits(right_eval), AddContact PROVE IInv'  OBVIOUS
<1> DEFINE first == WithPoint(points_, left_eval)
           points == WithPoint(first, right_eval)
           i == PointIndex(points, left_eval)
           j == PointIndex(points, right_eval)
           matrix == WithContact(contact_relations_, i, j)
           size == MatrixSize(request)
<1>0. /\ points_' = points /\ contact_relations_' = matrix /\ pc' = "atoms"
      /\ UNCHANGED <<request, atomVars, atom, evalVars, created>>
  BY DEF AddContact
<1>1. /\ request \in Request /\ left_eval \in SUBSET request.used_variables
      /\ right_eval \in SUBSET request.used_variables
      /\ GoodPoints(request, points_)
      /\ GoodMatrix(request, points_, contact_relations_, size)
  BY DEF IInv, Typed, Permitted, IsRunning, used
<1>2. /\ IsValidPoint(request, left_eval) /\ IsValidPoint(request, right_eval)
      /\ left_eval \in atom[1] /\ right_eval \in atom[2]
      /\ IsContactsFConnectivityRuleSatisfied(request, left_eval, right_eval)
  BY DEF IInv, NoneBefore, Fits, RightFits
<1>3. /\ GoodPoints(request, first) /\ Extends(first, points_)
      /\ Len(first) <= Len(points_) + 1 /\ HasPoint({left_eval}, first)
  BY <1>1, <1>2, WithPointIsGood
<1>4. /\ GoodPoints(request, points) /\ Extends(points, first)
      /\ Len(points) <= Len(first) + 1 /\ HasPoint({right_eval}, points)
  BY <1>1, <1>2, <1>3, WithPointIsGood
<1> HIDE DEF first, points
<1>5. /\ Len(points_) \in Nat /\ Len(first) \in Nat /\ Len(points) \in Nat
      /\ DOMAIN points = 1..Len(points)
  BY <1>1, <1>3, <1>4 DEF GoodPoints
<1>6. Extends(points, points_) /\ HasPoint({left_eval}, points)
  <2>1. Extends(points, points_)
    BY <1>3, <1>4, <1>5 DEF Extends
  <2>2. HasPoint({left_eval}, points)
    BY <1>3, <1>4, <1>5 DEF Extends, HasPoint
  <2> QED  BY <2>1, <2>2
<1>7. /\ Len(points_) + 2 + 2 * Cardinality(contacts_T) + Cardinality(zero_terms_F) <= size
      /\ Len(points) + 2 * Cardinality(contacts_T) + Cardinality(zero_terms_F) <= size
      /\ Len(points) <= size
  <2>1. Pending = 2 /\ IsRunning
    BY DEF Pending, HasContactAtom, IsRunning
  <2>2. Cardinality(contacts_T) \in Nat /\ Cardinality(zero_terms_F) \in Nat /\ size \in Nat
    BY NumbersOfAtoms
  <2>3. Len(points_) + 2 + 2 * Cardinality(contacts_T) + Cardinality(zero_terms_F) <= size
    BY <1>5, <2>1, <2>2 DEF IInv, HasRoom
  <2> QED  BY <1>3, <1>4, <1>5, <2>2, <2>3
<1>8. /\ i \in 1..Len(points) /\ points[i] = left_eval
      /\ j \in 1..Len(points) /\ points[j] = right_eval
  BY <1>4, <1>5, <1>6, PointIndexIsOfPoint
<1> HIDE DEF i, j, size
<1>9. GoodMatrix(request, points, contact_relations_, size)
  BY <1>1, <1>5, <1>6, <1>7, MatrixOfMorePoints
<1>10. /\ GoodMatrix(request, points, matrix, size)
       /\ j \in matrix[i]
       /\ \A k \in 1..size : contact_relations_[k] \subseteq matrix[k]
  BY <1>2, <1>5, <1>8, <1>9, MatrixWithContact
<1> HIDE DEF matrix
<1>11. HasContact(atom, points, matrix)
  BY <1>2, <1>8, <1>10 DEF HasContact
<1>12. /\ \A z : HasPoint(z, points_) => HasPoint(z, points)
       /\ \A c : HasContact(c, points_, contact_relations_) => HasContact(c, points, matrix)
  <2>1. \A k \in 1..Len(points_) : contact_relations_[k] \subseteq matrix[k]
    BY <1>1, <1>5, <1>10 DEF GoodMatrix
  <2> QED  BY <2>1, <1>5, <1>6, HasMore
<1>13. ~created
  BY DEF IInv, Typed
<1>14. Typed'
  BY <1>0, <1>13 DEF IInv, Typed, HasContactAtom, used, atomVars, evalVars
<1>15. Permitted'
  BY <1>0, <1>4, <1>10, <1>13, NumbersOfAtoms DEF Permitted, size
<1>16. HasRoom'
  <2>1. Pending' = 0
    BY <1>0 DEF Pending, HasContactAtom
  <2> QED  BY <1>0, <1>5, <1>7, <2>1, NumbersOfAtoms DEF HasRoom, atomVars, size
<1>17. TakenHold'
  <2>1. IsRunning /\ pc # "point"
    BY DEF IsRunning
  <2> QED  BY <1>0, <1>11, <1>12, <1>13, <2>1 DEF IInv, TakenHold, atomVars
<1>18. NoneBefore'
  BY <1>0 DEF NoneBefore, HasContactAtom
<1> QED  BY <1>14, <1>15, <1>16, <1>17, <1>18 DEF IInv

LEMMA TestRightKeeps == IInv /\ TestRight => IInv'
BY AddContactKeeps, NextRightKeeps DEF TestRight

LEMMA TakeZeroTermKeeps == IInv /\ TakeZeroTerm => IInv'
<1> SUFFICES ASSUME IInv, TakeZeroTerm PROVE IInv'  OBVIOUS
<1>0. /\ pc = "atoms" /\ pc' = "point" /\ left_eval' = {} /\ contacts_T = {}
      /\ UNCHANGED <<request, contacts_T, right_eval, modelVars, created>>
  BY DEF TakeZeroTerm
<1>1. PICK z \in zero_terms_F : zero_terms_F' = zero_terms_F \ {z} /\ atom' = <<z>>
  BY DEF TakeZeroTerm
<1>2. Typed'
  BY <1>0, <1>1 DEF IInv, Typed, HasContactAtom, used
<1>3. Permitted'
  BY <1>0, PermittedKept DEF IInv, IsRunning
<1>4. HasRoom'
  <2>1. /\ Cardinality(zero_terms_F) \in Nat /\ Cardinality(zero_terms_F') \in Nat
        /\ Cardinality(zero_terms_F) = Cardinality(zero_terms_F') + 1
    BY <1>1, OneLess, NumbersOfAtoms
  <2>2. Cardinality(contacts_T) \in Nat /\ MatrixSize(request) \in Nat /\ Len(points_) \in Nat
    BY NumbersOfAtoms, LengthIsNatural
  <2>3. Pending = 0 /\ Pending' = 1
    BY <1>0 DEF Pending, HasContactAtom
  <2>4. Len(points_) + 2 * Cardinality(contacts_T) + Cardinality(zero_terms_F) <= MatrixSize(request)
    BY <1>0, <2>1, <2>2, <2>3 DEF IInv, HasRoom, IsRunning
  <2> QED  BY <1>0, <2>1, <2>2, <2>3, <2>4 DEF HasRoom, modelVars
<1>5. TakenHold'
  BY <1>0, <1>1 DEF IInv, Typed, TakenHold, HasContactAtom, IsRunning, modelVars
<1>6. NoneBefore'
  BY <1>0, NothingIsLess DEF NoneBefore, HasContactAtom
<1> QED  BY <1>2, <1>3, <1>4, <1>5, <1>6 DEF IInv

LEMMA TakeNoTermKeeps == IInv /\ TakeNoTerm => IInv'
<1> SUFFICES ASSUME IInv, TakeNoTerm PROVE IInv'  OBVIOUS
<1>0. /\ pc = "atoms" /\ pc' = "point" /\ left_eval' = {} /\ atom' = <<Evaluation>>
      /\ contacts_T = {} /\ zero_terms_F = {} /\ points_ = <<>>
      /\ UNCHANGED <<request, atomVars, right_eval, modelVars, created>>
  BY DEF TakeNoTerm
<1>1. Typed'
  BY <1>0 DEF IInv, Typed, HasContactAtom, used, atomVars
<1>2. Permitted'
  BY <1>0, PermittedKept DEF IInv, IsRunning
<1>3. HasRoom'
  <2>1. Pending' = 1
    BY <1>0 DEF Pending, HasContactAtom
  <2>2. Cardinality({}) = 0 /\ Len(<<>>) = 0
    BY FS_EmptySet
  <2> QED  BY <1>0, <2>1, <2>2, NumbersOfAtoms DEF HasRoom, modelVars, atomVars
<1>4. TakenHold'
  BY <1>0 DEF IInv, TakenHold, HasContactAtom, IsRunning, modelVars, atomVars
<1>5. NoneBefore'
  BY <1>0, NothingIsLess DEF NoneBefore, HasContactAtom
<1> QED  BY <1>1, <1>2, <1>3, <1>4, <1>5 DEF IInv

\* The point of the term in hand is added.
LEMMA AddPointKeeps ==
  ASSUME IInv, pc = "point", Fits(atom[1], left_eval),
         points_' = WithPoint(points_, left_eval), pc' = "atoms",
         UNCHANGED <<request, atomVars, atom, evalVars, contact_relations_, created>>
  PROVE  IInv'
<1> DEFINE points == WithPoint(points_, left_eval)
           size == MatrixSize(request)
<1>1. /\ request \in Request /\ left_eval \in SUBSET request.used_variables
      /\ GoodPoints(request, points_)
      /\ GoodMatrix(request, points_, contact_relations_, size)
      /\ IsValidPoint(request, left_eval) /\ left_eval \in atom[1]
  BY DEF IInv, Typed, Permitted, IsRunning, used, Fits
<1>2. /\ GoodPoints(request, points) /\ Extends(points, points_)
      /\ Len(points) <= Len(points_) + 1 /\ HasPoint({left_eval}, points)
  BY <1>1, WithPointIsGood
<1>0. points_' = points
  OBVIOUS
<1> HIDE DEF points
<1>3. Len(points_) \in Nat /\ Len(points) \in Nat
  BY <1>1, <1>2 DEF GoodPoints
<1>4. /\ Len(points) + 2 * Cardinality(contacts_T) + Cardinality(zero_terms_F) <= size
      /\ Len(points) <= size
  <2>1. Pending = 1 /\ IsRunning
    BY DEF Pending, HasContactAtom, IsRunning
  <2>2. Cardinality(contacts_T) \in Nat /\ Cardinality(zero_terms_F) \in Nat /\ size \in Nat
    BY NumbersOfAtoms
  <2>3. Len(points_) + 1 + 2 * Cardinality(contacts_T) + Cardinality(zero_terms_F) <= size
    BY <1>3, <2>1, <2>2 DEF IInv, HasRoom
  <2> QED  BY <1>2, <1>3, <2>2, <2>3
<1> HIDE DEF size
<1>5. GoodMatrix(request, points, contact_relations_, size)
  BY <1>1, <1>2, <1>3, <1>4, MatrixOfMorePoints
<1>6. /\ \A z : HasPoint(z, points_) => HasPoint(z, points)
      /\ \A c : HasContact(c, points_, contact_relations_) => HasContact(c, points, contact_relations_)
  BY <1>2, <1>3, HasMore
<1>7. HasPoint(atom[1], points)
  BY <1>1, <1>2 DEF HasPoint
<1>8. ~created
  BY DEF IInv, Typed
<1>9. Typed'
  BY <1>8 DEF IInv, Typed, HasContactAtom, used, atomVars, evalVars
<1>10. Permitted'
  BY <1>0, <1>2, <1>5, <1>8, NumbersOfAtoms DEF Permitted, size
<1>11. HasRoom'
  <2>1. Pending' = 0
    BY DEF Pending, HasContactAtom
  <2> QED  BY <1>0, <1>3, <1>4, <2>1, NumbersOfAtoms DEF HasRoom, atomVars, size
<1>12. TakenHold'
  <2>1. IsRunning /\ ~HasContactAtom
    BY DEF IsRunning, HasContactAtom
  <2>2. \A z : atom = <<z>> => HasPoint(z, points)
    BY <1>7
  <2> QED  BY <1>0, <1>6, <1>8, <2>1, <2>2 DEF IInv, TakenHold, atomVars
<1>13. NoneBefore'
  BY DEF NoneBefore, HasContactAtom
<1> QED  BY <1>9, <1>10, <1>11, <1>12, <1>13 DEF IInv

LEMMA TestPointKeeps == IInv /\ TestPoint => IInv'
<1> SUFFICES ASSUME IInv, TestPoint PROVE IInv'  OBVIOUS
<1>0. pc = "point"
  BY DEF TestPoint
<1>1. CASE /\ Fits(atom[1], left_eval) /\ points_' = WithPoint(points_, left_eval) /\ pc' = "atoms"
           /\ UNCHANGED <<request, atomVars, atom, evalVars, contact_relations_, created>>
  BY <1>0, <1>1, AddPointKeeps
<1>2. CASE /\ ~Fits(atom[1], left_eval)
           /\ left_eval' = NextEvaluation(left_eval, used)
           /\ UNCHANGED <<pc, request, atomVars, atom, right_eval, modelVars, created>>
  <2>1. left_eval' \in SUBSET used /\ used \subseteq Nat
    BY <1>2, NextIsEvaluation, UsedIsFinite DEF IInv, Typed, used
  <2>2. Typed' /\ Permitted' /\ HasRoom' /\ TakenHold'
    BY <1>0, <1>2, <2>1, SameAtomKeeps DEF IInv, Typed, HasContactAtom, IsRunning
  <2>3. \A f \in SUBSET used : Less(f, left_eval', used) => ~Fits(atom[1], f)
    <3> SUFFICES ASSUME NEW f \in SUBSET used, Less(f, left_eval', used) PROVE ~Fits(atom[1], f)
      OBVIOUS
    <3>1. f = left_eval \/ Less(f, left_eval, used)
      BY <1>2, <2>1, NextIsNext DEF IInv, Typed
    <3> QED  BY <1>0, <1>2, <3>1 DEF IInv, NoneBefore
  <2>4. NoneBefore'
    BY <1>0, <1>2, <2>3 DEF NoneBefore, HasContactAtom, Fits, used
  <2> QED  BY <2>2, <2>4 DEF IInv
<1>3. CASE GiveUp
  BY <1>3, GiveUpKeeps
<1> QED  BY <1>1, <1>2, <1>3 DEF TestPoint

LEMMA CompleteKeeps == IInv /\ Complete => IInv'
<1> SUFFICES ASSUME IInv, Complete PROVE IInv'  OBVIOUS
<1>0. /\ pc = "atoms" /\ pc' = "done" /\ created' = TRUE
      /\ contacts_T = {} /\ zero_terms_F = {} /\ points_ # <<>>
      /\ contact_relations_' = Reduced(contact_relations_, Len(points_))
      /\ UNCHANGED <<request, atomVars, atom, evalVars, points_>>
  BY DEF Complete
<1>1. /\ GoodPoints(request, points_)
      /\ GoodMatrix(request, points_, contact_relations_, MatrixSize(request))
      /\ Len(points_) \in Nat
  BY <1>0, LengthIsNatural DEF IInv, Permitted, IsRunning
<1>2. /\ GoodMatrix(request, points_, contact_relations_', Len(points_))
      /\ \A c : HasContact(c, points_, contact_relations_) =>
                   HasContact(c, points_, contact_relations_')
  BY <1>0, <1>1, ReducedMatrix
<1>3. Typed'
  BY <1>0 DEF IInv, Typed, HasContactAtom, used, atomVars, evalVars
<1>4. Permitted'
  BY <1>0, <1>1, <1>2 DEF Permitted, IsRunning
<1>5. HasRoom'
  BY <1>0 DEF HasRoom, IsRunning
<1>6. TakenHold'
  BY <1>0, <1>2 DEF IInv, TakenHold, IsRunning, HasContactAtom, atomVars
<1>7. NoneBefore'
  BY <1>0 DEF NoneBefore, HasContactAtom
<1> QED  BY <1>3, <1>4, <1>5, <1>6, <1>7 DEF IInv

LEMMA TerminateKeeps == IInv /\ Terminate => IInv'
<1> SUFFICES ASSUME IInv, Terminate PROVE IInv'  OBVIOUS
<1>0. /\ pc' = "terminated" /\ ~created
      /\ UNCHANGED <<request, atomVars, atom, evalVars, modelVars, created>>
  BY DEF Terminate, IInv, Typed
<1>1. ~IsRunning' /\ ~HasContactAtom'
  BY <1>0 DEF IsRunning, HasContactAtom
<1>2. Typed'
  BY <1>0, <1>1 DEF IInv, Typed, used, atomVars, evalVars
<1>3. Permitted'
  BY <1>0, <1>1, PermittedKept DEF IInv
<1>4. HasRoom' /\ TakenHold' /\ NoneBefore'
  BY <1>0, <1>1 DEF HasRoom, TakenHold, NoneBefore
<1> QED  BY <1>2, <1>3, <1>4 DEF IInv

LEMMA StutteringKeeps == IInv /\ UNCHANGED vars => IInv'
<1> SUFFICES ASSUME IInv, UNCHANGED vars PROVE IInv'  OBVIOUS
<1>0. UNCHANGED <<pc, request, atomVars, atom, evalVars, modelVars, created>>
  BY DEF vars
<1>1. IsRunning' = IsRunning /\ HasContactAtom' = HasContactAtom /\ Pending' = Pending
  BY <1>0 DEF IsRunning, HasContactAtom, Pending
<1>2. Typed'
  BY <1>0, <1>1 DEF IInv, Typed, used, atomVars, evalVars
<1>3. Permitted'
  BY <1>0, <1>1, PermittedKept DEF IInv
<1>4. HasRoom' /\ TakenHold'
  BY <1>0, <1>1 DEF IInv, HasRoom, TakenHold, atomVars, modelVars
<1>5. NoneBefore'
  BY <1>0, <1>1 DEF IInv, NoneBefore, HasRight, RightFits, Fits, used, evalVars
<1> QED  BY <1>2, <1>3, <1>4, <1>5 DEF IInv

LEMMA Invariant == Spec => []IInv
<1>1. IInv /\ [Next]_vars => IInv'
  BY StartKeeps, TakeContactKeeps, TestLeftKeeps, TestRightKeeps, LeaveLeftKeeps,
     TakeZeroTermKeeps, TakeNoTermKeeps, TestPointKeeps, CompleteKeeps, TerminateKeeps,
     StutteringKeeps DEF Next, Search
<1> QED  BY InvariantInit, <1>1, PTL DEF Spec

-----------------------------------------------------------------------------
(* The properties.                                                         *)

\* Connectivity also of a point with itself.
LEMMA MatrixIsPermitted ==
  ASSUME NEW r \in Request, NEW points, NEW matrix, NEW n,
         GoodPoints(r, points), GoodMatrix(r, points, matrix, n)
  PROVE  /\ points \in Seq(SUBSET Variable)
         /\ Len(points) \in Nat /\ 1..Len(points) \subseteq 1..n
         /\ \A i \in 1..Len(points) : IsValidPoint(r, points[i])
         /\ \A i, j \in 1..Len(points) : j \in matrix[i] =>
              IsContactsFConnectivityRuleSatisfied(r, points[i], points[j])
<1>1. points \in Seq(SUBSET r.used_variables) /\ r.used_variables \subseteq Variable
  BY UsedIsFinite DEF GoodPoints
<1>2. points \in Seq(SUBSET Variable) /\ Len(points) \in Nat
  BY <1>1
<1>3. 1..Len(points) \subseteq 1..n
  BY <1>2 DEF GoodMatrix
<1>4. \A e : IsValidPoint(r, e) => IsContactsFConnectivityRuleSatisfied(r, e, e)
  BY DEF IsValidPoint, IsContactsFReflexiveRuleSatisfied, IsContactsFConnectivityRuleSatisfied
<1>5. \A i, j \in 1..Len(points) : j \in matrix[i] =>
        IsContactsFConnectivityRuleSatisfied(r, points[i], points[j])
  BY <1>3, <1>4 DEF GoodPoints, GoodMatrix
<1> QED  BY <1>2, <1>3, <1>5 DEF GoodPoints

(***************************************************************************)
(* The variables of create have their types; its points are distinct and   *)
(* fit into the matrix, whose size is fixed before the search.             *)
(***************************************************************************)
THEOREM TypeCorrect == Spec => []TypeOK
<1>1. IInv => TypeOK
  <2> SUFFICES ASSUME IInv PROVE TypeOK  OBVIOUS
  <2>1. request \in Request
    BY DEF IInv, Typed
  <2>2. PICK n \in Nat : GoodMatrix(request, points_, contact_relations_, n)
    BY DEF IInv, Permitted
  <2>3. /\ DOMAIN points_ = 1..Len(points_)
        /\ \A i \in 1..Len(points_) : points_[i] \in SUBSET used
        /\ \A i, j \in 1..Len(points_) : points_[i] = points_[j] => i = j
    BY DEF IInv, Permitted, GoodPoints, used
  <2>4. /\ DOMAIN contact_relations_ = 1..n
        /\ \A i \in 1..n : contact_relations_[i] \subseteq 1..n
    BY <2>2 DEF GoodMatrix
  <2>5. 1..Len(points_) \subseteq 1..n
    BY <2>1, <2>2, MatrixIsPermitted DEF IInv, Permitted
  <2>6. {left_eval, right_eval} \subseteq Evaluations
    BY <2>1 DEF IInv, Typed, used, Evaluations
  <2>7. created => DOMAIN contact_relations_ = DOMAIN points_
    BY <2>3 DEF IInv, Permitted, GoodMatrix
  <2> QED  BY <2>3, <2>4, <2>5, <2>6, <2>7 DEF IInv, Typed, TypeOK
<1> QED  BY <1>1, Invariant, PTL

(***************************************************************************)
(* At every moment of every call the points and contacts built so far      *)
(* break no negative atom of the path.                                     *)
(***************************************************************************)
THEOREM NegativeAtoms == Spec => []NegativeAtomsAreKept
<1>1. IInv => NegativeAtomsAreKept
  <2> SUFFICES ASSUME IInv PROVE NegativeAtomsAreKept  OBVIOUS
  <2>1. request \in Request
    BY DEF IInv, Typed
  <2>2. PICK n \in Nat : GoodMatrix(request, points_, contact_relations_, n)
    BY DEF IInv, Permitted
  <2>3. /\ points_ \in Seq(SUBSET Variable)
        /\ \A i \in 1..Len(points_) : IsValidPoint(request, points_[i])
        /\ \A i, j \in 1..Len(points_) : j \in contact_relations_[i] =>
             IsContactsFConnectivityRuleSatisfied(request, points_[i], points_[j])
    BY <2>1, <2>2, MatrixIsPermitted DEF IInv, Permitted
  <2> QED  BY <2>1, <2>3, NegativeAtomsAreLocal DEF NegativeAtomsAreKept
<1> QED  BY <1>1, Invariant, PTL

-----------------------------------------------------------------------------
(* The fast model implements ModelCreation.                                *)

\* What create returns with true is a solution.
LEMMA ModelIsSolution ==
  ASSUME NEW r \in Request, NEW points, NEW matrix, points # <<>>,
         GoodPoints(r, points), GoodMatrix(r, points, matrix, Len(points)),
         \A z \in r.zero_terms_F : HasPoint(z, points),
         \A c \in r.contacts_T : HasContact(c, points, matrix)
  PROVE  StructureOf(VariableEvaluations(points), matrix, Len(points)) \in Solutions(r)
<1> DEFINE s == [points |-> PointsOfModel(points), contacts |-> ContactsOfModel(points, matrix)]
<1>1. /\ points \in Seq(SUBSET Variable)
      /\ \A i \in 1..Len(points) : IsValidPoint(r, points[i])
      /\ \A i, j \in 1..Len(points) : j \in matrix[i] =>
           IsContactsFConnectivityRuleSatisfied(r, points[i], points[j])
  BY MatrixIsPermitted
<1>2. StructureOf(VariableEvaluations(points), matrix, Len(points)) = s
  BY <1>1, StructureIsPointwise
<1>3. s \in Structures(r.used_variables)
  <2>1. /\ points \in Seq(SUBSET r.used_variables)
        /\ \A i, j \in 1..Len(points) : points[i] = points[j] => i = j
        /\ \A i \in 1..Len(points) : i \in matrix[i]
        /\ \A i, j \in 1..Len(points) : j \in matrix[i] => i \in matrix[j]
    BY DEF GoodPoints, GoodMatrix
  <2> QED  BY <2>1, ModelIsStructure
<1>4. Satisfies(s, r)
  <2>1. /\ \A z \in r.zero_terms_F : \E i \in 1..Len(points) : points[i] \in z
        /\ \A c \in r.contacts_T : \E i, j \in 1..Len(points) :
             j \in matrix[i] /\ points[i] \in c[1] /\ points[j] \in c[2]
    BY DEF HasPoint, HasContact
  <2> QED  BY <1>1, <2>1, ModelSatisfies
<1> HIDE DEF s
<1> QED  BY <1>2, <1>3, <1>4 DEF Solutions

\* There is no solution if the search for the contact in hand has failed,
LEMMA NoLeftNoSolution ==
  ASSUME IInv, HasContactAtom, ~HasRight(left_eval), IsLast(left_eval, used)
  PROVE  Solutions(request) = {}
<1> SUFFICES ASSUME NEW s \in Solutions(request) PROVE FALSE  OBVIOUS
<1>1. request \in Request /\ atom \in request.contacts_T /\ used \subseteq Nat
  BY UsedIsFinite DEF IInv, Typed, used
<1>2. PICK f \in SUBSET used, g \in SUBSET used :
        /\ f \in atom[1] /\ IsValidPoint(request, f)
        /\ g \in atom[2] /\ IsValidPoint(request, g)
        /\ IsContactsFConnectivityRuleSatisfied(request, f, g)
  BY <1>1, SolutionsHavePoints DEF used
<1>3. HasRight(f)
  BY <1>2 DEF HasRight, Fits
<1>4. f = left_eval \/ Less(f, left_eval, used)
  BY <1>1, LastIsLast DEF IInv, Typed
<1> QED  BY <1>3, <1>4 DEF IInv, NoneBefore

\* nor if no evaluation fits its right term,
LEMMA NoRightNoSolution ==
  ASSUME IInv, HasContactAtom, \A e \in SUBSET used : ~Fits(atom[2], e)
  PROVE  Solutions(request) = {}
<1> SUFFICES ASSUME NEW s \in Solutions(request) PROVE FALSE  OBVIOUS
<1>1. request \in Request /\ atom \in request.contacts_T
  BY DEF IInv, Typed
<1>2. PICK g \in SUBSET used : g \in atom[2] /\ IsValidPoint(request, g)
  BY <1>1, SolutionsHavePoints DEF used
<1> QED  BY <1>2 DEF Fits

\* nor if the search for a single point has failed.
LEMMA NoPointNoSolution ==
  ASSUME IInv, pc = "point", ~Fits(atom[1], left_eval), IsLast(left_eval, used)
  PROVE  Solutions(request) = {}
<1> SUFFICES ASSUME NEW s \in Solutions(request) PROVE FALSE  OBVIOUS
<1>1. request \in Request /\ used \subseteq Nat /\ used \subseteq Variable
  BY UsedIsFinite DEF IInv, Typed, used
<1>2. PICK e \in SUBSET used : e \in atom[1] /\ IsValidPoint(request, e)
  <2>1. CASE atom = <<Evaluation>>
    <3>1. PICK e \in SUBSET used : IsValidPoint(request, e)
      BY <1>1, SolutionsHavePoints DEF used
    <3> QED  BY <1>1, <2>1, <3>1 DEF Evaluation
  <2>2. CASE \E z \in request.zero_terms_F : atom = <<z>>
    BY <1>1, <2>2, SolutionsHavePoints DEF used
  <2> QED  BY <2>1, <2>2 DEF IInv, Typed
<1>3. e = left_eval \/ Less(e, left_eval, used)
  BY <1>1, LastIsLast DEF IInv, Typed
<1> QED  BY <1>2, <1>3 DEF IInv, NoneBefore, Fits

\* create returns false only if there is no solution.
LEMMA GiveUpIsRight ==
  ASSUME IInv, TestLeft \/ TestRight \/ LeaveLeft \/ TestPoint, pc' = "done"
  PROVE  GiveUp /\ pc # "done" /\ Solutions(request) = {}
<1>1. CASE TestLeft
  <2>1. pc = "left" /\ HasContactAtom
    BY <1>1 DEF TestLeft, HasContactAtom
  <2>2. ~Fits(atom[1], left_eval) /\ IsLast(left_eval, used) /\ GiveUp
    BY <1>1 DEF TestLeft, NextLeft
  <2> QED  BY <2>1, <2>2, NoLeftNoSolution DEF HasRight
<1>2. CASE LeaveLeft
  <2>1. pc = "left done" /\ HasContactAtom /\ ~HasRight(left_eval)
    BY <1>2 DEF LeaveLeft, HasContactAtom, IInv, NoneBefore
  <2>2. IsLast(left_eval, used) /\ GiveUp
    BY <1>2 DEF LeaveLeft, NextLeft
  <2> QED  BY <2>1, <2>2, NoLeftNoSolution
<1>3. CASE TestRight
  <2>1. pc = "right" /\ HasContactAtom
    BY <1>3 DEF TestRight, HasContactAtom
  <2>2. GiveUp /\ \A e \in SUBSET used : ~Fits(atom[2], e)
    BY <1>3, <2>1 DEF TestRight, AddContact, NextRight
  <2> QED  BY <2>1, <2>2, NoRightNoSolution
<1>4. CASE TestPoint
  <2>1. pc = "point" /\ ~Fits(atom[1], left_eval) /\ IsLast(left_eval, used) /\ GiveUp
    BY <1>4 DEF TestPoint
  <2> QED  BY <2>1, NoPointNoSolution
<1> QED  BY <1>1, <1>2, <1>3, <1>4

answers == IF pc = "done" THEN {IF created THEN Structure ELSE None} ELSE {}

LEMMA StepIsAbstract ==
  ASSUME IInv, IInv', [Next]_vars
  PROVE  [Creation!Next]_<<request, answers>>
<1> USE DEF Creation!Next, Creation!Call, Creation!Answer
<1>1. CASE Start
  <2>1. request' \in Request /\ answers' = {}
    BY <1>1 DEF Start, answers
  <2> QED  BY <2>1 DEF answers
<1>2. CASE Complete
  <2>1. /\ pc = "atoms" /\ pc' = "done" /\ created' /\ request' = request
        /\ points_' = points_
    BY <1>2 DEF Complete
  <2>2. request \in Request
    BY DEF IInv, Typed
  <2>3. /\ points_' # <<>> /\ GoodPoints(request, points_')
        /\ GoodMatrix(request, points_', contact_relations_', Len(points_'))
    BY <2>1 DEF IInv, Permitted, TakenHold
  <2>4. /\ \A z \in request.zero_terms_F : HasPoint(z, points_')
        /\ \A c \in request.contacts_T : HasContact(c, points_', contact_relations_')
    BY <2>1 DEF IInv, TakenHold, HasContactAtom
  <2>5. Structure' \in Solutions(request)
    BY <2>2, <2>3, <2>4, ModelIsSolution DEF Structure
  <2>6. answers = {} /\ answers' = {Structure'}
    BY <2>1 DEF answers
  <2> QED  BY <2>1, <2>2, <2>5, <2>6 DEF answers
<1>3. CASE TestLeft \/ TestRight \/ LeaveLeft \/ TestPoint
  <2>1. CASE pc' = "done"
    <3>1. GiveUp /\ pc # "done" /\ Solutions(request) = {} /\ request \in Request
      BY <1>3, <2>1, GiveUpIsRight DEF IInv, Typed
    <3>2. answers = {} /\ answers' = {None} /\ request' = request
      BY <3>1 DEF GiveUp, answers
    <3> QED  BY <3>1, <3>2 DEF answers
  <2>2. CASE pc' # "done"
    <3>1. pc # "done" /\ request' = request
      BY <1>3, <2>2 DEF TestLeft, TestRight, LeaveLeft, TestPoint, NextLeft, NextRight,
                        AddContact, GiveUp
    <3> QED  BY <2>2, <3>1 DEF answers
  <2> QED  BY <2>1, <2>2
<1>4. CASE TakeContact \/ TakeZeroTerm \/ TakeNoTerm \/ Terminate
  <2>1. pc # "done" /\ pc' # "done" /\ request' = request
    BY <1>4 DEF TakeContact, TakeZeroTerm, TakeNoTerm, Terminate
  <2> QED  BY <2>1 DEF answers
<1>5. CASE UNCHANGED vars
  BY <1>5 DEF vars, modelVars, answers, Structure
<1> QED  BY <1>1, <1>2, <1>3, <1>4, <1>5 DEF Next, Search

(***************************************************************************)
(* create answers what it promises, for every request: true and a          *)
(* structure in which the atoms of the path hold if there is one, and      *)
(* false only if there is none.                                            *)
(***************************************************************************)
THEOREM Implements == Spec => ImplementsCreation
<1>1. Init => Creation!Init
  <2> SUFFICES ASSUME Init PROVE Creation!Init  OBVIOUS
  <2>1. request \in Request /\ pc # "done"
    BY RequestAssumption DEF Init
  <2> QED  BY <2>1 DEF Creation!Init
<1>2. IInv /\ IInv' /\ [Next]_vars => [Creation!Next]_Creation!vars
  BY StepIsAbstract DEF Creation!vars, answers
<1> QED  BY <1>1, <1>2, Invariant, PTL DEF Spec, ImplementsCreation, Creation!Spec
=============================================================================
