------------------------- MODULE ConnectedModelProofs -------------------------
(***************************************************************************)
(* The connected model keeps what it promises for every set of variables,  *)
(* any requests and any limit: a model it returns is a connected structure *)
(* that breaks no negative atom, and it misses no connected solution.      *)
(*                                                                         *)
(* The argument: the points are all valid evaluations, in all contacts     *)
(* that the negative atoms allow; the traversal cuts them into sets that   *)
(* no contact leaves and that hang together, growing each by points in     *)
(* contact with it; a connected solution lies within one of these sets,    *)
(* where the test for a model then succeeds; and the part of the model     *)
(* over such a set is a model again when its points are numbered through.  *)
(***************************************************************************)
EXTENDS ConnectedModel, PointsProofs

USE VariableAssumption

-----------------------------------------------------------------------------
(* The points of a component numbered through.                             *)

LEMMA NewIdIsMonotonic ==
  ASSUME NEW n \in Nat, NEW S, S \subseteq 1..n, NEW i \in S
  PROVE  /\ NewId(S, i) \in 1..Cardinality(S)
         /\ \A j \in S : j > i => NewId(S, i) < NewId(S, j)
<1> DEFINE UpTo(j) == {k \in S : k <= j}
<1>1. \A j \in S : /\ UpTo(j) \subseteq S /\ IsFiniteSet(UpTo(j)) /\ Cardinality(UpTo(j)) \in Nat
                   /\ Cardinality(UpTo(j)) <= Cardinality(S)
                   /\ UpTo(j) # {} /\ Cardinality(UpTo(j)) # 0
  <2> SUFFICES ASSUME NEW j \in S
               PROVE  /\ UpTo(j) \subseteq S /\ IsFiniteSet(UpTo(j)) /\ Cardinality(UpTo(j)) \in Nat
                      /\ Cardinality(UpTo(j)) <= Cardinality(S)
                      /\ UpTo(j) # {} /\ Cardinality(UpTo(j)) # 0
    OBVIOUS
  <2>1. UpTo(j) \subseteq S /\ UpTo(j) \subseteq 1..n
    OBVIOUS
  <2>2. j \in UpTo(j)
    OBVIOUS
  <2> HIDE DEF UpTo
  <2>3. IsFiniteSet(S) /\ IsFiniteSet(UpTo(j)) /\ Cardinality(UpTo(j)) \in Nat
    BY <2>1, FinitePart
  <2>4. Cardinality(UpTo(j)) <= Cardinality(S)
    BY <2>1, <2>3, FS_Subset
  <2>5. Cardinality(UpTo(j)) # 0
    BY <2>2, <2>3, FS_EmptySet
  <2> QED  BY <2>1, <2>2, <2>3, <2>4, <2>5
<1>2. Cardinality(S) \in Nat
  BY FinitePart
<1>3. ASSUME NEW j \in S, j > i PROVE Cardinality(UpTo(i)) < Cardinality(UpTo(j))
  <2>1. UpTo(i) \subseteq UpTo(j)
    <3>1. \A k \in S : k <= i => k <= j
      BY <1>3
    <3> QED  BY <3>1
  <2>2. j \in UpTo(j) /\ j \notin UpTo(i)
    BY <1>3
  <2> HIDE DEF UpTo
  <2>3. Cardinality(UpTo(i)) <= Cardinality(UpTo(j)) /\ Cardinality(UpTo(i)) # Cardinality(UpTo(j))
    BY <1>1, <2>1, <2>2, FS_Subset
  <2> QED  BY <1>1, <2>3
<1>4. \A j \in S : NewId(S, j) = Cardinality(UpTo(j))
  BY DEF NewId
<1> HIDE DEF UpTo
<1> QED  BY <1>1, <1>2, <1>3, <1>4

LEMMA Numbering ==
  ASSUME NEW n \in Nat, NEW S, S \subseteq 1..n
  PROVE  /\ Cardinality(S) \in Nat
         /\ S # {} => Cardinality(S) # 0
         /\ \A i \in S : NewId(S, i) \in 1..Cardinality(S)
         /\ \A i, j \in S : NewId(S, i) = NewId(S, j) => i = j
         /\ \A k \in 1..Cardinality(S) : OldId(S, k) \in S /\ NewId(S, OldId(S, k)) = k
<1>1. IsFiniteSet(S) /\ Cardinality(S) \in Nat
  BY FinitePart
<1>2. S # {} => Cardinality(S) # 0
  BY <1>1, FS_EmptySet
<1>3. \A i \in S : NewId(S, i) \in 1..Cardinality(S)
  BY NewIdIsMonotonic
<1>4. \A i, j \in S : NewId(S, i) = NewId(S, j) => i = j
  <2> SUFFICES ASSUME NEW i \in S, NEW j \in S, NewId(S, i) = NewId(S, j) PROVE i = j
    OBVIOUS
  <2>1. ~(NewId(S, i) < NewId(S, j)) /\ ~(NewId(S, j) < NewId(S, i))
    BY <1>3
  <2>2. ~(j > i) /\ ~(i > j)
    BY <2>1, NewIdIsMonotonic
  <2> QED  BY <2>2
<1>5. \A k \in 1..Cardinality(S) : \E i \in S : NewId(S, i) = k
  <2> DEFINE T == 1..Cardinality(S)
             f == [i \in S |-> NewId(S, i)]
  <2>1. IsFiniteSet(T) /\ Cardinality(T) = Cardinality(S)
    BY <1>1, FS_Interval
  <2>2. f \in [S -> T] /\ \A i, j \in S : f[i] = f[j] => i = j
    BY <1>3, <1>4
  <2>3. f \in Injection(S, T)
    BY <2>2 DEF Injection, IsInjective
  <2>4. f \in Surjection(S, T)
    <3> HIDE DEF f, T
    <3> QED  BY <2>1, <2>3, FS_Injection
  <2>5. \A k \in T : \E i \in S : f[i] = k
    BY <2>4 DEF Surjection
  <2> QED  BY <2>5
<1>6. \A k \in 1..Cardinality(S) : OldId(S, k) \in S /\ NewId(S, OldId(S, k)) = k
  BY <1>5 DEF OldId
<1> QED  BY <1>1, <1>2, <1>3, <1>4, <1>6

-----------------------------------------------------------------------------
(* A model and the part of it over the points of S.                        *)

PartOf(points, S) == [k \in 1..Cardinality(S) |-> points[OldId(S, k)]]
ContactsOfPart(contacts, S) ==
  [k \in 1..Cardinality(S) |-> {NewId(S, j) : j \in contacts[OldId(S, k)] \cap S}]

IsPart(new, new_contacts, points, contacts, S) ==
  new = PartOf(points, S) /\ new_contacts = ContactsOfPart(contacts, S)

\* The points of new are those of S, in contact at least where they were.
AreKept(new, new_contacts, points, contacts, S) ==
  /\ \A i \in S : points[i] \in PointsOfModel(new)
  /\ \A e \in PointsOfModel(new) : \E i \in S : points[i] = e
  /\ \A i, j \in S : j \in contacts[i]
       => <<points[i], points[j]>> \in ContactsOfModel(new, new_contacts)

LEMMA PartIsModel ==
  ASSUME NEW r \in Request, NEW points, NEW contacts, GoodPoints(r, points),
         AllContacts(r, points, contacts), NEW S, S \subseteq 1..Len(points), S # {},
         NEW new, NEW new_contacts, IsPart(new, new_contacts, points, contacts, S)
  PROVE  /\ GoodPoints(r, new) /\ new # <<>>
         /\ Len(new) = Cardinality(S)
         /\ AllContacts(r, new, new_contacts)
         /\ AreKept(new, new_contacts, points, contacts, S)
<1> DEFINE n == Cardinality(S)
           old(k) == OldId(S, k)
<1>1. /\ Len(points) \in Nat
      /\ \A i \in 1..Len(points) : points[i] \in SUBSET r.used_variables /\ IsValidPoint(r, points[i])
      /\ \A i, j \in 1..Len(points) : points[i] = points[j] => i = j
  BY DEF GoodPoints
<1>2. /\ n \in Nat /\ n # 0
      /\ \A i \in S : NewId(S, i) \in 1..n
      /\ \A i, j \in S : NewId(S, i) = NewId(S, j) => i = j
      /\ \A k \in 1..n : old(k) \in S /\ NewId(S, old(k)) = k
  BY <1>1, Numbering
<1>3. \A i \in S : old(NewId(S, i)) = i
  BY <1>2
<1>4. new = [k \in 1..n |-> points[old(k)]]
  BY DEF IsPart, PartOf
<1>5. new_contacts = [k \in 1..n |-> {NewId(S, j) : j \in contacts[old(k)] \cap S}]
  BY DEF IsPart, ContactsOfPart
<1> HIDE DEF n, old
<1>6. \A k \in 1..n : old(k) \in 1..Len(points)
  BY <1>2
<1>7. \A k \in 1..n : new[k] = points[old(k)] /\ new[k] \in SUBSET r.used_variables
  BY <1>1, <1>4, <1>6
<1>8. new \in Seq(SUBSET r.used_variables) /\ Len(new) = n /\ new # <<>>
  <2>1. new \in [1..n -> SUBSET r.used_variables]
    BY <1>4, <1>7
  <2>2. n \in Nat /\ n # 0
    BY <1>2
  <2>3. new \in Seq(SUBSET r.used_variables) /\ Len(new) = n
    BY <2>1, <2>2
  <2> QED  BY <2>2, <2>3
<1>9. GoodPoints(r, new)
  <2>1. \A k, l \in 1..n : new[k] = new[l] => k = l
    <3> SUFFICES ASSUME NEW k \in 1..n, NEW l \in 1..n, new[k] = new[l] PROVE k = l
      OBVIOUS
    <3>1. old(k) = old(l)
      BY <1>1, <1>6, <1>7
    <3> QED  BY <1>2, <3>1
  <2>2. \A k \in 1..n : IsValidPoint(r, new[k])
    BY <1>1, <1>6, <1>7
  <2> QED  BY <1>8, <2>1, <2>2 DEF GoodPoints
<1>10. \A k, l \in 1..n : l \in new_contacts[k] <=> old(l) \in contacts[old(k)]
  <2> SUFFICES ASSUME NEW k \in 1..n, NEW l \in 1..n
               PROVE  l \in new_contacts[k] <=> old(l) \in contacts[old(k)]
    OBVIOUS
  <2>1. new_contacts[k] = {NewId(S, j) : j \in contacts[old(k)] \cap S}
    BY <1>5
  <2>2. old(l) \in S /\ NewId(S, old(l)) = l
    BY <1>2
  <2>3. ASSUME l \in new_contacts[k] PROVE old(l) \in contacts[old(k)]
    <3>1. PICK j \in contacts[old(k)] \cap S : NewId(S, j) = l
      BY <2>1, <2>3
    <3> QED  BY <1>3, <3>1
  <2> QED  BY <2>1, <2>2, <2>3
<1>11. new_contacts \in [1..n -> SUBSET (1..n)]
  <2>1. \A T : T \cap S \subseteq S
    OBVIOUS
  <2>2. \A T : T \subseteq S => {NewId(S, j) : j \in T} \subseteq 1..n
    BY <1>2
  <2>3. \A k \in 1..n : {NewId(S, j) : j \in contacts[old(k)] \cap S} \subseteq 1..n
    BY <2>1, <2>2
  <2> QED  BY <1>5, <2>3
<1>12. AllContacts(r, new, new_contacts)
  <2>1. \A k, l \in 1..n : l \in new_contacts[k] <=> IsContactsFConnectivityRuleSatisfied(r, new[k], new[l])
    <3>1. \A i, j \in 1..Len(points) :
            j \in contacts[i] <=> IsContactsFConnectivityRuleSatisfied(r, points[i], points[j])
      BY DEF AllContacts
    <3> QED  BY <1>6, <1>7, <1>10, <3>1
  <2> QED  BY <1>8, <1>11, <2>1 DEF AllContacts
<1>13. \A i \in S : NewId(S, i) \in 1..n /\ new[NewId(S, i)] = points[i]
  BY <1>2, <1>3, <1>7
<1>14. /\ \A i \in S : points[i] \in PointsOfModel(new)
       /\ \A e \in PointsOfModel(new) : \E i \in S : points[i] = e
  <2>1. \A k \in 1..n : \E i \in S : points[i] = new[k]
    BY <1>2, <1>7
  <2>2. PointsOfModel(new) = {new[k] : k \in 1..n}
    BY <1>8 DEF PointsOfModel
  <2>3. \A i \in S : points[i] \in PointsOfModel(new)
    BY <1>13, <2>2
  <2>4. \A e \in PointsOfModel(new) : \E i \in S : points[i] = e
    BY <2>1, <2>2
  <2> QED  BY <2>3, <2>4
<1>15. ASSUME NEW i \in S, NEW j \in S, j \in contacts[i]
       PROVE  <<points[i], points[j]>> \in ContactsOfModel(new, new_contacts)
  <2>1. NewId(S, j) \in new_contacts[NewId(S, i)]
    BY <1>3, <1>10, <1>13, <1>15
  <2>2. <<NewId(S, i), NewId(S, j)>> \in {y \in (1..n) \X (1..n) : y[2] \in new_contacts[y[1]]}
    BY <1>13, <2>1
  <2>3. <<points[i], points[j]>> = <<new[NewId(S, i)], new[NewId(S, j)]>>
    BY <1>13
  <2> QED  BY <1>8, <2>2, <2>3 DEF ContactsOfModel
<1>16. Len(new) = Cardinality(S)
  BY <1>8 DEF n
<1>17. AreKept(new, new_contacts, points, contacts, S)
  BY <1>14, <1>15 DEF AreKept
<1> QED  BY <1>8, <1>9, <1>12, <1>16, <1>17

-----------------------------------------------------------------------------
(* The enumeration of the points.                                          *)

\* The points are the valid evaluations before e.
Enumerated(r, points, e) ==
  /\ GoodPoints(r, points)
  /\ \A f \in SUBSET r.used_variables :
       Has(points, f) <=> (IsValidPoint(r, f) /\ Less(f, e, r.used_variables))

LEMMA NoPointsYet ==
  ASSUME NEW r \in Request
  PROVE  Enumerated(r, <<>>, {})
<1>1. GoodPoints(r, <<>>)
  BY DEF GoodPoints
<1> QED  BY <1>1, NothingIsLess DEF Enumerated, Has

LEMMA PointIsTested ==
  ASSUME NEW r \in Request, NEW points, NEW e \in SUBSET r.used_variables,
         Enumerated(r, points, e),
         NEW new, new = IF IsValidPoint(r, e) THEN Append(points, e) ELSE points
  PROVE  /\ GoodPoints(r, new)
         /\ \A f \in SUBSET r.used_variables :
              Has(new, f) <=> (IsValidPoint(r, f) /\ (f = e \/ Less(f, e, r.used_variables)))
<1>0. ~Has(points, e)
  BY NotBeforeItself DEF Enumerated
<1>1. CASE ~IsValidPoint(r, e)
  BY <1>1 DEF Enumerated
<1>2. CASE IsValidPoint(r, e)
  <2>1. points \in Seq(SUBSET r.used_variables)
    BY DEF Enumerated, GoodPoints
  <2>2. /\ new \in Seq(SUBSET r.used_variables)
        /\ Len(points) \in Nat
        /\ Len(new) = Len(points) + 1
        /\ \A i \in 1..Len(points) : new[i] = points[i]
        /\ new[Len(points) + 1] = e
    BY <1>2, <2>1
  <2>3. \A i \in 1..Len(new) : i \in 1..Len(points) \/ i = Len(points) + 1
    BY <2>2
  <2>4. \A i \in 1..Len(points) : new[i] # e
    BY <1>0, <2>2 DEF Has
  <2>5. \A i, j \in 1..Len(new) : new[i] = new[j] => i = j
    BY <2>2, <2>3, <2>4 DEF Enumerated, GoodPoints
  <2>6. \A i \in 1..Len(new) : IsValidPoint(r, new[i])
    BY <1>2, <2>2, <2>3 DEF Enumerated, GoodPoints
  <2>7. \A f : Has(new, f) <=> (f = e \/ Has(points, f))
    <3>1. Len(points) + 1 \in 1..Len(new) /\ 1..Len(points) \subseteq 1..Len(new)
      BY <2>2
    <3> QED  BY <2>2, <2>3, <3>1 DEF Has
  <2> QED  BY <1>2, <2>2, <2>5, <2>6, <2>7 DEF Enumerated, GoodPoints
<1> QED  BY <1>1, <1>2

LEMMA NextIsTested ==
  ASSUME NEW r \in Request, NEW points, NEW e \in SUBSET r.used_variables,
         Enumerated(r, points, e), ~IsLast(e, r.used_variables),
         NEW new, new = IF IsValidPoint(r, e) THEN Append(points, e) ELSE points
  PROVE  Enumerated(r, new, NextEvaluation(e, r.used_variables))
<1>1. \A f \in SUBSET r.used_variables :
        Less(f, NextEvaluation(e, r.used_variables), r.used_variables)
          <=> (f = e \/ Less(f, e, r.used_variables))
  BY BeforeNext, UsedIsFinite
<1> QED  BY <1>1, PointIsTested DEF Enumerated

LEMMA LastIsTested ==
  ASSUME NEW r \in Request, NEW points, NEW e \in SUBSET r.used_variables,
         Enumerated(r, points, e), IsLast(e, r.used_variables),
         NEW new, new = IF IsValidPoint(r, e) THEN Append(points, e) ELSE points
  PROVE  AllValid(r, new)
<1>1. \A f \in SUBSET r.used_variables : f = e \/ Less(f, e, r.used_variables)
  BY LastIsLast, UsedIsFinite
<1> QED  BY <1>1, PointIsTested DEF AllValid

-----------------------------------------------------------------------------
(* The traversal of the relation R over 1..n.                              *)

IsLinked(R, C) == \A P \in (SUBSET C) \ {{}, C} : \E i \in P, j \in C \ P : j \in R[i]

IsFinished(R, n, C) ==
  /\ C # {} /\ C \subseteq 1..n
  /\ \A i \in C : R[i] \subseteq C
  /\ IsLinked(R, C)

\* Every point is in one component found, in the current one or not visited.
Partition(R, n, found, current, left) ==
  /\ \A k \in 1..Len(found) :
       IsFinished(R, n, found[k]) /\ found[k] \cap current = {} /\ found[k] \cap left = {}
  /\ \A k, l \in 1..Len(found) : k # l => found[k] \cap found[l] = {}
  /\ current \subseteq 1..n /\ left \subseteq 1..n /\ current \cap left = {}
  /\ \A i \in 1..n : i \in left \/ i \in current \/ \E k \in 1..Len(found) : i \in found[k]

\* The current component hangs together, and its contacts are in it or wait.
Visiting(R, n, current, left, queue, root) ==
  /\ root \in 1..n
  /\ queue \subseteq left \cup current
  /\ \A i \in current : R[i] \subseteq current \cup queue
  /\ IsLinked(R, current)
  /\ current = {} => queue = {root}
  /\ current # {} => \A i \in queue : \E j \in current : i \in R[j]
  /\ \A i \in left : root <= i /\ (i = root => current = {})

Symmetric(R, n) ==
  /\ R \in [1..n -> SUBSET (1..n)]
  /\ \A i \in 1..n : i \in R[i]
  /\ \A i, j \in 1..n : j \in R[i] => i \in R[j]

LEMMA LinkedWithPoint ==
  ASSUME NEW R, NEW C, IsLinked(R, C), NEW p, p \notin C,
         C = {} \/ \E j \in C : p \in R[j] /\ j \in R[p]
  PROVE  IsLinked(R, C \cup {p})
<1> SUFFICES ASSUME NEW P \in SUBSET (C \cup {p}), P # {}, P # C \cup {p}
             PROVE  \E i \in P, j \in (C \cup {p}) \ P : j \in R[i]
  BY DEF IsLinked
<1>1. C # {}
  OBVIOUS
<1>2. PICK j \in C : p \in R[j] /\ j \in R[p]
  BY <1>1
<1>3. CASE P \cap C = {}
  <2>1. p \in P /\ j \in (C \cup {p}) \ P
    BY <1>3
  <2> QED  BY <1>2, <2>1
<1>4. CASE C \subseteq P
  <2>1. j \in P /\ p \in (C \cup {p}) \ P
    BY <1>4
  <2> QED  BY <1>2, <2>1
<1>5. CASE P \cap C # {} /\ ~(C \subseteq P)
  <2>1. P \cap C \in (SUBSET C) \ {{}, C}
    BY <1>5
  <2>2. PICK i \in P \cap C, k \in C \ (P \cap C) : k \in R[i]
    BY <2>1 DEF IsLinked
  <2> QED  BY <2>2
<1> QED  BY <1>3, <1>4, <1>5

LEMMA PointIsVisited ==
  ASSUME NEW n \in Nat, NEW R, Symmetric(R, n), NEW found, NEW current, NEW left, NEW queue, NEW root,
         Partition(R, n, found, current, left), Visiting(R, n, current, left, queue, root),
         NEW p \in queue, p \in left,
         NEW reached, reached \subseteq R[p] \cap left, (R[p] \cap left) \ {p} \subseteq reached
  PROVE  /\ Partition(R, n, found, current \cup {p}, left \ {p})
         /\ Visiting(R, n, current \cup {p}, left \ {p}, (queue \ {p}) \cup reached, root)
<1>1. p \in 1..n /\ p \notin current
  BY DEF Partition
<1>2. \A k \in 1..Len(found) : p \notin found[k]
  BY DEF Partition
<1>3. Partition(R, n, found, current \cup {p}, left \ {p})
  <2>1. \A k \in 1..Len(found) : /\ IsFinished(R, n, found[k])
                                 /\ found[k] \cap (current \cup {p}) = {}
                                 /\ found[k] \cap (left \ {p}) = {}
    BY <1>2 DEF Partition
  <2>2. \A i \in 1..n : \/ i \in left \ {p} \/ i \in current \cup {p}
                        \/ \E k \in 1..Len(found) : i \in found[k]
    BY DEF Partition
  <2> QED  BY <1>1, <2>1, <2>2 DEF Partition
<1>4. R[p] \subseteq current \cup left
  <2> SUFFICES ASSUME NEW j \in R[p], j \notin current, j \notin left PROVE FALSE
    OBVIOUS
  <2>1. j \in 1..n /\ p \in R[j]
    BY <1>1 DEF Symmetric
  <2>2. PICK k \in 1..Len(found) : j \in found[k]
    BY <2>1 DEF Partition
  <2>3. p \in found[k]
    BY <2>1, <2>2 DEF Partition, IsFinished
  <2> QED  BY <1>2, <2>3
<1>5. \A i \in current \cup {p} : R[i] \subseteq (current \cup {p}) \cup ((queue \ {p}) \cup reached)
  BY <1>4 DEF Visiting
<1>6. IsLinked(R, current \cup {p})
  <2>1. current = {} \/ \E j \in current : p \in R[j] /\ j \in R[p]
    <3>1. \A j \in current : j \in 1..n
      BY DEF Partition
    <3> QED  BY <1>1, <3>1 DEF Visiting, Symmetric
  <2> QED  BY <1>1, <2>1, LinkedWithPoint DEF Visiting
<1>7. \A i \in (queue \ {p}) \cup reached : \E j \in current \cup {p} : i \in R[j]
  <2>1. \A i \in reached : i \in R[p]
    OBVIOUS
  <2>2. \A i \in queue \ {p} : \E j \in current : i \in R[j]
    BY DEF Visiting
  <2> QED  BY <2>1, <2>2
<1>8. \A i \in left \ {p} : root <= i /\ i # root
  BY DEF Visiting
<1>9. (queue \ {p}) \cup reached \subseteq (left \ {p}) \cup (current \cup {p})
  BY DEF Visiting
<1> QED  BY <1>3, <1>5, <1>6, <1>7, <1>8, <1>9 DEF Visiting

LEMMA PointIsPassedOver ==
  ASSUME NEW n \in Nat, NEW R, NEW found, NEW current, NEW left, NEW queue, NEW root,
         Partition(R, n, found, current, left), Visiting(R, n, current, left, queue, root),
         NEW p \in queue, p \notin left
  PROVE  Visiting(R, n, current, left, queue \ {p}, root)
<1>1. p \in current
  BY DEF Visiting
<1>2. \A i \in current : R[i] \subseteq current \cup (queue \ {p})
  BY <1>1 DEF Visiting
<1> QED  BY <1>1, <1>2 DEF Visiting

LEMMA ComponentIsAdded ==
  ASSUME NEW n \in Nat, NEW R, NEW found \in Seq(SUBSET (1..n)), NEW current, NEW left, NEW root,
         Partition(R, n, found, current, left), Visiting(R, n, current, left, {}, root)
  PROVE  /\ Partition(R, n, Append(found, current), {}, left)
         /\ \A i \in left : root < i
<1>1. current # {} /\ current \subseteq 1..n
  BY DEF Visiting, Partition
<1>2. IsFinished(R, n, current)
  BY <1>1 DEF Visiting, IsFinished
<1> DEFINE new == Append(found, current)
<1>3. /\ Len(found) \in Nat /\ Len(new) = Len(found) + 1
      /\ \A k \in 1..Len(found) : new[k] = found[k]
      /\ new[Len(found) + 1] = current
  BY <1>1
<1> HIDE DEF new
<1>4. \A k \in 1..Len(new) : k \in 1..Len(found) \/ k = Len(found) + 1
  BY <1>3
<1>5. \A k \in 1..Len(new) : /\ IsFinished(R, n, new[k])
                             /\ new[k] \cap {} = {} /\ new[k] \cap left = {}
  BY <1>2, <1>3, <1>4 DEF Partition
<1>6. \A k, l \in 1..Len(new) : k # l => new[k] \cap new[l] = {}
  BY <1>3, <1>4 DEF Partition
<1>7. \A i \in 1..n : i \in left \/ i \in {} \/ \E k \in 1..Len(new) : i \in new[k]
  <2>1. Len(found) + 1 \in 1..Len(new) /\ \A k \in 1..Len(found) : k \in 1..Len(new)
    BY <1>3
  <2> QED  BY <1>3, <2>1 DEF Partition
<1>8. Partition(R, n, new, {}, left)
  BY <1>5, <1>6, <1>7 DEF Partition
<1>9. \A i \in left : root < i
  BY <1>1 DEF Visiting, Partition
<1> QED  BY <1>8, <1>9 DEF new

-----------------------------------------------------------------------------
(* Components and connected solutions.                                     *)

LEMMA AllContactsAreSymmetric ==
  ASSUME NEW r, NEW points, NEW contacts, GoodPoints(r, points), AllContacts(r, points, contacts)
  PROVE  Symmetric(contacts, Len(points))
BY ContactsAreSymmetric DEF Symmetric, AllContacts

LEMMA ReducedEvaluation ==
  ASSUME NEW points \in Seq(SUBSET Variable), NEW C, C \subseteq 1..Len(points),
         NEW i \in 1..Len(points)
  PROVE  PointOf(ReducedTo(VariableEvaluations(points), C), i) = IF i \in C THEN points[i] ELSE {}
<1>1. \A p \in Variable : i \in ReducedTo(VariableEvaluations(points), C)[p] <=> (p \in points[i] /\ i \in C)
  BY DEF ReducedTo, VariableEvaluations
<1>2. points[i] \subseteq Variable
  OBVIOUS
<1> QED  BY <1>1, <1>2 DEF PointOf

\* The positive atoms of r with the evaluations restricted to C, IsModel of its arguments.
Accepts(r, points, contacts, C) ==
  PositiveAtomsHold(r, ReducedTo(VariableEvaluations(points), C), contacts, Len(points))

\* A connected solution lies in one component, which is accepted.
LEMMA SolutionIsInComponent ==
  ASSUME NEW r \in Request, NEW points, NEW contacts, AllValid(r, points),
         AllContacts(r, points, contacts), NEW s \in Solutions(r),
         IsConnected(s.points, s.contacts),
         NEW found, \A k \in 1..Len(found) : IsFinished(contacts, Len(points), found[k]),
         \A i \in 1..Len(points) : \E k \in 1..Len(found) : i \in found[k]
  PROVE  \E k \in 1..Len(found) : Accepts(r, points, contacts, found[k])
<1> DEFINE n == Len(points)
<1>1. /\ s.points # {} /\ s.points \subseteq SUBSET r.used_variables
      /\ s.contacts \subseteq s.points \X s.points
      /\ \A e \in s.points : IsValidPoint(r, e)
      /\ \A x \in s.contacts : IsContactsFConnectivityRuleSatisfied(r, x[1], x[2])
  BY SolutionsPass
<1>2. \A e \in s.points : \E i \in 1..n : points[i] = e
  BY <1>1 DEF AllValid, Has
<1>3. \A i, j \in 1..n : <<points[i], points[j]>> \in s.contacts => j \in contacts[i]
  BY <1>1 DEF AllContacts
<1>4. PICK e \in s.points : TRUE
  BY <1>1
<1>5. PICK k \in 1..Len(found) : \E i \in 1..n : points[i] = e /\ i \in found[k]
  BY <1>2
<1> DEFINE C == found[k]
           P == {f \in s.points : \E i \in C : points[i] = f}
<1>6. C \subseteq 1..n /\ \A i \in C : contacts[i] \subseteq C
  BY DEF IsFinished
<1>7. P = s.points
  <2> SUFFICES ASSUME P # s.points PROVE FALSE
    OBVIOUS
  <2>1. P \in (SUBSET s.points) \ {{}, s.points}
    BY <1>5
  <2>2. PICK a \in P, b \in s.points \ P : <<a, b>> \in s.contacts
    BY <2>1 DEF IsConnected
  <2>3. PICK i \in C : points[i] = a
    BY <2>2
  <2>4. PICK j \in 1..n : points[j] = b
    BY <1>2, <2>2
  <2>5. j \in contacts[i]
    BY <1>3, <1>6, <2>2, <2>3, <2>4
  <2>6. j \in C
    BY <1>6, <2>3, <2>5
  <2> QED  BY <2>2, <2>4, <2>6
<1>8. \A f \in s.points : \E i \in C : points[i] = f
  BY <1>7
<1> DEFINE v == ReducedTo(VariableEvaluations(points), C)
<1>9. points \in Seq(SUBSET Variable)
  BY UsedIsFinite DEF AllValid, GoodPoints
<1> HIDE DEF C, P
<1>10. \A i \in C : i \in 1..n /\ PointOf(v, i) = points[i]
  BY <1>6, <1>9, ReducedEvaluation
<1> HIDE DEF v
<1>11. Satisfies(s, r)
  BY DEF Solutions
<1>12. \A t, f : f \in s.points /\ f \in t => \E i \in C : points[i] = f /\ i \in Evaluate(t, v, n)
  BY <1>8, <1>10 DEF Evaluate
<1>13. ASSUME NEW z \in r.zero_terms_F PROVE Evaluate(z, v, n) # {}
  BY <1>11, <1>12 DEF Satisfies
<1>14. ASSUME NEW c \in r.contacts_T PROVE IsContactSatisfied(c, v, contacts, n)
  <2>1. PICK x \in s.contacts : x \in c[1] \X c[2]
    BY <1>11 DEF Satisfies
  <2>2. x[1] \in s.points /\ x[2] \in s.points /\ x[1] \in c[1] /\ x[2] \in c[2] /\ x = <<x[1], x[2]>>
    BY <1>1, <2>1
  <2>3. PICK i \in C : points[i] = x[1] /\ i \in Evaluate(c[1], v, n)
    BY <1>12, <2>2
  <2>4. PICK j \in C : points[j] = x[2] /\ j \in Evaluate(c[2], v, n)
    BY <1>12, <2>2
  <2>5. j \in contacts[i]
    BY <1>3, <1>10, <2>2, <2>3, <2>4
  <2> QED  BY <2>3, <2>4, <2>5 DEF IsContactSatisfied
<1>15. PositiveAtomsHold(r, v, contacts, n)
  BY <1>13, <1>14 DEF PositiveAtomsHold
<1> QED  BY <1>15 DEF Accepts, v, C

\* What is a model as far as connected_model can tell.
GoodModel(r, points, contacts) ==
  /\ GoodPoints(r, points) /\ points # <<>>
  /\ AllContacts(r, points, contacts)
  /\ IsConnected(PointsOfModel(points), ContactsOfModel(points, contacts))
  /\ AreSafeTerms(r) =>
       /\ \A z \in r.zero_terms_F : \E i \in 1..Len(points) : points[i] \in z
       /\ \A c \in r.contacts_T : \E i, j \in 1..Len(points) :
            j \in contacts[i] /\ points[i] \in c[1] /\ points[j] \in c[2]

LEMMA ComponentIsModel ==
  ASSUME NEW r \in Request, NEW points, NEW contacts, GoodPoints(r, points),
         AllContacts(r, points, contacts), NEW C, IsFinished(contacts, Len(points), C),
         Accepts(r, points, contacts, C),
         NEW new, NEW new_contacts, IsPart(new, new_contacts, points, contacts, C)
  PROVE  GoodModel(r, new, new_contacts)
<1>1. C # {} /\ C \subseteq 1..Len(points) /\ IsLinked(contacts, C)
  BY DEF IsFinished
<1> DEFINE n == Len(points)
<1>2. /\ GoodPoints(r, new) /\ new # <<>>
      /\ AllContacts(r, new, new_contacts)
      /\ AreKept(new, new_contacts, points, contacts, C)
  BY <1>1, PartIsModel
<1>3. IsConnected(PointsOfModel(new), ContactsOfModel(new, new_contacts))
  <2> SUFFICES ASSUME NEW P \in (SUBSET PointsOfModel(new)) \ {{}, PointsOfModel(new)}
               PROVE  \E a \in P, b \in PointsOfModel(new) \ P :
                        <<a, b>> \in ContactsOfModel(new, new_contacts)
    BY DEF IsConnected
  <2> DEFINE Q == {i \in C : points[i] \in P}
  <2>1. Q \in (SUBSET C) \ {{}, C}
    <3>1. PICK a \in P : a \in PointsOfModel(new)
      OBVIOUS
    <3>2. PICK b \in PointsOfModel(new) : b \notin P
      OBVIOUS
    <3>3. \E i \in C : i \in Q
      BY <1>2, <3>1 DEF AreKept
    <3>4. \E i \in C : i \notin Q
      BY <1>2, <3>2 DEF AreKept
    <3> QED  BY <3>3, <3>4
  <2>2. PICK i \in Q, j \in C \ Q : j \in contacts[i]
    BY <1>1, <2>1 DEF IsLinked
  <2>3. points[i] \in P /\ points[j] \in PointsOfModel(new) \ P
    BY <1>2, <2>2 DEF AreKept
  <2>4. <<points[i], points[j]>> \in ContactsOfModel(new, new_contacts)
    BY <1>2, <2>2 DEF AreKept
  <2> QED  BY <2>3, <2>4
<1>4. ASSUME AreSafeTerms(r)
      PROVE  /\ \A z \in r.zero_terms_F : \E i \in 1..Len(new) : new[i] \in z
             /\ \A c \in r.contacts_T : \E i, j \in 1..Len(new) :
                  j \in new_contacts[i] /\ new[i] \in c[1] /\ new[j] \in c[2]
  <2> DEFINE v == ReducedTo(VariableEvaluations(points), C)
  <2>1. points \in Seq(SUBSET Variable)
    BY UsedIsFinite DEF GoodPoints
  <2>2. \A i \in 1..n : PointOf(v, i) = IF i \in C THEN points[i] ELSE {}
    BY <1>1, <2>1, ReducedEvaluation
  <2>3. PositiveAtomsHold(r, v, contacts, n)
    BY DEF Accepts
  <2> HIDE DEF v
  <2>4. \A t : {} \notin t => \A i \in Evaluate(t, v, n) : i \in C /\ points[i] \in t
    BY <2>2 DEF Evaluate
  <2>5. \A z \in r.zero_terms_F : {} \notin z
    BY <1>4 DEF AreSafeTerms
  <2>6. \A c \in r.contacts_T : {} \notin c[1] /\ {} \notin c[2]
    BY <1>4 DEF AreSafeTerms, TermsOf
  <2>7. ASSUME NEW z \in r.zero_terms_F PROVE \E i \in 1..Len(new) : new[i] \in z
    <3>1. PICK i \in C : points[i] \in z
      BY <2>3, <2>4, <2>5 DEF PositiveAtomsHold
    <3>2. points[i] \in PointsOfModel(new)
      BY <1>2 DEF AreKept
    <3> QED  BY <3>1, <3>2 DEF PointsOfModel
  <2>8. ASSUME NEW c \in r.contacts_T
        PROVE  \E i, j \in 1..Len(new) : j \in new_contacts[i] /\ new[i] \in c[1] /\ new[j] \in c[2]
    <3>1. IsContactSatisfied(c, v, contacts, n)
      BY <2>3 DEF PositiveAtomsHold
    <3>2. PICK i \in Evaluate(c[1], v, n) : contacts[i] \cap Evaluate(c[2], v, n) # {}
      BY <3>1 DEF IsContactSatisfied
    <3>3. PICK j \in contacts[i] : j \in Evaluate(c[2], v, n)
      BY <3>2
    <3>4. i \in C /\ points[i] \in c[1] /\ j \in C /\ points[j] \in c[2]
      BY <2>4, <2>6, <3>2, <3>3
    <3>5. <<points[i], points[j]>> \in ContactsOfModel(new, new_contacts)
      BY <1>2, <3>3, <3>4 DEF AreKept
    <3>6. PICK x \in {y \in (1..Len(new)) \X (1..Len(new)) : y[2] \in new_contacts[y[1]]} :
            <<points[i], points[j]>> = <<new[x[1]], new[x[2]]>>
      BY <3>5 DEF ContactsOfModel
    <3>7. /\ x[1] \in 1..Len(new) /\ x[2] \in 1..Len(new) /\ x[2] \in new_contacts[x[1]]
          /\ new[x[1]] = points[i] /\ new[x[2]] = points[j]
      BY <3>6
    <3> QED  BY <3>4, <3>7
  <2> QED  BY <2>7, <2>8
<1> QED  BY <1>2, <1>3, <1>4 DEF GoodModel

\* The checks before the components lose no solution.
LEMMA ExistenceIsNeeded ==
  ASSUME NEW r \in Request, NEW points, AllValid(r, points), Solutions(r) # {}
  PROVE  /\ points # <<>>
         /\ \A t \in r.zero_terms_F \cup TermsOf(r.contacts_T) :
              Evaluate(t, VariableEvaluations(points), Len(points)) # {}
<1>1. PICK s \in Solutions(r) : TRUE
  OBVIOUS
<1>2. /\ \A z \in r.zero_terms_F : \E e \in SUBSET r.used_variables : e \in z /\ IsValidPoint(r, e)
      /\ \A c \in r.contacts_T : \E e, f \in SUBSET r.used_variables :
           /\ e \in c[1] /\ IsValidPoint(r, e)
           /\ f \in c[2] /\ IsValidPoint(r, f)
           /\ IsContactsFConnectivityRuleSatisfied(r, e, f)
      /\ \E e \in SUBSET r.used_variables : IsValidPoint(r, e)
  BY <1>1, SolutionsHavePoints
<1>3. \A e \in SUBSET r.used_variables : IsValidPoint(r, e) => \E i \in 1..Len(points) : points[i] = e
  BY DEF AllValid, Has
<1>4. points \in Seq(SUBSET Variable)
  BY UsedIsFinite DEF AllValid, GoodPoints
<1>5. points # <<>>
  BY <1>2, <1>3
<1>6. \A t \in r.zero_terms_F \cup TermsOf(r.contacts_T) :
        \E e \in SUBSET r.used_variables : e \in t /\ IsValidPoint(r, e)
  <2>1. \A t \in TermsOf(r.contacts_T) : \E c \in r.contacts_T : t = c[1] \/ t = c[2]
    BY DEF TermsOf
  <2> QED  BY <1>2, <2>1
<1>7. \A t : (\E i \in 1..Len(points) : points[i] \in t)
              => Evaluate(t, VariableEvaluations(points), Len(points)) # {}
  BY <1>4, EvaluateIsPointwise
<1> QED  BY <1>3, <1>5, <1>6, <1>7

LEMMA ContactsAreNeeded ==
  ASSUME NEW r \in Request, NEW points, AllValid(r, points), Solutions(r) # {},
         NEW contacts, AllContacts(r, points, contacts), NEW c \in r.contacts_T
  PROVE  IsContactSatisfied(c, VariableEvaluations(points), contacts, Len(points))
<1>1. PICK s \in Solutions(r) : TRUE
  OBVIOUS
<1>2. PICK e \in SUBSET r.used_variables, f \in SUBSET r.used_variables :
        /\ e \in c[1] /\ IsValidPoint(r, e)
        /\ f \in c[2] /\ IsValidPoint(r, f)
        /\ IsContactsFConnectivityRuleSatisfied(r, e, f)
  BY <1>1, SolutionsHavePoints
<1>3. PICK i \in 1..Len(points), j \in 1..Len(points) : points[i] = e /\ points[j] = f
  BY <1>2 DEF AllValid, Has
<1>4. j \in contacts[i]
  BY <1>2, <1>3 DEF AllContacts
<1>5. points \in Seq(SUBSET Variable)
  BY UsedIsFinite DEF AllValid, GoodPoints
<1>6. /\ i \in Evaluate(c[1], VariableEvaluations(points), Len(points))
      /\ j \in Evaluate(c[2], VariableEvaluations(points), Len(points))
  BY <1>2, <1>3, <1>5, EvaluateIsPointwise
<1> QED  BY <1>4, <1>6 DEF IsContactSatisfied

-----------------------------------------------------------------------------
(* The inductive invariant.                                                *)

Typed ==
  /\ pc \in {"idle", "points", "existence", "contacts", "roots", "visits", "components",
            "done", "terminated"}
  /\ request \in Request
  /\ evaluation \in SUBSET Used
  /\ points_ \in Seq(SUBSET Used)
  /\ variable_evaluations_ \in [Variable -> SUBSET (1..Size)]
  /\ contact_relations_ \in {<<>>} \cup [1..Size -> SUBSET (1..Size)]
  /\ root_point_id \in Nat
  /\ created \in BOOLEAN
  /\ ~created =>
       /\ not_visited_points \cup q \cup connected_component \subseteq 1..Size
       /\ connected_components \in Seq(SUBSET (1..Size))

\* What has not begun.
Untouched ==
  /\ pc \in {"points", "existence", "contacts"} =>
       /\ contact_relations_ = <<>>
       /\ not_visited_points = {} /\ root_point_id = 0 /\ q = {}
       /\ connected_component = {} /\ connected_components = <<>>
  /\ pc \in {"points", "existence"} => variable_evaluations_ = [p \in Variable |-> {}]

\* The biggest model of the negative atoms.
Biggest ==
  /\ pc = "points" => Enumerated(request, points_, evaluation)
  /\ pc = "existence" \/ IsSearching => AllValid(request, points_)
  /\ IsSearching => variable_evaluations_ = VariableEvaluations(points_)
  /\ pc \in {"roots", "visits", "components"} => AllContacts(request, points_, contact_relations_)

Traversal ==
  /\ pc = "roots" =>
       /\ Partition(contact_relations_, Size, connected_components, {}, not_visited_points)
       /\ \A i \in not_visited_points : root_point_id < i
  /\ pc = "visits" =>
       /\ Partition(contact_relations_, Size, connected_components, connected_component,
                    not_visited_points)
       /\ Visiting(contact_relations_, Size, connected_component, not_visited_points, q,
                   root_point_id)

\* A component that is left is accepted if there is a connected solution.
Hopeful(r, points, contacts, left) ==
  /\ \A k \in 1..Len(left) : IsFinished(contacts, Len(points), left[k])
  /\ \A s \in Solutions(r) : IsConnected(s.points, s.contacts) =>
       \E k \in 1..Len(left) : Accepts(r, points, contacts, left[k])

Untried == pc = "components" => Hopeful(request, points_, contact_relations_, connected_components)

NoSolution(r) ==
  Cardinality(r.used_variables) <= max_variables_count_ =>
    \A s \in Solutions(r) : ~IsConnected(s.points, s.contacts)

Answered ==
  /\ created => /\ pc = "done" /\ GoodModel(request, points_, contact_relations_)
                /\ variable_evaluations_ = VariableEvaluations(points_)
  /\ pc = "done" /\ ~created => NoSolution(request)

IInv == Typed /\ Untouched /\ Biggest /\ Traversal /\ Untried /\ Answered

LEMMA VariableEvaluationsType ==
  ASSUME NEW points, NEW r \in Request, GoodPoints(r, points)
  PROVE  VariableEvaluations(points) \in [Variable -> SUBSET (1..Len(points))]
<1>1. DOMAIN points = 1..Len(points)
  BY DEF GoodPoints
<1> QED  BY <1>1 DEF VariableEvaluations

LEMMA NothingBuilt ==
  ASSUME NEW e, e = <<>>
  PROVE  Len(e) = 0 /\ 1..Len(e) = {} /\ \A S : e \in Seq(S)
OBVIOUS

LEMMA InvariantInit == Init => IInv
<1> SUFFICES ASSUME Init PROVE IInv
  OBVIOUS
<1>1. request \in Request
  BY RequestAssumption DEF Init
<1>2. points_ \in Seq(SUBSET Used) /\ connected_components \in Seq(SUBSET (1..Size)) /\ Size = 0
  BY NothingBuilt DEF Init, Size
<1>3. Typed
  BY <1>1, <1>2 DEF Init, Typed
<1> QED  BY <1>3 DEF Init, IInv, Untouched, Biggest, IsSearching, Traversal, Untried, Answered

LEMMA StartKeeps == Start => IInv'
<1> SUFFICES ASSUME Start PROVE IInv'
  OBVIOUS
<1>1. request' \in Request /\ pc' \in {"done", "points"}
  BY DEF Start
<1>2. points_' \in Seq(SUBSET Used') /\ connected_components' \in Seq(SUBSET (1..Size')) /\ Size' = 0
  BY NothingBuilt DEF Start, Size
<1>3. Typed'
  BY <1>1, <1>2 DEF Start, Typed
<1>4. Untouched'
  BY DEF Start, Untouched
<1>5. Biggest'
  <2>1. Enumerated(request', <<>>, {})
    BY <1>1, NoPointsYet
  <2> QED  BY <1>1, <2>1 DEF Start, Biggest, IsSearching
<1>6. Traversal' /\ Untried'
  BY <1>1 DEF Traversal, Untried
<1>7. Answered'
  BY UsedIsFinite, FS_CardinalityType, LimitAssumption, <1>1 DEF Start, Answered, NoSolution, IsTooLarge
<1> QED  BY <1>3, <1>4, <1>5, <1>6, <1>7 DEF IInv

LEMMA TestEvaluationKeeps == IInv /\ TestEvaluation => IInv'
<1> SUFFICES ASSUME IInv, TestEvaluation PROVE IInv'
  OBVIOUS
<1>0. /\ pc = "points" /\ ~created /\ request \in Request /\ evaluation \in SUBSET Used
      /\ Enumerated(request, points_, evaluation)
      /\ points_' = IF IsValidPoint(request, evaluation)
                    THEN Append(points_, evaluation) ELSE points_
      /\ UNCHANGED <<request, variable_evaluations_, contact_relations_, traversalVars, created>>
  BY DEF IInv, Typed, Biggest, Answered, TestEvaluation
<1>1. /\ contact_relations_ = <<>> /\ variable_evaluations_ = [p \in Variable |-> {}]
      /\ not_visited_points = {} /\ root_point_id = 0 /\ q = {}
      /\ connected_component = {} /\ connected_components = <<>>
  BY <1>0 DEF IInv, Untouched
<1>2. GoodPoints(request, points_')
  BY <1>0, PointIsTested DEF Used
<1>3. \/ pc' = "existence" /\ evaluation' = evaluation /\ AllValid(request, points_')
      \/ /\ pc' = "points" /\ evaluation' = NextEvaluation(evaluation, Used)
         /\ Enumerated(request, points_', evaluation')
  <2>1. CASE IsLast(evaluation, Used)
    <3>1. AllValid(request, points_')
      BY <1>0, <2>1, LastIsTested DEF Used
    <3> QED  BY <2>1, <3>1 DEF TestEvaluation
  <2>2. CASE ~IsLast(evaluation, Used)
    <3>1. Enumerated(request, points_', NextEvaluation(evaluation, Used))
      BY <1>0, <2>2, NextIsTested DEF Used
    <3>2. evaluation' = NextEvaluation(evaluation, Used) /\ pc' = "points"
      BY <1>0, <2>2 DEF TestEvaluation
    <3> QED  BY <3>1, <3>2
  <2> QED  BY <2>1, <2>2
<1>4. pc' \in {"existence", "points"}
  BY <1>3
<1>5. Typed'
  <2>1. evaluation' \in SUBSET Used'
    BY <1>0, <1>3, NextIsEvaluation DEF Used
  <2>2. points_' \in Seq(SUBSET Used')
    BY <1>0, <1>2 DEF GoodPoints, Used
  <2>3. connected_components' \in Seq(SUBSET (1..Size'))
    BY <1>0, <1>1, NothingBuilt DEF traversalVars
  <2> QED  BY <1>0, <1>1, <1>4, <2>1, <2>2, <2>3 DEF IInv, Typed, traversalVars
<1>6. Untouched'
  BY <1>0, <1>1 DEF Untouched, traversalVars
<1>7. Biggest'
  BY <1>0, <1>3, <1>4 DEF Biggest, IsSearching
<1>8. Traversal' /\ Untried' /\ Answered'
  BY <1>0, <1>4 DEF Traversal, Untried, Answered
<1> QED  BY <1>5, <1>6, <1>7, <1>8 DEF IInv

LEMMA CheckExistenceKeeps == IInv /\ CheckExistence => IInv'
<1> SUFFICES ASSUME IInv, CheckExistence PROVE IInv'
  OBVIOUS
<1>0. /\ pc = "existence" /\ ~created /\ request \in Request
      /\ AllValid(request, points_)
      /\ variable_evaluations_' = VariableEvaluations(points_)
      /\ UNCHANGED <<request, evaluation, points_, contact_relations_, traversalVars, created>>
      /\ pc' \in {"contacts", "done"}
  BY DEF IInv, Typed, Biggest, Answered, CheckExistence, GiveUp
<1>1. Typed'
  <2>1. variable_evaluations_' \in [Variable -> SUBSET (1..Size)]
    BY <1>0, VariableEvaluationsType DEF AllValid, Size
  <2> QED  BY <1>0, <2>1 DEF IInv, Typed, traversalVars, Used, Size
<1>2. Untouched'
  BY <1>0 DEF IInv, Untouched, traversalVars
<1>3. Biggest'
  BY <1>0 DEF Biggest, IsSearching
<1>4. Traversal' /\ Untried'
  BY <1>0 DEF Traversal, Untried
<1>5. Answered'
  <2>1. CASE pc' = "contacts"
    BY <1>0, <2>1 DEF Answered
  <2>2. CASE pc' = "done"
    <3>1. ~(points_ # <<>> /\ HavePoints(VariableEvaluations(points_)))
      BY <1>0, <2>2 DEF CheckExistence
    <3>2. Solutions(request) = {}
      BY <1>0, <3>1, ExistenceIsNeeded DEF HavePoints, Size
    <3> QED  BY <1>0, <3>2 DEF Answered, NoSolution
  <2> QED  BY <1>0, <2>1, <2>2
<1> QED  BY <1>1, <1>2, <1>3, <1>4, <1>5 DEF IInv

\* What BuildContacts leaves is what the negative atoms allow.
LEMMA SeparatedAreNotInContact ==
  ASSUME request \in Request, GoodPoints(request, points_),
         variable_evaluations_ = VariableEvaluations(points_),
         NEW contacts,
         contacts = [i \in 1..Size |->
                       {j \in 1..Size : \A c \in request.contacts_F : ~IsSeparated(c, i, j)}]
  PROVE  AllContacts(request, points_, contacts)
<1>1. points_ \in Seq(SUBSET Variable)
  BY UsedIsFinite DEF GoodPoints
<1>2. \A t : Evaluate(t, variable_evaluations_, Size) = {i \in 1..Size : points_[i] \in t}
  BY <1>1, EvaluateIsPointwise DEF Size
<1>3. \A i, j \in 1..Size : \A c : IsSeparated(c, i, j) <=>
        \/ points_[i] \in c[1] /\ points_[j] \in c[2]
        \/ points_[i] \in c[2] /\ points_[j] \in c[1]
  BY <1>2 DEF IsSeparated
<1>4. \A i, j \in 1..Size :
        (\A c \in request.contacts_F : ~IsSeparated(c, i, j))
          <=> IsContactsFConnectivityRuleSatisfied(request, points_[i], points_[j])
  BY <1>3 DEF IsContactsFConnectivityRuleSatisfied
<1>5. contacts \in [1..Size -> SUBSET (1..Size)]
  OBVIOUS
<1>6. \A i, j \in 1..Size : j \in contacts[i] <=>
        IsContactsFConnectivityRuleSatisfied(request, points_[i], points_[j])
  BY <1>4
<1> QED  BY <1>5, <1>6 DEF AllContacts, Size

LEMMA NothingVisited ==
  ASSUME NEW n \in Nat, NEW R
  PROVE  /\ Partition(R, n, <<>>, {}, 1..n)
         /\ \A i \in 1..n : 0 < i
BY DEF Partition

LEMMA BuildContactsKeeps == IInv /\ BuildContacts => IInv'
<1> SUFFICES ASSUME IInv, BuildContacts PROVE IInv'
  OBVIOUS
<1>0. /\ pc = "contacts" /\ ~created /\ request \in Request
      /\ AllValid(request, points_) /\ variable_evaluations_ = VariableEvaluations(points_)
      /\ UNCHANGED <<request, evaluation, points_, variable_evaluations_, root_point_id, q,
                     connected_component, connected_components, created>>
      /\ pc' \in {"roots", "done"}
      /\ not_visited_points = {} /\ root_point_id = 0 /\ connected_components = <<>>
      /\ not_visited_points' = IF pc' = "roots" THEN 1..Size ELSE not_visited_points
  BY DEF IInv, Typed, Biggest, Untouched, Answered, BuildContacts, GiveUp, IsSearching, traversalVars
<1>1. AllContacts(request, points_, contact_relations_')
  BY <1>0, SeparatedAreNotInContact DEF BuildContacts, AllValid
<1>2. Size \in Nat
  BY <1>0 DEF AllValid, GoodPoints, Size
<1>3. Typed'
  <2>1. contact_relations_' \in [1..Size -> SUBSET (1..Size)]
    BY <1>1 DEF AllContacts, Size
  <2> QED  BY <1>0, <2>1 DEF IInv, Typed, Used, Size
<1>4. Untouched'
  BY <1>0 DEF Untouched
<1>5. Biggest'
  BY <1>0, <1>1 DEF Biggest, IsSearching
<1>6. Traversal'
  <2>1. /\ Partition(contact_relations_', Size, <<>>, {}, 1..Size)
        /\ \A i \in 1..Size : 0 < i
    BY <1>2, NothingVisited
  <2> QED  BY <1>0, <2>1 DEF Traversal, Size
<1>7. Untried'
  BY <1>0 DEF Untried
<1>8. Answered'
  <2>1. CASE pc' = "roots"
    BY <1>0, <2>1 DEF Answered
  <2>2. CASE pc' = "done"
    <3>1. \E c \in request.contacts_T :
            ~IsContactSatisfied(c, variable_evaluations_, contact_relations_', Size)
      BY <2>2 DEF BuildContacts
    <3>2. Solutions(request) = {}
      BY <1>0, <1>1, <3>1, ContactsAreNeeded DEF Size
    <3> QED  BY <1>0, <3>2 DEF Answered, NoSolution
  <2> QED  BY <1>0, <2>1, <2>2
<1> QED  BY <1>3, <1>4, <1>5, <1>6, <1>7, <1>8 DEF IInv

\* What holds while components are found.
LEMMA Traversing ==
  ASSUME IInv, pc \in {"roots", "visits", "components"}
  PROVE  /\ ~created /\ request \in Request /\ Size \in Nat
         /\ AllValid(request, points_) /\ points_ \in Seq(SUBSET Used)
         /\ variable_evaluations_ = VariableEvaluations(points_)
         /\ AllContacts(request, points_, contact_relations_)
         /\ Symmetric(contact_relations_, Size)
         /\ connected_components \in Seq(SUBSET (1..Size))
<1>1. /\ ~created /\ request \in Request /\ points_ \in Seq(SUBSET Used)
      /\ connected_components \in Seq(SUBSET (1..Size))
  BY DEF IInv, Typed, Answered
<1>2. /\ AllValid(request, points_)
      /\ variable_evaluations_ = VariableEvaluations(points_)
      /\ AllContacts(request, points_, contact_relations_)
  BY DEF IInv, Biggest, IsSearching
<1>3. Symmetric(contact_relations_, Size)
  BY <1>2, AllContactsAreSymmetric DEF AllValid, Size
<1>4. Size \in Nat
  BY <1>1 DEF Size
<1> QED  BY <1>1, <1>2, <1>3, <1>4

\* A step among these stages keeps what is not about the traversal.
LEMMA BiggestKept ==
  ASSUME IInv, pc \in {"roots", "visits", "components"},
         pc' \in {"roots", "visits", "components"},
         UNCHANGED <<request, evaluation, points_, variable_evaluations_, contact_relations_, created>>
  PROVE  Untouched' /\ Biggest' /\ Answered'
BY DEF IInv, Untouched, Biggest, Answered, IsSearching

LEMMA NextRootKeeps == IInv /\ NextRoot => IInv'
<1> SUFFICES ASSUME IInv, NextRoot PROVE IInv'
  OBVIOUS
<1>0. /\ pc = "roots" /\ ~created
      /\ UNCHANGED <<request, evaluation, points_, variable_evaluations_, contact_relations_, created>>
      /\ Size \in Nat
      /\ AllValid(request, points_) /\ request \in Request
      /\ AllContacts(request, points_, contact_relations_)
      /\ connected_components \in Seq(SUBSET (1..Size))
  BY Traversing DEF NextRoot, modelVars
<1>1. /\ Partition(contact_relations_, Size, connected_components, {}, not_visited_points)
      /\ \A i \in not_visited_points : root_point_id < i
      /\ not_visited_points \subseteq 1..Size
  BY <1>0 DEF IInv, Traversal, Partition
<1> DEFINE roots == {i \in not_visited_points : i > root_point_id}
<1>2. roots = not_visited_points
  BY <1>0, <1>1 DEF IInv, Typed
<1>3. CASE roots # {}
  <2> DEFINE root == CHOOSE i \in roots : \A j \in roots : i <= j
  <2>1. root \in roots /\ \A j \in roots : root <= j
    <3>0. \A i \in roots : i \in 1..Size
      BY <1>1
    <3> HIDE DEF roots
    <3>1. roots \subseteq Nat
      BY <1>0, <3>0
    <3>2. \E i \in roots : \A j \in roots : i <= j
      BY <1>3, <3>1, LeastElement
    <3> QED  BY <3>2
  <2>2. /\ root_point_id' = root /\ q' = {root} /\ connected_component' = {} /\ pc' = "visits"
        /\ UNCHANGED <<not_visited_points, connected_components>>
    BY <1>3 DEF NextRoot
  <2> HIDE DEF root, roots
  <2>3. root \in not_visited_points /\ root \in 1..Size /\ \A i \in not_visited_points : root <= i
    BY <1>1, <1>2, <2>1
  <2>4. Visiting(contact_relations_, Size, {}, not_visited_points, {root}, root)
    <3>1. IsLinked(contact_relations_, {})
      BY DEF IsLinked
    <3> QED  BY <2>3, <3>1 DEF Visiting
  <2>5. Typed'
    BY <1>0, <1>1, <2>2, <2>3 DEF IInv, Typed, Used, Size
  <2>6. Traversal'
    BY <1>0, <1>1, <2>2, <2>4 DEF Traversal, Size
  <2>7. Untried'
    BY <2>2 DEF Untried
  <2> QED  BY <1>0, <2>2, <2>5, <2>6, <2>7, BiggestKept DEF IInv
<1>4. CASE roots = {}
  <2>1. pc' = "components" /\ UNCHANGED traversalVars
    BY <1>4 DEF NextRoot
  <2> HIDE DEF roots
  <2>2. \A k \in 1..Len(connected_components) :
          IsFinished(contact_relations_, Size, connected_components[k])
    BY <1>1 DEF Partition
  <2>3. \A i \in 1..Size : \E k \in 1..Len(connected_components) : i \in connected_components[k]
    BY <1>1, <1>2, <1>4 DEF Partition
  <2>4. Hopeful(request, points_, contact_relations_, connected_components)
    BY <1>0, <2>2, <2>3, SolutionIsInComponent DEF Hopeful, Size
  <2>5. Typed'
    BY <1>0, <2>1 DEF IInv, Typed, Used, Size, traversalVars
  <2>6. Traversal'
    BY <2>1 DEF Traversal
  <2>7. Untried'
    BY <1>0, <2>1, <2>4 DEF Untried, traversalVars
  <2> QED  BY <1>0, <2>1, <2>5, <2>6, <2>7, BiggestKept DEF IInv
<1> QED  BY <1>3, <1>4

LEMMA VisitKeeps == IInv /\ Visit => IInv'
<1> SUFFICES ASSUME IInv, Visit PROVE IInv'
  OBVIOUS
<1>0. /\ pc = "visits" /\ pc' = "visits" /\ ~created
      /\ UNCHANGED <<request, evaluation, points_, variable_evaluations_, contact_relations_,
                     root_point_id, connected_components, created>>
      /\ Size \in Nat /\ Symmetric(contact_relations_, Size)
  BY Traversing DEF Visit, modelVars
<1>1. /\ Partition(contact_relations_, Size, connected_components, connected_component,
                   not_visited_points)
      /\ Visiting(contact_relations_, Size, connected_component, not_visited_points, q,
                  root_point_id)
  BY <1>0 DEF IInv, Traversal
<1>2. not_visited_points \subseteq 1..Size /\ connected_component \subseteq 1..Size /\ q \subseteq 1..Size
  BY <1>0 DEF IInv, Typed
<1>3. PICK point \in q :
       \/ /\ point \in not_visited_points
          /\ Reached(point) # {}
          /\ q' = (q \ {point}) \cup Reached(point)
          /\ connected_component' = connected_component \cup {point}
          /\ not_visited_points' = not_visited_points \ {point}
       \/ /\ point \notin not_visited_points \/ Reached(point) = {}
          /\ q' = q \ {point}
          /\ UNCHANGED <<connected_component, not_visited_points>>
  BY DEF Visit
<1>4. /\ Reached(point) \subseteq contact_relations_[point] \cap not_visited_points
      /\ (contact_relations_[point] \cap not_visited_points) \ {point} \subseteq Reached(point)
  BY DEF Reached
<1>5. point \in not_visited_points => Reached(point) # {}
  <2> SUFFICES ASSUME point \in not_visited_points, Reached(point) = {} PROVE FALSE
    OBVIOUS
  <2>1. point \in contact_relations_[point]
    BY <1>0, <1>2 DEF Symmetric
  <2>2. contact_relations_[point] \cap not_visited_points = {point}
    BY <1>4, <2>1
  <2>3. point <= point
    BY <1>0, <1>2
  <2>4. \A i \in contact_relations_[point] \cap not_visited_points : point <= i
    BY <2>2, <2>3
  <2> QED  BY <2>1, <2>4 DEF Reached
<1>6. /\ Partition(contact_relations_, Size, connected_components, connected_component',
                   not_visited_points')
      /\ Visiting(contact_relations_, Size, connected_component', not_visited_points', q',
                  root_point_id)
  <2>1. CASE point \in not_visited_points
    <3>1. /\ q' = (q \ {point}) \cup Reached(point)
          /\ connected_component' = connected_component \cup {point}
          /\ not_visited_points' = not_visited_points \ {point}
      BY <1>3, <1>5, <2>1
    <3>2. /\ Partition(contact_relations_, Size, connected_components,
                       connected_component \cup {point}, not_visited_points \ {point})
          /\ Visiting(contact_relations_, Size, connected_component \cup {point},
                      not_visited_points \ {point}, (q \ {point}) \cup Reached(point), root_point_id)
      BY <1>0, <1>1, <1>4, <2>1, PointIsVisited
    <3> QED  BY <3>1, <3>2
  <2>2. CASE point \notin not_visited_points
    BY <1>0, <1>1, <1>3, <2>2, PointIsPassedOver
  <2> QED  BY <2>1, <2>2
<1>7. not_visited_points' \cup q' \cup connected_component' \subseteq 1..Size
  BY <1>2, <1>3, <1>4
<1>8. Typed'
  BY <1>0, <1>7 DEF IInv, Typed, Used, Size
<1>9. Traversal' /\ Untried'
  BY <1>0, <1>6 DEF Traversal, Untried, Size
<1> QED  BY <1>0, <1>8, <1>9, BiggestKept DEF IInv

LEMMA AddComponentKeeps == IInv /\ AddComponent => IInv'
<1> SUFFICES ASSUME IInv, AddComponent PROVE IInv'
  OBVIOUS
<1>0. /\ pc = "visits" /\ pc' = "roots" /\ ~created /\ q = {}
      /\ connected_components' = Append(connected_components, connected_component)
      /\ UNCHANGED <<request, evaluation, points_, variable_evaluations_, contact_relations_,
                     root_point_id, not_visited_points, q, connected_component, created>>
      /\ Size \in Nat /\ connected_components \in Seq(SUBSET (1..Size))
  BY Traversing DEF AddComponent, modelVars
<1>1. /\ Partition(contact_relations_, Size, connected_components, connected_component,
                   not_visited_points)
      /\ Visiting(contact_relations_, Size, connected_component, not_visited_points, {},
                  root_point_id)
  BY <1>0 DEF IInv, Traversal
<1>2. /\ Partition(contact_relations_, Size, connected_components', {}, not_visited_points)
      /\ \A i \in not_visited_points : root_point_id < i
  BY <1>0, <1>1, ComponentIsAdded
<1>3. connected_components' \in Seq(SUBSET (1..Size))
  <2>1. connected_component \in SUBSET (1..Size)
    BY <1>1 DEF Partition
  <2> QED  BY <1>0, <2>1
<1>4. Typed'
  BY <1>0, <1>3 DEF IInv, Typed, Used, Size
<1>5. Traversal' /\ Untried'
  BY <1>0, <1>2 DEF Traversal, Untried, Size
<1> QED  BY <1>0, <1>4, <1>5, BiggestKept DEF IInv

LEMMA HopeLeft ==
  ASSUME NEW r, NEW points, NEW contacts, NEW S, NEW left \in Seq(S), left # <<>>,
         Hopeful(r, points, contacts, left), ~Accepts(r, points, contacts, Head(left))
  PROVE  Hopeful(r, points, contacts, Tail(left)) /\ Tail(left) \in Seq(S)
<1> DEFINE rest == Tail(left)
<1>1. /\ rest \in Seq(S) /\ Len(left) \in Nat /\ Len(rest) = Len(left) - 1
      /\ \A k \in 1..Len(rest) : k + 1 \in 1..Len(left) /\ rest[k] = left[k + 1]
      /\ Head(left) = left[1]
  OBVIOUS
<1> HIDE DEF rest
<1>2. \A k \in 1..Len(left) : k = 1 \/ (k - 1 \in 1..Len(rest) /\ rest[k - 1] = left[k])
  BY <1>1
<1>3. \A k \in 1..Len(rest) : IsFinished(contacts, Len(points), rest[k])
  BY <1>1 DEF Hopeful
<1>4. ASSUME NEW s \in Solutions(r), IsConnected(s.points, s.contacts)
      PROVE  \E k \in 1..Len(rest) : Accepts(r, points, contacts, rest[k])
  <2>1. PICK k \in 1..Len(left) : Accepts(r, points, contacts, left[k])
    BY <1>4 DEF Hopeful
  <2>2. k # 1
    BY <1>1, <2>1
  <2>3. k - 1 \in 1..Len(rest) /\ rest[k - 1] = left[k]
    BY <1>2, <2>2
  <2> QED  BY <2>1, <2>3
<1> QED  BY <1>1, <1>3, <1>4 DEF Hopeful, rest

LEMMA TryComponentKeeps == IInv /\ TryComponent => IInv'
<1> SUFFICES ASSUME IInv, TryComponent PROVE IInv'
  OBVIOUS
<1>0. /\ pc = "components" /\ connected_components # <<>>
      /\ connected_components' = Tail(connected_components)
      /\ UNCHANGED <<request, evaluation, not_visited_points, root_point_id, q, connected_component>>
      /\ ~created /\ request \in Request
      /\ AllValid(request, points_) /\ GoodPoints(request, points_)
      /\ AllContacts(request, points_, contact_relations_)
      /\ variable_evaluations_ = VariableEvaluations(points_)
      /\ connected_components \in Seq(SUBSET (1..Size))
      /\ Hopeful(request, points_, contact_relations_, connected_components)
  BY Traversing DEF TryComponent, IInv, Untried, AllValid
<1> DEFINE component == Head(connected_components)
<1>1. IsFinished(contact_relations_, Len(points_), component)
  <2>1. 1 \in 1..Len(connected_components) /\ component = connected_components[1]
    BY <1>0
  <2> QED  BY <1>0, <2>1 DEF Hopeful
<1>2. IsModel(component) <=> Accepts(request, points_, contact_relations_, component)
  BY <1>0 DEF IsModel, Accepts, Size
<1>3. \/ /\ IsModel(component)
         /\ points_' = ReducedPoints(component)
         /\ contact_relations_' = ReducedContacts(component)
         /\ variable_evaluations_' = VariableEvaluations(points_')
         /\ created' = TRUE
         /\ pc' = "done"
      \/ ~IsModel(component) /\ UNCHANGED <<pc, modelVars, created>>
  BY DEF TryComponent
<1> HIDE DEF component
<1>4. CASE /\ IsModel(component)
           /\ points_' = ReducedPoints(component)
           /\ contact_relations_' = ReducedContacts(component)
           /\ variable_evaluations_' = VariableEvaluations(points_')
           /\ created' = TRUE
           /\ pc' = "done"
  <2>1. IsPart(points_', contact_relations_', points_, contact_relations_, component)
    BY <1>4 DEF IsPart, PartOf, ContactsOfPart, ReducedPoints, ReducedContacts
  <2>2. GoodModel(request, points_', contact_relations_')
    BY <1>0, <1>1, <1>2, <1>4, <2>1, ComponentIsModel
  <2>3. /\ points_' \in Seq(SUBSET Used')
        /\ contact_relations_' \in [1..Size' -> SUBSET (1..Size')]
        /\ variable_evaluations_' \in [Variable -> SUBSET (1..Size')]
    BY <1>0, <1>4, <2>2, VariableEvaluationsType DEF GoodModel, GoodPoints, AllContacts, Used, Size
  <2>4. Typed'
    BY <1>0, <1>4, <2>3 DEF IInv, Typed, Used
  <2>5. Untouched' /\ Biggest' /\ Traversal' /\ Untried'
    BY <1>4 DEF Untouched, Biggest, IsSearching, Traversal, Untried
  <2>6. Answered'
    BY <1>0, <1>4, <2>2 DEF Answered
  <2> QED  BY <2>4, <2>5, <2>6 DEF IInv
<1>5. CASE ~IsModel(component) /\ UNCHANGED <<pc, modelVars, created>>
  <2>1. /\ Hopeful(request, points_, contact_relations_, connected_components')
        /\ connected_components' \in Seq(SUBSET (1..Size))
    BY <1>0, <1>2, <1>5, HopeLeft DEF component
  <2>2. Typed'
    BY <1>0, <1>5, <2>1 DEF IInv, Typed, Used, Size, modelVars
  <2>3. Untouched' /\ Biggest' /\ Answered'
    BY <1>0, <1>5, BiggestKept DEF modelVars
  <2>4. Traversal' /\ Untried'
    BY <1>0, <1>5, <2>1 DEF Traversal, Untried, modelVars
  <2> QED  BY <2>2, <2>3, <2>4 DEF IInv
<1> QED  BY <1>3, <1>4, <1>5

LEMMA NoComponentLeftKeeps == IInv /\ NoComponentLeft => IInv'
<1> SUFFICES ASSUME IInv, NoComponentLeft PROVE IInv'
  OBVIOUS
<1>0. /\ pc = "components" /\ pc' = "done" /\ connected_components = <<>> /\ ~created
      /\ UNCHANGED <<request, evaluation, modelVars, traversalVars, created>>
      /\ Hopeful(request, points_, contact_relations_, connected_components)
  BY Traversing DEF NoComponentLeft, GiveUp, IInv, Untried
<1>1. \A s \in Solutions(request) : ~IsConnected(s.points, s.contacts)
  BY <1>0 DEF Hopeful
<1>2. Typed'
  BY <1>0 DEF IInv, Typed, Used, Size, modelVars, traversalVars
<1>3. Untouched' /\ Biggest' /\ Traversal' /\ Untried'
  BY <1>0 DEF Untouched, Biggest, IsSearching, Traversal, Untried
<1>4. Answered'
  BY <1>0, <1>1 DEF Answered, NoSolution
<1> QED  BY <1>2, <1>3, <1>4 DEF IInv

LEMMA TerminateKeeps == IInv /\ Terminate => IInv'
<1> SUFFICES ASSUME IInv, Terminate PROVE IInv'
  OBVIOUS
<1>0. /\ pc \in {"existence", "contacts", "roots", "components"} /\ pc' = "terminated" /\ ~created
      /\ UNCHANGED <<request, evaluation, points_, contact_relations_, traversalVars, created>>
      /\ variable_evaluations_' = IF pc = "existence" THEN VariableEvaluations(points_)
                                  ELSE variable_evaluations_
  BY DEF Terminate, IInv, Answered
<1>1. variable_evaluations_' \in [Variable -> SUBSET (1..Size)]
  <2>1. pc = "existence" => GoodPoints(request, points_)
    BY DEF IInv, Biggest, AllValid
  <2> QED  BY <1>0, <2>1, VariableEvaluationsType DEF IInv, Typed, Size
<1>2. Typed'
  BY <1>0, <1>1 DEF IInv, Typed, Used, Size, traversalVars
<1>3. Untouched' /\ Biggest' /\ Traversal' /\ Untried' /\ Answered'
  BY <1>0 DEF Untouched, Biggest, IsSearching, Traversal, Untried, Answered
<1> QED  BY <1>2, <1>3 DEF IInv

LEMMA StutteringKeeps == IInv /\ UNCHANGED vars => IInv'
<1> SUFFICES ASSUME IInv, UNCHANGED vars PROVE IInv'
  OBVIOUS
<1>0. UNCHANGED <<pc, request, evaluation, points_, variable_evaluations_, contact_relations_,
                  not_visited_points, root_point_id, q, connected_component,
                  connected_components, created>>
  BY DEF vars, modelVars, traversalVars
<1>1. Typed' /\ Untouched' /\ Biggest'
  BY <1>0 DEF IInv, Typed, Untouched, Biggest, IsSearching, Used, Size
<1>2. Traversal' /\ Untried' /\ Answered'
  BY <1>0 DEF IInv, Traversal, Untried, Answered, Size
<1> QED  BY <1>1, <1>2 DEF IInv

LEMMA Invariant == Spec => []IInv
<1>1. IInv /\ [Next]_vars => IInv'
  BY StartKeeps, TestEvaluationKeeps, CheckExistenceKeeps, BuildContactsKeeps, NextRootKeeps,
     VisitKeeps, AddComponentKeeps, TryComponentKeeps, NoComponentLeftKeeps, TerminateKeeps,
     StutteringKeeps DEF Next
<1> QED  BY InvariantInit, <1>1, PTL DEF Spec

-----------------------------------------------------------------------------
(* The properties.                                                         *)

(***************************************************************************)
(* The variables of create have their types: every id of a point is below  *)
(* the number of points, in the contacts, the queue and the components.    *)
(***************************************************************************)
THEOREM TypeCorrect == Spec => []TypeOK
<1>1. IInv => TypeOK
  <2> SUFFICES ASSUME IInv PROVE TypeOK
    OBVIOUS
  <2>1. \A i \in DOMAIN points_ : points_[i] \in SUBSET Used
    BY DEF IInv, Typed
  <2>2. ~created => \A k \in DOMAIN connected_components : connected_components[k] \subseteq 1..Size
    BY DEF IInv, Typed
  <2> QED  BY <2>1, <2>2 DEF IInv, Typed, TypeOK
<1> QED  BY <1>1, Invariant, PTL

(***************************************************************************)
(* The binary counter of construct_all_valid_points meets every evaluation *)
(* once: the biggest model has each one that breaks no negative atom by    *)
(* itself, and none twice.                                                 *)
(***************************************************************************)
THEOREM PointsCorrect == Spec => []PointsAreAllValid
<1>1. IInv => PointsAreAllValid
  <2> SUFFICES ASSUME IInv, IsSearching
               PROVE  /\ {points_[i] : i \in 1..Size} = {e \in SUBSET Used : IsValidPoint(request, e)}
                      /\ \A i, j \in 1..Size : points_[i] = points_[j] => i = j
    BY DEF PointsAreAllValid
  <2>1. AllValid(request, points_)
    BY DEF IInv, Biggest
  <2>2. \A i \in 1..Size : points_[i] \in SUBSET Used /\ IsValidPoint(request, points_[i])
    BY <2>1 DEF AllValid, GoodPoints, Used, Size
  <2>3. \A e \in SUBSET Used : IsValidPoint(request, e) => \E i \in 1..Size : points_[i] = e
    BY <2>1 DEF AllValid, Has, Used, Size
  <2>4. \A i, j \in 1..Size : points_[i] = points_[j] => i = j
    BY <2>1 DEF AllValid, GoodPoints, Size
  <2> QED  BY <2>2, <2>3, <2>4
<1> QED  BY <1>1, Invariant, PTL

LEMMA LinkedIsConnected ==
  ASSUME NEW R, NEW C, IsLinked(R, C)
  PROVE  IsConnected(C, {x \in C \X C : x[2] \in R[x[1]]})
<1> SUFFICES ASSUME NEW P \in (SUBSET C) \ {{}, C}
             PROVE  \E a \in P, b \in C \ P : <<a, b>> \in {x \in C \X C : x[2] \in R[x[1]]}
  BY DEF IsConnected
<1>1. PICK i \in P, j \in C \ P : j \in R[i]
  BY DEF IsLinked
<1> QED  BY <1>1

\* Sets that are different as elements of a sequence are as many as it is long.
LEMMA DistinctElements ==
  ASSUME NEW S, NEW s \in Seq(S), \A k, l \in 1..Len(s) : s[k] = s[l] => k = l,
         NEW T, T = {s[k] : k \in DOMAIN s}
  PROVE  Cardinality(T) = Len(s)
<1>1. Len(s) \in Nat /\ DOMAIN s = 1..Len(s)
  OBVIOUS
<1>2. IsFiniteSet(1..Len(s)) /\ Cardinality(1..Len(s)) = Len(s)
  <2>1. \A n \in Nat : IsFiniteSet(1..n) /\ Cardinality(1..n) = n
    BY FS_Interval
  <2> QED  BY <1>1, <2>1
<1> DEFINE f == [k \in 1..Len(s) |-> s[k]]
<1>3. f \in [1..Len(s) -> T] /\ \A k, l \in 1..Len(s) : f[k] = f[l] => k = l
  BY <1>1
<1>4. \A t \in T : \E k \in 1..Len(s) : f[k] = t
  BY <1>1
<1> HIDE DEF f
<1>5. f \in Surjection(1..Len(s), T)
  BY <1>3, <1>4 DEF Surjection
<1>6. f \in Injection(1..Len(s), T)
  BY <1>3 DEF Injection, IsInjective
<1>7. Cardinality(T) = Cardinality(1..Len(s))
  BY <1>2, <1>5, <1>6, FS_Surjection
<1> QED  BY <1>2, <1>7

(***************************************************************************)
(* While components are found, the points fall into those found, the       *)
(* current one and those not visited, no contact leaves a finished         *)
(* component, and each hangs together, in whatever order points are taken  *)
(* out of the queue.                                                       *)
(***************************************************************************)
THEOREM ComponentsCorrect == Spec => []ComponentsAreSeparate
<1>1. IInv => ComponentsAreSeparate
  <2> SUFFICES ASSUME IInv, pc \in {"roots", "visits"}
               PROVE  ComponentsAreSeparate
    BY DEF ComponentsAreSeparate
  <2> DEFINE found == {connected_components[k] : k \in DOMAIN connected_components}
             current == IF pc = "visits" THEN connected_component ELSE {}
             Contacts(P) == {x \in P \X P : x[2] \in contact_relations_[x[1]]}
  <2>1. Partition(contact_relations_, Size, connected_components, current, not_visited_points)
    BY DEF IInv, Traversal
  <2>2. /\ connected_components \in Seq(SUBSET (1..Size))
        /\ DOMAIN connected_components = 1..Len(connected_components)
    BY Traversing
  <2> HIDE DEF current
  <2>3. \A C \in found : \E k \in 1..Len(connected_components) : C = connected_components[k]
    BY <2>2
  <2>4. \A k \in 1..Len(connected_components) : connected_components[k] \in found
    BY <2>2
  <2>5. \A C \in found : /\ IsFinished(contact_relations_, Size, C)
                         /\ C \cap current = {} /\ C \cap not_visited_points = {}
    BY <2>1, <2>3 DEF Partition
  <2>6. (UNION found) \cup current = 1..Size \ not_visited_points
    <3>1. \A C \in found : C \subseteq 1..Size /\ C \cap not_visited_points = {}
      BY <2>5 DEF IsFinished
    <3>2. \A i \in 1..Size \ not_visited_points : i \in current \/ \E C \in found : i \in C
      BY <2>1, <2>4 DEF Partition
    <3>3. current \subseteq 1..Size \ not_visited_points
      BY <2>1 DEF Partition
    <3> HIDE DEF found
    <3>4. \A i \in UNION found : i \in 1..Size \ not_visited_points
      BY <3>1
    <3>5. \A i \in 1..Size \ not_visited_points : i \in (UNION found) \cup current
      BY <3>2
    <3> QED  BY <3>3, <3>4, <3>5
  <2>7. Cardinality(found) = Len(connected_components)
    <3>1. \A k, l \in 1..Len(connected_components) :
            connected_components[k] = connected_components[l] => k = l
      BY <2>1 DEF Partition, IsFinished
    <3> QED  BY <2>2, <3>1, DistinctElements
  <2>8. ASSUME NEW C \in found, NEW D \in found PROVE C = D \/ C \cap D = {}
    BY <2>1, <2>3, <2>8 DEF Partition
  <2>9. ASSUME NEW C \in found
        PROVE  /\ C # {} /\ C \cap current = {}
               /\ \A i \in C : contact_relations_[i] \subseteq C
               /\ IsConnected(C, Contacts(C))
    BY <2>5, <2>9, LinkedIsConnected DEF IsFinished
  <2> HIDE DEF found, Contacts
  <2>10. \A C \in found :
           /\ C # {} /\ C \cap current = {}
           /\ \A D \in found : C = D \/ C \cap D = {}
           /\ \A i \in C : contact_relations_[i] \subseteq C
           /\ IsConnected(C, Contacts(C))
    BY <2>8, <2>9
  <2> QED  BY <2>6, <2>7, <2>10 DEF ComponentsAreSeparate, found, current, Contacts
<1> QED  BY <1>1, Invariant, PTL

(***************************************************************************)
(* A model that create returns is a connected structure that breaks no     *)
(* negative atom, and it satisfies the positive ones if no term of theirs  *)
(* holds where all variables are false.                                    *)
(***************************************************************************)
THEOREM ModelCorrect == Spec => []ModelIsConnected
<1>1. IInv => ModelIsConnected
  <2> SUFFICES ASSUME IInv, created
               PROVE  /\ Structure \in Structures(Used)
                      /\ IsConnected(Structure.points, Structure.contacts)
                      /\ NegativeAtomsHold(request, variable_evaluations_, contact_relations_, Size)
                      /\ AreSafeTerms(request) => Satisfies(Structure, request)
    BY DEF ModelIsConnected
  <2> DEFINE P == PointsOfModel(points_)
             C == ContactsOfModel(points_, contact_relations_)
  <2>1. /\ request \in Request /\ variable_evaluations_ = VariableEvaluations(points_)
        /\ GoodModel(request, points_, contact_relations_)
    BY DEF IInv, Typed, Answered
  <2>2. /\ GoodPoints(request, points_) /\ points_ # <<>>
        /\ AllContacts(request, points_, contact_relations_)
        /\ IsConnected(P, C)
    BY <2>1 DEF GoodModel
  <2>3. points_ \in Seq(SUBSET Used) /\ points_ \in Seq(SUBSET Variable)
    BY <2>1, <2>2, UsedIsFinite DEF GoodPoints, Used
  <2>4. Structure = [points |-> P, contacts |-> C]
    BY <2>1, <2>3, StructureIsPointwise DEF Structure, Size
  <2>5. /\ \A i \in 1..Len(points_) : i \in contact_relations_[i]
        /\ \A i, j \in 1..Len(points_) : j \in contact_relations_[i] => i \in contact_relations_[j]
    BY <2>2, ContactsAreSymmetric
  <2>6. /\ \A i, j \in 1..Len(points_) : points_[i] = points_[j] => i = j
        /\ \A i \in 1..Len(points_) : IsValidPoint(request, points_[i])
    BY <2>2 DEF GoodPoints
  <2>7. \A i, j \in 1..Len(points_) : j \in contact_relations_[i] =>
          IsContactsFConnectivityRuleSatisfied(request, points_[i], points_[j])
    BY <2>2 DEF AllContacts
  <2> HIDE DEF P, C
  <2>8. Structure \in Structures(Used)
    BY <2>2, <2>3, <2>4, <2>5, <2>6, ModelIsStructure DEF P, C
  <2>9. IsConnected(Structure.points, Structure.contacts)
    BY <2>2, <2>4
  <2>10. NegativeAtomsHold(request, variable_evaluations_, contact_relations_, Size)
    BY <2>1, <2>3, <2>6, <2>7, NegativeAtomsAreLocal DEF Size
  <2>11. ASSUME AreSafeTerms(request) PROVE Satisfies(Structure, request)
    <3>1. /\ \A z \in request.zero_terms_F : \E i \in 1..Len(points_) : points_[i] \in z
          /\ \A c \in request.contacts_T : \E i, j \in 1..Len(points_) :
               j \in contact_relations_[i] /\ points_[i] \in c[1] /\ points_[j] \in c[2]
      BY <2>1, <2>11 DEF GoodModel
    <3> QED  BY <2>1, <2>4, <2>6, <2>7, <3>1, ModelSatisfies DEF P, C
  <2> QED  BY <2>8, <2>9, <2>10, <2>11
<1> QED  BY <1>1, Invariant, PTL

(***************************************************************************)
(* create returns false only if there is no connected structure in which   *)
(* the atoms hold, or if the path uses too many variables: to look at the  *)
(* components of the biggest model is enough.                              *)
(***************************************************************************)
THEOREM Completeness == Spec => []AnswerIsComplete
<1>1. IInv => AnswerIsComplete
  BY DEF IInv, Answered, NoSolution, AnswerIsComplete, Used
<1> QED  BY <1>1, Invariant, PTL
==============================================================================
