--------------------------- MODULE FormulaMgrProofs ---------------------------
(***************************************************************************)
(* What FormulaMgr promises, for all texts: the refiners keep the form and *)
(* the meaning of an AST, and what they leave is what the flags ask for.   *)
(* What a visitor does to a tree is shown by a smallest tree for which it  *)
(* fails.                                                                  *)
(***************************************************************************)
EXTENDS FormulaMgr, WellFoundedInduction, TLAPS

LEMMA SmallestNumber ==
  ASSUME NEW S, S \subseteq Nat, S # {}
  PROVE  \E m \in S : \A n \in S : m <= n
<1>1. PICK m \in S : \A n \in S : <<n, m>> \notin OpToRel(<, Nat)
  BY NatLessThanWellFounded, WFMin, Zenon
<1>2. \A n \in S : ~(n < m)
  BY <1>1 DEF OpToRel
<1> QED  BY <1>2

-----------------------------------------------------------------------------
(* The trees are defined.                                                  *)

Level(below) == Leaf \cup (Unary \X below) \cup (Binary \X below \X below)

Below(f, d) == IF d = 0 THEN {} ELSE f[d - 1]

AreTrees(S, f) == f = [d \in S |-> Level(Below(f, d))]

LEMMA TreesOfLevel ==
  ASSUME NEW n \in Nat, NEW f, AreTrees(0..n, f), NEW d \in Nat, d <= n
  PROVE  f[d] = Level(Below(f, d))
<1>1. d \in 0..n
  OBVIOUS
<1> QED  BY <1>1 DEF AreTrees

LEMMA TreesAgree ==
  ASSUME NEW m \in Nat, NEW f, AreTrees(0..m, f), NEW n \in Nat, NEW g, AreTrees(0..n, g),
         NEW d \in Nat, d <= m, d <= n
  PROVE  f[d] = g[d]
<1> SUFFICES ASSUME f[d] # g[d] PROVE FALSE
  OBVIOUS
<1> DEFINE B == {k \in 0..d : f[k] # g[k]}
<1>1. PICK k \in B : \A j \in B : k <= j
  <2>1. B \subseteq Nat /\ d \in B
    OBVIOUS
  <2> HIDE DEF B
  <2> QED  BY <2>1, SmallestNumber
<1>2. k \in Nat /\ k <= m /\ k <= n
  BY <1>1
<1>3. Below(f, k) = Below(g, k)
  <2>1. k # 0 => k - 1 \in 0..d /\ k - 1 \notin B
    BY <1>1, <1>2
  <2> QED  BY <2>1 DEF Below
<1>4. f[k] = Level(Below(f, k)) /\ g[k] = Level(Below(g, k))
  BY <1>2, TreesOfLevel
<1> QED  BY <1>1, <1>3, <1>4

UpTo(n) == CHOOSE g : AreTrees(0..n, g)

LEMMA TreesUpTo ==
  ASSUME NEW n \in Nat
  PROVE  AreTrees(0..n, UpTo(n))
<1> SUFFICES ASSUME ~ \E g : AreTrees(0..n, g) PROVE FALSE
  BY DEF UpTo
<1> DEFINE B == {k \in Nat : ~ \E g : AreTrees(0..k, g)}
<1>1. PICK k \in B : \A j \in B : k <= j
  <2>1. B \subseteq Nat /\ n \in B
    OBVIOUS
  <2> HIDE DEF B
  <2> QED  BY <2>1, SmallestNumber
<1>2. k \in Nat /\ ~ \E g : AreTrees(0..k, g)
  BY <1>1
<1>3. PICK f : k # 0 => AreTrees(0..k-1, f)
  <2>1. k # 0 => k - 1 \in Nat /\ k - 1 \notin B
    BY <1>1, <1>2
  <2> QED  BY <2>1
<1> DEFINE g == [d \in 0..k |-> IF d = k THEN Level(Below(f, k)) ELSE f[d]]
<1>4. \A d \in 0..k : g[d] = Level(Below(g, d))
  <2> SUFFICES ASSUME NEW d \in 0..k PROVE g[d] = Level(Below(g, d))
    OBVIOUS
  <2>1. Below(g, d) = Below(f, d)
    <3>1. d # 0 => d - 1 \in 0..k /\ d - 1 # k
      BY <1>2
    <3>2. d # 0 => g[d - 1] = f[d - 1]
      BY <3>1
    <3> HIDE DEF g
    <3> QED  BY <3>2 DEF Below
  <2>2. CASE d = k
    <3>1. g[k] = Level(Below(f, k))
      BY <1>2
    <3> QED  BY <2>1, <2>2, <3>1
  <2>3. CASE d # k
    <3>1. k # 0 /\ k - 1 \in Nat /\ d \in Nat /\ d <= k - 1
      BY <1>2, <2>3
    <3>2. f[d] = Level(Below(f, d))
      BY <1>3, <3>1, TreesOfLevel
    <3>3. g[d] = f[d]
      BY <2>3
    <3> QED  BY <2>1, <3>2, <3>3
  <2> QED  BY <2>2, <2>3
<1>5. AreTrees(0..k, g)
  <2> DEFINE h == [d \in 0..k |-> Level(Below(g, d))]
  <2>1. \A d \in 0..k : g[d] = h[d]
    <3> HIDE DEF g
    <3> QED  BY <1>4
  <2>2. g = h
    BY <2>1
  <2> HIDE DEF g
  <2> QED  BY <2>2 DEF AreTrees
<1> QED  BY <1>2, <1>5

LEMMA TreesExist == \A d \in Nat : Trees[d] = Level(Below(Trees, d))
<1> DEFINE f == [d \in Nat |-> UpTo(d)[d]]
<1>1. \A d \in Nat : f[d] = Level(Below(f, d))
  <2> SUFFICES ASSUME NEW d \in Nat PROVE f[d] = Level(Below(f, d))
    OBVIOUS
  <2>1. UpTo(d)[d] = Level(Below(UpTo(d), d))
    BY TreesUpTo, TreesOfLevel
  <2>2. Below(f, d) = Below(UpTo(d), d)
    <3>1. CASE d = 0
      BY <3>1 DEF Below
    <3>2. CASE d # 0
      <4>1. d - 1 \in Nat
        BY <3>2
      <4>2. AreTrees(0..d-1, UpTo(d - 1)) /\ AreTrees(0..d, UpTo(d))
        BY <4>1, TreesUpTo
      <4>3. UpTo(d)[d - 1] = UpTo(d - 1)[d - 1]
        BY <4>1, <4>2, TreesAgree
      <4>4. f[d - 1] = UpTo(d - 1)[d - 1]
        BY <4>1
      <4> HIDE DEF f
      <4> QED  BY <3>2, <4>3, <4>4 DEF Below
    <3> QED  BY <3>1, <3>2
  <2>3. f[d] = UpTo(d)[d]
    OBVIOUS
  <2> HIDE DEF f
  <2> QED  BY <2>1, <2>2, <2>3
<1>2. AreTrees(Nat, f)
  <2> DEFINE h == [d \in Nat |-> Level(Below(f, d))]
  <2>1. \A d \in Nat : f[d] = h[d]
    <3> HIDE DEF f
    <3> QED  BY <1>1
  <2>2. f = h
    BY <2>1
  <2> HIDE DEF f
  <2> QED  BY <2>2 DEF AreTrees
<1>3. Trees = CHOOSE g : AreTrees(Nat, g)
  BY DEF Trees, AreTrees, Level, Below
<1>4. AreTrees(Nat, Trees)
  BY <1>2, <1>3
<1> QED  BY <1>4 DEF AreTrees

-----------------------------------------------------------------------------
(* Trees and their nodes.                                                  *)

Tree == UNION {Trees[d] : d \in Nat}

\* The nodes with one and with two children.
Un(op, a) == <<op, a>>
Bin(op, a, b) == <<op, a, b>>

LEMMA UnParts ==
  ASSUME NEW op, NEW a
  PROVE  Un(op, a)[1] = op /\ Un(op, a)[2] = a
BY DEF Un

LEMMA BinParts ==
  ASSUME NEW op, NEW a, NEW b
  PROVE  Bin(op, a, b)[1] = op /\ Bin(op, a, b)[2] = a /\ Bin(op, a, b)[3] = b
BY DEF Bin

Constant == {"constant_true", "constant_false"}

LEMMA Operations ==
  /\ \A op \in Constant \cup {"variable"} : op \notin Unary /\ op \notin Binary
  /\ \A op \in Unary : op \notin Binary
BY DEF Constant, Unary, Binary, UnaryFormula, UnaryAtomic, UnaryTerm, BinaryFormula,
       BinaryAtomic, BinaryTerm

LEMMA LeafParts ==
  /\ True[1] = "constant_true" /\ False[1] = "constant_false"
  /\ \A n \in Leaf : \/ n = True \/ n = False
                     \/ n[1] = "variable" /\ n[2] \in Variable
BY DEF True, False, Leaf

LEMMA LeafOperation == \A n \in Leaf : n[1] \in Constant \cup {"variable"}
BY LeafParts DEF Constant

LEMMA ChildrenOfLeaf ==
  ASSUME NEW n \in Leaf
  PROVE  Children(n) = {} /\ \A f : OnChildren(f, n) = n
BY LeafOperation, Operations DEF Children, OnChildren

LEMMA ChildrenOfUn ==
  ASSUME NEW op \in Unary, NEW a
  PROVE  Children(Un(op, a)) = {a} /\ \A f : OnChildren(f, Un(op, a)) = Un(op, f[a])
<1>1. op \notin Binary
  BY Operations
<1> QED  BY <1>1, UnParts DEF Children, OnChildren, Un

LEMMA ChildrenOfBin ==
  ASSUME NEW op \in Binary, NEW a, NEW b
  PROVE  /\ Children(Bin(op, a, b)) = {a, b}
         /\ \A f : OnChildren(f, Bin(op, a, b)) = Bin(op, f[a], f[b])
BY BinParts DEF Children, OnChildren, Bin

LEMMA LevelCases ==
  ASSUME NEW d \in Nat, NEW n \in Trees[d]
  PROVE  \/ n \in Leaf
         \/ d # 0 /\ \E op \in Unary, a \in Trees[d - 1] : n = Un(op, a)
         \/ d # 0 /\ \E op \in Binary, a, b \in Trees[d - 1] : n = Bin(op, a, b)
<1>1. n \in Level(Below(Trees, d))
  BY TreesExist
<1>2. CASE n \in Leaf
  BY <1>2
<1>3. CASE n \in Unary \X Below(Trees, d)
  <2>1. PICK op \in Unary, a \in Below(Trees, d) : n = <<op, a>>
    BY <1>3
  <2> QED  BY <2>1 DEF Below, Un
<1>4. CASE n \in Binary \X Below(Trees, d) \X Below(Trees, d)
  <2>1. PICK op \in Binary, a \in Below(Trees, d), b \in Below(Trees, d) : n = <<op, a, b>>
    BY <1>4
  <2> QED  BY <2>1 DEF Below, Bin
<1> QED  BY <1>1, <1>2, <1>3, <1>4 DEF Level

LEMMA LevelHas ==
  ASSUME NEW d \in Nat
  PROVE  /\ Leaf \subseteq Trees[d]
         /\ \A op \in Unary, a \in Trees[d] : Un(op, a) \in Trees[d + 1]
         /\ \A op \in Binary, a, b \in Trees[d] : Bin(op, a, b) \in Trees[d + 1]
<1>1. Trees[d] = Level(Below(Trees, d))
  BY TreesExist
<1>2. Trees[d + 1] = Level(Below(Trees, d + 1)) /\ Below(Trees, d + 1) = Trees[d]
  BY TreesExist DEF Below
<1>3. Trees[d + 1] = Level(Trees[d])
  BY <1>2
<1> QED  BY <1>1, <1>3 DEF Level, Un, Bin

LEMMA LevelsGrowByOne ==
  ASSUME NEW d \in Nat
  PROVE  Trees[d] \subseteq Trees[d + 1]
<1> SUFFICES ASSUME ~(Trees[d] \subseteq Trees[d + 1]) PROVE FALSE
  OBVIOUS
<1> DEFINE B == {k \in Nat : ~(Trees[k] \subseteq Trees[k + 1])}
<1>1. PICK k \in B : \A j \in B : k <= j
  <2>1. B \subseteq Nat /\ d \in B
    OBVIOUS
  <2> HIDE DEF B
  <2> QED  BY <2>1, SmallestNumber
<1>2. k \in Nat /\ ~(Trees[k] \subseteq Trees[k + 1])
  BY <1>1
<1>3. k # 0 => k - 1 \in Nat /\ Trees[k - 1] \subseteq Trees[k]
  <2>1. k # 0 => k - 1 \in Nat /\ k - 1 \notin B /\ (k - 1) + 1 = k
    BY <1>1, <1>2
  <2> QED  BY <2>1
<1>4. PICK n \in Trees[k] : n \notin Trees[k + 1]
  BY <1>2
<1>5. CASE n \in Leaf
  BY <1>2, <1>4, <1>5, LevelHas
<1>6. ASSUME k # 0, NEW op \in Unary, NEW a \in Trees[k - 1], n = Un(op, a) PROVE FALSE
  BY <1>2, <1>3, <1>4, <1>6, LevelHas
<1>7. ASSUME k # 0, NEW op \in Binary, NEW a \in Trees[k - 1], NEW b \in Trees[k - 1],
             n = Bin(op, a, b)
      PROVE  FALSE
  BY <1>2, <1>3, <1>4, <1>7, LevelHas
<1> QED  BY <1>2, <1>4, <1>5, <1>6, <1>7, LevelCases

LEMMA LevelsGrow ==
  ASSUME NEW i \in Nat, NEW j \in Nat, i <= j
  PROVE  Trees[i] \subseteq Trees[j]
<1> SUFFICES ASSUME ~(Trees[i] \subseteq Trees[j]) PROVE FALSE
  OBVIOUS
<1> DEFINE B == {k \in Nat : i <= k /\ ~(Trees[i] \subseteq Trees[k])}
<1>1. PICK k \in B : \A l \in B : k <= l
  <2>1. B \subseteq Nat /\ j \in B
    OBVIOUS
  <2> HIDE DEF B
  <2> QED  BY <2>1, SmallestNumber
<1>2. k # i
  BY <1>1
<1>3. k - 1 \in Nat /\ k - 1 \notin B /\ i <= k - 1 /\ (k - 1) + 1 = k
  BY <1>1, <1>2
<1>4. Trees[i] \subseteq Trees[k - 1]
  BY <1>3
<1>5. Trees[k - 1] \subseteq Trees[k]
  BY <1>3, LevelsGrowByOne
<1> QED  BY <1>1, <1>4, <1>5

LEMMA TreeCases ==
  ASSUME NEW n \in Tree
  PROVE  \/ n \in Leaf
         \/ \E op \in Unary, a \in Tree : n = Un(op, a)
         \/ \E op \in Binary, a, b \in Tree : n = Bin(op, a, b)
<1>1. PICK d \in Nat : n \in Trees[d]
  BY DEF Tree
<1>2. d # 0 => d - 1 \in Nat /\ Trees[d - 1] \subseteq Tree
  BY DEF Tree
<1> QED  BY <1>1, <1>2, LevelCases

LEMMA TreeHas ==
  /\ Leaf \subseteq Tree /\ True \in Tree /\ False \in Tree
  /\ \A op \in Unary, a \in Tree : Un(op, a) \in Tree
  /\ \A op \in Binary, a, b \in Tree : Bin(op, a, b) \in Tree
<1>1. Leaf \subseteq Tree
  BY LevelHas DEF Tree
<1>2. True \in Leaf /\ False \in Leaf
  BY DEF Leaf
<1>3. ASSUME NEW op \in Unary, NEW a \in Tree PROVE Un(op, a) \in Tree
  <2>1. PICK d \in Nat : a \in Trees[d]
    BY DEF Tree
  <2>2. d + 1 \in Nat /\ Un(op, a) \in Trees[d + 1]
    BY <2>1, LevelHas
  <2> QED  BY <2>2 DEF Tree
<1>4. ASSUME NEW op \in Binary, NEW a \in Tree, NEW b \in Tree PROVE Bin(op, a, b) \in Tree
  <2>1. PICK d \in Nat, e \in Nat : a \in Trees[d] /\ b \in Trees[e]
    BY DEF Tree
  <2>2. PICK m \in Nat : d <= m /\ e <= m
    BY <2>1
  <2>3. a \in Trees[m] /\ b \in Trees[m]
    BY <2>1, <2>2, LevelsGrow
  <2>4. m + 1 \in Nat /\ Bin(op, a, b) \in Trees[m + 1]
    BY <2>3, LevelHas
  <2> QED  BY <2>4 DEF Tree
<1> QED  BY <1>1, <1>2, <1>3, <1>4

IsFrom(n, f) == f = [d \in Nat |-> IF n \in Trees[d] THEN d ELSE f[d + 1]]

LEMMA DepthOfTree ==
  ASSUME NEW n \in Tree
  PROVE  Depth(n) \in Nat /\ n \in Trees[Depth(n)]
<1> DEFINE S == {d \in Nat : n \in Trees[d]}
<1>1. PICK e \in S : \A d \in S : e <= d
  <2>1. S \subseteq Nat /\ S # {}
    BY DEF Tree
  <2> HIDE DEF S
  <2> QED  BY <2>1, SmallestNumber
<1>2. e \in Nat /\ n \in Trees[e]
  BY <1>1
<1>3. \A d \in Nat : n \in Trees[d] <=> e <= d
  <2>1. \A d \in Nat : e <= d => n \in Trees[d]
    BY <1>2, LevelsGrow
  <2> QED  BY <1>1, <2>1
<1> HIDE DEF S
<1>4. \E f : IsFrom(n, f)
  <2> DEFINE g == [d \in Nat |-> IF d <= e THEN e ELSE d]
  <2>1. \A d \in Nat : g[d] = IF n \in Trees[d] THEN d ELSE g[d + 1]
    BY <1>2, <1>3
  <2> DEFINE h == [d \in Nat |-> IF n \in Trees[d] THEN d ELSE g[d + 1]]
  <2>2. \A d \in Nat : g[d] = h[d]
    <3> HIDE DEF g
    <3> QED  BY <2>1
  <2>3. g = h
    BY <2>2
  <2> HIDE DEF g
  <2> QED  BY <2>3 DEF IsFrom
<1> DEFINE f == CHOOSE f : IsFrom(n, f)
<1>5. IsFrom(n, f)
  BY <1>4
<1>6. Depth(n) = f[0]
  BY DEF Depth, IsFrom
<1> HIDE DEF f
<1>7. \A d \in Nat : f[d] = IF n \in Trees[d] THEN d ELSE f[d + 1]
  BY <1>5 DEF IsFrom
<1>8. f[0] = e
  <2> SUFFICES ASSUME f[0] # e PROVE FALSE
    OBVIOUS
  <2> DEFINE B == {j \in 0..e : f[e - j] # e}
  <2>1. PICK j \in B : \A i \in B : j <= i
    <3>1. e - e = 0 /\ e \in 0..e
      BY <1>2
    <3>2. B \subseteq Nat /\ e \in B
      BY <1>2, <3>1
    <3> HIDE DEF B
    <3> QED  BY <3>2, SmallestNumber
  <2>2. j # 0
    BY <1>2, <1>3, <1>7, <2>1
  <2>3. j - 1 \in 0..e /\ j - 1 \notin B /\ e - j \in Nat /\ (e - j) + 1 = e - (j - 1) /\ ~(e <= e - j)
    BY <1>2, <2>1, <2>2
  <2>4. f[e - (j - 1)] = e
    BY <2>3
  <2>5. f[e - j] = f[(e - j) + 1]
    BY <1>3, <1>7, <2>3
  <2> QED  BY <2>1, <2>3, <2>4, <2>5
<1> QED  BY <1>2, <1>6, <1>8

Split == "convert_disjunction_in_contact_less_eq"

\* What is split, and into which atomic formulas.
Atom(op, l, r) == op \in {"contact", "less_eq"} /\ l \in Tree /\ r \in Tree
IsSplit(n, k, op, l, r, x, y) ==
  /\ n = Bin(op, l, r)
  /\ \/ l = Bin("union_", x, y)
        /\ \E junction \in {"conjunction", "disjunction"} :
             k = Bin(junction, Bin(op, x, r), Bin(op, y, r))
     \/ r = Bin("union_", x, y)
        /\ k = Bin("disjunction", Bin(op, l, x), Bin(op, l, y))

LEMMA UnionParts ==
  ASSUME NEW d \in Nat, NEW n \in Trees[d], n[1] = "union_"
  PROVE  d # 0 /\ \E a, b \in Trees[d - 1] : n = Bin("union_", a, b)
<1>1. "union_" \notin Constant \cup {"variable"} /\ "union_" \notin Unary
  BY DEF Constant, Unary, UnaryFormula, UnaryAtomic, UnaryTerm
<1>2. n \notin Leaf
  BY <1>1, LeafOperation
<1>3. \A op, a : n = Un(op, a) => op = "union_"
  BY UnParts
<1>4. \A op, a, b : n = Bin(op, a, b) => op = "union_"
  BY BinParts
<1> QED  BY <1>1, <1>2, <1>3, <1>4, LevelCases

LEMMA SplitCases ==
  ASSUME NEW n \in Tree, NEW v, Before(v, n) # n
  PROVE  \E op \in {"contact", "less_eq"}, l, r, x, y \in Tree : IsSplit(n, Before(v, n), op, l, r, x, y)
<1> DEFINE k == SplitDisjInLessEqAndContacts(n)
<1>1. Before(v, n) = k /\ k # n
  BY DEF Before
<1>2. n[1] \in {"contact", "less_eq"}
  BY <1>1 DEF SplitDisjInLessEqAndContacts
<1>3. PICK l \in Tree, r \in Tree : n = Bin(n[1], l, r)
  <2>1. n[1] \notin Constant \cup {"variable"} /\ n[1] \notin Unary
    BY <1>2 DEF Constant, Unary, UnaryFormula, UnaryAtomic, UnaryTerm
  <2>2. \A op, a : n = Un(op, a) => n[1] = op
    BY UnParts
  <2>3. \A op, a, b : n = Bin(op, a, b) => n[1] = op
    BY BinParts
  <2> QED  BY <2>1, <2>2, <2>3, LeafOperation, TreeCases
<1>4. n[2] = l /\ n[3] = r
  BY <1>3, BinParts
<1>5. \A t \in Tree : t[1] = "union_" => \E x, y \in Tree : t = Bin("union_", x, y)
  <2> SUFFICES ASSUME NEW t \in Tree, t[1] = "union_" PROVE \E x, y \in Tree : t = Bin("union_", x, y)
    OBVIOUS
  <2>1. PICK d \in Nat : t \in Trees[d]
    BY DEF Tree
  <2>2. d # 0 => d - 1 \in Nat
    OBVIOUS
  <2> QED  BY <2>1, <2>2, UnionParts DEF Tree
<1>6. CASE l[1] = "union_"
  <2>1. PICK x \in Tree, y \in Tree : l = Bin("union_", x, y)
    BY <1>5, <1>6
  <2>2. l[2] = x /\ l[3] = y
    BY <2>1, BinParts
  <2>3. \E junction \in {"conjunction", "disjunction"} : k = Bin(junction, Bin(n[1], x, r), Bin(n[1], y, r))
    BY <1>2, <1>4, <1>6, <2>2 DEF SplitDisjInLessEqAndContacts, Bin
  <2> HIDE DEF k
  <2> QED  BY <1>1, <1>2, <1>3, <2>1, <2>3 DEF IsSplit
<1>7. CASE l[1] # "union_"
  <2>1. r[1] = "union_" /\ k = <<"disjunction", <<n[1], l, r[2]>>, <<n[1], l, r[3]>>>>
    BY <1>1, <1>2, <1>4, <1>7 DEF SplitDisjInLessEqAndContacts
  <2>2. PICK x \in Tree, y \in Tree : r = Bin("union_", x, y)
    BY <1>5, <2>1
  <2>3. r[2] = x /\ r[3] = y
    BY <2>2, BinParts
  <2>4. k = Bin("disjunction", Bin(n[1], l, x), Bin(n[1], l, y))
    BY <2>1, <2>3 DEF Bin
  <2> HIDE DEF k
  <2> QED  BY <1>1, <1>2, <1>3, <2>2, <2>4 DEF IsSplit
<1> QED  BY <1>6, <1>7

LEMMA ChildrenOfTree ==
  ASSUME NEW d \in Nat, NEW n \in Trees[d]
  PROVE  Children(n) \subseteq Trees[d] /\ (d # 0 => Children(n) \subseteq Trees[d - 1])
                                        /\ (d = 0 => Children(n) = {})
<1>1. CASE n \in Leaf
  BY <1>1, ChildrenOfLeaf
<1>2. ASSUME d # 0, NEW op \in Unary, NEW a \in Trees[d - 1], n = Un(op, a)
      PROVE  Children(n) \subseteq Trees[d - 1]
  BY <1>2, ChildrenOfUn
<1>3. ASSUME d # 0, NEW op \in Binary, NEW a \in Trees[d - 1], NEW b \in Trees[d - 1],
             n = Bin(op, a, b)
      PROVE  Children(n) \subseteq Trees[d - 1]
  BY <1>3, ChildrenOfBin
<1>4. d # 0 => d - 1 \in Nat /\ Trees[d - 1] \subseteq Trees[d]
  BY LevelsGrow
<1> QED  BY <1>1, <1>2, <1>3, <1>4, LevelCases

LEMMA SplitOperations ==
  /\ "contact" \in Binary /\ "less_eq" \in Binary /\ "union_" \in Binary
  /\ "conjunction" \in Binary /\ "disjunction" \in Binary
BY DEF Binary, BinaryFormula, BinaryAtomic, BinaryTerm

LEMMA BinLevel ==
  ASSUME NEW d \in Nat, NEW op \in Binary, NEW a, NEW b, Bin(op, a, b) \in Trees[d]
  PROVE  d # 0 /\ a \in Trees[d - 1] /\ b \in Trees[d - 1]
<1>1. Children(Bin(op, a, b)) = {a, b}
  BY ChildrenOfBin
<1> QED  BY <1>1, ChildrenOfTree

\* What is split stays in its level.
LEMMA SplitLevel ==
  ASSUME NEW d \in Nat, NEW n \in Trees[d], NEW v
  PROVE  Children(Before(v, n)) \subseteq Trees[d]
<1>1. CASE Before(v, n) = n
  BY <1>1, ChildrenOfTree
<1>2. CASE Before(v, n) # n
  <2>1. n \in Tree
    BY DEF Tree
  <2>2. PICK op \in {"contact", "less_eq"}, l \in Tree, r \in Tree, x \in Tree, y \in Tree :
               IsSplit(n, Before(v, n), op, l, r, x, y)
    BY <1>2, <2>1, SplitCases
  <2>3. n = Bin(op, l, r) /\ op \in Binary
    BY <2>2, SplitOperations DEF IsSplit
  <2>4. d # 0 /\ l \in Trees[d - 1] /\ r \in Trees[d - 1]
    BY <2>3, BinLevel
  <2>5. d - 1 \in Nat
    BY <2>4
  <2>6. ASSUME NEW t \in Trees[d - 1], t = Bin("union_", x, y)
        PROVE  x \in Trees[d - 1] /\ y \in Trees[d - 1]
    <3>1. d - 1 # 0 /\ x \in Trees[(d - 1) - 1] /\ y \in Trees[(d - 1) - 1]
      BY <2>5, <2>6, BinLevel, SplitOperations
    <3> QED  BY <2>5, <3>1, LevelsGrowByOne
  <2>7. \A a, b \in Trees[d - 1] : Bin(op, a, b) \in Trees[d]
    <3>1. \A a, b \in Trees[d - 1] : Bin(op, a, b) \in Trees[(d - 1) + 1]
      BY <2>3, <2>5, LevelHas
    <3> QED  BY <2>4, <3>1
  <2>8. ASSUME l = Bin("union_", x, y), NEW junction \in {"conjunction", "disjunction"},
               Before(v, n) = Bin(junction, Bin(op, x, r), Bin(op, y, r))
        PROVE  Children(Before(v, n)) \subseteq Trees[d]
    <3>1. Children(Before(v, n)) = {Bin(op, x, r), Bin(op, y, r)}
      BY <2>8, SplitOperations, ChildrenOfBin
    <3> QED  BY <2>4, <2>6, <2>7, <2>8, <3>1
  <2>9. ASSUME r = Bin("union_", x, y), Before(v, n) = Bin("disjunction", Bin(op, l, x), Bin(op, l, y))
        PROVE  Children(Before(v, n)) \subseteq Trees[d]
    <3>1. Children(Before(v, n)) = {Bin(op, l, x), Bin(op, l, y)}
      BY <2>9, SplitOperations, ChildrenOfBin
    <3> QED  BY <2>4, <2>6, <2>7, <2>9, <3>1
  <2> QED  BY <2>2, <2>8, <2>9 DEF IsSplit
<1> QED  BY <1>1, <1>2

\* A visitor comes to an end: what holds of a node if it holds of the nodes that
\* are visited below it holds of all of them.
LEMMA VisitInduction ==
  ASSUME NEW v, NEW S, \A n \in Tree : Children(Before(v, n)) \subseteq S => n \in S
  PROVE  Tree \subseteq S
<1> SUFFICES ASSUME ~(Tree \subseteq S) PROVE FALSE
  OBVIOUS
<1> DEFINE B == {d \in Nat : ~(Trees[d] \subseteq S)}
<1>1. PICK d \in B : \A e \in B : d <= e
  <2>1. B \subseteq Nat /\ B # {}
    BY DEF Tree
  <2> HIDE DEF B
  <2> QED  BY <2>1, SmallestNumber
<1>2. d \in Nat /\ ~(Trees[d] \subseteq S)
  BY <1>1
<1>3. d # 0 => d - 1 \in Nat /\ Trees[d - 1] \subseteq S
  <2>1. d # 0 => d - 1 \in Nat /\ d - 1 \notin B
    BY <1>1, <1>2
  <2> QED  BY <2>1
<1> HIDE DEF B
<1>4. PICK n \in Trees[d] : n \notin S
  BY <1>2
<1>5. \A m \in Trees[d] : Before(v, m) = m => m \in S
  <2> SUFFICES ASSUME NEW m \in Trees[d], Before(v, m) = m PROVE m \in S
    OBVIOUS
  <2>1. m \in Tree
    BY <1>2 DEF Tree
  <2>2. Children(m) \subseteq S
    BY <1>2, <1>3, ChildrenOfTree
  <2> QED  BY <2>1, <2>2
\* the sizes of the sides of a smallest atomic formula that is not in S
<1> DEFINE IsSize(k) ==
             \E op \in {"contact", "less_eq"}, i, j \in 0..d-1 :
               \E l \in Trees[i], r \in Trees[j] : k = i + j /\ Bin(op, l, r) \notin S
           C == {k \in Nat : IsSize(k)}
<1>6. C # {} /\ C \subseteq Nat
  <2>1. n \in Tree /\ Before(v, n) # n
    BY <1>2, <1>4, <1>5 DEF Tree
  <2>2. PICK op \in {"contact", "less_eq"}, l \in Tree, r \in Tree : n = Bin(op, l, r)
    BY <2>1, SplitCases DEF IsSplit
  <2>3. d # 0 /\ l \in Trees[d - 1] /\ r \in Trees[d - 1]
    BY <1>2, <2>2, SplitOperations, BinLevel
  <2>4. d - 1 \in 0..d-1 /\ (d - 1) + (d - 1) \in Nat
    BY <1>2, <2>3
  <2>5. IsSize((d - 1) + (d - 1))
    BY <1>4, <2>2, <2>3, <2>4
  <2> QED  BY <2>4, <2>5
<1>7. PICK k \in C : \A e \in C : k <= e
  <2> HIDE DEF C
  <2> QED  BY <1>6, SmallestNumber
<1>8. k \in Nat /\ IsSize(k)
  BY <1>7
<1>9. \A e \in Nat : e < k => ~IsSize(e)
  <2> HIDE DEF IsSize
  <2> QED  BY <1>7
<1> HIDE DEF C
<1>10. PICK op \in {"contact", "less_eq"}, i \in 0..d-1, j \in 0..d-1 :
         \E l \in Trees[i], r \in Trees[j] : k = i + j /\ Bin(op, l, r) \notin S
  BY <1>8
<1>11. PICK l \in Trees[i], r \in Trees[j] : k = i + j /\ Bin(op, l, r) \notin S
  BY <1>10
<1>12. i \in Nat /\ j \in Nat /\ d # 0 /\ d - 1 \in Nat /\ i <= d - 1 /\ j <= d - 1
  BY <1>2, <1>10
<1>13. \A e \in 0..d-1, f \in 0..d-1 : e + f < k =>
          \A a \in Trees[e], b \in Trees[f] : Bin(op, a, b) \in S
  <2> SUFFICES ASSUME NEW e \in 0..d-1, NEW f \in 0..d-1, e + f < k,
                      NEW a \in Trees[e], NEW b \in Trees[f], Bin(op, a, b) \notin S
               PROVE  FALSE
    OBVIOUS
  <2>1. e + f \in Nat
    BY <1>2
  <2>2. IsSize(e + f)
    OBVIOUS
  <2> QED  BY <1>9, <2>1, <2>2
<1> HIDE DEF IsSize
<1>14. l \in Trees[d - 1] /\ r \in Trees[d - 1]
  BY <1>12, LevelsGrow
<1>15. Bin(op, l, r) \in Trees[d]
  <2>1. Bin(op, l, r) \in Trees[(d - 1) + 1]
    BY <1>12, <1>14, LevelHas, SplitOperations
  <2>2. (d - 1) + 1 = d
    BY <1>2
  <2> QED  BY <2>1, <2>2
<1>16. Bin(op, l, r) \in Tree /\ Before(v, Bin(op, l, r)) # Bin(op, l, r)
  BY <1>2, <1>5, <1>11, <1>15 DEF Tree
<1> DEFINE m == Bin(op, l, r)
<1>17. PICK op2 \in {"contact", "less_eq"}, l2 \in Tree, r2 \in Tree, x \in Tree, y \in Tree :
              IsSplit(m, Before(v, m), op2, l2, r2, x, y)
  BY <1>16, SplitCases
<1>18. op2 = op /\ l2 = l /\ r2 = r
  BY <1>17, BinParts DEF IsSplit
<1>19. ASSUME l = Bin("union_", x, y), NEW junction \in {"conjunction", "disjunction"},
              Before(v, m) = Bin(junction, Bin(op, x, r), Bin(op, y, r))
       PROVE  Children(Before(v, m)) \subseteq S
  <2>1. i # 0 /\ x \in Trees[i - 1] /\ y \in Trees[i - 1]
    BY <1>12, <1>19, BinLevel, SplitOperations
  <2>2. i - 1 \in 0..d-1 /\ (i - 1) + j < k
    BY <1>11, <1>12, <2>1
  <2>3. Bin(op, x, r) \in S /\ Bin(op, y, r) \in S
    BY <1>10, <1>13, <2>1, <2>2
  <2>4. Children(Before(v, m)) = {Bin(op, x, r), Bin(op, y, r)}
    BY <1>19, SplitOperations, ChildrenOfBin
  <2> QED  BY <2>3, <2>4
<1>20. ASSUME r = Bin("union_", x, y), Before(v, m) = Bin("disjunction", Bin(op, l, x), Bin(op, l, y))
       PROVE  Children(Before(v, m)) \subseteq S
  <2>1. j # 0 /\ x \in Trees[j - 1] /\ y \in Trees[j - 1]
    BY <1>12, <1>20, BinLevel, SplitOperations
  <2>2. j - 1 \in 0..d-1 /\ i + (j - 1) < k
    BY <1>11, <1>12, <2>1
  <2>3. Bin(op, l, x) \in S /\ Bin(op, l, y) \in S
    BY <1>10, <1>13, <2>1, <2>2
  <2>4. Children(Before(v, m)) = {Bin(op, l, x), Bin(op, l, y)}
    BY <1>20, SplitOperations, ChildrenOfBin
  <2> QED  BY <2>3, <2>4
<1>21. Children(Before(v, m)) \subseteq S
  BY <1>17, <1>18, <1>19, <1>20 DEF IsSplit
<1> QED  BY <1>11, <1>16, <1>21

-----------------------------------------------------------------------------
(* What a visitor makes of a tree is defined.                              *)

IsVisit(v, S, f) == f = [m \in S |-> At(v, Before(v, m), OnChildren(f, Before(v, m)))]

\* The nodes in S are visited without leaving S.
Closed(v, S) == S \subseteq Tree /\ \A m \in S : Children(Before(v, m)) \subseteq S

LEMMA VisitOf ==
  ASSUME NEW v, NEW S, NEW f, IsVisit(v, S, f), NEW m \in S
  PROVE  f[m] = At(v, Before(v, m), OnChildren(f, Before(v, m)))
BY DEF IsVisit

LEMMA IsVisitOf ==
  ASSUME NEW v, NEW S, NEW f, f = [m \in S |-> f[m]],
         \A m \in S : f[m] = At(v, Before(v, m), OnChildren(f, Before(v, m)))
  PROVE  IsVisit(v, S, f)
<1> DEFINE g == [m \in S |-> At(v, Before(v, m), OnChildren(f, Before(v, m)))]
<1>1. f = g
  OBVIOUS
<1> QED  BY <1>1 DEF IsVisit

LEMMA OnSameChildren ==
  ASSUME NEW k, NEW f, NEW g, \A c \in Children(k) : f[c] = g[c]
  PROVE  OnChildren(f, k) = OnChildren(g, k)
BY DEF Children, OnChildren

LEMMA VisitsAgree ==
  ASSUME NEW v, NEW A, NEW f, Closed(v, A), IsVisit(v, A, f),
         NEW B, NEW g, Closed(v, B), IsVisit(v, B, g), NEW m \in A, m \in B
  PROVE  f[m] = g[m]
<1> DEFINE S == {n \in Tree : n \in A /\ n \in B => f[n] = g[n]}
<1>1. ASSUME NEW n \in Tree, Children(Before(v, n)) \subseteq S PROVE n \in S
  <2> SUFFICES ASSUME n \in A, n \in B PROVE f[n] = g[n]
    OBVIOUS
  <2>1. \A c \in Children(Before(v, n)) : f[c] = g[c]
    BY <1>1 DEF Closed
  <2>2. OnChildren(f, Before(v, n)) = OnChildren(g, Before(v, n))
    BY <2>1, OnSameChildren
  <2>3. f[n] = At(v, Before(v, n), OnChildren(f, Before(v, n)))
    BY VisitOf
  <2>4. g[n] = At(v, Before(v, n), OnChildren(g, Before(v, n)))
    BY VisitOf
  <2> QED  BY <2>2, <2>3, <2>4
<1>2. Tree \subseteq S
  <2> HIDE DEF S
  <2> QED  BY <1>1, VisitInduction
<1> QED  BY <1>2 DEF Closed

\* r is what some visit of nodes with m among them makes of m.
IsResult(v, m, r) ==
  \E A, f : m \in A /\ Closed(v, A) /\ IsVisit(v, A, f) /\ r = f[m]
Result(v, m) == CHOOSE r : IsResult(v, m, r)
Visited(v) == {m \in Tree : \E r : IsResult(v, m, r)}

LEMMA ResultOf ==
  ASSUME NEW v, NEW A, NEW f, Closed(v, A), IsVisit(v, A, f), NEW m \in A
  PROVE  m \in Visited(v) /\ Result(v, m) = f[m]
<1>1. IsResult(v, m, f[m])
  BY DEF IsResult
<1>2. IsResult(v, m, Result(v, m))
  BY <1>1 DEF Result
<1>3. PICK B, g : m \in B /\ Closed(v, B) /\ IsVisit(v, B, g) /\ Result(v, m) = g[m]
  BY <1>2 DEF IsResult
<1>4. g[m] = f[m]
  BY <1>3, VisitsAgree
<1>5. m \in Tree
  BY DEF Closed
<1> QED  BY <1>1, <1>3, <1>4, <1>5 DEF Visited

LEMMA ResultsAreVisit ==
  ASSUME NEW v, NEW S, S \subseteq Visited(v), Closed(v, S)
  PROVE  IsVisit(v, S, [m \in S |-> Result(v, m)])
<1> DEFINE h == [m \in S |-> Result(v, m)]
<1>1. ASSUME NEW m \in S PROVE h[m] = At(v, Before(v, m), OnChildren(h, Before(v, m)))
  <2>1. PICK A, f : m \in A /\ Closed(v, A) /\ IsVisit(v, A, f)
    BY DEF Visited, IsResult
  <2>2. \A c \in Children(Before(v, m)) : c \in A /\ c \in S
    BY <2>1 DEF Closed
  <2>3. \A c \in Children(Before(v, m)) : h[c] = f[c]
    BY <2>1, <2>2, ResultOf
  <2>4. h[m] = f[m]
    BY <2>1, ResultOf
  <2>5. OnChildren(h, Before(v, m)) = OnChildren(f, Before(v, m))
    <3> HIDE DEF h
    <3> QED  BY <2>3, OnSameChildren
  <2>6. f[m] = At(v, Before(v, m), OnChildren(f, Before(v, m)))
    BY <2>1, VisitOf
  <2> QED  BY <2>4, <2>5, <2>6
<1>2. h = [m \in S |-> h[m]]
  OBVIOUS
<1>3. IsVisit(v, S, h)
  <2> HIDE DEF h
  <2> QED  BY <1>1, <1>2, IsVisitOf
<1> QED  BY <1>3

LEMMA AllAreVisited == \A v : Tree \subseteq Visited(v)
<1> SUFFICES ASSUME NEW v PROVE Tree \subseteq Visited(v)
  OBVIOUS
<1> DEFINE V == Visited(v)
           h == [m \in V |-> Result(v, m)]
<1>1. Closed(v, V)
  <2>1. ASSUME NEW m \in V PROVE Children(Before(v, m)) \subseteq V
    <3>1. PICK A, f : m \in A /\ Closed(v, A) /\ IsVisit(v, A, f)
      BY DEF Visited, IsResult
    <3>2. \A c \in Children(Before(v, m)) : c \in A
      BY <3>1 DEF Closed
    <3> QED  BY <3>1, <3>2, ResultOf
  <2>2. V \subseteq Tree
    BY DEF Visited
  <2> HIDE DEF V
  <2> QED  BY <2>1, <2>2 DEF Closed
<1>2. IsVisit(v, V, h)
  BY <1>1, ResultsAreVisit
<1>3. ASSUME NEW n \in Tree, Children(Before(v, n)) \subseteq V PROVE n \in V
  <2> SUFFICES ASSUME n \notin V PROVE n \in V
    OBVIOUS
  <2> DEFINE T == V \cup {n}
             k == Before(v, n)
             g == [m \in T |-> IF m = n THEN At(v, k, OnChildren(h, k)) ELSE h[m]]
  <2> HIDE DEF h, V
  <2>1. V \subseteq Tree
    BY <1>1 DEF Closed
  <2>2. Closed(v, T)
    BY <1>1, <1>3 DEF Closed
  <2>3. \A m \in V : m \in T /\ g[m] = h[m]
    OBVIOUS
  <2>4. \A m \in T : Children(Before(v, m)) \subseteq V
    BY <1>1, <1>3 DEF Closed
  <2>5. ASSUME NEW m \in T PROVE g[m] = At(v, Before(v, m), OnChildren(g, Before(v, m)))
    <3>1. \A c \in Children(Before(v, m)) : g[c] = h[c]
      BY <2>3, <2>4
    <3>2. OnChildren(g, Before(v, m)) = OnChildren(h, Before(v, m))
      <4> HIDE DEF g
      <4> QED  BY <3>1, OnSameChildren
    <3>3. g[m] = At(v, Before(v, m), OnChildren(h, Before(v, m)))
      <4>1. CASE m = n
        BY <4>1
      <4>2. CASE m # n
        <5>1. m \in V
          BY <4>2
        <5>2. h[m] = At(v, Before(v, m), OnChildren(h, Before(v, m)))
          BY <1>2, <5>1, VisitOf
        <5> QED  BY <2>3, <5>1, <5>2
      <4> QED  BY <4>1, <4>2
    <3> QED  BY <3>2, <3>3
  <2>6. g = [m \in T |-> g[m]]
    OBVIOUS
  <2>7. IsVisit(v, T, g) /\ n \in T
    <3> HIDE DEF g
    <3> QED  BY <2>5, <2>6, IsVisitOf
  <2> QED  BY <2>2, <2>7, ResultOf DEF V
<1> HIDE DEF V
<1> QED  BY <1>3, VisitInduction DEF V

LEMMA VisitIsResult ==
  ASSUME NEW v, NEW n \in Tree
  PROVE  Visit(v, n) = Result(v, n)
<1> DEFINE D == Trees[Depth(n)]
<1>1. Depth(n) \in Nat /\ n \in D
  BY DepthOfTree
<1>2. Closed(v, D)
  BY <1>1, SplitLevel DEF Closed, Tree
<1>3. D \subseteq Visited(v)
  BY <1>2, AllAreVisited DEF Closed
<1>4. Visit(v, n) = (CHOOSE f : IsVisit(v, D, f))[n]
  BY DEF Visit, IsVisit
<1> DEFINE f == CHOOSE f : IsVisit(v, D, f)
<1> HIDE DEF D
<1>5. IsVisit(v, D, f)
  BY <1>2, <1>3, ResultsAreVisit
<1> HIDE DEF f
<1> QED  BY <1>1, <1>2, <1>4, <1>5, ResultOf DEF f

\* The results of v below k, put together again.
Rebuilt(v, k) == OnChildren([m \in Tree |-> Visit(v, m)], k)

LEMMA VisitUnfolds ==
  ASSUME NEW v, NEW n \in Tree
  PROVE  Visit(v, n) = At(v, Before(v, n), Rebuilt(v, Before(v, n)))
<1> DEFINE h == [m \in Tree |-> Result(v, m)]
           g == [m \in Tree |-> Visit(v, m)]
<1>1. Closed(v, Tree)
  <2>1. ASSUME NEW m \in Tree PROVE Children(Before(v, m)) \subseteq Tree
    <3>1. PICK d \in Nat : m \in Trees[d]
      BY DEF Tree
    <3> QED  BY <3>1, SplitLevel DEF Tree
  <2> QED  BY <2>1 DEF Closed
<1>2. IsVisit(v, Tree, h)
  BY <1>1, AllAreVisited, ResultsAreVisit
<1>3. g = h
  BY VisitIsResult
<1>4. h[n] = At(v, Before(v, n), OnChildren(h, Before(v, n)))
  <2> HIDE DEF h
  <2> QED  BY <1>2, VisitOf
<1>5. h[n] = Visit(v, n)
  BY VisitIsResult
<1> QED  BY <1>3, <1>4, <1>5 DEF Rebuilt

LEMMA RebuiltCases ==
  ASSUME NEW v
  PROVE  /\ \A n \in Leaf : Rebuilt(v, n) = n
         /\ \A op \in Unary, a \in Tree : Rebuilt(v, Un(op, a)) = Un(op, Visit(v, a))
         /\ \A op \in Binary, a, b \in Tree :
              Rebuilt(v, Bin(op, a, b)) = Bin(op, Visit(v, a), Visit(v, b))
<1> DEFINE g == [m \in Tree |-> Visit(v, m)]
<1>1. \A m \in Tree : g[m] = Visit(v, m)
  OBVIOUS
<1>2. \A k : Rebuilt(v, k) = OnChildren(g, k)
  BY DEF Rebuilt
<1> HIDE DEF g
<1>3. \A n \in Leaf : OnChildren(g, n) = n
  BY ChildrenOfLeaf
<1>4. \A op \in Unary, a \in Tree : OnChildren(g, Un(op, a)) = Un(op, g[a])
  BY ChildrenOfUn
<1>5. \A op \in Binary, a, b \in Tree : OnChildren(g, Bin(op, a, b)) = Bin(op, g[a], g[b])
  BY ChildrenOfBin
<1> QED  BY <1>1, <1>2, <1>3, <1>4, <1>5

-----------------------------------------------------------------------------
(* The nodes of a tree, and what they mean.                                *)

LEMMA BeforeUnlessSplit == \A v, n : v # Split => Before(v, n) = n
BY DEF Before, Split

LEMMA NodesOf ==
  /\ \A n \in Leaf : Nodes(n) = {n}
  /\ \A op \in Unary, a \in Tree : Nodes(Un(op, a)) = {Un(op, a)} \cup Nodes(a)
  /\ \A op \in Binary, a, b \in Tree :
       Nodes(Bin(op, a, b)) = {Bin(op, a, b)} \cup Nodes(a) \cup Nodes(b)
<1>1. "nodes" # Split
  BY DEF Split
<1>2. \A n \in Tree : Nodes(n) = At("nodes", n, Rebuilt("nodes", n))
  BY <1>1, BeforeUnlessSplit, VisitUnfolds DEF Nodes
<1>3. \A n, c : At("nodes", n, c) = {n} \cup UNION Children(c)
  BY DEF At
<1>4. \A n \in Tree : Nodes(n) = {n} \cup UNION Children(Rebuilt("nodes", n))
  BY <1>2, <1>3
<1>5. ASSUME NEW n \in Leaf PROVE Nodes(n) = {n}
  <2>1. Rebuilt("nodes", n) = n /\ Children(n) = {} /\ n \in Tree
    BY RebuiltCases, ChildrenOfLeaf, TreeHas
  <2> QED  BY <1>4, <2>1
<1>6. ASSUME NEW op \in Unary, NEW a \in Tree PROVE Nodes(Un(op, a)) = {Un(op, a)} \cup Nodes(a)
  <2>1. Rebuilt("nodes", Un(op, a)) = Un(op, Nodes(a)) /\ Un(op, a) \in Tree
    BY RebuiltCases, TreeHas DEF Nodes
  <2>2. Children(Un(op, Nodes(a))) = {Nodes(a)}
    BY ChildrenOfUn
  <2> QED  BY <1>4, <2>1, <2>2
<1>7. ASSUME NEW op \in Binary, NEW a \in Tree, NEW b \in Tree
      PROVE  Nodes(Bin(op, a, b)) = {Bin(op, a, b)} \cup Nodes(a) \cup Nodes(b)
  <2>1. Rebuilt("nodes", Bin(op, a, b)) = Bin(op, Nodes(a), Nodes(b)) /\ Bin(op, a, b) \in Tree
    BY RebuiltCases, TreeHas DEF Nodes
  <2>2. Children(Bin(op, Nodes(a), Nodes(b))) = {Nodes(a), Nodes(b)}
    BY ChildrenOfBin
  <2> QED  BY <1>4, <2>1, <2>2
<1> QED  BY <1>5, <1>6, <1>7

\* The points in the term n.
Val(n) == Visit("means", n).value

LEMMA MeansOf ==
  ASSUME NEW n \in Tree
  PROVE  /\ Val(n) = Value(n, Rebuilt("means", n))
         /\ Meaning(n) = Holds(n, Rebuilt("means", n))
<1>1. "means" # Split
  BY DEF Split
<1>2. Visit("means", n) = At("means", n, Rebuilt("means", n))
  BY <1>1, BeforeUnlessSplit, VisitUnfolds
<1>3. \A c : At("means", n, c) = [value |-> Value(n, c), models |-> Holds(n, c)]
  BY DEF At
<1> QED  BY <1>2, <1>3 DEF Val, Meaning

LEMMA MeansOfLeaf ==
  /\ Val(True) = Point /\ Val(False) = {} /\ Meaning(True) = Model /\ Meaning(False) = {}
  /\ \A n \in Leaf : Val(n) \subseteq Point /\ Meaning(n) \subseteq Model
<1>1. \A n \in Leaf : Val(n) = Value(n, n) /\ Meaning(n) = Holds(n, n)
  BY MeansOf, RebuiltCases, TreeHas
<1>2. True \in Leaf /\ False \in Leaf
  BY DEF Leaf
<1>3. Value(True, True) = Point /\ Value(False, False) = {}
  BY LeafParts DEF Value
<1>4. Holds(True, True) = Model /\ Holds(False, False) = {}
  BY LeafParts DEF Holds
<1>5. ASSUME NEW n \in Leaf, n[1] = "variable" PROVE Val(n) \subseteq Point /\ Meaning(n) \subseteq Model
  <2>1. Value(n, n) \subseteq Point
    BY <1>5 DEF Value
  <2>2. Holds(n, n) = {}
    BY <1>5 DEF Holds
  <2> QED  BY <1>1, <2>1, <2>2
<1> QED  BY <1>1, <1>2, <1>3, <1>4, <1>5, LeafParts

LEMMA MeansOfUn ==
  ASSUME NEW a \in Tree
  PROVE  /\ Val(Un("complement", a)) = Point \ Val(a) /\ Meaning(Un("complement", a)) = {}
         /\ Meaning(Un("negation", a)) = Model \ Meaning(a) /\ Val(Un("negation", a)) = {}
         /\ Meaning(Un("eq_zero", a)) = Empty[Val(a)] /\ Val(Un("eq_zero", a)) = {}
<1> DEFINE c(op) == Un(op, Visit("means", a))
<1>1. \A op \in Unary : /\ Val(Un(op, a)) = Value(Un(op, a), c(op))
                        /\ Meaning(Un(op, a)) = Holds(Un(op, a), c(op))
  BY MeansOf, RebuiltCases, TreeHas
<1>2. \A op : c(op)[2].value = Val(a) /\ c(op)[2].models = Meaning(a)
  BY UnParts DEF Val, Meaning
<1>3. "complement" \in Unary /\ "negation" \in Unary /\ "eq_zero" \in Unary
  BY DEF Unary, UnaryFormula, UnaryAtomic, UnaryTerm
<1>4. \A op : Un(op, a)[1] = op
  BY UnParts
<1> HIDE DEF c
<1>5. /\ Value(Un("complement", a), c("complement")) = Point \ Val(a)
      /\ Holds(Un("complement", a), c("complement")) = {}
  BY <1>2, <1>4 DEF Value, Holds
<1>6. /\ Holds(Un("negation", a), c("negation")) = Model \ Meaning(a)
      /\ Value(Un("negation", a), c("negation")) = {}
  BY <1>2, <1>4 DEF Value, Holds
<1>7. /\ Holds(Un("eq_zero", a), c("eq_zero")) = Empty[Val(a)]
      /\ Value(Un("eq_zero", a), c("eq_zero")) = {}
  BY <1>2, <1>4 DEF Value, Holds
<1> QED  BY <1>1, <1>3, <1>5, <1>6, <1>7

LEMMA MeansOfBin ==
  ASSUME NEW a \in Tree, NEW b \in Tree, NEW op \in Binary
  PROVE  \E n, c : /\ n[1] = op
                   /\ c[2].value = Val(a) /\ c[2].models = Meaning(a)
                   /\ c[3].value = Val(b) /\ c[3].models = Meaning(b)
                   /\ Val(Bin(op, a, b)) = Value(n, c) /\ Meaning(Bin(op, a, b)) = Holds(n, c)
<1> DEFINE c == Bin(op, Visit("means", a), Visit("means", b))
           n == Bin(op, a, b)
<1>1. Val(n) = Value(n, c) /\ Meaning(n) = Holds(n, c)
  BY MeansOf, RebuiltCases, TreeHas
<1>2. /\ c[2].value = Val(a) /\ c[2].models = Meaning(a)
      /\ c[3].value = Val(b) /\ c[3].models = Meaning(b)
  BY BinParts DEF Val, Meaning
<1>3. n[1] = op
  BY BinParts
<1> HIDE DEF n, c
<1>4. \E k, d : /\ k[1] = op
                /\ d[2].value = Val(a) /\ d[2].models = Meaning(a)
                /\ d[3].value = Val(b) /\ d[3].models = Meaning(b)
                /\ Val(n) = Value(k, d) /\ Meaning(n) = Holds(k, d)
  BY <1>1, <1>2, <1>3
<1> QED  BY <1>4 DEF n

LEMMA BinaryIs ==
  Binary = {"conjunction", "disjunction", "implication", "equality",
            "contact", "less_eq", "measured_less_eq", "union_", "intersection"}
BY DEF Binary, BinaryFormula, BinaryAtomic, BinaryTerm

LEMMA MeansOfTerm ==
  ASSUME NEW a \in Tree, NEW b \in Tree
  PROVE  /\ Val(Bin("union_", a, b)) = Val(a) \cup Val(b)
         /\ Val(Bin("intersection", a, b)) = Val(a) \cap Val(b)
         /\ Meaning(Bin("union_", a, b)) = {} /\ Meaning(Bin("intersection", a, b)) = {}
<1>1. "union_" \in Binary /\ "intersection" \in Binary
  BY BinaryIs
<1>2. Val(Bin("union_", a, b)) = Val(a) \cup Val(b)
  BY <1>1, MeansOfBin DEF Value
<1>3. Val(Bin("intersection", a, b)) = Val(a) \cap Val(b)
  BY <1>1, MeansOfBin DEF Value
<1>4. Meaning(Bin("union_", a, b)) = {}
  <2>1. PICK n, c : n[1] = "union_" /\ Meaning(Bin("union_", a, b)) = Holds(n, c)
    BY <1>1, MeansOfBin
  <2>2. Holds(n, c) = {}
    BY <2>1 DEF Holds
  <2> QED  BY <2>1, <2>2
<1>5. Meaning(Bin("intersection", a, b)) = {}
  <2>1. PICK n, c : n[1] = "intersection" /\ Meaning(Bin("intersection", a, b)) = Holds(n, c)
    BY <1>1, MeansOfBin
  <2>2. Holds(n, c) = {}
    BY <2>1 DEF Holds
  <2> QED  BY <2>1, <2>2
<1> QED  BY <1>2, <1>3, <1>4, <1>5

LEMMA MeansOfAtomic ==
  ASSUME NEW a \in Tree, NEW b \in Tree
  PROVE  /\ Meaning(Bin("less_eq", a, b)) = Empty[Val(a) \ Val(b)]
         /\ Meaning(Bin("contact", a, b)) = InContact[Val(a)][Val(b)]
         /\ Meaning(Bin("measured_less_eq", a, b)) = LessEq[Val(a)][Val(b)]
<1>1. "less_eq" \in Binary /\ "contact" \in Binary /\ "measured_less_eq" \in Binary
  BY BinaryIs
<1>2. Meaning(Bin("less_eq", a, b)) = Empty[Val(a) \ Val(b)]
  <2>1. PICK n, c : /\ n[1] = "less_eq"
                    /\ c[2].value = Val(a) /\ c[2].models = Meaning(a)
                    /\ c[3].value = Val(b) /\ c[3].models = Meaning(b)
                    /\ Meaning(Bin("less_eq", a, b)) = Holds(n, c)
    BY <1>1, MeansOfBin
  <2>2. Holds(n, c) = Empty[c[2].value \ c[3].value]
    BY <2>1 DEF Holds
  <2> QED  BY <2>1, <2>2
<1>3. Meaning(Bin("contact", a, b)) = InContact[Val(a)][Val(b)]
  <2>1. PICK n, c : /\ n[1] = "contact"
                    /\ c[2].value = Val(a) /\ c[2].models = Meaning(a)
                    /\ c[3].value = Val(b) /\ c[3].models = Meaning(b)
                    /\ Meaning(Bin("contact", a, b)) = Holds(n, c)
    BY <1>1, MeansOfBin
  <2>2. Holds(n, c) = InContact[c[2].value][c[3].value]
    BY <2>1 DEF Holds
  <2> QED  BY <2>1, <2>2
<1>4. Meaning(Bin("measured_less_eq", a, b)) = LessEq[Val(a)][Val(b)]
  <2>1. PICK n, c : /\ n[1] = "measured_less_eq"
                    /\ c[2].value = Val(a) /\ c[2].models = Meaning(a)
                    /\ c[3].value = Val(b) /\ c[3].models = Meaning(b)
                    /\ Meaning(Bin("measured_less_eq", a, b)) = Holds(n, c)
    BY <1>1, MeansOfBin
  <2>2. Holds(n, c) = LessEq[c[2].value][c[3].value]
    BY <2>1 DEF Holds
  <2> QED  BY <2>1, <2>2
<1> QED  BY <1>2, <1>3, <1>4

\* Where the formulas with the structures u and v are equal.
Equal(u, v) == {m \in Model : m \in u <=> m \in v}

LEMMA MeansOfJunction ==
  ASSUME NEW a \in Tree, NEW b \in Tree
  PROVE  /\ Meaning(Bin("conjunction", a, b)) = Meaning(a) \cap Meaning(b)
         /\ Meaning(Bin("disjunction", a, b)) = Meaning(a) \cup Meaning(b)
         /\ Meaning(Bin("implication", a, b)) = (Model \ Meaning(a)) \cup Meaning(b)
         /\ Meaning(Bin("equality", a, b)) = Equal(Meaning(a), Meaning(b))
<1>1. /\ "conjunction" \in Binary /\ "disjunction" \in Binary
      /\ "implication" \in Binary /\ "equality" \in Binary
  BY BinaryIs
<1>2. Meaning(Bin("conjunction", a, b)) = Meaning(a) \cap Meaning(b)
  <2>1. PICK n, c : /\ n[1] = "conjunction"
                    /\ c[2].value = Val(a) /\ c[2].models = Meaning(a)
                    /\ c[3].value = Val(b) /\ c[3].models = Meaning(b)
                    /\ Meaning(Bin("conjunction", a, b)) = Holds(n, c)
    BY <1>1, MeansOfBin
  <2>2. Holds(n, c) = c[2].models \cap c[3].models
    BY <2>1 DEF Holds
  <2> QED  BY <2>1, <2>2
<1>3. Meaning(Bin("disjunction", a, b)) = Meaning(a) \cup Meaning(b)
  <2>1. PICK n, c : /\ n[1] = "disjunction"
                    /\ c[2].value = Val(a) /\ c[2].models = Meaning(a)
                    /\ c[3].value = Val(b) /\ c[3].models = Meaning(b)
                    /\ Meaning(Bin("disjunction", a, b)) = Holds(n, c)
    BY <1>1, MeansOfBin
  <2>2. Holds(n, c) = c[2].models \cup c[3].models
    BY <2>1 DEF Holds
  <2> QED  BY <2>1, <2>2
<1>4. Meaning(Bin("implication", a, b)) = (Model \ Meaning(a)) \cup Meaning(b)
  <2>1. PICK n, c : /\ n[1] = "implication"
                    /\ c[2].value = Val(a) /\ c[2].models = Meaning(a)
                    /\ c[3].value = Val(b) /\ c[3].models = Meaning(b)
                    /\ Meaning(Bin("implication", a, b)) = Holds(n, c)
    BY <1>1, MeansOfBin
  <2>2. Holds(n, c) = (Model \ c[2].models) \cup c[3].models
    BY <2>1 DEF Holds
  <2> QED  BY <2>1, <2>2
<1>5. Meaning(Bin("equality", a, b)) = Equal(Meaning(a), Meaning(b))
  <2>1. PICK n, c : /\ n[1] = "equality"
                    /\ c[2].models = Meaning(a) /\ c[3].models = Meaning(b)
                    /\ Meaning(Bin("equality", a, b)) = Holds(n, c)
    BY <1>1, MeansOfBin
  <2>2. Holds(n, c) = {m \in Model : m \in c[2].models <=> m \in c[3].models}
    BY <2>1 DEF Holds
  <2> QED  BY <2>1, <2>2 DEF Equal
<1> QED  BY <1>2, <1>3, <1>4, <1>5

LEMMA NoValue ==
  ASSUME NEW a \in Tree, NEW b \in Tree, NEW op \in Binary, op \notin {"union_", "intersection"}
  PROVE  Val(Bin(op, a, b)) = {}
<1>1. op \notin {"constant_true", "variable", "union_", "intersection", "complement"}
  BY BinaryIs
<1> QED  BY <1>1, MeansOfBin DEF Value

LEMMA UnaryIs == Unary = {"negation", "eq_zero", "complement"}
BY DEF Unary, UnaryFormula, UnaryAtomic, UnaryTerm

\* What a visitor that splits nothing shows of a node, it shows of all.
LEMMA TreeInduction ==
  ASSUME NEW S, Leaf \subseteq S,
         \A op \in Unary, a \in Tree : a \in S => Un(op, a) \in S,
         \A op \in Binary, a, b \in Tree : a \in S /\ b \in S => Bin(op, a, b) \in S
  PROVE  Tree \subseteq S
<1>1. ASSUME NEW n \in Tree, Children(Before("nodes", n)) \subseteq S PROVE n \in S
  <2>1. Children(n) \subseteq S
    BY <1>1, BeforeUnlessSplit DEF Split
  <2>2. CASE n \in Leaf
    BY <2>2
  <2>3. ASSUME NEW op \in Unary, NEW a \in Tree, n = Un(op, a) PROVE n \in S
    BY <2>1, <2>3, ChildrenOfUn
  <2>4. ASSUME NEW op \in Binary, NEW a \in Tree, NEW b \in Tree, n = Bin(op, a, b) PROVE n \in S
    BY <2>1, <2>4, ChildrenOfBin
  <2> QED  BY <2>2, <2>3, <2>4, TreeCases
<1> QED  BY <1>1, VisitInduction

LEMMA AtomicTyped ==
  ASSUME NEW u, u \subseteq Point, NEW v, v \subseteq Point
  PROVE  Empty[u] \subseteq Model /\ InContact[u][v] \subseteq Model /\ LessEq[u][v] \subseteq Model
<1>1. Empty[u] \in SUBSET Model
  BY StructureAssumption
<1>2. InContact[u] \in [SUBSET Point -> SUBSET Model] /\ LessEq[u] \in [SUBSET Point -> SUBSET Model]
  BY StructureAssumption
<1>3. InContact[u][v] \in SUBSET Model /\ LessEq[u][v] \in SUBSET Model
  BY <1>2
<1> QED  BY <1>1, <1>3

LEMMA MeansTyped == \A n \in Tree : Val(n) \subseteq Point /\ Meaning(n) \subseteq Model
<1> DEFINE S == {n \in Tree : Val(n) \subseteq Point /\ Meaning(n) \subseteq Model}
<1>1. Leaf \subseteq S
  BY MeansOfLeaf, TreeHas
<1>2. ASSUME NEW op \in Unary, NEW a \in Tree, a \in S PROVE Un(op, a) \in S
  <2>1. Un(op, a) \in Tree
    BY TreeHas
  <2>2. Empty[Val(a)] \subseteq Model
    BY <1>2, AtomicTyped
  <2> QED  BY <2>1, <2>2, MeansOfUn, UnaryIs
<1>3. ASSUME NEW op \in Binary, NEW a \in Tree, NEW b \in Tree, a \in S, b \in S
      PROVE  Bin(op, a, b) \in S
  <2>1. Bin(op, a, b) \in Tree
    BY TreeHas
  <2>2. Val(Bin(op, a, b)) \subseteq Point
    <3>1. CASE op \in {"union_", "intersection"}
      BY <1>3, <3>1, MeansOfTerm
    <3>2. CASE op \notin {"union_", "intersection"}
      BY <3>2, NoValue
    <3> QED  BY <3>1, <3>2
  <2>3. Meaning(Bin(op, a, b)) \subseteq Model
    <3>1. CASE op \in {"union_", "intersection"}
      BY <3>1, MeansOfTerm
    <3>2. CASE op \in {"less_eq", "contact", "measured_less_eq"}
      <4>1. Val(a) \ Val(b) \subseteq Point /\ Val(a) \subseteq Point /\ Val(b) \subseteq Point
        BY <1>3
      <4>2. /\ Empty[Val(a) \ Val(b)] \subseteq Model
            /\ InContact[Val(a)][Val(b)] \subseteq Model /\ LessEq[Val(a)][Val(b)] \subseteq Model
        BY <4>1, AtomicTyped
      <4> HIDE DEF S
      <4>3. CASE op = "less_eq"
        BY <4>2, <4>3, MeansOfAtomic
      <4>4. CASE op = "contact"
        BY <4>2, <4>4, MeansOfAtomic
      <4>5. CASE op = "measured_less_eq"
        BY <4>2, <4>5, MeansOfAtomic
      <4> QED  BY <3>2, <4>3, <4>4, <4>5
    <3>3. CASE op \in {"conjunction", "disjunction", "implication", "equality"}
      <4>1. Equal(Meaning(a), Meaning(b)) \subseteq Model
        BY DEF Equal
      <4>2. Meaning(a) \subseteq Model /\ Meaning(b) \subseteq Model
        BY <1>3
      <4>3. /\ Meaning(a) \cap Meaning(b) \subseteq Model /\ Meaning(a) \cup Meaning(b) \subseteq Model
            /\ (Model \ Meaning(a)) \cup Meaning(b) \subseteq Model
        BY <4>2
      <4> HIDE DEF S
      <4>4. CASE op \in {"conjunction", "disjunction"}
        BY <4>3, <4>4, MeansOfJunction
      <4>5. CASE op \in {"implication", "equality"}
        BY <4>1, <4>3, <4>5, MeansOfJunction
      <4> QED  BY <3>3, <4>4, <4>5
    <3> QED  BY <3>1, <3>2, <3>3, BinaryIs
  <2> QED  BY <2>1, <2>2, <2>3
<1>4. Tree \subseteq S
  <2> HIDE DEF S
  <2> QED  BY <1>1, <1>2, <1>3, TreeInduction
<1> QED  BY <1>4

-----------------------------------------------------------------------------
(* ASTs that are well-formed, and those that mean the same.                *)

Good(n) == \A k \in Nodes(n) : Fits(k)

\* What op has a below it.
Side(op, a) ==
  IF op \in {"negation", "conjunction", "disjunction", "implication", "equality"}
  THEN IsFormulaNode(a) ELSE IsTermNode(a)

LEMMA KindOfConstant ==
  IsFormulaNode(True) /\ IsFormulaNode(False) /\ IsTermNode(True) /\ IsTermNode(False)
BY LeafParts DEF IsFormulaNode, IsTermNode

LEMMA KindOfUn ==
  ASSUME NEW op \in Unary, NEW a
  PROVE  /\ IsFormulaNode(Un(op, a)) <=> op # "complement"
         /\ IsTermNode(Un(op, a)) <=> op = "complement"
<1>1. Un(op, a)[1] = op
  BY UnParts
<1> QED  BY <1>1, UnaryIs DEF IsFormulaNode, IsTermNode, UnaryFormula, BinaryFormula, UnaryAtomic,
                              BinaryAtomic, UnaryTerm, BinaryTerm

LEMMA KindOfBin ==
  ASSUME NEW op \in Binary, NEW a, NEW b
  PROVE  /\ IsFormulaNode(Bin(op, a, b)) <=> op \notin {"union_", "intersection"}
         /\ IsTermNode(Bin(op, a, b)) <=> op \in {"union_", "intersection"}
<1>1. Bin(op, a, b)[1] = op
  BY BinParts
<1> QED  BY <1>1, BinaryIs DEF IsFormulaNode, IsTermNode, UnaryFormula, BinaryFormula, UnaryAtomic,
                               BinaryAtomic, UnaryTerm, BinaryTerm

LEMMA GoodOf ==
  /\ \A n \in Leaf : Good(n)
  /\ \A op \in Unary, a \in Tree : Good(Un(op, a)) <=> Good(a) /\ Side(op, a)
  /\ \A op \in Binary, a, b \in Tree :
       Good(Bin(op, a, b)) <=> Good(a) /\ Good(b) /\ Side(op, a) /\ Side(op, b)
<1>1. ASSUME NEW n \in Leaf PROVE Good(n)
  BY NodesOf, ChildrenOfLeaf DEF Good, Fits
<1>2. ASSUME NEW op \in Unary, NEW a \in Tree PROVE Good(Un(op, a)) <=> Good(a) /\ Side(op, a)
  <2>1. Un(op, a)[1] = op /\ Children(Un(op, a)) = {a}
    BY UnParts, ChildrenOfUn
  <2>2. op \in UnaryFormula \cup BinaryFormula
          <=> op \in {"negation", "conjunction", "disjunction", "implication", "equality"}
    BY DEF UnaryFormula, BinaryFormula
  <2>3. Fits(Un(op, a)) <=> Side(op, a)
    BY <2>1, <2>2 DEF Fits, Side
  <2> QED  BY <2>3, NodesOf DEF Good
<1>3. ASSUME NEW op \in Binary, NEW a \in Tree, NEW b \in Tree
      PROVE  Good(Bin(op, a, b)) <=> Good(a) /\ Good(b) /\ Side(op, a) /\ Side(op, b)
  <2>1. Bin(op, a, b)[1] = op /\ Children(Bin(op, a, b)) = {a, b}
    BY BinParts, ChildrenOfBin
  <2>2. op \in UnaryFormula \cup BinaryFormula
          <=> op \in {"negation", "conjunction", "disjunction", "implication", "equality"}
    BY DEF UnaryFormula, BinaryFormula
  <2>3. Fits(Bin(op, a, b)) <=> Side(op, a) /\ Side(op, b)
    BY <2>1, <2>2 DEF Fits, Side
  <2> QED  BY <2>3, NodesOf DEF Good
<1> QED  BY <1>1, <1>2, <1>3

\* k may stand for n.
Same(n, k) ==
  /\ k \in Tree /\ Good(k)
  /\ IsFormulaNode(n) => IsFormulaNode(k) /\ Meaning(k) = Meaning(n)
  /\ IsTermNode(n) => IsTermNode(k) /\ Val(k) = Val(n)

LEMMA SameItself ==
  ASSUME NEW n \in Tree, Good(n)
  PROVE  Same(n, n)
BY DEF Same

LEMMA SameTransitive ==
  ASSUME NEW n, NEW k, NEW l, Same(n, k), Same(k, l)
  PROVE  Same(n, l)
BY DEF Same

LEMMA SameBelowUn ==
  ASSUME NEW op \in Unary, NEW a \in Tree, NEW k, Good(Un(op, a)), Same(a, k)
  PROVE  Same(Un(op, a), Un(op, k))
<1>1. Good(a) /\ Side(op, a)
  BY GoodOf
<1>2. k \in Tree /\ Good(k) /\ Side(op, k)
  BY <1>1 DEF Same, Side
<1>3. Un(op, k) \in Tree /\ Good(Un(op, k))
  BY <1>2, TreeHas, GoodOf
<1>4. CASE op = "negation"
  <2>1. Meaning(k) = Meaning(a)
    BY <1>1, <1>4 DEF Same, Side
  <2>2. Meaning(Un(op, k)) = Meaning(Un(op, a))
    <3>1. \A x \in Tree : Meaning(Un("negation", x)) = Model \ Meaning(x)
      BY MeansOfUn
    <3> QED  BY <1>2, <1>4, <2>1, <3>1
  <2> QED  BY <1>3, <1>4, <2>2, KindOfUn DEF Same
<1>5. CASE op = "eq_zero"
  <2>1. Val(k) = Val(a)
    BY <1>1, <1>5 DEF Same, Side
  <2>2. Meaning(Un(op, k)) = Meaning(Un(op, a))
    <3>1. \A x \in Tree : Meaning(Un("eq_zero", x)) = Empty[Val(x)]
      BY MeansOfUn
    <3> QED  BY <1>2, <1>5, <2>1, <3>1
  <2> QED  BY <1>3, <1>5, <2>2, KindOfUn DEF Same
<1>6. CASE op = "complement"
  <2>1. Val(k) = Val(a)
    BY <1>1, <1>6 DEF Same, Side
  <2>2. Val(Un(op, k)) = Val(Un(op, a))
    <3>1. \A x \in Tree : Val(Un("complement", x)) = Point \ Val(x)
      BY MeansOfUn
    <3> QED  BY <1>2, <1>6, <2>1, <3>1
  <2> QED  BY <1>3, <1>6, <2>2, KindOfUn DEF Same
<1> QED  BY <1>4, <1>5, <1>6, UnaryIs

LEMMA SameBelowBin ==
  ASSUME NEW op \in Binary, NEW a \in Tree, NEW b \in Tree, NEW k, NEW l,
         Good(Bin(op, a, b)), Same(a, k), Same(b, l)
  PROVE  Same(Bin(op, a, b), Bin(op, k, l))
<1>1. Good(a) /\ Good(b) /\ Side(op, a) /\ Side(op, b)
  BY GoodOf
<1>2. k \in Tree /\ l \in Tree /\ Good(k) /\ Good(l) /\ Side(op, k) /\ Side(op, l)
  BY <1>1 DEF Same, Side
<1>3. Bin(op, k, l) \in Tree /\ Good(Bin(op, k, l))
  BY <1>2, TreeHas, GoodOf
<1>4. CASE op \in {"conjunction", "disjunction", "implication", "equality"}
  <2>1. Meaning(k) = Meaning(a) /\ Meaning(l) = Meaning(b)
    BY <1>1, <1>4 DEF Same, Side
  <2>2. Meaning(Bin(op, k, l)) = Meaning(Bin(op, a, b))
    <3>1. CASE op = "conjunction"
      <4>1. Meaning(Bin(op, a, b)) = Meaning(a) \cap Meaning(b)
        BY <3>1, MeansOfJunction
      <4>2. Meaning(Bin(op, k, l)) = Meaning(k) \cap Meaning(l)
        BY <1>2, <3>1, MeansOfJunction
      <4> QED  BY <2>1, <4>1, <4>2
    <3>2. CASE op = "disjunction"
      <4>1. Meaning(Bin(op, a, b)) = Meaning(a) \cup Meaning(b)
        BY <3>2, MeansOfJunction
      <4>2. Meaning(Bin(op, k, l)) = Meaning(k) \cup Meaning(l)
        BY <1>2, <3>2, MeansOfJunction
      <4> QED  BY <2>1, <4>1, <4>2
    <3>3. CASE op = "implication"
      <4>1. Meaning(Bin(op, a, b)) = (Model \ Meaning(a)) \cup Meaning(b)
        BY <3>3, MeansOfJunction
      <4>2. Meaning(Bin(op, k, l)) = (Model \ Meaning(k)) \cup Meaning(l)
        BY <1>2, <3>3, MeansOfJunction
      <4> QED  BY <2>1, <4>1, <4>2
    <3>4. CASE op = "equality"
      <4>1. Meaning(Bin(op, a, b)) = Equal(Meaning(a), Meaning(b))
        BY <3>4, MeansOfJunction
      <4>2. Meaning(Bin(op, k, l)) = Equal(Meaning(k), Meaning(l))
        BY <1>2, <3>4, MeansOfJunction
      <4> QED  BY <2>1, <4>1, <4>2
    <3> QED  BY <1>4, <3>1, <3>2, <3>3, <3>4
  <2> QED  BY <1>3, <1>4, <2>2, KindOfBin DEF Same
<1>5. CASE op \in {"contact", "less_eq", "measured_less_eq"}
  <2>1. Val(k) = Val(a) /\ Val(l) = Val(b)
    BY <1>1, <1>5 DEF Same, Side
  <2>2. Meaning(Bin(op, k, l)) = Meaning(Bin(op, a, b))
    <3>1. CASE op = "contact"
      <4>1. Meaning(Bin(op, a, b)) = InContact[Val(a)][Val(b)]
        BY <3>1, MeansOfAtomic
      <4>2. Meaning(Bin(op, k, l)) = InContact[Val(k)][Val(l)]
        BY <1>2, <3>1, MeansOfAtomic
      <4> QED  BY <2>1, <4>1, <4>2
    <3>2. CASE op = "less_eq"
      <4>1. Meaning(Bin(op, a, b)) = Empty[Val(a) \ Val(b)]
        BY <3>2, MeansOfAtomic
      <4>2. Meaning(Bin(op, k, l)) = Empty[Val(k) \ Val(l)]
        BY <1>2, <3>2, MeansOfAtomic
      <4> QED  BY <2>1, <4>1, <4>2
    <3>3. CASE op = "measured_less_eq"
      <4>1. Meaning(Bin(op, a, b)) = LessEq[Val(a)][Val(b)]
        BY <3>3, MeansOfAtomic
      <4>2. Meaning(Bin(op, k, l)) = LessEq[Val(k)][Val(l)]
        BY <1>2, <3>3, MeansOfAtomic
      <4> QED  BY <2>1, <4>1, <4>2
    <3> QED  BY <1>5, <3>1, <3>2, <3>3
  <2> QED  BY <1>3, <1>5, <2>2, KindOfBin DEF Same
<1>6. CASE op \in {"union_", "intersection"}
  <2>1. Val(k) = Val(a) /\ Val(l) = Val(b)
    BY <1>1, <1>6 DEF Same, Side
  <2>2. Val(Bin(op, k, l)) = Val(Bin(op, a, b))
    <3>1. CASE op = "union_"
      <4>1. Val(Bin(op, a, b)) = Val(a) \cup Val(b)
        BY <3>1, MeansOfTerm
      <4>2. Val(Bin(op, k, l)) = Val(k) \cup Val(l)
        BY <1>2, <3>1, MeansOfTerm
      <4> QED  BY <2>1, <4>1, <4>2
    <3>2. CASE op = "intersection"
      <4>1. Val(Bin(op, a, b)) = Val(a) \cap Val(b)
        BY <3>2, MeansOfTerm
      <4>2. Val(Bin(op, k, l)) = Val(k) \cap Val(l)
        BY <1>2, <3>2, MeansOfTerm
      <4> QED  BY <2>1, <4>1, <4>2
    <3> QED  BY <1>6, <3>1, <3>2
  <2> QED  BY <1>3, <1>6, <2>2, KindOfBin DEF Same
<1> QED  BY <1>4, <1>5, <1>6, BinaryIs

-----------------------------------------------------------------------------
(* Each rule leaves the meaning of a node.                                 *)

LEMMA StructuresOf ==
  ASSUME NEW u, u \subseteq Point, NEW v, v \subseteq Point
  PROVE  /\ Empty[{}] = Model /\ Empty[Point] = {}
         /\ InContact[{}][u] = {} /\ InContact[u][{}] = {}
         /\ InContact[u][u] = Model \ Empty[u]
         /\ InContact[u][Point] = Model \ Empty[u] /\ InContact[Point][u] = Model \ Empty[u]
         /\ Empty[u \cup v] = Empty[u] \cap Empty[v]
<1>1. u \in SUBSET Point /\ v \in SUBSET Point /\ {} \in SUBSET Point /\ Point \in SUBSET Point
  OBVIOUS
<1>2. Empty[{}] = Model /\ Empty[Point] = {}
  BY StructureAssumption
<1>3. InContact[{}][u] = {} /\ InContact[u][u] = Model \ Empty[u]
  BY <1>1, StructureAssumption
<1>4. InContact[u][Point] = Model \ Empty[u]
  BY <1>1, StructureAssumption
<1>5. InContact[u][{}] = InContact[{}][u] /\ InContact[Point][u] = InContact[u][Point]
  <2>1. \A x, y \in SUBSET Point : InContact[x][y] = InContact[y][x]
    BY StructureAssumption
  <2> QED  BY <1>1, <2>1
<1>6. Empty[u \cup v] = Empty[u] \cap Empty[v]
  BY <1>1, StructureAssumption
<1> QED  BY <1>2, <1>3, <1>4, <1>5, <1>6

LEMMA ContactsOfUnion ==
  ASSUME NEW u, u \subseteq Point, NEW v, v \subseteq Point, NEW w, w \subseteq Point,
         NEW c, c = u \cup v
  PROVE  /\ InContact[c][w] = InContact[u][w] \cup InContact[v][w]
         /\ InContact[w][c] = InContact[w][u] \cup InContact[w][v]
<1>1. /\ u \in SUBSET Point /\ v \in SUBSET Point /\ w \in SUBSET Point /\ c \in SUBSET Point
  OBVIOUS
<1>2. \A x, y \in SUBSET Point : InContact[x][y] = InContact[y][x]
  BY StructureAssumption
<1>3. \A x, y, z \in SUBSET Point :
        InContact[x \cup y][z] = InContact[x][z] \cup InContact[y][z]
  BY StructureAssumption
<1>4. InContact[u \cup v][w] = InContact[u][w] \cup InContact[v][w]
  <2>1. \A z \in SUBSET Point : InContact[u \cup v][z] = InContact[u][z] \cup InContact[v][z]
    BY ONLY <1>1, <1>3, Zenon
  <2> QED  BY ONLY <1>1, <2>1, Zenon
<1>5. InContact[w][u] = InContact[u][w] /\ InContact[w][v] = InContact[v][w]
  BY <1>1, <1>2
<1>6. InContact[w][c] = InContact[c][w]
  BY <1>1, <1>2
<1> QED  BY <1>4, <1>5, <1>6

LEMMA NotIs == \A f : Not(f) = Un("negation", f) /\ EqZero(f) = Un("eq_zero", f)
BY DEF Not, EqZero, Un

LEMMA EqZeroOf ==
  ASSUME NEW t \in Tree, Good(t), IsTermNode(t)
  PROVE  /\ EqZero(t) \in Tree /\ Good(EqZero(t)) /\ IsFormulaNode(EqZero(t))
         /\ Meaning(EqZero(t)) = Empty[Val(t)]
<1>1. "eq_zero" \in Unary
  BY UnaryIs
<1>2. Good(Un("eq_zero", t)) /\ Un("eq_zero", t) \in Tree
  BY <1>1, GoodOf, TreeHas DEF Side
<1> QED  BY <1>1, <1>2, NotIs, KindOfUn, MeansOfUn

LEMMA NotOf ==
  ASSUME NEW f \in Tree, Good(f), IsFormulaNode(f)
  PROVE  /\ Not(f) \in Tree /\ Good(Not(f)) /\ IsFormulaNode(Not(f))
         /\ Meaning(Not(f)) = Model \ Meaning(f)
<1>1. "negation" \in Unary
  BY UnaryIs
<1>2. Good(Un("negation", f)) /\ Un("negation", f) \in Tree
  BY <1>1, GoodOf, TreeHas DEF Side
<1> QED  BY <1>1, <1>2, NotIs, KindOfUn, MeansOfUn

LEMMA JunctionOf ==
  ASSUME NEW op \in {"conjunction", "disjunction"}, NEW f \in Tree, Good(f), IsFormulaNode(f),
         NEW g \in Tree, Good(g), IsFormulaNode(g)
  PROVE  /\ Bin(op, f, g) \in Tree /\ Good(Bin(op, f, g)) /\ IsFormulaNode(Bin(op, f, g))
         /\ op = "conjunction" => Meaning(Bin(op, f, g)) = Meaning(f) \cap Meaning(g)
         /\ op = "disjunction" => Meaning(Bin(op, f, g)) = Meaning(f) \cup Meaning(g)
<1>1. op \in Binary
  BY BinaryIs
<1>2. Good(Bin(op, f, g)) /\ Bin(op, f, g) \in Tree
  BY <1>1, GoodOf, TreeHas DEF Side
<1> QED  BY <1>1, <1>2, KindOfBin, MeansOfJunction

LEMMA AtomOf ==
  ASSUME NEW op \in {"contact", "less_eq"}, NEW t \in Tree, Good(t), IsTermNode(t),
         NEW u \in Tree, Good(u), IsTermNode(u)
  PROVE  /\ Bin(op, t, u) \in Tree /\ Good(Bin(op, t, u)) /\ IsFormulaNode(Bin(op, t, u))
         /\ op = "contact" => Meaning(Bin(op, t, u)) = InContact[Val(t)][Val(u)]
         /\ op = "less_eq" => Meaning(Bin(op, t, u)) = Empty[Val(t) \ Val(u)]
<1>1. op \in Binary
  BY BinaryIs
<1>2. Good(Bin(op, t, u)) /\ Bin(op, t, u) \in Tree
  BY <1>1, GoodOf, TreeHas DEF Side
<1> QED  BY <1>1, <1>2, KindOfBin, MeansOfAtomic

LEMMA NodeIs ==
  ASSUME NEW n \in Tree
  PROVE  /\ n[1] \in Unary => \E a \in Tree : n = Un(n[1], a) /\ n[2] = a
         /\ n[1] \in Binary => \E a, b \in Tree : n = Bin(n[1], a, b) /\ n[2] = a /\ n[3] = b
         /\ n[1] \notin Unary /\ n[1] \notin Binary => n \in Leaf
<1>1. n \in Leaf => n[1] \notin Unary /\ n[1] \notin Binary
  BY LeafOperation, Operations
<1>2. ASSUME NEW op \in Unary, NEW a \in Tree, n = Un(op, a)
      PROVE  n[1] = op /\ n[2] = a /\ n[1] \notin Binary
  BY <1>2, UnParts, Operations
<1>3. ASSUME NEW op \in Binary, NEW a \in Tree, NEW b \in Tree, n = Bin(op, a, b)
      PROVE  n[1] = op /\ n[2] = a /\ n[3] = b /\ n[1] \notin Unary
  BY <1>3, BinParts, Operations
<1> QED  BY <1>1, <1>2, <1>3, TreeCases

LEMMA GoodSides ==
  ASSUME NEW n \in Tree, Good(n)
  PROVE  /\ n[1] \in Unary => n[2] \in Tree /\ Good(n[2]) /\ Side(n[1], n[2])
         /\ n[1] \in Binary => /\ n[2] \in Tree /\ Good(n[2]) /\ Side(n[1], n[2])
                               /\ n[3] \in Tree /\ Good(n[3]) /\ Side(n[1], n[3])
<1>1. CASE n[1] \in Unary
  <2>1. PICK a \in Tree : n = Un(n[1], a) /\ n[2] = a
    BY <1>1, NodeIs
  <2>2. n[1] \notin Binary
    BY <1>1, Operations
  <2> QED  BY <1>1, <2>1, <2>2, GoodOf
<1>2. CASE n[1] \in Binary
  <2>1. PICK a \in Tree, b \in Tree : n = Bin(n[1], a, b) /\ n[2] = a /\ n[3] = b
    BY <1>2, NodeIs
  <2>2. n[1] \notin Unary
    BY <1>2, Operations
  <2> QED  BY <1>2, <2>1, <2>2, GoodOf
<1> QED  BY <1>1, <1>2

\* One formula for another.
LEMMA SameFormula ==
  ASSUME NEW n, IsFormulaNode(n), ~IsTermNode(n),
         NEW k \in Tree, Good(k), IsFormulaNode(k), Meaning(k) = Meaning(n)
  PROVE  Same(n, k)
BY DEF Same

LEMMA SameTerm ==
  ASSUME NEW n, IsTermNode(n), ~IsFormulaNode(n),
         NEW k \in Tree, Good(k), IsTermNode(k), Val(k) = Val(n)
  PROVE  Same(n, k)
BY DEF Same

LEMMA SameImplication ==
  ASSUME NEW n \in Tree, Good(n)
  PROVE  Same(n, ConvertImplicationEqualityToConjDisj(n))
<1> DEFINE k == ConvertImplicationEqualityToConjDisj(n)
<1>1. CASE n[1] \notin {"implication", "equality"}
  <2>1. k = n
    BY <1>1 DEF ConvertImplicationEqualityToConjDisj
  <2> QED  BY <2>1, SameItself
<1>2. ASSUME n[1] \in {"implication", "equality"} PROVE Same(n, k)
  <2>1. n[1] \in Binary
    BY <1>2, BinaryIs
  <2>2. PICK a \in Tree, b \in Tree : n = Bin(n[1], a, b) /\ n[2] = a /\ n[3] = b
    BY <2>1, NodeIs
  <2>3. Good(a) /\ Good(b) /\ IsFormulaNode(a) /\ IsFormulaNode(b)
    BY <1>2, <2>1, <2>2, GoodSides DEF Side
  <2>4. IsFormulaNode(n) /\ ~IsTermNode(n)
    BY <1>2, <2>1, <2>2, KindOfBin
  <2>5. Meaning(a) \subseteq Model /\ Meaning(b) \subseteq Model
    BY MeansTyped
  <2>6. CASE n[1] = "implication"
    <3>1. k = Bin("disjunction", Not(a), b)
      BY <2>2, <2>6 DEF ConvertImplicationEqualityToConjDisj, Bin
    <3>2. /\ Not(a) \in Tree /\ Good(Not(a)) /\ IsFormulaNode(Not(a))
          /\ Meaning(Not(a)) = Model \ Meaning(a)
      BY <2>3, NotOf
    <3>3. /\ k \in Tree /\ Good(k) /\ IsFormulaNode(k)
          /\ Meaning(k) = (Model \ Meaning(a)) \cup Meaning(b)
      BY <2>3, <3>1, <3>2, JunctionOf
    <3>4. Meaning(n) = (Model \ Meaning(a)) \cup Meaning(b)
      BY <2>2, <2>6, MeansOfJunction
    <3> QED  BY <2>4, <3>3, <3>4, SameFormula
  <2>7. CASE n[1] = "equality"
    <3> DEFINE both == Bin("conjunction", a, b)
               none == Bin("conjunction", Not(a), Not(b))
    <3>1. k = Bin("disjunction", both, none)
      BY <2>2, <2>7 DEF ConvertImplicationEqualityToConjDisj, Bin
    <3>2. /\ Not(a) \in Tree /\ Good(Not(a)) /\ IsFormulaNode(Not(a))
          /\ Meaning(Not(a)) = Model \ Meaning(a)
      BY <2>3, NotOf
    <3>3. /\ Not(b) \in Tree /\ Good(Not(b)) /\ IsFormulaNode(Not(b))
          /\ Meaning(Not(b)) = Model \ Meaning(b)
      BY <2>3, NotOf
    <3>4. /\ both \in Tree /\ Good(both) /\ IsFormulaNode(both)
          /\ Meaning(both) = Meaning(a) \cap Meaning(b)
      BY <2>3, JunctionOf
    <3>5. /\ none \in Tree /\ Good(none) /\ IsFormulaNode(none)
          /\ Meaning(none) = Meaning(Not(a)) \cap Meaning(Not(b))
      BY <3>2, <3>3, JunctionOf
    <3> HIDE DEF both, none
    <3>6. /\ k \in Tree /\ Good(k) /\ IsFormulaNode(k)
          /\ Meaning(k) = Meaning(both) \cup Meaning(none)
      BY <3>1, <3>4, <3>5, JunctionOf
    <3>7. Meaning(n) = Equal(Meaning(a), Meaning(b))
      BY <2>2, <2>7, MeansOfJunction
    <3>8. Meaning(k) = Meaning(n)
      BY <2>5, <3>2, <3>3, <3>4, <3>5, <3>6, <3>7 DEF Equal
    <3> QED  BY <2>4, <3>6, <3>8, SameFormula
  <2> QED  BY <1>2, <2>6, <2>7
<1> QED  BY <1>1, <1>2

\* The sides of an atomic formula.
LEMMA AtomicSides ==
  ASSUME NEW n \in Tree, Good(n), n[1] \in {"contact", "less_eq"}
  PROVE  /\ n[2] \in Tree /\ Good(n[2]) /\ IsTermNode(n[2]) /\ Val(n[2]) \subseteq Point
         /\ n[3] \in Tree /\ Good(n[3]) /\ IsTermNode(n[3]) /\ Val(n[3]) \subseteq Point
         /\ n = Bin(n[1], n[2], n[3])
         /\ IsFormulaNode(n) /\ ~IsTermNode(n)
         /\ n[1] = "contact" => Meaning(n) = InContact[Val(n[2])][Val(n[3])]
         /\ n[1] = "less_eq" => Meaning(n) = Empty[Val(n[2]) \ Val(n[3])]
<1>1. n[1] \in Binary
  BY BinaryIs
<1>2. PICK a \in Tree, b \in Tree : n = Bin(n[1], a, b) /\ n[2] = a /\ n[3] = b
  BY <1>1, NodeIs
<1>3. Good(a) /\ Good(b) /\ IsTermNode(a) /\ IsTermNode(b)
  BY <1>1, <1>2, GoodSides DEF Side
<1>4. IsFormulaNode(n) /\ ~IsTermNode(n)
  BY <1>1, <1>2, KindOfBin
<1>5. Val(a) \subseteq Point /\ Val(b) \subseteq Point
  BY MeansTyped
<1>6. n[1] = "contact" => Meaning(n) = InContact[Val(a)][Val(b)]
  <2>1. Meaning(Bin("contact", a, b)) = InContact[Val(a)][Val(b)]
    BY MeansOfAtomic
  <2> QED  BY <1>2, <2>1
<1>7. n[1] = "less_eq" => Meaning(n) = Empty[Val(a) \ Val(b)]
  <2>1. Meaning(Bin("less_eq", a, b)) = Empty[Val(a) \ Val(b)]
    BY MeansOfAtomic
  <2> QED  BY <1>2, <2>1
<1> QED  BY <1>2, <1>3, <1>4, <1>5, <1>6, <1>7

LEMMA ConstantOf ==
  /\ True \in Tree /\ Good(True) /\ IsFormulaNode(True) /\ IsTermNode(True)
  /\ False \in Tree /\ Good(False) /\ IsFormulaNode(False) /\ IsTermNode(False)
  /\ Val(True) = Point /\ Val(False) = {} /\ Meaning(True) = Model /\ Meaning(False) = {}
<1>1. True \in Leaf /\ False \in Leaf
  BY DEF Leaf
<1> QED  BY <1>1, TreeHas, GoodOf, KindOfConstant, MeansOfLeaf

LEMMA SomeContact ==
  ASSUME NEW n, IsFormulaNode(n), ~IsTermNode(n),
         NEW t \in Tree, Good(t), IsTermNode(t), Meaning(n) = Model \ Empty[Val(t)]
  PROVE  Same(n, Not(EqZero(t)))
<1>1. /\ EqZero(t) \in Tree /\ Good(EqZero(t)) /\ IsFormulaNode(EqZero(t))
      /\ Meaning(EqZero(t)) = Empty[Val(t)]
  BY EqZeroOf
<1> DEFINE e == EqZero(t)
<1> HIDE DEF e
<1>2. /\ Not(e) \in Tree /\ Good(Not(e)) /\ IsFormulaNode(Not(e))
      /\ Meaning(Not(e)) = Model \ Meaning(e)
  BY <1>1, NotOf DEF e
<1>3. Meaning(Not(e)) = Meaning(n)
  BY <1>1, <1>2 DEF e
<1>4. Same(n, Not(e))
  BY <1>2, <1>3, SameFormula
<1> QED  BY <1>4 DEF e

LEMMA SameEqualTerms ==
  ASSUME NEW n \in Tree, Good(n)
  PROVE  Same(n, ConvertLessEqContactWithEqualTerms(n))
<1> DEFINE k == ConvertLessEqContactWithEqualTerms(n)
<1>1. CASE ~(n[1] \in {"contact", "less_eq"} /\ n[2] = n[3])
  <2>1. k = n
    BY <1>1 DEF ConvertLessEqContactWithEqualTerms
  <2> QED  BY <2>1, SameItself
<1>2. ASSUME n[1] = "contact", n[2] = n[3] PROVE Same(n, k)
  <2>1. k = Not(EqZero(n[3]))
    BY <1>2 DEF ConvertLessEqContactWithEqualTerms
  <2>2. /\ n[3] \in Tree /\ Good(n[3]) /\ IsTermNode(n[3]) /\ Val(n[3]) \subseteq Point
        /\ IsFormulaNode(n) /\ ~IsTermNode(n) /\ Meaning(n) = InContact[Val(n[3])][Val(n[3])]
    BY <1>2, AtomicSides
  <2>3. Meaning(n) = Model \ Empty[Val(n[3])]
    BY <2>2, StructuresOf
  <2>4. Same(n, Not(EqZero(n[3])))
    BY <2>2, <2>3, SomeContact
  <2> QED  BY <2>1, <2>4
<1>3. ASSUME n[1] = "less_eq", n[2] = n[3] PROVE Same(n, k)
  <2>1. k = True
    BY <1>3 DEF ConvertLessEqContactWithEqualTerms
  <2>2. /\ Val(n[3]) \subseteq Point /\ IsFormulaNode(n) /\ ~IsTermNode(n)
        /\ Meaning(n) = Empty[Val(n[3]) \ Val(n[3])]
    BY <1>3, AtomicSides
  <2>3. Meaning(n) = Model
    <3>1. Val(n[3]) \ Val(n[3]) = {}
      OBVIOUS
    <3> QED  BY <2>2, <3>1, StructuresOf
  <2> QED  BY <2>1, <2>2, <2>3, ConstantOf, SameFormula
<1> QED  BY <1>1, <1>2, <1>3

LEMMA SameLessEq ==
  ASSUME NEW n \in Tree, Good(n)
  PROVE  Same(n, ConvertLessEqToEqZero(n))
<1> DEFINE k == ConvertLessEqToEqZero(n)
<1>1. CASE n[1] # "less_eq"
  <2>1. k = n
    BY <1>1 DEF ConvertLessEqToEqZero
  <2> QED  BY <2>1, SameItself
<1>2. ASSUME n[1] = "less_eq" PROVE Same(n, k)
  <2> DEFINE a == n[2]
             b == n[3]
             t == Bin("intersection", a, Un("complement", b))
  <2>1. k = EqZero(t)
    BY <1>2 DEF ConvertLessEqToEqZero, Bin, Un
  <2>2. /\ a \in Tree /\ Good(a) /\ IsTermNode(a) /\ Val(a) \subseteq Point
        /\ b \in Tree /\ Good(b) /\ IsTermNode(b) /\ Val(b) \subseteq Point
        /\ IsFormulaNode(n) /\ ~IsTermNode(n) /\ Meaning(n) = Empty[Val(a) \ Val(b)]
    BY <1>2, AtomicSides
  <2>3. "complement" \in Unary /\ "intersection" \in Binary
    BY UnaryIs, BinaryIs
  <2> HIDE DEF a, b
  <2>4. Good(Un("complement", b)) /\ Un("complement", b) \in Tree /\ IsTermNode(Un("complement", b))
    BY <2>2, <2>3, GoodOf, TreeHas, KindOfUn DEF Side
  <2>5. t \in Tree /\ Good(t) /\ IsTermNode(t)
    BY <2>2, <2>3, <2>4, GoodOf, TreeHas, KindOfBin DEF Side
  <2>6. Val(t) = Val(a) \cap Val(Un("complement", b))
    BY <2>2, <2>4, MeansOfTerm
  <2>7. Val(Un("complement", b)) = Point \ Val(b)
    BY <2>2, MeansOfUn
  <2>8. Val(t) = Val(a) \ Val(b)
    BY <2>2, <2>6, <2>7
  <2> HIDE DEF t
  <2>9. /\ EqZero(t) \in Tree /\ Good(EqZero(t)) /\ IsFormulaNode(EqZero(t))
        /\ Meaning(EqZero(t)) = Empty[Val(t)]
    BY <2>5, EqZeroOf
  <2>10. Meaning(EqZero(t)) = Meaning(n)
    BY <2>2, <2>8, <2>9
  <2> QED  BY <2>1, <2>2, <2>9, <2>10, SameFormula
<1> QED  BY <1>1, <1>2

LEMMA SameContacts ==
  ASSUME NEW n \in Tree, Good(n)
  PROVE  Same(n, ConvertContactsWithConstantTerms(n))
<1> DEFINE k == ConvertContactsWithConstantTerms(n)
<1>1. CASE ~(n[1] = "contact" /\ (n[3] = True \/ n[2] = True))
  <2>1. k = n
    BY <1>1 DEF ConvertContactsWithConstantTerms
  <2> QED  BY <2>1, SameItself
<1>2. ASSUME n[1] = "contact", n[3] = True PROVE Same(n, k)
  <2>1. k = Not(EqZero(n[2]))
    BY <1>2 DEF ConvertContactsWithConstantTerms
  <2>2. /\ n[2] \in Tree /\ Good(n[2]) /\ IsTermNode(n[2]) /\ Val(n[2]) \subseteq Point
        /\ IsFormulaNode(n) /\ ~IsTermNode(n) /\ Meaning(n) = InContact[Val(n[2])][Val(True)]
    BY <1>2, AtomicSides
  <2>3. Meaning(n) = Model \ Empty[Val(n[2])]
    BY <2>2, ConstantOf, StructuresOf
  <2>4. Same(n, Not(EqZero(n[2])))
    BY <2>2, <2>3, SomeContact
  <2> QED  BY <2>1, <2>4
<1>3. ASSUME n[1] = "contact", n[3] # True, n[2] = True PROVE Same(n, k)
  <2>1. k = Not(EqZero(n[3]))
    BY <1>3 DEF ConvertContactsWithConstantTerms
  <2>2. /\ n[3] \in Tree /\ Good(n[3]) /\ IsTermNode(n[3]) /\ Val(n[3]) \subseteq Point
        /\ IsFormulaNode(n) /\ ~IsTermNode(n) /\ Meaning(n) = InContact[Val(True)][Val(n[3])]
    BY <1>3, AtomicSides
  <2>3. Meaning(n) = Model \ Empty[Val(n[3])]
    BY <2>2, ConstantOf, StructuresOf
  <2>4. Same(n, Not(EqZero(n[3])))
    BY <2>2, <2>3, SomeContact
  <2> QED  BY <2>1, <2>4
<1> QED  BY <1>1, <1>2, <1>3

LEMMA SameDoubleNegation ==
  ASSUME NEW n \in Tree, Good(n)
  PROVE  Same(n, ReduceDoubleNegation(n))
<1> DEFINE k == ReduceDoubleNegation(n)
<1>1. CASE ~(n[1] \in {"negation", "complement"} /\ n[2][1] = n[1])
  <2>1. k = n
    BY <1>1 DEF ReduceDoubleNegation
  <2> QED  BY <2>1, SameItself
<1>2. ASSUME n[1] \in {"negation", "complement"}, n[2][1] = n[1] PROVE Same(n, k)
  <2>1. n[1] \in Unary
    BY <1>2, UnaryIs
  <2>2. PICK a \in Tree : n = Un(n[1], a) /\ n[2] = a
    BY <2>1, NodeIs
  <2>3. PICK b \in Tree : a = Un(n[1], b) /\ a[2] = b
    BY <1>2, <2>1, <2>2, NodeIs
  <2>4. k = b
    BY <1>2, <2>2, <2>3 DEF ReduceDoubleNegation
  <2>5. Good(a) /\ Good(b) /\ Side(n[1], b)
    BY <2>1, <2>2, <2>3, GoodOf
  <2>6. CASE n[1] = "negation"
    <3>1. Meaning(a) = Model \ Meaning(b) /\ Meaning(n) = Model \ Meaning(a)
      BY <2>2, <2>3, <2>6, MeansOfUn
    <3>2. Meaning(b) = Meaning(n)
      BY <3>1, MeansTyped
    <3>3. IsFormulaNode(b) /\ IsFormulaNode(n) /\ ~IsTermNode(n)
      BY <2>1, <2>2, <2>5, <2>6, KindOfUn DEF Side
    <3> QED  BY <2>4, <2>5, <3>2, <3>3, SameFormula
  <2>7. CASE n[1] = "complement"
    <3>1. Val(a) = Point \ Val(b) /\ Val(n) = Point \ Val(a)
      BY <2>2, <2>3, <2>7, MeansOfUn
    <3>2. Val(b) = Val(n)
      BY <3>1, MeansTyped
    <3>3. IsTermNode(b) /\ IsTermNode(n) /\ ~IsFormulaNode(n)
      BY <2>1, <2>2, <2>5, <2>7, KindOfUn DEF Side
    <3> QED  BY <2>4, <2>5, <3>2, <3>3, SameTerm
  <2> QED  BY <1>2, <2>6, <2>7
<1> QED  BY <1>1, <1>2

\* Constants among the children of a node, one by one.
LEMMA ReducedUn ==
  ASSUME NEW op \in Unary, NEW a
  PROVE  ReduceConstants(Un(op, a)) =
           IF a = False THEN True
           ELSE IF a = True THEN False ELSE Un(op, a)
<1>1. Un(op, a)[1] = op /\ Children(Un(op, a)) = {a}
  BY UnParts, ChildrenOfUn
<1>2. op \in {"negation", "eq_zero", "complement"}
  BY UnaryIs
<1>3. op \in {"negation", "complement"} \/ op = "eq_zero"
  BY <1>2
<1> QED  BY <1>1, <1>3 DEF ReduceConstants

LEMMA ReducedAnd ==
  ASSUME NEW op \in {"conjunction", "intersection"}, NEW a, NEW b, NEW n, n = Bin(op, a, b),
         NEW k, k = ReduceConstants(n)
  PROVE  \/ k = n /\ a \notin {True, False} /\ b \notin {True, False}
         \/ a = True /\ k = b
         \/ b = True /\ k = a
         \/ (a = False \/ b = False) /\ k = False
<1>1. op \in Binary
  BY BinaryIs
<1>2. n[1] = op /\ n[2] = a /\ n[3] = b /\ Children(n) = {a, b}
  BY <1>1, BinParts, ChildrenOfBin
<1>3. k = IF a = True \/ b = True THEN IF b = True THEN a ELSE b
          ELSE IF a = False \/ b = False THEN False ELSE n
  BY <1>2 DEF ReduceConstants
<1> QED  BY <1>3

LEMMA ReducedOr ==
  ASSUME NEW op \in {"disjunction", "union_"}, NEW a, NEW b, NEW n, n = Bin(op, a, b),
         NEW k, k = ReduceConstants(n)
  PROVE  \/ k = n /\ a \notin {True, False} /\ b \notin {True, False}
         \/ a = False /\ k = b
         \/ b = False /\ k = a
         \/ (a = True \/ b = True) /\ k = True
<1>1. op \in Binary
  BY BinaryIs
<1>2. n[1] = op /\ n[2] = a /\ n[3] = b /\ Children(n) = {a, b}
  BY <1>1, BinParts, ChildrenOfBin
<1>3. k = IF a = False \/ b = False THEN IF b = False THEN a ELSE b
          ELSE IF a = True \/ b = True THEN True ELSE n
  BY <1>2 DEF ReduceConstants
<1> QED  BY <1>3

LEMMA ReducedContact ==
  ASSUME NEW a, NEW b, NEW n, n = Bin("contact", a, b), NEW k, k = ReduceConstants(n)
  PROVE  \/ k = n /\ a # False /\ b # False /\ ~(a = True /\ b = True)
         \/ (a = False \/ b = False) /\ k = False
         \/ a = True /\ b = True /\ k = True
<1>1. "contact" \in Binary
  BY BinaryIs
<1>2. n[1] = "contact" /\ n[2] = a /\ n[3] = b /\ Children(n) = {a, b}
  BY <1>1, BinParts, ChildrenOfBin
<1>3. {a, b} = {True} <=> a = True /\ b = True
  OBVIOUS
<1>4. k = IF a = False \/ b = False THEN False ELSE IF a = True /\ b = True THEN True ELSE n
  BY <1>2, <1>3 DEF ReduceConstants
<1> QED  BY <1>4

LEMMA ReducedLessEq ==
  ASSUME NEW a, NEW b, NEW n, n = Bin("less_eq", a, b), NEW k, k = ReduceConstants(n)
  PROVE  \/ k = n
         \/ (a = False \/ b = True) /\ k = True
<1>1. "less_eq" \in Binary
  BY BinaryIs
<1>2. n[1] = "less_eq" /\ n[2] = a /\ n[3] = b
  BY <1>1, BinParts
<1> QED  BY <1>2 DEF ReduceConstants

LEMMA ReducedOther ==
  ASSUME NEW n, n[1] \in {"measured_less_eq", "implication", "equality"} \cup Constant \cup {"variable"}
  PROVE  ReduceConstants(n) = n
BY DEF ReduceConstants, Constant

LEMMA SameReducedUn ==
  ASSUME NEW op \in Unary, NEW a \in Tree, Good(Un(op, a))
  PROVE  Same(Un(op, a), ReduceConstants(Un(op, a)))
<1> DEFINE n == Un(op, a)
<1>1. n \in Tree
  BY TreeHas
<1>2. CASE a \notin {True, False}
  <2>1. ReduceConstants(n) = n
    BY <1>2, ReducedUn
  <2> QED  BY <1>1, <2>1, SameItself
<1>3. CASE a = False
  <2>1. ReduceConstants(n) = True
    BY <1>3, ReducedUn
  <2>2. CASE op = "complement"
    <3>1. Val(n) = Point \ Val(a) /\ IsTermNode(n) /\ ~IsFormulaNode(n)
      BY <2>2, MeansOfUn, KindOfUn
    <3>2. Val(True) = Val(n)
      BY <1>3, <3>1, ConstantOf
    <3> QED  BY <2>1, <3>1, <3>2, ConstantOf, SameTerm
  <2>3. CASE op = "negation"
    <3>1. Meaning(n) = Model \ Meaning(a) /\ IsFormulaNode(n) /\ ~IsTermNode(n)
      BY <2>3, MeansOfUn, KindOfUn
    <3>2. Meaning(True) = Meaning(n)
      BY <1>3, <3>1, ConstantOf
    <3> QED  BY <2>1, <3>1, <3>2, ConstantOf, SameFormula
  <2>4. CASE op = "eq_zero"
    <3>1. Meaning(n) = Empty[Val(a)] /\ IsFormulaNode(n) /\ ~IsTermNode(n)
      BY <2>4, MeansOfUn, KindOfUn
    <3>2. Meaning(True) = Meaning(n)
      BY <1>3, <3>1, ConstantOf, StructuresOf
    <3> QED  BY <2>1, <3>1, <3>2, ConstantOf, SameFormula
  <2> QED  BY <2>2, <2>3, <2>4, UnaryIs
<1>4. CASE a = True
  <2>1. ReduceConstants(n) = False
    <3>1. True # False
      BY DEF True, False
    <3> QED  BY <1>4, <3>1, ReducedUn
  <2>2. CASE op = "complement"
    <3>1. Val(n) = Point \ Val(a) /\ IsTermNode(n) /\ ~IsFormulaNode(n)
      BY <2>2, MeansOfUn, KindOfUn
    <3>2. Val(False) = Val(n)
      BY <1>4, <3>1, ConstantOf
    <3> QED  BY <2>1, <3>1, <3>2, ConstantOf, SameTerm
  <2>3. CASE op = "negation"
    <3>1. Meaning(n) = Model \ Meaning(a) /\ IsFormulaNode(n) /\ ~IsTermNode(n)
      BY <2>3, MeansOfUn, KindOfUn
    <3>2. Meaning(False) = Meaning(n)
      BY <1>4, <3>1, ConstantOf
    <3> QED  BY <2>1, <3>1, <3>2, ConstantOf, SameFormula
  <2>4. CASE op = "eq_zero"
    <3>1. Meaning(n) = Empty[Val(a)] /\ IsFormulaNode(n) /\ ~IsTermNode(n)
      BY <2>4, MeansOfUn, KindOfUn
    <3>2. Meaning(False) = Meaning(n)
      BY <1>4, <3>1, ConstantOf, StructuresOf
    <3> QED  BY <2>1, <3>1, <3>2, ConstantOf, SameFormula
  <2> QED  BY <2>2, <2>3, <2>4, UnaryIs
<1> QED  BY <1>2, <1>3, <1>4

\* The terms and the formulas whose sides are reduced alike.
LEMMA SameReducedJunction ==
  ASSUME NEW op \in Binary, NEW a \in Tree, NEW b \in Tree, Good(Bin(op, a, b)),
         op \in {"conjunction", "intersection", "disjunction", "union_"}
  PROVE  Same(Bin(op, a, b), ReduceConstants(Bin(op, a, b)))
<1> DEFINE n == Bin(op, a, b)
           k == ReduceConstants(n)
<1>1. n \in Tree /\ Good(a) /\ Good(b) /\ Side(op, a) /\ Side(op, b)
  BY TreeHas, GoodOf
<1>2. k \in {n, a, b, True, False}
  <2>1. op \in {"conjunction", "intersection"} => k \in {n, a, b, False}
    BY ReducedAnd
  <2>2. op \in {"disjunction", "union_"} => k \in {n, a, b, True}
    BY ReducedOr
  <2> QED  BY <2>1, <2>2
<1>3. k \in Tree /\ Good(k)
  <2> HIDE DEF n, k
  <2> QED  BY <1>1, <1>2, ConstantOf DEF n
<1>4. CASE op \in {"conjunction", "disjunction"}
  <2>1. IsFormulaNode(n) /\ ~IsTermNode(n) /\ IsFormulaNode(a) /\ IsFormulaNode(b)
    BY <1>1, <1>4, KindOfBin DEF Side
  <2>2. IsFormulaNode(k)
    <3> HIDE DEF n, k
    <3> QED  BY <1>2, <2>1, ConstantOf
  <2>3. Meaning(a) \subseteq Model /\ Meaning(b) \subseteq Model
    BY MeansTyped
  <2>4. CASE op = "conjunction"
    <3>1. Meaning(n) = Meaning(a) \cap Meaning(b)
      BY <2>4, MeansOfJunction
    <3>2. \/ k = n
          \/ a = True /\ k = b
          \/ b = True /\ k = a
          \/ (a = False \/ b = False) /\ k = False
      BY <2>4, ReducedAnd
    <3> HIDE DEF k, n
    <3>3. Meaning(k) = Meaning(n)
      BY <2>3, <3>1, <3>2, ConstantOf
    <3> QED  BY <1>3, <2>1, <2>2, <3>3, SameFormula DEF k, n
  <2>5. CASE op = "disjunction"
    <3>1. Meaning(n) = Meaning(a) \cup Meaning(b)
      BY <2>5, MeansOfJunction
    <3>2. \/ k = n
          \/ a = False /\ k = b
          \/ b = False /\ k = a
          \/ (a = True \/ b = True) /\ k = True
      BY <2>5, ReducedOr
    <3> HIDE DEF k, n
    <3>3. Meaning(k) = Meaning(n)
      BY <2>3, <3>1, <3>2, ConstantOf
    <3> QED  BY <1>3, <2>1, <2>2, <3>3, SameFormula DEF k, n
  <2> QED  BY <1>4, <2>4, <2>5
<1>5. CASE op \in {"intersection", "union_"}
  <2>1. IsTermNode(n) /\ ~IsFormulaNode(n) /\ IsTermNode(a) /\ IsTermNode(b)
    BY <1>1, <1>5, KindOfBin DEF Side
  <2>2. IsTermNode(k)
    <3> HIDE DEF n, k
    <3> QED  BY <1>2, <2>1, ConstantOf
  <2>3. Val(a) \subseteq Point /\ Val(b) \subseteq Point
    BY MeansTyped
  <2>4. CASE op = "intersection"
    <3>1. Val(n) = Val(a) \cap Val(b)
      BY <2>4, MeansOfTerm
    <3>2. \/ k = n
          \/ a = True /\ k = b
          \/ b = True /\ k = a
          \/ (a = False \/ b = False) /\ k = False
      BY <2>4, ReducedAnd
    <3> HIDE DEF k, n
    <3>3. Val(k) = Val(n)
      BY <2>3, <3>1, <3>2, ConstantOf
    <3> QED  BY <1>3, <2>1, <2>2, <3>3, SameTerm DEF k, n
  <2>5. CASE op = "union_"
    <3>1. Val(n) = Val(a) \cup Val(b)
      BY <2>5, MeansOfTerm
    <3>2. \/ k = n
          \/ a = False /\ k = b
          \/ b = False /\ k = a
          \/ (a = True \/ b = True) /\ k = True
      BY <2>5, ReducedOr
    <3> HIDE DEF k, n
    <3>3. Val(k) = Val(n)
      BY <2>3, <3>1, <3>2, ConstantOf
    <3> QED  BY <1>3, <2>1, <2>2, <3>3, SameTerm DEF k, n
  <2> QED  BY <1>5, <2>4, <2>5
<1> QED  BY <1>4, <1>5

LEMMA SameReducedAtomic ==
  ASSUME NEW op \in {"contact", "less_eq"}, NEW a \in Tree, NEW b \in Tree, Good(Bin(op, a, b))
  PROVE  Same(Bin(op, a, b), ReduceConstants(Bin(op, a, b)))
<1> DEFINE n == Bin(op, a, b)
           k == ReduceConstants(n)
<1>1. op \in Binary
  BY BinaryIs
<1>2. n \in Tree /\ Good(n) /\ n[1] = op /\ n[2] = a /\ n[3] = b
  BY <1>1, TreeHas, BinParts
<1>3. /\ Val(a) \subseteq Point /\ Val(b) \subseteq Point /\ IsFormulaNode(n) /\ ~IsTermNode(n)
      /\ op = "contact" => Meaning(n) = InContact[Val(a)][Val(b)]
      /\ op = "less_eq" => Meaning(n) = Empty[Val(a) \ Val(b)]
  <2> HIDE DEF n
  <2> QED  BY <1>2, AtomicSides DEF n
<1>4. CASE op = "contact"
  <2>1. \/ k = n
        \/ (a = False \/ b = False) /\ k = False
        \/ a = True /\ b = True /\ k = True
    BY <1>4, ReducedContact
  <2> HIDE DEF n, k
  <2>2. a = False \/ b = False => Meaning(n) = {}
    <3>1. InContact[{}][Val(b)] = {} /\ InContact[Val(a)][{}] = {}
      BY <1>3, StructuresOf
    <3> QED  BY <1>3, <1>4, <3>1, ConstantOf
  <2>3. a = True /\ b = True => Meaning(n) = Model
    <3>1. a = True /\ b = True => Meaning(n) = Model \ Empty[Point]
      BY <1>3, <1>4, ConstantOf, StructuresOf
    <3>2. Empty[Point] = {}
      BY StructureAssumption
    <3> QED  BY <3>1, <3>2
  <2>4. CASE k = n
    <3>1. Same(n, n)
      BY <1>2, SameItself
    <3> QED  BY <2>4, <3>1 DEF n, k
  <2>5. CASE k # n
    <3>1. k \in Tree /\ Good(k) /\ IsFormulaNode(k) /\ Meaning(k) = Meaning(n)
      BY <2>1, <2>2, <2>3, <2>5, ConstantOf
    <3> QED  BY <1>3, <3>1, SameFormula DEF k, n
  <2> QED  BY <2>4, <2>5 DEF k, n
<1>5. CASE op = "less_eq"
  <2>1. \/ k = n
        \/ (a = False \/ b = True) /\ k = True
    BY <1>5, ReducedLessEq
  <2> HIDE DEF n, k
  <2>2. a = False \/ b = True => Meaning(n) = Model
    <3>1. a = False \/ b = True => Val(a) \ Val(b) = {}
      BY <1>3, ConstantOf
    <3>2. Empty[{}] = Model
      BY StructureAssumption
    <3> QED  BY <1>3, <1>5, <3>1, <3>2
  <2>3. CASE k = n
    <3>1. Same(n, n)
      BY <1>2, SameItself
    <3> QED  BY <2>3, <3>1 DEF n, k
  <2>4. CASE k # n
    <3>1. k \in Tree /\ Good(k) /\ IsFormulaNode(k) /\ Meaning(k) = Meaning(n)
      BY <2>1, <2>2, <2>4, ConstantOf
    <3> QED  BY <1>3, <3>1, SameFormula DEF k, n
  <2> QED  BY <2>3, <2>4 DEF k, n
<1> QED  BY <1>4, <1>5

LEMMA SameReduced ==
  ASSUME NEW n \in Tree, Good(n)
  PROVE  Same(n, ReduceConstants(n))
<1>1. CASE n[1] \in Unary
  BY <1>1, NodeIs, SameReducedUn
<1>2. CASE n[1] \in Binary
  <2>1. PICK a \in Tree, b \in Tree : n = Bin(n[1], a, b)
    BY <1>2, NodeIs
  <2>2. CASE n[1] \in {"conjunction", "intersection", "disjunction", "union_"}
    BY <1>2, <2>1, <2>2, SameReducedJunction
  <2>3. CASE n[1] \in {"contact", "less_eq"}
    BY <2>1, <2>3, SameReducedAtomic
  <2>4. CASE n[1] \in {"measured_less_eq", "implication", "equality"}
    <3>1. ReduceConstants(n) = n
      BY <2>4, ReducedOther
    <3> QED  BY <3>1, SameItself
  <2> QED  BY <1>2, <2>2, <2>3, <2>4, BinaryIs
<1>3. CASE n[1] \notin Unary /\ n[1] \notin Binary
  <2>1. n[1] \in Constant \cup {"variable"}
    BY <1>3, NodeIs, LeafOperation
  <2>2. ReduceConstants(n) = n
    BY <2>1, ReducedOther
  <2> QED  BY <2>2, SameItself
<1> QED  BY <1>1, <1>2, <1>3

\* Splitting a union on a side of an atomic formula.
LEMMA SameSplitLessEq ==
  ASSUME NEW x \in Tree, NEW y \in Tree, NEW l, l = Bin("union_", x, y), NEW r \in Tree,
         NEW n, n = Bin("less_eq", l, r), Good(n),
         NEW k, k = Bin("conjunction", Bin("less_eq", x, r), Bin("less_eq", y, r))
  PROVE  Same(n, k)
<1>1. "union_" \in Binary /\ "less_eq" \in Binary
  BY BinaryIs
<1>2. l \in Tree
  BY <1>1, TreeHas
<1>3. n \in Tree /\ n[1] = "less_eq" /\ n[2] = l /\ n[3] = r
  BY <1>1, <1>2, TreeHas, BinParts
<1>4. /\ Good(l) /\ Good(r) /\ IsTermNode(r) /\ Val(r) \subseteq Point
      /\ IsFormulaNode(n) /\ ~IsTermNode(n)
      /\ Meaning(n) = Empty[Val(l) \ Val(r)]
  <2>1. /\ Good(n[2]) /\ Good(n[3]) /\ IsTermNode(n[3]) /\ Val(n[3]) \subseteq Point
        /\ IsFormulaNode(n) /\ ~IsTermNode(n)
        /\ Meaning(n) = Empty[Val(n[2]) \ Val(n[3])]
    BY <1>3, AtomicSides
  <2> QED  BY <1>3, <2>1
<1>5. Good(x) /\ IsTermNode(x) /\ Good(y) /\ IsTermNode(y)
  BY <1>1, <1>4, GoodOf DEF Side
<1>6. Val(l) = Val(x) \cup Val(y) /\ Val(x) \subseteq Point /\ Val(y) \subseteq Point
  BY MeansOfTerm, MeansTyped
<1>7. Val(l) \ Val(r) = (Val(x) \ Val(r)) \cup (Val(y) \ Val(r))
  BY <1>6
<1>8. Empty[(Val(x) \ Val(r)) \cup (Val(y) \ Val(r))] = Empty[Val(x) \ Val(r)] \cap Empty[Val(y) \ Val(r)]
  <2>1. Val(x) \ Val(r) \subseteq Point /\ Val(y) \ Val(r) \subseteq Point
    BY <1>6
  <2> QED  BY <2>1, StructuresOf
<1> DEFINE f == Bin("less_eq", x, r)
           g == Bin("less_eq", y, r)
<1>9. /\ f \in Tree /\ Good(f) /\ IsFormulaNode(f) /\ Meaning(f) = Empty[Val(x) \ Val(r)]
      /\ g \in Tree /\ Good(g) /\ IsFormulaNode(g) /\ Meaning(g) = Empty[Val(y) \ Val(r)]
  BY <1>4, <1>5, AtomOf
<1> HIDE DEF f, g
<1>10. k = Bin("conjunction", f, g)
  BY DEF f, g
<1>11. k \in Tree /\ Good(k) /\ IsFormulaNode(k) /\ Meaning(k) = Meaning(f) \cap Meaning(g)
  BY <1>9, <1>10, JunctionOf
<1>12. Meaning(k) = Meaning(n)
  BY <1>4, <1>7, <1>8, <1>9, <1>11
<1> QED  BY <1>4, <1>11, <1>12, SameFormula

LEMMA SameSplitContact ==
  ASSUME NEW x \in Tree, NEW y \in Tree, NEW u, u = Bin("union_", x, y), NEW t \in Tree,
         NEW n, Good(n),
         NEW k, \/ /\ n = Bin("contact", u, t)
                   /\ k = Bin("disjunction", Bin("contact", x, t), Bin("contact", y, t))
                \/ /\ n = Bin("contact", t, u)
                   /\ k = Bin("disjunction", Bin("contact", t, x), Bin("contact", t, y))
  PROVE  Same(n, k)
<1>1. "union_" \in Binary /\ "contact" \in Binary
  BY BinaryIs
<1>2. u \in Tree
  BY <1>1, TreeHas
<1>3. /\ n \in Tree /\ n[1] = "contact"
      /\ (n[2] = u /\ n[3] = t) \/ (n[2] = t /\ n[3] = u)
  BY <1>1, <1>2, TreeHas, BinParts
<1>4. /\ Good(u) /\ Good(t) /\ IsTermNode(t) /\ Val(t) \subseteq Point
      /\ IsFormulaNode(n) /\ ~IsTermNode(n)
      /\ Meaning(n) = InContact[Val(n[2])][Val(n[3])]
  <2>1. /\ Good(n[2]) /\ IsTermNode(n[2]) /\ Val(n[2]) \subseteq Point
        /\ Good(n[3]) /\ IsTermNode(n[3]) /\ Val(n[3]) \subseteq Point
        /\ IsFormulaNode(n) /\ ~IsTermNode(n)
        /\ Meaning(n) = InContact[Val(n[2])][Val(n[3])]
    BY <1>3, AtomicSides
  <2> QED  BY <1>3, <2>1
<1>5. Good(x) /\ IsTermNode(x) /\ Good(y) /\ IsTermNode(y)
  BY <1>1, <1>4, GoodOf DEF Side
<1>6. Val(u) = Val(x) \cup Val(y) /\ Val(x) \subseteq Point /\ Val(y) \subseteq Point
  BY MeansOfTerm, MeansTyped
<1>7. /\ InContact[Val(u)][Val(t)] = InContact[Val(x)][Val(t)] \cup InContact[Val(y)][Val(t)]
      /\ InContact[Val(t)][Val(u)] = InContact[Val(t)][Val(x)] \cup InContact[Val(t)][Val(y)]
  BY <1>4, <1>6, ContactsOfUnion
<1>8. CASE n = Bin("contact", u, t) /\ k = Bin("disjunction", Bin("contact", x, t), Bin("contact", y, t))
  <2> DEFINE f == Bin("contact", x, t)
             g == Bin("contact", y, t)
  <2>1. /\ f \in Tree /\ Good(f) /\ IsFormulaNode(f) /\ Meaning(f) = InContact[Val(x)][Val(t)]
        /\ g \in Tree /\ Good(g) /\ IsFormulaNode(g) /\ Meaning(g) = InContact[Val(y)][Val(t)]
    BY <1>4, <1>5, AtomOf
  <2>2. n[2] = u /\ n[3] = t
    BY <1>8, BinParts
  <2> HIDE DEF f, g
  <2>3. k = Bin("disjunction", f, g)
    BY <1>8 DEF f, g
  <2>4. k \in Tree /\ Good(k) /\ IsFormulaNode(k) /\ Meaning(k) = Meaning(f) \cup Meaning(g)
    BY <2>1, <2>3, JunctionOf
  <2>5. Meaning(k) = Meaning(n)
    BY <1>4, <1>7, <2>1, <2>2, <2>4
  <2> QED  BY <1>4, <2>4, <2>5, SameFormula
<1>9. CASE n = Bin("contact", t, u) /\ k = Bin("disjunction", Bin("contact", t, x), Bin("contact", t, y))
  <2> DEFINE f == Bin("contact", t, x)
             g == Bin("contact", t, y)
  <2>1. /\ f \in Tree /\ Good(f) /\ IsFormulaNode(f) /\ Meaning(f) = InContact[Val(t)][Val(x)]
        /\ g \in Tree /\ Good(g) /\ IsFormulaNode(g) /\ Meaning(g) = InContact[Val(t)][Val(y)]
    BY <1>4, <1>5, AtomOf
  <2>2. n[2] = t /\ n[3] = u
    BY <1>9, BinParts
  <2> HIDE DEF f, g
  <2>3. k = Bin("disjunction", f, g)
    BY <1>9 DEF f, g
  <2>4. k \in Tree /\ Good(k) /\ IsFormulaNode(k) /\ Meaning(k) = Meaning(f) \cup Meaning(g)
    BY <2>1, <2>3, JunctionOf
  <2>5. Meaning(k) = Meaning(n)
    BY <1>4, <1>7, <2>1, <2>2, <2>4
  <2> QED  BY <1>4, <2>4, <2>5, SameFormula
<1> QED  BY <1>8, <1>9

LEMMA SameBefore ==
  ASSUME NEW v, NEW n \in Tree, Good(n)
  PROVE  Same(n, Before(v, n))
<1> DEFINE k == Before(v, n)
<1>1. CASE k = n
  BY <1>1, SameItself
<1>2. CASE k # n
  <2>1. PICK op \in {"contact", "less_eq"}, l \in Tree, r \in Tree, x \in Tree, y \in Tree :
          IsSplit(n, k, op, l, r, x, y)
    BY <1>2, SplitCases
  <2>2. k = SplitDisjInLessEqAndContacts(n)
    BY <1>2 DEF Before
  <2>3. n[1] = op
    BY <2>1, BinParts DEF IsSplit
  <2>4. op = "contact" => k[1] = "disjunction"
    BY <1>2, <2>2, <2>3 DEF SplitDisjInLessEqAndContacts
  <2>5. op = "less_eq" => k[1] = "conjunction"
    BY <1>2, <2>2, <2>3 DEF SplitDisjInLessEqAndContacts
  <2> HIDE DEF k
  <2>6. CASE op = "contact"
    <3>1. \/ /\ n = Bin("contact", l, r) /\ l = Bin("union_", x, y)
             /\ k = Bin("disjunction", Bin("contact", x, r), Bin("contact", y, r))
          \/ /\ n = Bin("contact", l, r) /\ r = Bin("union_", x, y)
             /\ k = Bin("disjunction", Bin("contact", l, x), Bin("contact", l, y))
      BY <2>1, <2>4, <2>6, BinParts DEF IsSplit
    <3>2. Same(n, k)
      BY <3>1, SameSplitContact
    <3> QED  BY <3>2 DEF k
  <2>7. CASE op = "less_eq"
    <3>1. /\ n = Bin("less_eq", l, r) /\ l = Bin("union_", x, y)
          /\ k = Bin("conjunction", Bin("less_eq", x, r), Bin("less_eq", y, r))
      BY <2>1, <2>5, <2>7, BinParts DEF IsSplit
    <3>2. Same(n, k)
      BY <3>1, SameSplitLessEq
    <3> QED  BY <3>2 DEF k
  <2> QED  BY <2>6, <2>7
<1> QED  BY <1>1, <1>2

-----------------------------------------------------------------------------
(* What a refiner makes of a formula is a formula with the same meaning.   *)

Refiner ==
  {"convert_implication_equality", "convert_contact_less_eq_with_same_terms", Split,
   "convert_less_eq", "reduce_constants", "reduce_contacts_with_constants",
   "remove_double_negation"}

\* What a refiner does at a node.
LEMMA AtOf ==
  ASSUME NEW n, NEW k
  PROVE  /\ At("convert_implication_equality", n, k) = ConvertImplicationEqualityToConjDisj(k)
         /\ At("convert_contact_less_eq_with_same_terms", n, k) = ConvertLessEqContactWithEqualTerms(k)
         /\ At(Split, n, k) = k
         /\ At("convert_less_eq", n, k) = ConvertLessEqToEqZero(k)
         /\ At("reduce_constants", n, k) = ReduceConstants(k)
         /\ At("reduce_contacts_with_constants", n, k) = ConvertContactsWithConstantTerms(k)
         /\ At("remove_double_negation", n, k) = ReduceDoubleNegation(k)
BY DEF At, Split

LEMMA SameAt ==
  ASSUME NEW v \in Refiner, NEW n, NEW k \in Tree, Good(k)
  PROVE  Same(k, At(v, n, k))
BY AtOf, SameImplication, SameEqualTerms, SameItself, SameLessEq, SameReduced, SameContacts,
   SameDoubleNegation DEF Refiner

LEMMA SameRebuilt ==
  ASSUME NEW v, NEW k \in Tree, Good(k), \A c \in Children(k) : Good(c) => Same(c, Visit(v, c))
  PROVE  Same(k, Rebuilt(v, k))
<1>1. CASE k \in Leaf
  BY <1>1, RebuiltCases, SameItself
<1>2. ASSUME NEW op \in Unary, NEW a \in Tree, k = Un(op, a)
      PROVE  Same(k, Rebuilt(v, k))
  <2>1. Good(a) /\ a \in Children(k)
    BY <1>2, GoodOf, ChildrenOfUn
  <2>2. Rebuilt(v, k) = Un(op, Visit(v, a))
    BY <1>2, RebuiltCases
  <2>3. Same(a, Visit(v, a))
    BY <2>1
  <2> QED  BY <1>2, <2>2, <2>3, SameBelowUn
<1>3. ASSUME NEW op \in Binary, NEW a \in Tree, NEW b \in Tree, k = Bin(op, a, b)
      PROVE  Same(k, Rebuilt(v, k))
  <2>1. Good(a) /\ a \in Children(k) /\ Good(b) /\ b \in Children(k)
    BY <1>3, GoodOf, ChildrenOfBin
  <2>2. Rebuilt(v, k) = Bin(op, Visit(v, a), Visit(v, b))
    BY <1>3, RebuiltCases
  <2>3. Same(a, Visit(v, a)) /\ Same(b, Visit(v, b))
    BY <2>1
  <2> QED  BY <1>3, <2>2, <2>3, SameBelowBin
<1> QED  BY <1>1, <1>2, <1>3, TreeCases

\* A refiner makes of a well-formed AST a well-formed one of the same kind and
\* with the same meaning.
LEMMA SameVisited ==
  ASSUME NEW v \in Refiner, NEW n \in Tree, Good(n)
  PROVE  Same(n, Visit(v, n))
<1> DEFINE S == {m \in Tree : Good(m) => Same(m, Visit(v, m))}
<1>1. ASSUME NEW m \in Tree, Children(Before(v, m)) \subseteq S, Good(m)
      PROVE  Same(m, Visit(v, m))
  <2> DEFINE k == Before(v, m)
  <2>1. Same(m, k)
    BY <1>1, SameBefore
  <2>2. k \in Tree /\ Good(k)
    BY <2>1 DEF Same
  <2>3. \A c \in Children(k) : Good(c) => Same(c, Visit(v, c))
    BY <1>1
  <2> DEFINE r == Rebuilt(v, k)
  <2>4. Visit(v, m) = At(v, k, r)
    BY VisitUnfolds
  <2> HIDE DEF k
  <2>5. Same(k, r)
    BY <2>2, <2>3, SameRebuilt
  <2> HIDE DEF r
  <2>6. r \in Tree /\ Good(r)
    BY <2>5 DEF Same
  <2>7. Same(r, At(v, k, r))
    BY <2>6, SameAt
  <2>8. Same(m, r)
    BY <2>1, <2>5, SameTransitive
  <2> QED  BY <2>4, <2>7, <2>8, SameTransitive
<1>2. \A m \in Tree : Children(Before(v, m)) \subseteq S => m \in S
  BY <1>1
<1> HIDE DEF S
<1>3. n \in S
  BY <1>2, VisitInduction
<1> QED  BY <1>3 DEF S

-----------------------------------------------------------------------------
(* Operations that are gone for good.                                      *)

Gone == {"implication", "equality", "less_eq"}

\* No node has an operation in O.
Free(n, O) == \A k \in Nodes(n) : k[1] \notin O

LEMMA FreeOf ==
  ASSUME NEW O
  PROVE  /\ \A n \in Leaf : Free(n, O) <=> n[1] \notin O
         /\ \A op \in Unary, a \in Tree : Free(Un(op, a), O) <=> op \notin O /\ Free(a, O)
         /\ \A op \in Binary, a, b \in Tree :
              Free(Bin(op, a, b), O) <=> op \notin O /\ Free(a, O) /\ Free(b, O)
<1>1. ASSUME NEW n \in Leaf PROVE Free(n, O) <=> n[1] \notin O
  BY NodesOf DEF Free
<1>2. ASSUME NEW op \in Unary, NEW a \in Tree
      PROVE  Free(Un(op, a), O) <=> op \notin O /\ Free(a, O)
  <2>1. Un(op, a)[1] = op /\ Nodes(Un(op, a)) = {Un(op, a)} \cup Nodes(a)
    BY UnParts, NodesOf
  <2> QED  BY <2>1 DEF Free
<1>3. ASSUME NEW op \in Binary, NEW a \in Tree, NEW b \in Tree
      PROVE  Free(Bin(op, a, b), O) <=> op \notin O /\ Free(a, O) /\ Free(b, O)
  <2>1. /\ Bin(op, a, b)[1] = op
        /\ Nodes(Bin(op, a, b)) = {Bin(op, a, b)} \cup Nodes(a) \cup Nodes(b)
    BY BinParts, NodesOf
  <2> QED  BY <2>1 DEF Free
<1> QED  BY <1>1, <1>2, <1>3

\* What is below a node whose children are free of O, by its operation.
LEMMA Sides ==
  ASSUME NEW k \in Tree
  PROVE  /\ k[1] \in Unary => k[2] \in Tree /\ k = Un(k[1], k[2]) /\ Children(k) = {k[2]}
         /\ k[1] \in Binary => /\ k[2] \in Tree /\ k[3] \in Tree
                               /\ k = Bin(k[1], k[2], k[3]) /\ Children(k) = {k[2], k[3]}
         /\ k[1] \notin Unary /\ k[1] \notin Binary => k \in Leaf
<1>1. CASE k[1] \in Unary
  <2>1. PICK a \in Tree : k = Un(k[1], a) /\ k[2] = a
    BY <1>1, NodeIs
  <2>2. Children(k) = {a}
    BY <1>1, <2>1, ChildrenOfUn
  <2> QED  BY <1>1, <2>1, <2>2, Operations
<1>2. CASE k[1] \in Binary
  <2>1. PICK a \in Tree, b \in Tree : k = Bin(k[1], a, b) /\ k[2] = a /\ k[3] = b
    BY <1>2, NodeIs
  <2>2. Children(k) = {a, b}
    BY <1>2, <2>1, ChildrenOfBin
  <2> QED  BY <1>2, <2>1, <2>2, Operations
<1> QED  BY <1>1, <1>2, NodeIs

LEMMA FreeNode ==
  ASSUME NEW k \in Tree, NEW O
  PROVE  Free(k, O) <=> k[1] \notin O /\ \A c \in Children(k) : Free(c, O)
<1>1. CASE k[1] \in Unary
  BY <1>1, Sides, FreeOf
<1>2. CASE k[1] \in Binary
  BY <1>2, Sides, FreeOf
<1>3. CASE k[1] \notin Unary /\ k[1] \notin Binary
  BY <1>3, Sides, FreeOf, ChildrenOfLeaf
<1> QED  BY <1>1, <1>2, <1>3

LEMMA FreeMade ==
  ASSUME NEW O, O \subseteq Gone
  PROVE  /\ Free(True, O) /\ Free(False, O)
         /\ \A op \in {"negation", "eq_zero", "complement"}, a \in Tree :
              Free(a, O) => Un(op, a) \in Tree /\ Free(Un(op, a), O)
         /\ \A op \in {"conjunction", "disjunction", "intersection"}, a, b \in Tree :
              Free(a, O) /\ Free(b, O) => Bin(op, a, b) \in Tree /\ Free(Bin(op, a, b), O)
<1>1. True \in Leaf /\ False \in Leaf
  BY DEF Leaf
<1>2. Free(True, O) /\ Free(False, O)
  BY <1>1, LeafParts, FreeOf DEF Gone
<1>3. ASSUME NEW op \in {"negation", "eq_zero", "complement"}, NEW a \in Tree, Free(a, O)
      PROVE  Un(op, a) \in Tree /\ Free(Un(op, a), O)
  BY <1>3, UnaryIs, TreeHas, FreeOf DEF Gone
<1>4. ASSUME NEW op \in {"conjunction", "disjunction", "intersection"}, NEW a \in Tree,
             NEW b \in Tree, Free(a, O), Free(b, O)
      PROVE  Bin(op, a, b) \in Tree /\ Free(Bin(op, a, b), O)
  BY <1>4, BinaryIs, TreeHas, FreeOf DEF Gone
<1> QED  BY <1>2, <1>3, <1>4

LEMMA FreeImplication ==
  ASSUME NEW k \in Tree, NEW O, O \subseteq Gone, \A c \in Children(k) : Free(c, O),
         k[1] \in {"implication", "equality"}
  PROVE  Free(ConvertImplicationEqualityToConjDisj(k), O)
<1> DEFINE a == k[2]
           b == k[3]
<1>1. a \in Tree /\ b \in Tree /\ Free(a, O) /\ Free(b, O)
  BY BinaryIs, Sides
<1> HIDE DEF a, b
<1>2. Not(a) \in Tree /\ Free(Not(a), O) /\ Not(b) \in Tree /\ Free(Not(b), O)
  BY <1>1, NotIs, FreeMade
<1>3. CASE k[1] = "implication"
  <2>1. ConvertImplicationEqualityToConjDisj(k) = Bin("disjunction", Not(a), b)
    BY <1>3 DEF ConvertImplicationEqualityToConjDisj, Bin, a, b
  <2> QED  BY <1>1, <1>2, <2>1, FreeMade
<1>4. CASE k[1] = "equality"
  <2>1. ConvertImplicationEqualityToConjDisj(k) =
          Bin("disjunction", Bin("conjunction", a, b), Bin("conjunction", Not(a), Not(b)))
    BY <1>4 DEF ConvertImplicationEqualityToConjDisj, Bin, a, b
  <2>2. /\ Bin("conjunction", a, b) \in Tree /\ Free(Bin("conjunction", a, b), O)
        /\ Bin("conjunction", Not(a), Not(b)) \in Tree
        /\ Free(Bin("conjunction", Not(a), Not(b)), O)
    BY <1>1, <1>2, FreeMade
  <2> QED  BY <2>1, <2>2, FreeMade
<1> QED  BY <1>3, <1>4

LEMMA FreeLessEq ==
  ASSUME NEW k \in Tree, NEW O, O \subseteq Gone, \A c \in Children(k) : Free(c, O),
         k[1] = "less_eq"
  PROVE  Free(ConvertLessEqToEqZero(k), O)
<1> DEFINE a == k[2]
           b == k[3]
<1>1. a \in Tree /\ b \in Tree /\ Free(a, O) /\ Free(b, O)
  BY BinaryIs, Sides
<1> HIDE DEF a, b
<1>2. ConvertLessEqToEqZero(k) = EqZero(Bin("intersection", a, Un("complement", b)))
  BY DEF ConvertLessEqToEqZero, Bin, Un, a, b
<1>3. Un("complement", b) \in Tree /\ Free(Un("complement", b), O)
  BY <1>1, FreeMade
<1>4. /\ Bin("intersection", a, Un("complement", b)) \in Tree
      /\ Free(Bin("intersection", a, Un("complement", b)), O)
  BY <1>1, <1>3, FreeMade
<1> QED  BY <1>2, <1>4, NotIs, FreeMade

LEMMA FreeContact ==
  ASSUME NEW k \in Tree, NEW O, O \subseteq Gone, Free(k, O)
  PROVE  /\ Free(ConvertLessEqContactWithEqualTerms(k), O)
         /\ Free(ConvertContactsWithConstantTerms(k), O)
<1>1. ASSUME NEW t \in Tree, Free(t, O) PROVE Free(Not(EqZero(t)), O)
  BY <1>1, NotIs, FreeMade
<1>2. k[1] \in {"contact", "less_eq"} => /\ k[2] \in Tree /\ Free(k[2], O)
                                         /\ k[3] \in Tree /\ Free(k[3], O)
  BY BinaryIs, Sides, FreeNode
<1>3. Free(ConvertLessEqContactWithEqualTerms(k), O)
  <2>1. \/ ConvertLessEqContactWithEqualTerms(k) \in {k, True}
        \/ k[1] = "contact" /\ ConvertLessEqContactWithEqualTerms(k) = Not(EqZero(k[3]))
    BY DEF ConvertLessEqContactWithEqualTerms
  <2> QED  BY <1>1, <1>2, <2>1, FreeMade
<1>4. Free(ConvertContactsWithConstantTerms(k), O)
  <2>1. \/ ConvertContactsWithConstantTerms(k) = k
        \/ /\ k[1] = "contact"
           /\ \/ ConvertContactsWithConstantTerms(k) = Not(EqZero(k[2]))
              \/ ConvertContactsWithConstantTerms(k) = Not(EqZero(k[3]))
    BY DEF ConvertContactsWithConstantTerms
  <2> QED  BY <1>1, <1>2, <2>1
<1> QED  BY <1>3, <1>4

LEMMA FreeDoubleNegation ==
  ASSUME NEW k \in Tree, NEW O, Free(k, O)
  PROVE  Free(ReduceDoubleNegation(k), O)
<1>1. CASE ReduceDoubleNegation(k) = k
  BY <1>1
<1>2. CASE ReduceDoubleNegation(k) # k
  <2>1. k[1] \in {"negation", "complement"} /\ k[2][1] = k[1] /\ ReduceDoubleNegation(k) = k[2][2]
    BY <1>2 DEF ReduceDoubleNegation
  <2>2. k[1] \in Unary
    BY <2>1, UnaryIs
  <2>3. k[2] \in Tree /\ Free(k[2], O)
    BY <2>2, Sides, FreeNode
  <2>4. Free(k[2][2], O)
    BY <2>1, <2>2, <2>3, Sides, FreeNode
  <2> QED  BY <2>1, <2>4
<1> QED  BY <1>1, <1>2

\* What is left of a node whose constants are reduced.
LEMMA ReducedIs ==
  ASSUME NEW k \in Tree
  PROVE  ReduceConstants(k) \in {k, True, False} \cup Children(k)
<1> DEFINE r == ReduceConstants(k)
<1>1. CASE k[1] \in Unary
  <2>1. k = Un(k[1], k[2])
    BY <1>1, Sides
  <2> QED  BY <1>1, <2>1, ReducedUn
<1>2. CASE k[1] \in Binary
  <2>1. k = Bin(k[1], k[2], k[3]) /\ Children(k) = {k[2], k[3]}
    BY <1>2, Sides
  <2>2. k[1] \in {"conjunction", "intersection"} => r \in {k, k[2], k[3], False}
    BY <2>1, ReducedAnd
  <2>3. k[1] \in {"disjunction", "union_"} => r \in {k, k[2], k[3], True}
    BY <2>1, ReducedOr
  <2>4. k[1] = "contact" => r \in {k, True, False}
    BY <2>1, ReducedContact
  <2>5. k[1] = "less_eq" => r \in {k, True}
    BY <2>1, ReducedLessEq
  <2>6. k[1] \in {"measured_less_eq", "implication", "equality"} => r = k
    BY ReducedOther
  <2> HIDE DEF r
  <2>7. r \in {k, True, False} \cup Children(k)
    BY <1>2, <2>1, <2>2, <2>3, <2>4, <2>5, <2>6, BinaryIs
  <2> QED  BY <2>7 DEF r
<1>3. CASE k[1] \notin Unary /\ k[1] \notin Binary
  BY <1>3, Sides, LeafOperation, ReducedOther
<1> QED  BY <1>1, <1>2, <1>3

LEMMA FreeAt ==
  ASSUME NEW v \in Refiner, NEW n, NEW k \in Tree, NEW O, O \subseteq Gone, Free(k, O)
  PROVE  Free(At(v, n, k), O)
<1>1. Free(ConvertImplicationEqualityToConjDisj(k), O)
  <2>1. k[1] \notin {"implication", "equality"} => ConvertImplicationEqualityToConjDisj(k) = k
    BY DEF ConvertImplicationEqualityToConjDisj
  <2> QED  BY <2>1, FreeImplication, FreeNode
<1>2. Free(ConvertLessEqToEqZero(k), O)
  <2>1. k[1] # "less_eq" => ConvertLessEqToEqZero(k) = k
    BY DEF ConvertLessEqToEqZero
  <2> QED  BY <2>1, FreeLessEq, FreeNode
<1>3. Free(ReduceConstants(k), O)
  BY ReducedIs, FreeNode, FreeMade
<1> QED  BY <1>1, <1>2, <1>3, AtOf, FreeContact, FreeDoubleNegation DEF Refiner

LEMMA FreeBefore ==
  ASSUME NEW v, NEW n \in Tree, NEW O, O \subseteq Gone, Free(n, O)
  PROVE  Free(Before(v, n), O)
<1> DEFINE k == Before(v, n)
<1>1. CASE k = n
  BY <1>1
<1>2. CASE k # n
  <2>1. PICK op \in {"contact", "less_eq"}, l \in Tree, r \in Tree, x \in Tree, y \in Tree :
          IsSplit(n, k, op, l, r, x, y)
    BY <1>2, SplitCases
  <2>2. op \in Binary /\ "union_" \in Binary
    BY BinaryIs
  <2>3. n = Bin(op, l, r)
    BY <2>1 DEF IsSplit
  <2>4. op \notin O /\ Free(l, O) /\ Free(r, O)
    BY <2>2, <2>3, FreeOf
  <2>5. ASSUME NEW a \in Tree, NEW b \in Tree, Free(a, O), Free(b, O)
        PROVE  Bin(op, a, b) \in Tree /\ Free(Bin(op, a, b), O)
    BY <2>2, <2>4, <2>5, TreeHas, FreeOf
  <2> HIDE DEF k
  <2>6. CASE l = Bin("union_", x, y)
    <3>1. PICK junction \in {"conjunction", "disjunction"} :
            \/ k = Bin(junction, Bin(op, x, r), Bin(op, y, r))
            \/ r = Bin("union_", x, y) /\ k = Bin(junction, Bin(op, l, x), Bin(op, l, y))
      BY <2>1 DEF IsSplit
    <3>2. Free(x, O) /\ Free(y, O)
      BY <2>2, <2>4, <2>6, FreeOf
    <3>3. /\ Bin(op, x, r) \in Tree /\ Free(Bin(op, x, r), O)
          /\ Bin(op, y, r) \in Tree /\ Free(Bin(op, y, r), O)
          /\ Bin(op, l, x) \in Tree /\ Free(Bin(op, l, x), O)
          /\ Bin(op, l, y) \in Tree /\ Free(Bin(op, l, y), O)
      BY <2>4, <2>5, <3>2
    <3>4. Free(k, O)
      BY <3>1, <3>3, FreeMade
    <3> QED  BY <3>4 DEF k
  <2>7. CASE l # Bin("union_", x, y)
    <3>1. r = Bin("union_", x, y) /\ k = Bin("disjunction", Bin(op, l, x), Bin(op, l, y))
      BY <2>1, <2>7 DEF IsSplit
    <3>2. Free(x, O) /\ Free(y, O)
      BY <2>2, <2>4, <3>1, FreeOf
    <3>3. /\ Bin(op, l, x) \in Tree /\ Free(Bin(op, l, x), O)
          /\ Bin(op, l, y) \in Tree /\ Free(Bin(op, l, y), O)
      BY <2>4, <2>5, <3>2
    <3>4. Free(k, O)
      BY <3>1, <3>3, FreeMade
    <3> QED  BY <3>4 DEF k
  <2> QED  BY <2>6, <2>7
<1> QED  BY <1>1, <1>2

\* A refiner visits the children and then looks at a node with the same operation.
LEMMA RebuiltParts ==
  ASSUME NEW v \in Refiner, NEW k \in Tree, Good(k), NEW r, r = Rebuilt(v, k)
  PROVE  /\ r \in Tree /\ Good(r) /\ r[1] = k[1]
         /\ \A d \in Children(r) : \E c \in Children(k) : Good(c) /\ c \in Tree /\ d = Visit(v, c)
         /\ \A c \in Children(k) : Visit(v, c) \in Children(r)
<1>1. r \in Tree /\ Good(r)
  <2>1. ASSUME NEW c \in Children(k), Good(c) PROVE Same(c, Visit(v, c))
    <3>1. c \in Tree
      BY Sides, ChildrenOfLeaf
    <3> QED  BY <2>1, <3>1, SameVisited
  <2>2. Same(k, r)
    BY <2>1, SameRebuilt
  <2> QED  BY <2>2 DEF Same
<1>2. CASE k \in Leaf
  BY <1>1, <1>2, RebuiltCases, ChildrenOfLeaf
<1>3. ASSUME NEW op \in Unary, NEW a \in Tree, k = Un(op, a)
      PROVE  /\ r[1] = k[1]
             /\ \A d \in Children(r) : \E c \in Children(k) : Good(c) /\ c \in Tree /\ d = Visit(v, c)
             /\ \A c \in Children(k) : Visit(v, c) \in Children(r)
  <2>1. Good(a)
    BY <1>3, GoodOf
  <2>2. r = Un(op, Visit(v, a))
    BY <1>3, RebuiltCases
  <2>3. Children(k) = {a} /\ Children(r) = {Visit(v, a)}
    BY <1>3, <2>2, ChildrenOfUn
  <2> QED  BY <1>3, <2>1, <2>2, <2>3, UnParts
<1>4. ASSUME NEW op \in Binary, NEW a \in Tree, NEW b \in Tree, k = Bin(op, a, b)
      PROVE  /\ r[1] = k[1]
             /\ \A d \in Children(r) : \E c \in Children(k) : Good(c) /\ c \in Tree /\ d = Visit(v, c)
             /\ \A c \in Children(k) : Visit(v, c) \in Children(r)
  <2>1. Good(a) /\ Good(b)
    BY <1>4, GoodOf
  <2>2. r = Bin(op, Visit(v, a), Visit(v, b))
    BY <1>4, RebuiltCases
  <2>3. Children(k) = {a, b} /\ Children(r) = {Visit(v, a), Visit(v, b)}
    BY <1>4, <2>2, ChildrenOfBin
  <2> QED  BY <1>4, <2>1, <2>2, <2>3, BinParts
<1> QED  BY <1>1, <1>2, <1>3, <1>4, TreeCases

\* No refiner brings back an operation that is gone.
LEMMA FreeVisited ==
  ASSUME NEW v \in Refiner, NEW n \in Tree, Good(n), NEW O, O \subseteq Gone, Free(n, O)
  PROVE  Free(Visit(v, n), O)
<1> DEFINE S == {m \in Tree : Good(m) /\ Free(m, O) => Free(Visit(v, m), O)}
<1>1. ASSUME NEW m \in Tree, Children(Before(v, m)) \subseteq S, Good(m), Free(m, O)
      PROVE  Free(Visit(v, m), O)
  <2>1. PICK k : k = Before(v, m)
    OBVIOUS
  <2>2. Same(m, k) /\ Free(k, O)
    BY <1>1, <2>1, SameBefore, FreeBefore
  <2>3. k \in Tree /\ Good(k)
    BY <2>2 DEF Same
  <2>4. PICK r : r = Rebuilt(v, k)
    OBVIOUS
  <2>5. Visit(v, m) = At(v, k, r)
    BY <2>1, <2>4, VisitUnfolds
  <2>6. /\ r \in Tree /\ Good(r) /\ r[1] = k[1]
        /\ \A d \in Children(r) : \E c \in Children(k) : Good(c) /\ c \in Tree /\ d = Visit(v, c)
    BY <2>3, <2>4, RebuiltParts
  <2>7. \A d \in Children(r) : Free(d, O)
    BY <1>1, <2>1, <2>2, <2>3, <2>6, FreeNode
  <2>8. Free(r, O)
    BY <2>2, <2>3, <2>6, <2>7, FreeNode
  <2> QED  BY <2>5, <2>6, <2>8, FreeAt
<1>2. \A m \in Tree : Children(Before(v, m)) \subseteq S => m \in S
  BY <1>1
<1> HIDE DEF S
<1>3. n \in S
  BY <1>2, VisitInduction
<1> QED  BY <1>3 DEF S

\* The refiners that convert an operation leave none of it.
LEMMA FreedVisited ==
  ASSUME NEW v, NEW O,
         \/ v = "convert_implication_equality" /\ O = {"implication", "equality"}
         \/ v = "convert_less_eq" /\ O = {"less_eq"},
         NEW n \in Tree, Good(n)
  PROVE  Free(Visit(v, n), O)
<1> DEFINE S == {m \in Tree : Good(m) => Free(Visit(v, m), O)}
<1>1. v \in Refiner /\ v # Split /\ O \subseteq Gone
  BY DEF Refiner, Split, Gone
<1>2. ASSUME NEW m \in Tree, Children(Before(v, m)) \subseteq S, Good(m)
      PROVE  Free(Visit(v, m), O)
  <2>1. Before(v, m) = m
    BY <1>1, BeforeUnlessSplit
  <2>2. PICK r : r = Rebuilt(v, m)
    OBVIOUS
  <2>3. Visit(v, m) = At(v, m, r)
    BY <2>1, <2>2, VisitUnfolds
  <2>4. /\ r \in Tree
        /\ \A d \in Children(r) : \E c \in Children(m) : Good(c) /\ c \in Tree /\ d = Visit(v, c)
    BY <1>1, <1>2, <2>2, RebuiltParts
  <2>5. \A d \in Children(r) : Free(d, O)
    BY <1>2, <2>1, <2>4
  <2>6. CASE r[1] \notin O
    BY <1>1, <2>3, <2>4, <2>5, <2>6, FreeNode, FreeAt
  <2>7. CASE r[1] \in O
    <3>1. \/ v = "convert_implication_equality" /\ r[1] \in {"implication", "equality"}
          \/ v = "convert_less_eq" /\ r[1] = "less_eq"
      BY <2>7
    <3> QED  BY <1>1, <2>3, <2>4, <2>5, <3>1, AtOf, FreeImplication, FreeLessEq
  <2> QED  BY <2>6, <2>7
<1>3. \A m \in Tree : Children(Before(v, m)) \subseteq S => m \in S
  BY <1>2
<1> HIDE DEF S
<1>4. n \in S
  BY <1>3, VisitInduction
<1> QED  BY <1>4 DEF S

-----------------------------------------------------------------------------
(* Constants that are left, and double negations.                          *)

NoConstant(n, allowed) == \A k \in Nodes(n) : ~HasConstant(k, allowed)

\* What reducing constants leaves of them at a node.
Reduced(k) ==
  /\ ~HasConstant(k, {"measured_less_eq", "contact"})
  /\ k[1] = "contact" => False \notin Children(k) /\ Children(k) # {True}
AllReduced(n) == \A k \in Nodes(n) : Reduced(k)

NoDoubleNegation(n) == \A k \in Nodes(n) : ~HasDoubleNegation(k)

LEMMA NodesBelow ==
  ASSUME NEW n \in Tree
  PROVE  /\ n \in Nodes(n)
         /\ \A c \in Children(n) : c \in Tree /\ Nodes(c) \subseteq Nodes(n)
         /\ \A k \in Nodes(n) : k = n \/ \E c \in Children(n) : k \in Nodes(c)
<1>1. CASE n[1] \in Unary
  <2>1. n[2] \in Tree /\ n = Un(n[1], n[2]) /\ Children(n) = {n[2]}
    BY <1>1, Sides
  <2>2. Nodes(n) = {n} \cup Nodes(n[2])
    BY <1>1, <2>1, NodesOf
  <2> QED  BY <2>1, <2>2
<1>2. CASE n[1] \in Binary
  <2>1. /\ n[2] \in Tree /\ n[3] \in Tree
        /\ n = Bin(n[1], n[2], n[3]) /\ Children(n) = {n[2], n[3]}
    BY <1>2, Sides
  <2>2. Nodes(n) = {n} \cup Nodes(n[2]) \cup Nodes(n[3])
    BY <1>2, <2>1, NodesOf
  <2> QED  BY <2>1, <2>2
<1>3. CASE n[1] \notin Unary /\ n[1] \notin Binary
  <2>1. Nodes(n) = {n} /\ Children(n) = {}
    BY <1>3, Sides, NodesOf, ChildrenOfLeaf
  <2> QED  BY <2>1
<1> QED  BY <1>1, <1>2, <1>3

LEMMA NoConstantNode ==
  ASSUME NEW n \in Tree, NEW A
  PROVE  NoConstant(n, A) <=> ~HasConstant(n, A) /\ \A c \in Children(n) : NoConstant(c, A)
BY NodesBelow DEF NoConstant

LEMMA AllReducedNode ==
  ASSUME NEW n \in Tree
  PROVE  AllReduced(n) <=> Reduced(n) /\ \A c \in Children(n) : AllReduced(c)
BY NodesBelow DEF AllReduced

LEMMA NoDoubleNegationNode ==
  ASSUME NEW n \in Tree
  PROVE  NoDoubleNegation(n) <=>
           ~HasDoubleNegation(n) /\ \A c \in Children(n) : NoDoubleNegation(c)
BY NodesBelow DEF NoDoubleNegation

LEMMA ConstantsReduced ==
  /\ Reduced(True) /\ AllReduced(True) /\ Reduced(False) /\ AllReduced(False)
  /\ \A n \in Leaf : AllReduced(n)
<1>1. ASSUME NEW n \in Leaf PROVE Reduced(n) /\ AllReduced(n)
  <2>1. Children(n) = {} /\ n \in Tree
    BY ChildrenOfLeaf, TreeHas
  <2>2. n[1] # "contact"
    BY LeafOperation DEF Constant
  <2>3. Reduced(n)
    BY <2>1, <2>2 DEF Reduced, HasConstant
  <2> QED  BY <2>1, <2>3, AllReducedNode
<1> QED  BY <1>1 DEF Leaf

\* A node of which nothing can be reduced any more.
LEMMA ReducedNode ==
  ASSUME NEW k \in Tree, k[1] \notin Gone, ReduceConstants(k) = k,
         k # True, k # False, k \notin Children(k)
  PROVE  Reduced(k)
<1> DEFINE a == k[2]
           b == k[3]
<1>1. CASE k[1] \in Unary
  <2>1. k = Un(k[1], a) /\ Children(k) = {a}
    BY <1>1, Sides
  <2>2. k = IF a = False THEN True ELSE IF a = True THEN False ELSE Un(k[1], a)
    BY <1>1, <2>1, ReducedUn
  <2>3. a # False /\ a # True
    BY <2>2
  <2>4. k[1] # "contact"
    BY <1>1, UnaryIs
  <2> QED  BY <2>1, <2>3, <2>4 DEF Reduced, HasConstant
<1>2. CASE k[1] \in Binary
  <2>1. k = Bin(k[1], a, b) /\ Children(k) = {a, b}
    BY <1>2, Sides
  <2>2. k # a /\ k # b
    BY <2>1
  <2> HIDE DEF a, b
  <2>3. CASE k[1] \in {"conjunction", "intersection"}
    <3>1. a \notin {True, False} /\ b \notin {True, False}
      BY <2>1, <2>2, <2>3, ReducedAnd
    <3> QED  BY <2>1, <2>3, <3>1 DEF Reduced, HasConstant
  <2>4. CASE k[1] \in {"disjunction", "union_"}
    <3>1. a \notin {True, False} /\ b \notin {True, False}
      BY <2>1, <2>2, <2>4, ReducedOr
    <3> QED  BY <2>1, <2>4, <3>1 DEF Reduced, HasConstant
  <2>5. CASE k[1] = "contact"
    <3>1. a # False /\ b # False /\ ~(a = True /\ b = True)
      BY <2>1, <2>5, ReducedContact
    <3> QED  BY <2>1, <2>5, <3>1 DEF Reduced, HasConstant
  <2>6. CASE k[1] = "measured_less_eq"
    BY <2>6 DEF Reduced, HasConstant
  <2> QED  BY <1>2, <2>3, <2>4, <2>5, <2>6, BinaryIs DEF Gone
<1>3. CASE k[1] \notin Unary /\ k[1] \notin Binary
  <2>1. k \in Leaf
    BY <1>3, Sides
  <2> QED  BY <2>1, ConstantsReduced, NodesBelow, TreeHas DEF AllReduced
<1> QED  BY <1>1, <1>2, <1>3

\* Reducing constants leaves none that can be reduced.
LEMMA ReducedVisited ==
  ASSUME NEW n \in Tree, Good(n), Free(n, Gone)
  PROVE  AllReduced(Visit("reduce_constants", n))
<1> DEFINE v == "reduce_constants"
           S == {m \in Tree : Good(m) /\ Free(m, Gone) => AllReduced(Visit(v, m))}
<1>1. v \in Refiner /\ v # Split
  BY DEF Refiner, Split
<1>2. ASSUME NEW m \in Tree, Children(Before(v, m)) \subseteq S, Good(m), Free(m, Gone)
      PROVE  AllReduced(Visit(v, m))
  <2>1. Before(v, m) = m
    BY <1>1, BeforeUnlessSplit
  <2>2. PICK r : r = Rebuilt(v, m)
    OBVIOUS
  <2>3. Visit(v, m) = ReduceConstants(r)
    BY <2>1, <2>2, VisitUnfolds, AtOf
  <2>4. /\ r \in Tree /\ r[1] = m[1]
        /\ \A d \in Children(r) : \E c \in Children(m) : Good(c) /\ c \in Tree /\ d = Visit(v, c)
    BY <1>1, <1>2, <2>2, RebuiltParts
  <2>5. \A d \in Children(r) : AllReduced(d)
    BY <1>2, <2>1, <2>4, FreeNode
  <2>6. r[1] \notin Gone
    BY <1>2, <2>4, FreeNode
  <2> HIDE DEF v
  <2>7. CASE ReduceConstants(r) \in {True, False} \cup Children(r)
    BY <2>3, <2>5, <2>7, ConstantsReduced
  <2>8. CASE ReduceConstants(r) \notin {True, False} \cup Children(r)
    <3>1. ReduceConstants(r) = r
      BY <2>4, <2>8, ReducedIs
    <3>2. Reduced(r)
      BY <2>4, <2>6, <2>8, <3>1, ReducedNode
    <3> QED  BY <2>3, <2>4, <2>5, <3>1, <3>2, AllReducedNode
  <2> QED  BY <2>7, <2>8
<1>3. \A m \in Tree : Children(Before(v, m)) \subseteq S => m \in S
  BY <1>2
<1> HIDE DEF S
<1>4. n \in S
  BY <1>3, VisitInduction
<1> QED  BY <1>4 DEF S

\* The constants that reduced contacts still have are gone when these are converted.
LEMMA ContactsAt ==
  ASSUME NEW r \in Tree, Reduced(r),
         NEW A, A = {"measured_less_eq"}, \A d \in Children(r) : NoConstant(d, A),
         NEW k, k = ConvertContactsWithConstantTerms(r)
  PROVE  NoConstant(k, A) /\ (k \in {True, False} => k = r)
<1>1. ASSUME NEW t \in Children(r), t \notin {True, False}, k = Not(EqZero(t))
      PROVE  NoConstant(k, A) /\ k \notin {True, False}
  <2>1. t \in Tree
    BY NodesBelow
  <2>2. "eq_zero" \in Unary /\ "negation" \in Unary
    BY UnaryIs
  <2>3. k = Un("negation", Un("eq_zero", t))
    BY <1>1, NotIs
  <2>4. Un("eq_zero", t) \in Tree /\ k \in Tree
    BY <2>1, <2>2, <2>3, TreeHas
  <2>5. Children(k) = {Un("eq_zero", t)} /\ Children(Un("eq_zero", t)) = {t}
    BY <2>2, <2>3, ChildrenOfUn
  <2>6. k \notin {True, False} /\ Un("eq_zero", t) \notin {True, False}
    BY <2>3, UnParts, LeafParts
  <2>7. ~HasConstant(k, A) /\ ~HasConstant(Un("eq_zero", t), A)
    BY <1>1, <2>5, <2>6 DEF HasConstant
  <2>8. NoConstant(Un("eq_zero", t), A)
    BY <2>4, <2>5, <2>7, NoConstantNode
  <2> QED  BY <2>4, <2>5, <2>6, <2>7, <2>8, NoConstantNode
<1>2. CASE r[1] = "contact"
  <2>1. Children(r) = {r[2], r[3]}
    BY <1>2, BinaryIs, Sides
  <2>2. r[2] # False /\ r[3] # False /\ ~(r[2] = True /\ r[3] = True)
    BY <1>2, <2>1 DEF Reduced
  <2>3. CASE r[3] = True
    <3>1. k = Not(EqZero(r[2]))
      BY <1>2, <2>3 DEF ConvertContactsWithConstantTerms
    <3> QED  BY <1>1, <2>1, <2>2, <2>3, <3>1
  <2>4. CASE r[3] # True /\ r[2] = True
    <3>1. k = Not(EqZero(r[3]))
      BY <1>2, <2>4 DEF ConvertContactsWithConstantTerms
    <3> QED  BY <1>1, <2>1, <2>2, <2>4, <3>1
  <2>5. CASE r[3] # True /\ r[2] # True
    <3>1. k = r
      BY <1>2, <2>5 DEF ConvertContactsWithConstantTerms
    <3>2. ~HasConstant(r, A)
      BY <2>1, <2>2, <2>5 DEF HasConstant
    <3> QED  BY <3>1, <3>2, NoConstantNode
  <2> QED  BY <2>3, <2>4, <2>5
<1>3. CASE r[1] # "contact"
  <2>1. k = r
    BY <1>3 DEF ConvertContactsWithConstantTerms
  <2>2. ~HasConstant(r, A)
    BY <1>3 DEF Reduced, HasConstant
  <2> QED  BY <2>1, <2>2, NoConstantNode
<1> QED  BY <1>2, <1>3

LEMMA ContactsVisited ==
  ASSUME NEW n \in Tree, Good(n), AllReduced(n)
  PROVE  NoConstant(Visit("reduce_contacts_with_constants", n), {"measured_less_eq"})
<1> DEFINE v == "reduce_contacts_with_constants"
           A == {"measured_less_eq"}
           P(m) == NoConstant(Visit(v, m), A) /\ (Visit(v, m) \in {True, False} => Visit(v, m) = m)
           S == {m \in Tree : Good(m) /\ AllReduced(m) => P(m)}
<1>1. v \in Refiner /\ v # Split
  BY DEF Refiner, Split
<1>2. ASSUME NEW m \in Tree, Children(Before(v, m)) \subseteq S, Good(m), AllReduced(m)
      PROVE  P(m)
  <2>1. Before(v, m) = m
    BY <1>1, BeforeUnlessSplit
  <2>2. PICK r : r = Rebuilt(v, m)
    OBVIOUS
  <2>3. Visit(v, m) = ConvertContactsWithConstantTerms(r)
    BY <2>1, <2>2, VisitUnfolds, AtOf
  <2>4. /\ r \in Tree /\ r[1] = m[1]
        /\ \A d \in Children(r) : \E c \in Children(m) : Good(c) /\ c \in Tree /\ d = Visit(v, c)
        /\ \A c \in Children(m) : Visit(v, c) \in Children(r)
    BY <1>1, <1>2, <2>2, RebuiltParts
  <2>5. ASSUME NEW c \in Children(m), Good(c), c \in Tree PROVE P(c)
    BY <1>2, <2>1, <2>5, AllReducedNode
  <2> HIDE DEF v, A
  <2>6. \A d \in Children(r) : /\ NoConstant(d, A)
                               /\ d \in {True, False} => d \in Children(m)
    BY <2>4, <2>5
  <2>7. Reduced(m)
    BY <1>2, AllReducedNode
  <2>8. Children(r) = {True} => Children(m) = {True}
    <3>1. ASSUME Children(r) = {True}, NEW c \in Children(m) PROVE c = True
      <4>1. Visit(v, c) = True /\ Good(c) /\ c \in Tree
        BY <1>2, <2>4, <3>1, NodesBelow DEF Good
      <4> QED  BY <2>5, <4>1
    <3>2. Children(r) = {True} => True \in Children(m)
      BY <2>6
    <3> QED  BY <3>1, <3>2
  <2>9. Reduced(r)
    BY <2>4, <2>6, <2>7, <2>8 DEF Reduced, HasConstant
  <2>10. m \in Leaf => r = m
    BY <2>2, RebuiltCases
  <2>11. r \in {True, False} => r = m
    <3>1. ASSUME r \in {True, False} PROVE m \in Leaf
      <4>1. r[1] \in Constant
        BY <3>1, LeafParts DEF Constant
      <4> QED  BY <2>4, <4>1, Sides, Operations
    <3> QED  BY <2>10, <3>1
  <2> QED  BY <2>3, <2>4, <2>6, <2>9, <2>11, ContactsAt DEF A
<1>3. \A m \in Tree : Children(Before(v, m)) \subseteq S => m \in S
  BY <1>2
<1> HIDE DEF S
<1>4. n \in S
  BY <1>3, VisitInduction
<1> QED  BY <1>4 DEF S

\* Removing double negations brings no constant up to where none may be.
LEMMA DoubleNegationAt ==
  ASSUME NEW k \in Tree, NEW A, "negation" \notin A, "complement" \notin A, NoConstant(k, A)
  PROVE  /\ NoConstant(ReduceDoubleNegation(k), A)
         /\ ReduceDoubleNegation(k) \in {True, False} => ReduceDoubleNegation(k) = k
<1>1. CASE ReduceDoubleNegation(k) = k
  BY <1>1
<1>2. CASE ReduceDoubleNegation(k) # k
  <2>1. k[1] \in {"negation", "complement"} /\ k[2][1] = k[1] /\ ReduceDoubleNegation(k) = k[2][2]
    BY <1>2 DEF ReduceDoubleNegation
  <2>2. k[1] \in Unary
    BY <2>1, UnaryIs
  <2>3. k[2] \in Tree /\ NoConstant(k[2], A)
    BY <2>2, Sides, NoConstantNode
  <2>4. Children(k[2]) = {k[2][2]}
    BY <2>1, <2>2, <2>3, Sides
  <2>5. NoConstant(k[2][2], A) /\ ~HasConstant(k[2], A)
    BY <2>3, <2>4, NoConstantNode
  <2>6. k[2][2] \notin {True, False}
    BY <2>1, <2>4, <2>5 DEF HasConstant
  <2> QED  BY <2>1, <2>5, <2>6
<1> QED  BY <1>1, <1>2

LEMMA DoubleNegationVisited ==
  ASSUME NEW n \in Tree, Good(n), NEW A, "negation" \notin A, "complement" \notin A, NoConstant(n, A)
  PROVE  NoConstant(Visit("remove_double_negation", n), A)
<1> DEFINE v == "remove_double_negation"
           P(m) == NoConstant(Visit(v, m), A) /\ (Visit(v, m) \in {True, False} => Visit(v, m) = m)
           S == {m \in Tree : Good(m) /\ NoConstant(m, A) => P(m)}
<1>1. v \in Refiner /\ v # Split
  BY DEF Refiner, Split
<1>2. ASSUME NEW m \in Tree, Children(Before(v, m)) \subseteq S, Good(m), NoConstant(m, A)
      PROVE  P(m)
  <2>1. Before(v, m) = m
    BY <1>1, BeforeUnlessSplit
  <2>2. PICK r : r = Rebuilt(v, m)
    OBVIOUS
  <2>3. Visit(v, m) = ReduceDoubleNegation(r)
    BY <2>1, <2>2, VisitUnfolds, AtOf
  <2>4. /\ r \in Tree /\ r[1] = m[1]
        /\ \A d \in Children(r) : \E c \in Children(m) : Good(c) /\ c \in Tree /\ d = Visit(v, c)
    BY <1>1, <1>2, <2>2, RebuiltParts
  <2>5. ASSUME NEW c \in Children(m), Good(c), c \in Tree PROVE P(c)
    BY <1>2, <2>1, <2>5, NoConstantNode
  <2> HIDE DEF v
  <2>6. \A d \in Children(r) : /\ NoConstant(d, A)
                               /\ d \in {True, False} => d \in Children(m)
    BY <2>4, <2>5
  <2>7. ~HasConstant(r, A)
    <3>1. ~HasConstant(m, A)
      BY <1>2, NoConstantNode
    <3> QED  BY <2>4, <2>6, <3>1 DEF HasConstant
  <2>8. NoConstant(r, A)
    BY <2>4, <2>6, <2>7, NoConstantNode
  <2>9. m \in Leaf => r = m
    BY <2>2, RebuiltCases
  <2>10. r \in {True, False} => r = m
    <3>1. ASSUME r \in {True, False} PROVE m \in Leaf
      <4>1. r[1] \in Constant
        BY <3>1, LeafParts DEF Constant
      <4> QED  BY <2>4, <4>1, Sides, Operations
    <3> QED  BY <2>9, <3>1
  <2> QED  BY <2>3, <2>4, <2>8, <2>10, DoubleNegationAt
<1>3. \A m \in Tree : Children(Before(v, m)) \subseteq S => m \in S
  BY <1>2
<1> HIDE DEF S
<1>4. n \in S
  BY <1>3, VisitInduction
<1> QED  BY <1>4 DEF S

LEMMA NoDoubleNegationVisited ==
  ASSUME NEW n \in Tree, Good(n)
  PROVE  NoDoubleNegation(Visit("remove_double_negation", n))
<1> DEFINE v == "remove_double_negation"
           S == {m \in Tree : Good(m) => NoDoubleNegation(Visit(v, m))}
<1>1. v \in Refiner /\ v # Split
  BY DEF Refiner, Split
<1>2. ASSUME NEW m \in Tree, Children(Before(v, m)) \subseteq S, Good(m)
      PROVE  NoDoubleNegation(Visit(v, m))
  <2>1. Before(v, m) = m
    BY <1>1, BeforeUnlessSplit
  <2>2. PICK r : r = Rebuilt(v, m)
    OBVIOUS
  <2>3. Visit(v, m) = ReduceDoubleNegation(r)
    BY <2>1, <2>2, VisitUnfolds, AtOf
  <2>4. /\ r \in Tree
        /\ \A d \in Children(r) : \E c \in Children(m) : Good(c) /\ c \in Tree /\ d = Visit(v, c)
    BY <1>1, <1>2, <2>2, RebuiltParts
  <2>5. \A d \in Children(r) : NoDoubleNegation(d)
    BY <1>2, <2>1, <2>4
  <2> HIDE DEF v
  <2>6. CASE HasDoubleNegation(r)
    <3>1. r[1] \in {"negation", "complement"} /\ r[2][1] = r[1]
      BY <2>6 DEF HasDoubleNegation
    <3>2. ReduceDoubleNegation(r) = r[2][2]
      BY <3>1 DEF ReduceDoubleNegation
    <3>3. r[1] \in Unary
      BY <3>1, UnaryIs
    <3>4. r[2] \in Tree /\ NoDoubleNegation(r[2])
      BY <2>4, <2>5, <3>3, Sides
    <3>5. Children(r[2]) = {r[2][2]}
      BY <3>1, <3>3, <3>4, Sides
    <3> QED  BY <2>3, <3>2, <3>4, <3>5, NoDoubleNegationNode
  <2>7. CASE ~HasDoubleNegation(r)
    <3>1. ReduceDoubleNegation(r) = r
      BY <2>7 DEF HasDoubleNegation, ReduceDoubleNegation
    <3> QED  BY <2>3, <2>4, <2>5, <2>7, <3>1, NoDoubleNegationNode
  <2> QED  BY <2>6, <2>7
<1>3. \A m \in Tree : Children(Before(v, m)) \subseteq S => m \in S
  BY <1>2
<1> HIDE DEF S
<1>4. n \in S
  BY <1>3, VisitInduction
<1> QED  BY <1>4 DEF S

-----------------------------------------------------------------------------
(* What is evaluated is what is meant.                                     *)

Truth(n, m) == Visit("evaluate", n).truth[m]

\* What evaluation shows of a formula that means what is evaluated of it.
Shows(e, holds) == ~e.measured /\ (e.value <=> holds)

LEMMA EvaluationShows ==
  ASSUME NEW p
  PROVE  Shows(Evaluation(p, FALSE), p)
<1>1. Evaluation(p, FALSE).value = p /\ Evaluation(p, FALSE).measured = FALSE
  BY DEF Evaluation
<1> QED  BY <1>1 DEF Shows

LEMMA ConjunctionShows ==
  ASSUME NEW e, NEW f, NEW p, NEW q, Shows(e, p), Shows(f, q)
  PROVE  Shows(Conjunction(e, f), p /\ q)
<1>1. CASE p /\ q
  <2>1. ~Fails(e) /\ ~Fails(f)
    BY <1>1 DEF Fails, Shows
  <2>2. Conjunction(e, f) = Evaluation(TRUE, e.measured /\ f.measured)
    BY <2>1 DEF Conjunction
  <2>3. /\ Evaluation(TRUE, e.measured /\ f.measured).value = TRUE
        /\ Evaluation(TRUE, e.measured /\ f.measured).measured = (e.measured /\ f.measured)
    BY DEF Evaluation
  <2> QED  BY <1>1, <2>2, <2>3 DEF Shows
<1>2. CASE ~(p /\ q)
  <2>1. Fails(e) \/ Fails(f)
    BY <1>2 DEF Fails, Shows
  <2>2. Conjunction(e, f) = Evaluation(FALSE, FALSE)
    BY <2>1 DEF Conjunction
  <2>3. Evaluation(FALSE, FALSE).value = FALSE /\ Evaluation(FALSE, FALSE).measured = FALSE
    BY DEF Evaluation
  <2> QED  BY <1>2, <2>2, <2>3 DEF Shows
<1> QED  BY <1>1, <1>2

LEMMA DisjunctionShows ==
  ASSUME NEW e, NEW f, NEW p, NEW q, Shows(e, p), Shows(f, q)
  PROVE  Shows(Disjunction(e, f), p \/ q)
<1>1. CASE p
  <2>1. ~e.measured /\ e.value
    BY <1>1 DEF Shows
  <2>2. Disjunction(e, f) = Evaluation(TRUE, FALSE)
    BY <2>1 DEF Disjunction
  <2>3. Evaluation(TRUE, FALSE).value = TRUE /\ Evaluation(TRUE, FALSE).measured = FALSE
    BY DEF Evaluation
  <2> QED  BY <1>1, <2>2, <2>3 DEF Shows
<1>2. CASE ~p
  <2>1. ~e.measured /\ ~e.value
    BY <1>2 DEF Shows
  <2>2. CASE q
    <3>1. ~Fails(f)
      BY <2>2 DEF Fails, Shows
    <3>2. Disjunction(e, f) = Evaluation(TRUE, e.measured /\ f.measured)
      BY <2>1, <3>1 DEF Disjunction
    <3>3. /\ Evaluation(TRUE, e.measured /\ f.measured).value = TRUE
          /\ Evaluation(TRUE, e.measured /\ f.measured).measured = (e.measured /\ f.measured)
      BY DEF Evaluation
    <3> QED  BY <2>1, <2>2, <3>2, <3>3 DEF Shows
  <2>3. CASE ~q
    <3>1. Fails(f)
      BY <2>3 DEF Fails, Shows
    <3>2. Disjunction(e, f) = Evaluation(FALSE, FALSE)
      BY <2>1, <3>1 DEF Disjunction
    <3>3. Evaluation(FALSE, FALSE).value = FALSE /\ Evaluation(FALSE, FALSE).measured = FALSE
      BY DEF Evaluation
    <3> QED  BY <1>2, <2>3, <3>2, <3>3 DEF Shows
  <2> QED  BY <2>2, <2>3
<1> QED  BY <1>1, <1>2

LEMMA NegationShows ==
  ASSUME NEW e, NEW m, NEW u, NEW w, Shows(e, m \in u), m \in w <=> m \notin u
  PROVE  Shows(Evaluation(~e.value, e.measured), m \in w)
<1>1. /\ Evaluation(~e.value, e.measured).value = ~e.value
      /\ Evaluation(~e.value, e.measured).measured = e.measured
  BY DEF Evaluation
<1> QED  BY <1>1 DEF Shows

LEMMA EvaluateOf ==
  ASSUME NEW n \in Tree
  PROVE  /\ Visit("evaluate", n).value = Value(n, Rebuilt("evaluate", n))
         /\ \A m \in Model : Truth(n, m) = EvaluateInternal(n, Rebuilt("evaluate", n), m)
<1>1. "evaluate" # Split
  BY DEF Split
<1> DEFINE c == Rebuilt("evaluate", n)
<1>2. Visit("evaluate", n) = At("evaluate", n, c)
  BY <1>1, BeforeUnlessSplit, VisitUnfolds
<1> HIDE DEF c
<1>3. At("evaluate", n, c) =
        [value |-> Value(n, c), truth |-> [m \in Model |-> EvaluateInternal(n, c, m)]]
  BY DEF At
<1> QED  BY <1>2, <1>3 DEF Truth, c

\* The terms in a formula are evaluated to the points in them.
LEMMA ValueEvaluated == \A n \in Tree : Visit("evaluate", n).value = Val(n)
<1> DEFINE S == {n \in Tree : Visit("evaluate", n).value = Val(n)}
<1>1. ASSUME NEW n, NEW c, NEW d, c[2].value = d[2].value, c[3].value = d[3].value
      PROVE  Value(n, c) = Value(n, d)
  BY <1>1 DEF Value
<1>2. ASSUME NEW n \in Leaf PROVE n \in S
  <2>1. n \in Tree /\ Rebuilt("evaluate", n) = n /\ Rebuilt("means", n) = n
    BY TreeHas, RebuiltCases
  <2> QED  BY <2>1, EvaluateOf, MeansOf
<1>3. ASSUME NEW op \in Unary, NEW a \in Tree, a \in S PROVE Un(op, a) \in S
  <2> DEFINE c == Un(op, Visit("evaluate", a))
             d == Un(op, Visit("means", a))
             n == Un(op, a)
  <2>1. n \in Tree /\ Rebuilt("evaluate", n) = c /\ Rebuilt("means", n) = d
    BY TreeHas, RebuiltCases
  <2>2. n[1] = op /\ c[2].value = d[2].value
    BY <1>3, UnParts DEF Val
  <2>3. op \notin {"union_", "intersection"}
    BY UnaryIs
  <2> HIDE DEF c, d, n
  <2>4. Value(n, c) = Value(n, d)
    BY <2>2, <2>3 DEF Value
  <2> QED  BY <2>1, <2>4, EvaluateOf, MeansOf DEF n
<1>4. ASSUME NEW op \in Binary, NEW a \in Tree, NEW b \in Tree, a \in S /\ b \in S
      PROVE  Bin(op, a, b) \in S
  <2> DEFINE c == Bin(op, Visit("evaluate", a), Visit("evaluate", b))
             d == Bin(op, Visit("means", a), Visit("means", b))
             n == Bin(op, a, b)
  <2>1. n \in Tree /\ Rebuilt("evaluate", n) = c /\ Rebuilt("means", n) = d
    BY TreeHas, RebuiltCases
  <2>2. c[2].value = d[2].value /\ c[3].value = d[3].value
    BY <1>4, BinParts DEF Val
  <2> HIDE DEF c, d, n
  <2>3. Value(n, c) = Value(n, d)
    BY <1>1, <2>2
  <2> QED  BY <2>1, <2>3, EvaluateOf, MeansOf DEF n
<1> HIDE DEF S
<1>5. Tree \subseteq S
  BY <1>2, <1>3, <1>4, TreeInduction
<1> QED  BY <1>5 DEF S

\* What is evaluated otherwise than it is meant, or not at all.
Unevaluated == {"measured_less_eq", "constant_false", "implication", "equality", "less_eq"}

LEMMA TruthOfUn ==
  ASSUME NEW op \in Unary, NEW a \in Tree, NEW m \in Model
  PROVE  Truth(Un(op, a), m) =
           IF op = "negation" THEN Evaluation(~Truth(a, m).value, Truth(a, m).measured)
           ELSE IF op = "eq_zero" THEN Evaluation(m \in Empty[Val(a)], FALSE)
           ELSE Evaluation(TRUE, FALSE)
<1> DEFINE n == Un(op, a)
           c == Un(op, Visit("evaluate", a))
<1>1. Truth(n, m) = EvaluateInternal(n, c, m)
  BY TreeHas, RebuiltCases, EvaluateOf
<1>2. n[1] = op /\ c[2].truth[m] = Truth(a, m) /\ c[2].value = Val(a)
  BY UnParts, ValueEvaluated DEF Truth
<1> HIDE DEF n, c
<1>3. op = "negation" => EvaluateInternal(n, c, m) = Evaluation(~Truth(a, m).value, Truth(a, m).measured)
  BY <1>2 DEF EvaluateInternal
<1>4. op = "eq_zero" => EvaluateInternal(n, c, m) = Evaluation(m \in Empty[Val(a)], FALSE)
  BY <1>2 DEF EvaluateInternal
<1>5. op = "complement" => EvaluateInternal(n, c, m) = Evaluation(TRUE, FALSE)
  BY <1>2 DEF EvaluateInternal
<1>6. op \in {"negation", "eq_zero", "complement"}
  BY UnaryIs
<1> QED  BY <1>1, <1>3, <1>4, <1>5, <1>6 DEF n

LEMMA TruthOfBin ==
  ASSUME NEW a \in Tree, NEW b \in Tree, NEW m \in Model
  PROVE  /\ Truth(Bin("conjunction", a, b), m) = Conjunction(Truth(a, m), Truth(b, m))
         /\ Truth(Bin("disjunction", a, b), m) = Disjunction(Truth(a, m), Truth(b, m))
         /\ Truth(Bin("contact", a, b), m) = Evaluation(m \in InContact[Val(a)][Val(b)], FALSE)
<1> DEFINE n(op) == Bin(op, a, b)
           c(op) == Bin(op, Visit("evaluate", a), Visit("evaluate", b))
<1>1. \A op \in Binary : Truth(n(op), m) = EvaluateInternal(n(op), c(op), m)
  BY TreeHas, RebuiltCases, EvaluateOf
<1>2. \A op : /\ n(op)[1] = op
             /\ c(op)[2].truth[m] = Truth(a, m) /\ c(op)[2].value = Val(a)
             /\ c(op)[3].truth[m] = Truth(b, m) /\ c(op)[3].value = Val(b)
  BY BinParts, ValueEvaluated DEF Truth
<1> HIDE DEF n, c
<1>3. EvaluateInternal(n("conjunction"), c("conjunction"), m) = Conjunction(Truth(a, m), Truth(b, m))
  <2>1. ASSUME NEW k, NEW d, k[1] = "conjunction"
        PROVE  EvaluateInternal(k, d, m) = Conjunction(d[2].truth[m], d[3].truth[m])
    BY <2>1 DEF EvaluateInternal
  <2>2. PICK k, d : k = n("conjunction") /\ d = c("conjunction")
    OBVIOUS
  <2>3. k[1] = "conjunction" /\ d[2].truth[m] = Truth(a, m) /\ d[3].truth[m] = Truth(b, m)
    BY <1>2, <2>2
  <2> QED  BY <2>1, <2>2, <2>3
<1>4. EvaluateInternal(n("disjunction"), c("disjunction"), m) = Disjunction(Truth(a, m), Truth(b, m))
  <2>1. ASSUME NEW k, NEW d, k[1] = "disjunction"
        PROVE  EvaluateInternal(k, d, m) = Disjunction(d[2].truth[m], d[3].truth[m])
    BY <2>1 DEF EvaluateInternal
  <2>2. PICK k, d : k = n("disjunction") /\ d = c("disjunction")
    OBVIOUS
  <2>3. k[1] = "disjunction" /\ d[2].truth[m] = Truth(a, m) /\ d[3].truth[m] = Truth(b, m)
    BY <1>2, <2>2
  <2> QED  BY <2>1, <2>2, <2>3
<1>5. EvaluateInternal(n("contact"), c("contact"), m) = Evaluation(m \in InContact[Val(a)][Val(b)], FALSE)
  <2>1. ASSUME NEW k, NEW d, k[1] = "contact"
        PROVE  EvaluateInternal(k, d, m) = Evaluation(m \in InContact[d[2].value][d[3].value], FALSE)
    BY <2>1 DEF EvaluateInternal
  <2>2. PICK k, d : k = n("contact") /\ d = c("contact")
    OBVIOUS
  <2>3. k[1] = "contact" /\ d[2].value = Val(a) /\ d[3].value = Val(b)
    BY <1>2, <2>2
  <2> QED  BY <2>1, <2>2, <2>3
<1>6. "conjunction" \in Binary /\ "disjunction" \in Binary /\ "contact" \in Binary
  BY BinaryIs
<1> QED  BY <1>1, <1>3, <1>4, <1>5, <1>6 DEF n

\* Without <=m, F and what is converted, a formula is evaluated to what it means.
LEMMA EvaluatedIsMeant ==
  ASSUME NEW n \in Tree, Good(n), Free(n, Unevaluated), IsFormulaNode(n), NEW m \in Model
  PROVE  Shows(Truth(n, m), m \in Meaning(n))
<1> DEFINE S == {k \in Tree : Good(k) /\ Free(k, Unevaluated) /\ IsFormulaNode(k)
                                => Shows(Truth(k, m), m \in Meaning(k))}
<1>1. ASSUME NEW k \in Leaf, Free(k, Unevaluated), IsFormulaNode(k)
      PROVE  Shows(Truth(k, m), m \in Meaning(k))
  <2>1. k = True
    <3>1. k[1] \in {"constant_true", "variable"} /\ k # False
      BY <1>1, FreeOf, LeafOperation, LeafParts DEF Constant, Unevaluated
    <3>2. k[1] # "variable"
      BY <1>1 DEF IsFormulaNode, UnaryFormula, BinaryFormula, UnaryAtomic, BinaryAtomic
    <3> QED  BY <3>1, <3>2, LeafParts
  <2>2. m \in Meaning(k)
    BY <2>1, MeansOfLeaf
  <2>3. Truth(k, m) = EvaluateInternal(k, Rebuilt("evaluate", k), m)
    BY TreeHas, EvaluateOf
  <2>4. EvaluateInternal(k, Rebuilt("evaluate", k), m) = Evaluation(TRUE, FALSE)
    BY <2>1, LeafParts DEF EvaluateInternal
  <2>5. Shows(Evaluation(TRUE, FALSE), TRUE)
    BY EvaluationShows
  <2> QED  BY <2>2, <2>3, <2>4, <2>5 DEF Shows
<1>2. ASSUME NEW op \in Unary, NEW a \in Tree, a \in S, Good(Un(op, a)),
             Free(Un(op, a), Unevaluated), IsFormulaNode(Un(op, a))
      PROVE  Shows(Truth(Un(op, a), m), m \in Meaning(Un(op, a)))
  <2>1. Good(a) /\ Side(op, a) /\ Free(a, Unevaluated)
    BY <1>2, GoodOf, FreeOf
  <2>2. CASE op = "negation"
    <3>1. Shows(Truth(a, m), m \in Meaning(a))
      BY <1>2, <2>1, <2>2 DEF Side
    <3>2. m \in Meaning(Un(op, a)) <=> m \notin Meaning(a)
      BY <2>2, MeansOfUn
    <3>3. Shows(Evaluation(~Truth(a, m).value, Truth(a, m).measured), m \in Meaning(Un(op, a)))
      BY <3>1, <3>2, NegationShows
    <3>4. Truth(Un(op, a), m) = Evaluation(~Truth(a, m).value, Truth(a, m).measured)
      BY <2>2, TruthOfUn
    <3> QED  BY <3>3, <3>4
  <2>3. CASE op = "eq_zero"
    <3>1. Truth(Un(op, a), m) = Evaluation(m \in Empty[Val(a)], FALSE)
      BY <2>3, TruthOfUn
    <3>2. Meaning(Un(op, a)) = Empty[Val(a)]
      BY <2>3, MeansOfUn
    <3>3. Shows(Evaluation(m \in Empty[Val(a)], FALSE), m \in Empty[Val(a)])
      BY EvaluationShows
    <3> QED  BY <3>1, <3>2, <3>3
  <2> QED  BY <1>2, <2>2, <2>3, KindOfUn, UnaryIs
<1>3. ASSUME NEW op \in Binary, NEW a \in Tree, NEW b \in Tree, a \in S, b \in S,
             Good(Bin(op, a, b)), Free(Bin(op, a, b), Unevaluated), IsFormulaNode(Bin(op, a, b))
      PROVE  Shows(Truth(Bin(op, a, b), m), m \in Meaning(Bin(op, a, b)))
  <2>1. /\ Good(a) /\ Side(op, a) /\ Free(a, Unevaluated)
        /\ Good(b) /\ Side(op, b) /\ Free(b, Unevaluated)
    BY <1>3, GoodOf, FreeOf
  <2>2. op \in {"conjunction", "disjunction"} => /\ Shows(Truth(a, m), m \in Meaning(a))
                                                 /\ Shows(Truth(b, m), m \in Meaning(b))
    BY <1>3, <2>1 DEF Side
  <2>3. CASE op = "conjunction"
    <3>1. Shows(Conjunction(Truth(a, m), Truth(b, m)), m \in Meaning(a) /\ m \in Meaning(b))
      BY <2>2, <2>3, ConjunctionShows
    <3>2. m \in Meaning(Bin(op, a, b)) <=> m \in Meaning(a) /\ m \in Meaning(b)
      BY <2>3, MeansOfJunction
    <3>3. Truth(Bin("conjunction", a, b), m) = Conjunction(Truth(a, m), Truth(b, m))
      BY TruthOfBin
    <3> QED  BY <2>3, <3>1, <3>2, <3>3 DEF Shows
  <2>4. CASE op = "disjunction"
    <3>1. Shows(Disjunction(Truth(a, m), Truth(b, m)), m \in Meaning(a) \/ m \in Meaning(b))
      BY <2>2, <2>4, DisjunctionShows
    <3>2. m \in Meaning(Bin(op, a, b)) <=> m \in Meaning(a) \/ m \in Meaning(b)
      BY <2>4, MeansOfJunction
    <3>3. Truth(Bin("disjunction", a, b), m) = Disjunction(Truth(a, m), Truth(b, m))
      BY TruthOfBin
    <3> QED  BY <2>4, <3>1, <3>2, <3>3 DEF Shows
  <2>5. CASE op = "contact"
    <3>1. Truth(Bin(op, a, b), m) = Evaluation(m \in InContact[Val(a)][Val(b)], FALSE)
      BY <2>5, TruthOfBin
    <3>2. Meaning(Bin(op, a, b)) = InContact[Val(a)][Val(b)]
      BY <2>5, MeansOfAtomic
    <3>3. Shows(Evaluation(m \in InContact[Val(a)][Val(b)], FALSE), m \in InContact[Val(a)][Val(b)])
      BY EvaluationShows
    <3> QED  BY <3>1, <3>2, <3>3
  <2>6. op \notin Unevaluated /\ op \notin {"union_", "intersection"}
    BY <1>3, FreeOf, KindOfBin
  <2> QED  BY <2>3, <2>4, <2>5, <2>6, BinaryIs DEF Unevaluated
<1>4. Leaf \subseteq S
  BY <1>1, TreeHas
<1>5. \A op \in Unary, a \in Tree : a \in S => Un(op, a) \in S
  BY <1>2, TreeHas
<1>6. \A op \in Binary, a, b \in Tree : a \in S /\ b \in S => Bin(op, a, b) \in S
  BY <1>3, TreeHas
<1> HIDE DEF S
<1>7. n \in S
  BY <1>4, <1>5, <1>6, TreeInduction
<1> QED  BY <1>7 DEF S

-----------------------------------------------------------------------------
(* The formula, from the text to the answer.                               *)

Proper(n) == n \in Tree /\ Good(n) /\ IsFormulaNode(n)

LEMMA FormulaIsProper == \A n : IsFormula(n) <=> Proper(n)
<1>1. \A n \in Tree : IsTree(n)
  BY DepthOfTree DEF IsTree
<1>2. \A n : IsTree(n) => n \in Tree
  BY DEF IsTree, Tree
<1> QED  BY <1>1, <1>2 DEF IsFormula, Proper, Good

LEMMA NodesAreTrees == \A n \in Tree : Nodes(n) \subseteq Tree
<1> DEFINE S == {n \in Tree : Nodes(n) \subseteq Tree}
<1>1. Leaf \subseteq S
  BY TreeHas, NodesOf
<1>2. \A op \in Unary, a \in Tree : a \in S => Un(op, a) \in S
  BY TreeHas, NodesOf
<1>3. \A op \in Binary, a, b \in Tree : a \in S /\ b \in S => Bin(op, a, b) \in S
  BY TreeHas, NodesOf
<1> HIDE DEF S
<1>4. Tree \subseteq S
  BY <1>1, <1>2, <1>3, TreeInduction
<1> QED  BY <1>4 DEF S

LEMMA VariablesTyped ==
  ASSUME NEW n \in Tree
  PROVE  VariablesOf(n) \subseteq Variable
<1>1. ASSUME NEW k \in Nodes(n), k[1] = "variable" PROVE k[2] \in Variable
  <2>1. k \in Tree
    BY NodesAreTrees
  <2>2. k[1] \notin Unary /\ k[1] \notin Binary
    BY <1>1, Operations
  <2>3. k \in Leaf /\ k # True /\ k # False
    BY <1>1, <2>1, <2>2, Sides, LeafParts
  <2> QED  BY <2>3, LeafParts
<1> QED  BY <1>1 DEF VariablesOf

LEMMA MinIsLeast ==
  ASSUME NEW S, S \subseteq Nat, S # {}
  PROVE  Min(S) \in S /\ \A i \in S : Min(S) <= i
<1>1. \E m \in S : \A i \in S : m <= i
  BY SmallestNumber
<1> QED  BY <1>1 DEF Min

\* Which refiners are asked for.
Enabled(i, flags) == Stages[i] \in flags \/ Stages[i] \notin Flag

LEMMA StagesAre ==
  /\ Len(Stages) = 8
  /\ Stages[1] = "convert_implication_equality"
  /\ Stages[5] = "convert_less_eq"
  /\ Stages[6] = "reduce_constants"
  /\ Stages[7] = "reduce_contacts_with_constants"
  /\ Stages[8] = "remove_double_negation"
  /\ \A i \in 1..8 : Stages[i] \in Refiner
  /\ "convert_implication_equality" \notin Flag /\ "convert_less_eq" \notin Flag
BY DEF Stages, Refiner, Flag, Split

LEMMA NextStageIs ==
  ASSUME NEW s \in 0..8, NEW flags, NEW t, t = NextStage(s, flags)
  PROVE  /\ t \in s + 1 .. 9
         /\ \A i \in s + 1 .. t - 1 : ~Enabled(i, flags)
<1> DEFINE T == {i \in s + 1 .. Len(Stages) : Stages[i] \in flags \/ Stages[i] \notin Flag}
                   \cup {Len(Stages) + 1}
<1>1. t = Min(T)
  BY DEF NextStage
<1>2. \A i : i \in T <=> i = 9 \/ (i \in s + 1 .. 8 /\ Enabled(i, flags))
  BY StagesAre DEF Enabled
<1> HIDE DEF T
<1>3. T \subseteq Nat /\ T # {}
  <2>1. 9 \in T
    BY <1>2
  <2>2. \A i \in s + 1 .. 8 : i \in Nat
    OBVIOUS
  <2> QED  BY <1>2, <2>1, <2>2
<1>4. t \in T /\ \A i \in T : t <= i
  BY <1>1, <1>3, MinIsLeast
<1>5. t \in s + 1 .. 9
  BY <1>2, <1>4
<1>6. ASSUME NEW i \in s + 1 .. t - 1 PROVE ~Enabled(i, flags)
  <2>1. i \in s + 1 .. 8 /\ ~(t <= i)
    BY <1>5
  <2> QED  BY <1>2, <1>4, <2>1
<1> QED  BY <1>5, <1>6

LEMMA EnabledAre ==
  ASSUME NEW flags
  PROVE  /\ Enabled(1, flags) /\ Enabled(5, flags)
         /\ "reduce_constants" \in flags => Enabled(6, flags)
         /\ "reduce_contacts_with_constants" \in flags => Enabled(7, flags)
         /\ "remove_double_negation" \in flags => Enabled(8, flags)
BY StagesAre DEF Enabled

LEMMA FirstStage ==
  ASSUME NEW flags
  PROVE  NextStage(0, flags) = 1
<1>1. PICK t : t = NextStage(0, flags)
  OBVIOUS
<1>2. t \in 1..9 /\ \A i \in 1 .. t - 1 : ~Enabled(i, flags)
  <2>1. t \in 0 + 1 .. 9 /\ \A i \in 0 + 1 .. t - 1 : ~Enabled(i, flags)
    BY <1>1, NextStageIs
  <2> QED  BY <2>1
<1>3. 1 \notin 1 .. t - 1
  BY <1>2, EnabledAre
<1>4. t = 1
  BY <1>2, <1>3
<1> QED  BY <1>1, <1>4

-----------------------------------------------------------------------------
(* What the refiners before a stage have made of the AST.                  *)

Allowed(flags) ==
  IF "reduce_contacts_with_constants" \in flags
  THEN {"measured_less_eq"} ELSE {"measured_less_eq", "contact"}

Obeys(n, s, flags) ==
  /\ s > 1 => Free(n, {"implication", "equality"})
  /\ s > 5 => Free(n, {"less_eq"})
  /\ s = 7 /\ "reduce_constants" \in flags => AllReduced(n)
  /\ s > 7 /\ "reduce_constants" \in flags => NoConstant(n, Allowed(flags))
  /\ s > 8 /\ "remove_double_negation" \in flags => NoDoubleNegation(n)

LEMMA FreeOfGone ==
  ASSUME NEW n, Free(n, {"implication", "equality"}), Free(n, {"less_eq"})
  PROVE  Free(n, Gone)
BY DEF Free, Gone

LEMMA AllReducedLeaves ==
  ASSUME NEW n, AllReduced(n)
  PROVE  NoConstant(n, {"measured_less_eq", "contact"})
BY DEF AllReduced, Reduced, NoConstant

LEMMA MoreAllowed ==
  ASSUME NEW n, NoConstant(n, {"measured_less_eq"}), NEW flags
  PROVE  NoConstant(n, Allowed(flags))
BY DEF NoConstant, HasConstant, Allowed

LEMMA NextObeys ==
  ASSUME NEW n \in Tree, Good(n), NEW flags, NEW s \in 1..8, Obeys(n, s, flags),
         NEW t, t = NextStage(s, flags), NEW k, k = Visit(Stages[s], n)
  PROVE  Obeys(k, t, flags)
<1> DEFINE v == Stages[s]
<1>1. t \in s + 1 .. 9 /\ \A i \in s + 1 .. t - 1 : ~Enabled(i, flags)
  BY NextStageIs
<1>2. v \in Refiner
  BY StagesAre
<1>3. {"implication", "equality"} \subseteq Gone /\ {"less_eq"} \subseteq Gone
  BY DEF Gone
<1>4. Free(k, {"implication", "equality"})
  <2>1. CASE s = 1
    <3>1. k = Visit("convert_implication_equality", n)
      BY <2>1, StagesAre
    <3>2. Free(Visit("convert_implication_equality", n), {"implication", "equality"})
      BY FreedVisited
    <3> QED  BY <3>1, <3>2
  <2>2. CASE s # 1
    <3>1. Free(n, {"implication", "equality"})
      BY <2>2 DEF Obeys
    <3>2. Free(Visit(v, n), {"implication", "equality"})
      <4> HIDE DEF v
      <4> QED  BY <1>2, <1>3, <3>1, FreeVisited
    <3> QED  BY <3>2
  <2> QED  BY <2>1, <2>2
<1>5. ASSUME t > 5 PROVE s >= 5
  <2>1. Enabled(5, flags)
    BY EnabledAre
  <2> QED  BY <1>1, <1>5, <2>1
<1>6. ASSUME t > 5 PROVE Free(k, {"less_eq"})
  <2>1. CASE s = 5
    <3>1. k = Visit("convert_less_eq", n)
      BY <2>1, StagesAre
    <3>2. Free(Visit("convert_less_eq", n), {"less_eq"})
      BY FreedVisited
    <3> QED  BY <3>1, <3>2
  <2>2. CASE s # 5
    <3>1. Free(n, {"less_eq"})
      BY <1>5, <1>6, <2>2 DEF Obeys
    <3>2. Free(Visit(v, n), {"less_eq"})
      <4> HIDE DEF v
      <4> QED  BY <1>2, <1>3, <3>1, FreeVisited
    <3> QED  BY <3>2
  <2> QED  BY <2>1, <2>2
<1>7. ASSUME t > 6, "reduce_constants" \in flags PROVE s >= 6
  <2>1. Enabled(6, flags)
    BY <1>7, EnabledAre
  <2> QED  BY <1>1, <1>7, <2>1
<1>8. ASSUME s = 6 PROVE AllReduced(k)
  <2>1. Free(n, Gone)
    BY <1>8, FreeOfGone DEF Obeys
  <2> QED  BY <1>8, <2>1, ReducedVisited, StagesAre
<1>9. ASSUME t = 7, "reduce_constants" \in flags PROVE AllReduced(k)
  <2>1. s = 6
    BY <1>1, <1>7, <1>9
  <2> QED  BY <1>8, <2>1
<1>10. ASSUME t > 7, "reduce_constants" \in flags PROVE NoConstant(k, Allowed(flags))
  <2>1. CASE s = 6
    <3>1. ~Enabled(7, flags)
      BY <1>1, <1>10, <2>1
    <3>2. Allowed(flags) = {"measured_less_eq", "contact"}
      BY <3>1, EnabledAre DEF Allowed
    <3> QED  BY <1>8, <2>1, <3>2, AllReducedLeaves
  <2>2. CASE s = 7
    <3>1. AllReduced(n)
      BY <1>10, <2>2 DEF Obeys
    <3>2. NoConstant(Visit("reduce_contacts_with_constants", n), {"measured_less_eq"})
      BY <3>1, ContactsVisited
    <3> QED  BY <2>2, <3>2, MoreAllowed, StagesAre
  <2>3. CASE s = 8
    <3>1. NoConstant(n, Allowed(flags))
      BY <1>10, <2>3 DEF Obeys
    <3>2. "negation" \notin Allowed(flags) /\ "complement" \notin Allowed(flags)
      BY DEF Allowed
    <3> QED  BY <2>3, <3>1, <3>2, DoubleNegationVisited, StagesAre
  <2>4. s >= 6
    BY <1>1, <1>7, <1>10
  <2>5. s \in {6, 7, 8}
    BY <2>4
  <2> QED  BY <2>1, <2>2, <2>3, <2>5
<1>11. ASSUME t > 8, "remove_double_negation" \in flags PROVE NoDoubleNegation(k)
  <2>1. Enabled(8, flags)
    BY <1>11, EnabledAre
  <2>2. s = 8
    BY <1>1, <1>11, <2>1
  <2> QED  BY <2>2, NoDoubleNegationVisited, StagesAre
<1> QED  BY <1>4, <1>6, <1>9, <1>10, <1>11 DEF Obeys

-----------------------------------------------------------------------------
(* The inductive invariant: what the flags ask for of the AST holds as far *)
(* as their refiners have been applied, and there is a model only of the   *)
(* formula that was solved.                                                *)

Kept(n) == Proper(n) /\ Meaning(n) = Meaning(input.ast)

Typed ==
  /\ pc \in {"idle", "refine", "built", "solved"}
  /\ input \in Input
  /\ variables_ \subseteq Variable
  /\ result \in BOOLEAN

Refining ==
  /\ stage \in 1..9
  /\ f_ = NoAST
  /\ Kept(formula_AST)
  /\ Obeys(formula_AST, stage, input.flags)

Built ==
  /\ stage = 0
  /\ formula_AST = NoAST
  /\ Kept(f_)
  /\ Obeys(f_, 9, input.flags)

Solved ==
  /\ result <=> Meaning(f_) # {}
  /\ f_ \in {True, False} \/ Meaning(f_) = {} => out_model = Nothing
  /\ f_ \notin {True, False} /\ Meaning(f_) # {} => out_model \in Meaning(f_)

IInv ==
  /\ Typed
  /\ pc = "idle" => stage = 0 /\ formula_AST = NoAST /\ f_ = NoAST
  /\ pc = "refine" => Refining
  /\ pc \in {"built", "solved"} => Built
  /\ pc # "solved" => out_model = Nothing
  /\ pc = "solved" => Solved

LEMMA InitEstablishes == Init => IInv
BY DEF Init, IInv, Typed

LEMMA BuildKeeps == IInv /\ Build => IInv'
<1> SUFFICES ASSUME IInv, Build PROVE IInv'
  OBVIOUS
<1>1. pc = "idle" /\ input' = input /\ out_model' = out_model /\ result' = result
  BY DEF Build
<1>2. Typed'
  BY <1>1 DEF IInv, Typed, Build
<1>3. out_model' = Nothing
  BY <1>1 DEF IInv
<1>4. CASE input.ast = NoAST /\ pc' = "idle" /\ stage' = 0
  BY <1>2, <1>3, <1>4 DEF IInv, Build
<1>5. CASE input.ast # NoAST /\ pc' = "refine" /\ stage' = NextStage(0, input.flags)
  <2>1. Proper(input.ast)
    BY <1>5, InputAssumption, FormulaIsProper DEF IInv, Typed
  <2>2. Kept(formula_AST)'
    BY <1>1, <2>1 DEF Kept, Build
  <2>3. stage' = 1
    BY <1>5, FirstStage
  <2>4. Obeys(formula_AST, stage, input.flags)'
    BY <2>3 DEF Obeys
  <2>5. Refining'
    BY <2>2, <2>3, <2>4 DEF Refining, Build
  <2> QED  BY <1>2, <1>3, <1>5, <2>5 DEF IInv
<1> QED  BY <1>4, <1>5 DEF Build

LEMMA RefineKeeps == IInv /\ Refine => IInv'
<1> SUFFICES ASSUME IInv, Refine PROVE IInv'
  OBVIOUS
<1>1. /\ pc = "refine" /\ pc' = pc /\ input' = input /\ f_' = f_ /\ variables_' = variables_
      /\ out_model' = out_model /\ result' = result
      /\ stage \in 1..9 /\ stage <= 8
  BY StagesAre DEF IInv, Refining, Refine
<1>2. Typed'
  BY <1>1 DEF IInv, Typed
<1> DEFINE n == formula_AST
           v == Stages[stage]
<1>3. /\ n \in Tree /\ Good(n) /\ IsFormulaNode(n) /\ Meaning(n) = Meaning(input.ast)
      /\ Obeys(n, stage, input.flags)
  BY <1>1 DEF IInv, Refining, Kept, Proper
<1>4. n' = Visit(v, n) /\ stage' = NextStage(stage, input.flags)
  BY DEF Refine
<1>5. stage \in 1..8
  BY <1>1
<1>6. Same(n, n')
  <2>1. v \in Refiner
    BY <1>5, StagesAre
  <2> HIDE DEF v
  <2>2. Same(n, Visit(v, n))
    BY <1>3, <2>1, SameVisited
  <2> QED  BY <1>4, <2>2
<1>7. Kept(n)'
  BY <1>1, <1>3, <1>6 DEF Same, Kept, Proper
<1>8. stage' \in 1..9
  <2>1. stage' \in stage + 1 .. 9
    BY <1>4, <1>5, NextStageIs
  <2> QED  BY <1>5, <2>1
<1>9. Obeys(n', stage', input.flags)
  BY <1>3, <1>4, <1>5, NextObeys
<1>10. Refining'
  BY <1>1, <1>7, <1>8, <1>9 DEF IInv, Refining
<1> QED  BY <1>1, <1>2, <1>10 DEF IInv

LEMMA BuildFormulaKeeps == IInv /\ BuildFormula => IInv'
<1> SUFFICES ASSUME IInv, BuildFormula PROVE IInv'
  OBVIOUS
<1>1. /\ pc = "refine" /\ input' = input /\ out_model' = out_model /\ result' = result
      /\ stage \in 1..9 /\ stage > 8
  BY StagesAre DEF IInv, Refining, BuildFormula
<1>2. stage = 9
  BY <1>1
<1>3. Kept(formula_AST) /\ Obeys(formula_AST, 9, input.flags)
  BY <1>1, <1>2 DEF IInv, Refining
<1>4. CanBeBuilt(formula_AST)
  BY <1>3 DEF Obeys, Free, CanBeBuilt
<1>5. /\ f_' = formula_AST /\ pc' = "built" /\ formula_AST' = NoAST /\ stage' = 0
      /\ variables_' = VariablesOf(formula_AST)
  BY <1>4 DEF BuildFormula
<1>6. variables_' \subseteq Variable
  BY <1>3, <1>5, VariablesTyped DEF Kept, Proper
<1>7. Typed'
  BY <1>1, <1>5, <1>6 DEF IInv, Typed
<1>8. Built'
  BY <1>1, <1>3, <1>5 DEF Built, Kept
<1>9. out_model' = Nothing
  BY <1>1 DEF IInv
<1> QED  BY <1>5, <1>7, <1>8, <1>9 DEF IInv

LEMMA IsSatisfiableKeeps == IInv /\ IsSatisfiable => IInv'
<1> SUFFICES ASSUME IInv, IsSatisfiable PROVE IInv'
  OBVIOUS
<1>1. /\ pc \in {"built", "solved"} /\ pc' = "solved"
      /\ UNCHANGED <<input, stage, formula_AST, f_, variables_>>
      /\ result' = (Meaning(f_) # {}) /\ out_model' \in ModelFor(f_)
  BY DEF IsSatisfiable
<1>2. Typed'
  BY <1>1 DEF IInv, Typed
<1>3. Built
  BY <1>1 DEF IInv
<1>4. Built'
  BY <1>1, <1>3 DEF Built, Kept
<1>5. Solved'
  <2>1. CASE f_ \in {True, False}
    <3>1. out_model' = out_model
      BY <1>1, <2>1 DEF ModelFor
    <3>2. out_model = Nothing
      BY <1>1, <2>1 DEF IInv, Solved
    <3> QED  BY <1>1, <2>1, <3>1, <3>2 DEF Solved
  <2>2. CASE f_ \notin {True, False} /\ Meaning(f_) = {}
    <3>1. out_model' = Nothing
      BY <1>1, <2>2 DEF ModelFor
    <3> QED  BY <1>1, <2>2, <3>1 DEF Solved
  <2>3. CASE f_ \notin {True, False} /\ Meaning(f_) # {}
    <3>1. out_model' \in Meaning(f_)
      BY <1>1, <2>3 DEF ModelFor
    <3> QED  BY <1>1, <2>3, <3>1 DEF Solved
  <2> QED  BY <2>1, <2>2, <2>3
<1> QED  BY <1>1, <1>2, <1>4, <1>5 DEF IInv

LEMMA Invariant == Spec => []IInv
<1>1. ASSUME IInv, UNCHANGED vars PROVE IInv'
  BY <1>1 DEF IInv, Typed, Refining, Built, Solved, Kept, vars
<1>2. IInv /\ [Next]_vars => IInv'
  BY <1>1, BuildKeeps, RefineKeeps, BuildFormulaKeeps, IsSatisfiableKeeps DEF Next
<1> QED  BY <1>2, InitEstablishes, PTL DEF Spec

(***************************************************************************)
(* Every refiner, whichever the flags, leaves the AST of a formula         *)
(* (visitor.cpp): operations have the formulas or terms that they call for *)
(* as children, down to the leaves.                                        *)
(***************************************************************************)
THEOREM TypeCorrect == Spec => []TypeOK
<1>1. ASSUME IInv PROVE TypeOK
  <2>1. stage \in 0..Len(Stages) + 1
    BY <1>1, StagesAre DEF IInv, Typed, Refining, Built
  <2>2. \A n \in {formula_AST, f_} : n = NoAST \/ IsFormula(n)
    BY <1>1, FormulaIsProper DEF IInv, Typed, Refining, Built, Kept
  <2>3. out_model \in Model \cup {Nothing}
    <3>1. CASE pc # "solved"
      BY <1>1, <3>1 DEF IInv
    <3>2. CASE pc = "solved"
      <4>1. Meaning(f_) \subseteq Model
        BY <1>1, <3>2, MeansTyped DEF IInv, Built, Kept, Proper
      <4> QED  BY <1>1, <3>2, <4>1 DEF IInv, Solved
    <3> QED  BY <3>1, <3>2
  <2> QED  BY <1>1, <2>1, <2>2, <2>3 DEF IInv, Typed, TypeOK
<1> QED  BY <1>1, Invariant, PTL

(***************************************************************************)
(* No refiner changes the meaning of the formula, whichever of the others  *)
(* of formula_mgr.cpp:50-119 the flags have let run before it: the formula *)
(* that is built holds in the same structures as the text.                 *)
(***************************************************************************)
THEOREM MeaningCorrect == Spec => []MeaningIsKept
<1>1. IInv => MeaningIsKept
  BY DEF IInv, Typed, Refining, Built, Kept, MeaningIsKept
<1> QED  BY <1>1, Invariant, PTL

(***************************************************************************)
(* What the refiners leave has no implication, equality or <= anywhere, so *)
(* that formula::build (formula.cpp:114-118) succeeds for every text.      *)
(***************************************************************************)
THEOREM BuildCorrect == Spec => []EveryTextIsBuilt
<1>1. ASSUME NEW n, Obeys(n, 9, input.flags) PROVE CanBeBuilt(n)
  BY <1>1 DEF Obeys, Free, CanBeBuilt
<1>2. ASSUME IInv PROVE EveryTextIsBuilt
  <2>1. CASE stage > Len(Stages)
    <3>1. pc = "refine" /\ stage = 9
      BY <1>2, <2>1, StagesAre DEF IInv, Typed, Refining, Built
    <3> QED  BY <1>1, <1>2, <2>1, <3>1 DEF IInv, Refining, EveryTextIsBuilt
  <2>2. CASE ~(stage > Len(Stages))
    BY <1>1, <1>2, <2>2 DEF IInv, Built, EveryTextIsBuilt
  <2> QED  BY <2>1, <2>2
<1> QED  BY <1>2, Invariant, PTL

(***************************************************************************)
(* One pass of each refiner, in the order of formula_mgr.cpp:50-119, is    *)
(* enough: no double negation is left where they were to be removed, and   *)
(* no constant where they were to be reduced.                              *)
(***************************************************************************)
THEOREM FlagsCorrect == Spec => []FlagsAreObeyed
<1>1. ASSUME IInv, pc = "built" PROVE Obeys(f_, 9, input.flags)
  BY <1>1 DEF IInv, Built
<1>2. ASSUME IInv PROVE FlagsAreObeyed
  BY <1>1, <1>2 DEF Obeys, NoConstant, NoDoubleNegation, Allowed, FlagsAreObeyed
<1> QED  BY <1>2, Invariant, PTL

(***************************************************************************)
(* formula::evaluate (formula.cpp:207-292) is right about every formula    *)
(* without <=m and F, although it takes a value for what it does not look  *)
(* at.                                                                     *)
(***************************************************************************)
THEOREM EvaluationCorrect == Spec => []EvaluationIsExact
<1>1. ASSUME IInv, pc = "built",
             ~(\E n \in Nodes(f_) : n[1] \in {"measured_less_eq", "constant_false"}), NEW m \in Model
      PROVE  IsModelSatisfiable(m) <=> m \in Meaning(f_)
  <2>1. /\ f_ \in Tree /\ Good(f_) /\ IsFormulaNode(f_)
        /\ Free(f_, {"implication", "equality"}) /\ Free(f_, {"less_eq"})
    BY <1>1 DEF IInv, Built, Kept, Proper, Obeys
  <2>2. Free(f_, Unevaluated)
    BY <1>1, <2>1 DEF Free, Unevaluated
  <2>3. Shows(Truth(f_, m), m \in Meaning(f_))
    BY <2>1, <2>2, EvaluatedIsMeant
  <2> QED  BY <2>3 DEF Shows, Truth, IsModelSatisfiable, Fails
<1>2. IInv => EvaluationIsExact
  BY <1>1 DEF EvaluationIsExact
<1> QED  BY <1>2, Invariant, PTL

(***************************************************************************)
(* However often the formula is solved, the answer and the model are about *)
(* the text that was given to build; only a formula that is reduced to T   *)
(* is satisfiable without a model (tableau.cpp:13-16).                     *)
(***************************************************************************)
THEOREM AnswerCorrect == Spec => []AnswerIsAboutTheText
<1>1. ASSUME IInv, pc = "solved" PROVE Solved /\ Meaning(f_) = Meaning(input.ast)
  BY <1>1 DEF IInv, Built, Kept
<1>2. Meaning(False) = {}
  BY MeansOfLeaf
<1>3. IInv => AnswerIsAboutTheText
  BY <1>1, <1>2 DEF Solved, AnswerIsAboutTheText
<1> QED  BY <1>3, Invariant, PTL
-----------------------------------------------------------------------------
(* What is built is what TableauProofs is about.                           *)

Ordered == Binary \ {"contact"}

LEMMA IdentityOf ==
  /\ \A n \in Leaf : Identity(n) = n
  /\ \A op \in Unary, a \in Tree : Identity(Un(op, a)) = Un(op, Identity(a))
  /\ \A op \in Ordered, a, b \in Tree : Identity(Bin(op, a, b)) = Bin(op, Identity(a), Identity(b))
  /\ \A a, b \in Tree :
       Identity(Bin("contact", a, b)) = <<"contact", {Identity(a), Identity(b)}>>
<1>1. \A n \in Tree : Identity(n) = At("identity", n, Rebuilt("identity", n))
  BY BeforeUnlessSplit, VisitUnfolds DEF Identity, Split
<1>2. \A n, c : At("identity", n, c) = IF n[1] = "contact" THEN <<n[1], Children(c)>> ELSE c
  BY DEF At
<1>3. "contact" \in Binary /\ "contact" \notin Unary
  BY BinaryIs, UnaryIs
<1>4. ASSUME NEW n \in Leaf PROVE Identity(n) = n
  <2>1. n \in Tree /\ Rebuilt("identity", n) = n
    BY TreeHas, RebuiltCases
  <2>2. n[1] # "contact"
    BY LeafOperation DEF Constant
  <2> QED  BY <1>1, <1>2, <2>1, <2>2
<1>5. ASSUME NEW op \in Unary, NEW a \in Tree PROVE Identity(Un(op, a)) = Un(op, Identity(a))
  <2>1. Un(op, a) \in Tree /\ Rebuilt("identity", Un(op, a)) = Un(op, Identity(a))
    BY TreeHas, RebuiltCases DEF Identity
  <2>2. Un(op, a)[1] # "contact"
    BY <1>3, UnParts
  <2> QED  BY <1>1, <1>2, <2>1, <2>2
<1>6. ASSUME NEW op \in Binary, NEW a \in Tree, NEW b \in Tree
      PROVE  Identity(Bin(op, a, b)) =
               IF op = "contact" THEN <<op, {Identity(a), Identity(b)}>>
               ELSE Bin(op, Identity(a), Identity(b))
  <2>1. /\ Bin(op, a, b) \in Tree
        /\ Rebuilt("identity", Bin(op, a, b)) = Bin(op, Identity(a), Identity(b))
    BY TreeHas, RebuiltCases DEF Identity
  <2>2. Bin(op, a, b)[1] = op
    BY BinParts
  <2>3. Children(Bin(op, Identity(a), Identity(b))) = {Identity(a), Identity(b)}
    BY ChildrenOfBin
  <2> QED  BY <1>1, <1>2, <2>1, <2>2, <2>3
<1> QED  BY <1>3, <1>4, <1>5, <1>6 DEF Ordered

LEMMA IdentityParts ==
  ASSUME NEW n \in Tree
  PROVE  /\ Identity(n)[1] = n[1]
         /\ n[1] \in Unary \cup Ordered => Identity(n)[2] = Identity(n[2])
         /\ n[1] \in Ordered => Identity(n)[3] = Identity(n[3])
         /\ n[1] = "contact" => Identity(n)[2] = {Identity(n[2]), Identity(n[3])}
         /\ n[1] \notin Unary \cup Binary => Identity(n) = n
<1>0. "contact" \in Binary /\ \A op \in Unary : op \notin Binary
  BY BinaryIs, Operations
<1>1. CASE n[1] \in Unary
  <2>1. n[2] \in Tree /\ n = Un(n[1], n[2])
    BY <1>1, Sides
  <2>2. Identity(n) = Un(n[1], Identity(n[2]))
    BY <1>1, <2>1, IdentityOf
  <2> QED  BY <1>0, <1>1, <2>2, UnParts DEF Ordered
<1>2. CASE n[1] \in Ordered
  <2>1. n[1] \in Binary /\ n[1] # "contact"
    BY <1>2 DEF Ordered
  <2>2. n[2] \in Tree /\ n[3] \in Tree /\ n = Bin(n[1], n[2], n[3])
    BY <2>1, Sides
  <2>3. Identity(n) = Bin(n[1], Identity(n[2]), Identity(n[3]))
    BY <1>2, <2>2, IdentityOf
  <2> QED  BY <2>1, <2>3, BinParts
<1>3. CASE n[1] = "contact"
  <2>1. n[2] \in Tree /\ n[3] \in Tree /\ n = Bin("contact", n[2], n[3])
    BY <1>0, <1>3, Sides
  <2>2. Identity(n) = <<"contact", {Identity(n[2]), Identity(n[3])}>>
    BY <2>1, IdentityOf
  <2> QED  BY <1>0, <1>3, <2>2 DEF Ordered
<1>4. CASE n[1] \notin Unary \cup Binary
  <2>1. Identity(n) = n
    BY <1>4, Sides, IdentityOf
  <2> QED  BY <1>0, <1>4, <2>1 DEF Ordered
<1> QED  BY <1>1, <1>2, <1>3, <1>4 DEF Ordered

LEMMA MeansByParts ==
  ASSUME NEW op \in Ordered, NEW a \in Tree, NEW b \in Tree, NEW x \in Tree, NEW y \in Tree,
         Val(a) = Val(x), Meaning(a) = Meaning(x), Val(b) = Val(y), Meaning(b) = Meaning(y)
  PROVE  Val(Bin(op, a, b)) = Val(Bin(op, x, y)) /\ Meaning(Bin(op, a, b)) = Meaning(Bin(op, x, y))
<1>1. op \in Binary /\ op # "variable"
  BY BinaryIs DEF Ordered
<1>2. PICK n, c : /\ n[1] = op
                  /\ c[2].value = Val(a) /\ c[2].models = Meaning(a)
                  /\ c[3].value = Val(b) /\ c[3].models = Meaning(b)
                  /\ Val(Bin(op, a, b)) = Value(n, c) /\ Meaning(Bin(op, a, b)) = Holds(n, c)
  BY <1>1, MeansOfBin
<1>3. PICK k, d : /\ k[1] = op
                  /\ d[2].value = Val(x) /\ d[2].models = Meaning(x)
                  /\ d[3].value = Val(y) /\ d[3].models = Meaning(y)
                  /\ Val(Bin(op, x, y)) = Value(k, d) /\ Meaning(Bin(op, x, y)) = Holds(k, d)
  BY <1>1, MeansOfBin
<1>4. /\ n[1] = k[1] /\ n[1] # "variable"
      /\ c[2].value = d[2].value /\ c[2].models = d[2].models
      /\ c[3].value = d[3].value /\ c[3].models = d[3].models
  BY <1>1, <1>2, <1>3
<1>5. Value(n, c) = Value(k, d)
  BY <1>4 DEF Value
<1>6. Holds(n, c) = Holds(k, d)
  BY <1>4 DEF Holds
<1> QED  BY <1>2, <1>3, <1>5, <1>6

(***************************************************************************)
(* Nodes that operator== takes for the same mean the same, since contact   *)
(* is symmetric.                                                           *)
(***************************************************************************)
LEMMA IdentityMeans ==
  \A n, k \in Tree : Identity(n) = Identity(k) => Val(n) = Val(k) /\ Meaning(n) = Meaning(k)
<1> DEFINE P(n, k) == Val(n) = Val(k) /\ Meaning(n) = Meaning(k)
           S == {n \in Tree : \A k \in Tree : Identity(n) = Identity(k) => P(n, k)}
<1>1. ASSUME NEW n \in Leaf PROVE n \in S
  <2>1. n \in Tree /\ Identity(n) = n /\ n[1] \notin Unary \cup Binary
    BY TreeHas, IdentityOf, LeafOperation, Operations
  <2>2. ASSUME NEW k \in Tree, Identity(n) = Identity(k) PROVE n = k
    <3>1. k[1] = n[1]
      BY <2>1, <2>2, IdentityParts
    <3> QED  BY <2>1, <2>2, <3>1, IdentityParts
  <2> QED  BY <2>1, <2>2
<1>2. ASSUME NEW op \in Unary, NEW a \in Tree, a \in S PROVE Un(op, a) \in S
  <2>1. Un(op, a) \in Tree
    BY TreeHas
  <2>2. ASSUME NEW k \in Tree, Identity(Un(op, a)) = Identity(k) PROVE P(Un(op, a), k)
    <3>1. Un(op, a)[1] = op /\ Un(op, a)[2] = a
      BY UnParts
    <3>2. k[1] = op
      BY <2>1, <2>2, <3>1, IdentityParts
    <3>3. k[2] \in Tree /\ k = Un(op, k[2])
      BY <3>2, Sides
    <3>4. Identity(a) = Identity(k[2])
      BY <2>1, <2>2, <3>1, <3>2, IdentityParts
    <3>5. P(a, k[2])
      BY <1>2, <3>3, <3>4
    <3>6. P(Un(op, a), Un(op, k[2]))
      BY <3>3, <3>5, UnaryIs, MeansOfUn
    <3> QED  BY <3>3, <3>6
  <2> QED  BY <2>1, <2>2
<1>3. ASSUME NEW op \in Binary, NEW a \in Tree, NEW b \in Tree, a \in S, b \in S
      PROVE  Bin(op, a, b) \in S
  <2> DEFINE n == Bin(op, a, b)
  <2>1. n \in Tree /\ n[1] = op /\ n[2] = a /\ n[3] = b
    BY TreeHas, BinParts
  <2> HIDE DEF n
  <2>2. ASSUME NEW k \in Tree, Identity(n) = Identity(k) PROVE P(n, k)
    <3>1. k[1] = op
      BY <2>1, <2>2, IdentityParts
    <3>2. k[2] \in Tree /\ k[3] \in Tree /\ k = Bin(op, k[2], k[3])
      BY <3>1, Sides
    <3>3. CASE op = "contact"
      <4>1. {Identity(a), Identity(b)} = {Identity(k[2]), Identity(k[3])}
        BY <2>1, <2>2, <3>1, <3>3, IdentityParts
      <4>2. \/ Identity(a) = Identity(k[2]) /\ Identity(b) = Identity(k[3])
            \/ Identity(a) = Identity(k[3]) /\ Identity(b) = Identity(k[2])
        BY <4>1
      <4>3. \/ Val(a) = Val(k[2]) /\ Val(b) = Val(k[3])
            \/ Val(a) = Val(k[3]) /\ Val(b) = Val(k[2])
        BY <1>3, <3>2, <4>2
      <4>4. InContact[Val(a)][Val(b)] = InContact[Val(b)][Val(a)]
        <5>1. Val(a) \in SUBSET Point /\ Val(b) \in SUBSET Point
          BY MeansTyped
        <5>2. \A u, w \in SUBSET Point : InContact[u][w] = InContact[w][u]
          BY StructureAssumption
        <5> QED  BY <5>1, <5>2
      <4>5. InContact[Val(a)][Val(b)] = InContact[Val(k[2])][Val(k[3])]
        BY <4>3, <4>4
      <4>6. Meaning(n) = Meaning(k)
        <5>1. Meaning(Bin("contact", a, b)) = InContact[Val(a)][Val(b)]
          BY MeansOfAtomic
        <5>2. Meaning(Bin("contact", k[2], k[3])) = InContact[Val(k[2])][Val(k[3])]
          BY <3>2, MeansOfAtomic
        <5> QED  BY <3>2, <3>3, <4>5, <5>1, <5>2 DEF n
      <4>7. Val(n) = {} /\ Val(k) = {}
        BY <3>2, <3>3, NoValue DEF n
      <4> QED  BY <4>6, <4>7
    <3>4. CASE op # "contact"
      <4>1. Identity(a) = Identity(k[2]) /\ Identity(b) = Identity(k[3])
        BY <2>1, <2>2, <3>1, <3>4, IdentityParts DEF Ordered
      <4>2. P(a, k[2]) /\ P(b, k[3])
        BY <1>3, <3>2, <4>1
      <4>3. P(Bin(op, a, b), Bin(op, k[2], k[3]))
        BY <3>2, <3>4, <4>2, MeansByParts DEF Ordered
      <4> QED  BY <3>2, <4>3 DEF n
    <3> QED  BY <3>3, <3>4
  <2> QED  BY <2>1, <2>2 DEF n
<1> HIDE DEF S
<1>4. Tree \subseteq S
  BY <1>1, <1>2, <1>3, TreeInduction
<1> QED  BY <1>4 DEF S

LEMMA NodesAreClosed == \A n \in Tree : \A k \in Nodes(n) : Children(k) \subseteq Nodes(n)
<1> DEFINE S == {n \in Tree : \A k \in Nodes(n) : Children(k) \subseteq Nodes(n)}
<1>1. ASSUME NEW n \in Tree, Children(n) \subseteq S PROVE n \in S
  <2>1. ASSUME NEW k \in Nodes(n) PROVE Children(k) \subseteq Nodes(n)
    <3>1. CASE k = n
      <4>1. ASSUME NEW c \in Children(n) PROVE c \in Nodes(n)
        BY NodesBelow
      <4> QED  BY <3>1, <4>1
    <3>2. ASSUME NEW c \in Children(n), k \in Nodes(c) PROVE Children(k) \subseteq Nodes(n)
      <4>1. Nodes(c) \subseteq Nodes(n)
        BY NodesBelow
      <4>2. Children(k) \subseteq Nodes(c)
        BY <1>1, <3>2
      <4> QED  BY <4>1, <4>2
    <3> QED  BY <3>1, <3>2, NodesBelow
  <2> QED  BY <2>1
<1> HIDE DEF S
<1>2. "nodes" # Split
  BY DEF Split
<1>3. \A n \in Tree : Children(Before("nodes", n)) \subseteq S => n \in S
  BY <1>1, <1>2, BeforeUnlessSplit
<1>4. Tree \subseteq S
  BY <1>3, VisitInduction
<1> QED  BY <1>4 DEF S

\* The formulas of f, as TableauProofs takes them: those that operator== does
\* not tell apart are one.
FormulaNodes(f) == {n \in Nodes(f) : IsFormulaNode(n)}
FormulasOf(f) == {Identity(n) : n \in FormulaNodes(f)}

OneSide(x) == CHOOSE t \in x[2] : TRUE
OtherSide(x) == CHOOSE t \in x[2] : x[2] = {OneSide(x), t}

OpOf(f) == [x \in FormulasOf(f) |-> IF x[1] = "contact" THEN "c" ELSE x[1]]
Second(f) == [x \in FormulasOf(f) |-> x[2]]
Third(f) == [x \in FormulasOf(f) |-> x[3]]
LeftTermOf(f) == [x \in FormulasOf(f) |-> IF x[1] = "contact" THEN OneSide(x) ELSE x[2]]
RightTermOf(f) == [x \in FormulasOf(f) |-> IF x[1] = "contact" THEN OtherSide(x) ELSE x[3]]
TheoryOf(f) == [m \in Model |-> {Identity(n) : n \in {k \in FormulaNodes(f) : m \in Meaning(k)}}]

Given(f) ==
  INSTANCE Formulas WITH
    Formula <- FormulasOf(f), Op <- OpOf(f), Left <- Second(f), Right <- Third(f),
    LeftTerm <- LeftTermOf(f), RightTerm <- RightTermOf(f), Models <- Model, Theory <- TheoryOf(f)

\* What is built: a formula that formula::build accepts.
Buildable(f) == Proper(f) /\ Free(f, Gone)

LEMMA BuildableNode ==
  ASSUME NEW f, Buildable(f), NEW n \in FormulaNodes(f)
  PROVE  /\ n \in Tree /\ Fits(n)
         /\ n[1] \in {"constant_true", "constant_false", "negation", "conjunction", "disjunction",
                      "eq_zero", "contact", "measured_less_eq"}
         /\ n[1] \in {"negation", "conjunction", "disjunction"} => n[2] \in FormulaNodes(f)
         /\ n[1] \in {"conjunction", "disjunction"} => n[3] \in FormulaNodes(f)
         /\ n[1] \in {"eq_zero", "contact", "measured_less_eq"} => n[2] \in Tree
         /\ n[1] \in {"contact", "measured_less_eq"} => n[3] \in Tree
<1>1. n \in Tree /\ Fits(n) /\ n[1] \notin Gone
  BY NodesAreTrees DEF Buildable, Proper, Good, Free, FormulaNodes
<1>2. n[1] \in {"constant_true", "constant_false", "negation", "conjunction", "disjunction",
                "eq_zero", "contact", "measured_less_eq"}
  BY <1>1 DEF FormulaNodes, IsFormulaNode, UnaryFormula, BinaryFormula, UnaryAtomic, BinaryAtomic, Gone
<1>3. Children(n) \subseteq Nodes(f)
  BY NodesAreClosed DEF Buildable, Proper, FormulaNodes
<1>4. ASSUME NEW c \in Children(n), n[1] \in {"negation", "conjunction", "disjunction"}
      PROVE  c \in FormulaNodes(f)
  <2>1. n[1] \in UnaryFormula \cup BinaryFormula
    BY <1>4 DEF UnaryFormula, BinaryFormula
  <2>2. IsFormulaNode(c)
    BY <1>1, <2>1 DEF Fits
  <2> QED  BY <1>3, <2>2 DEF FormulaNodes
<1>5. n[1] \in {"negation", "eq_zero"} => n[2] \in Tree /\ Children(n) = {n[2]}
  BY <1>1, UnaryIs, Sides
<1>6. n[1] \in {"conjunction", "disjunction", "contact", "measured_less_eq"} =>
        n[2] \in Tree /\ n[3] \in Tree /\ Children(n) = {n[2], n[3]}
  BY <1>1, BinaryIs, Sides
<1> QED  BY <1>1, <1>2, <1>4, <1>5, <1>6

LEMMA TheorySays ==
  ASSUME NEW f, Buildable(f), NEW n \in FormulaNodes(f), NEW m \in Model
  PROVE  Identity(n) \in TheoryOf(f)[m] <=> m \in Meaning(n)
<1>1. n \in Tree /\ \A k \in FormulaNodes(f) : k \in Tree
  BY BuildableNode
<1>2. \A k \in FormulaNodes(f) : Identity(n) = Identity(k) => Meaning(n) = Meaning(k)
  BY <1>1, IdentityMeans
<1> QED  BY <1>2 DEF TheoryOf

LEMMA TwoSides ==
  ASSUME NEW x, NEW s, NEW t, x[2] = {s, t}
  PROVE  {OneSide(x), OtherSide(x)} = {s, t}
<1>1. OneSide(x) \in x[2]
  <2>1. \E y \in x[2] : TRUE
    OBVIOUS
  <2> QED  BY <2>1 DEF OneSide
<1>2. \E y \in x[2] : x[2] = {OneSide(x), y}
  BY <1>1
<1>3. x[2] = {OneSide(x), OtherSide(x)}
  BY <1>2 DEF OtherSide
<1> QED  BY <1>3

LEMMA GivenNode ==
  ASSUME NEW f, Buildable(f), NEW x \in FormulasOf(f)
  PROVE  \E n \in FormulaNodes(f) :
           /\ x = Identity(n) /\ x[1] = n[1]
           /\ OpOf(f)[x] = IF n[1] = "contact" THEN "c" ELSE n[1]
           /\ n[1] \in {"negation", "conjunction", "disjunction"} => Second(f)[x] = Identity(n[2])
           /\ n[1] \in {"conjunction", "disjunction"} => Third(f)[x] = Identity(n[3])
           /\ n[1] = "eq_zero" => LeftTermOf(f)[x] = Identity(n[2])
           /\ n[1] = "contact" =>
                {LeftTermOf(f)[x], RightTermOf(f)[x]} = {Identity(n[2]), Identity(n[3])}
<1>1. PICK n \in FormulaNodes(f) : x = Identity(n)
  BY DEF FormulasOf
<1>2. n \in Tree
  BY BuildableNode
<1>3. x[1] = n[1]
  BY <1>1, <1>2, IdentityParts
<1>4. OpOf(f)[x] = IF n[1] = "contact" THEN "c" ELSE n[1]
  BY <1>3 DEF OpOf
<1>5. n[1] \in {"negation", "eq_zero", "conjunction", "disjunction"} => x[2] = Identity(n[2])
  <2>1. n[1] \in {"negation", "eq_zero", "conjunction", "disjunction"} => n[1] \in Unary \cup Ordered
    BY UnaryIs, BinaryIs DEF Ordered
  <2> QED  BY <1>1, <1>2, <2>1, IdentityParts
<1>6. n[1] \in {"conjunction", "disjunction"} => x[3] = Identity(n[3])
  <2>1. n[1] \in {"conjunction", "disjunction"} => n[1] \in Ordered
    BY BinaryIs DEF Ordered
  <2> QED  BY <1>1, <1>2, <2>1, IdentityParts
<1>7. /\ n[1] \in {"negation", "conjunction", "disjunction"} => Second(f)[x] = Identity(n[2])
      /\ n[1] \in {"conjunction", "disjunction"} => Third(f)[x] = Identity(n[3])
  BY <1>5, <1>6 DEF Second, Third
<1>8. n[1] = "eq_zero" => LeftTermOf(f)[x] = Identity(n[2])
  BY <1>3, <1>5 DEF LeftTermOf
<1>9. ASSUME n[1] = "contact"
      PROVE  {LeftTermOf(f)[x], RightTermOf(f)[x]} = {Identity(n[2]), Identity(n[3])}
  <2>1. x[2] = {Identity(n[2]), Identity(n[3])}
    BY <1>1, <1>2, <1>9, IdentityParts
  <2>2. {OneSide(x), OtherSide(x)} = {Identity(n[2]), Identity(n[3])}
    BY <2>1, TwoSides
  <2>3. LeftTermOf(f)[x] = OneSide(x) /\ RightTermOf(f)[x] = OtherSide(x)
    BY <1>3, <1>9 DEF LeftTermOf, RightTermOf
  <2> QED  BY <2>2, <2>3
<1> QED  BY <1>1, <1>3, <1>4, <1>7, <1>8, <1>9

LEMMA GivenSyntax ==
  ASSUME NEW f, Buildable(f)
  PROVE  Given(f)!SyntaxAssumption
<1>1. ASSUME NEW x \in FormulasOf(f)
      PROVE  /\ OpOf(f)[x] \in Given(f)!OperationT
             /\ OpOf(f)[x] \in {"negation", "conjunction", "disjunction"} => Second(f)[x] \in FormulasOf(f)
             /\ OpOf(f)[x] \in {"conjunction", "disjunction"} => Third(f)[x] \in FormulasOf(f)
  <2>1. PICK n \in FormulaNodes(f) :
           /\ OpOf(f)[x] = IF n[1] = "contact" THEN "c" ELSE n[1]
           /\ n[1] \in {"negation", "conjunction", "disjunction"} => Second(f)[x] = Identity(n[2])
           /\ n[1] \in {"conjunction", "disjunction"} => Third(f)[x] = Identity(n[3])
    BY <1>1, GivenNode
  <2>2. /\ n[1] \in {"constant_true", "constant_false", "negation", "conjunction", "disjunction",
                     "eq_zero", "contact", "measured_less_eq"}
        /\ n[1] \in {"negation", "conjunction", "disjunction"} => n[2] \in FormulaNodes(f)
        /\ n[1] \in {"conjunction", "disjunction"} => n[3] \in FormulaNodes(f)
    BY BuildableNode
  <2>3. OpOf(f)[x] \in Given(f)!OperationT
    BY <2>1, <2>2 DEF Given!OperationT, Given!Constants, Given!Atomics, Given!FormulaOperations
  <2>4. \A k \in FormulaNodes(f) : Identity(k) \in FormulasOf(f)
    BY DEF FormulasOf
  <2> QED  BY <2>1, <2>2, <2>3, <2>4
<1>2. OpOf(f) \in [FormulasOf(f) -> Given(f)!OperationT]
  BY <1>1 DEF OpOf
<1> QED  BY <1>1, <1>2 DEF Given!SyntaxAssumption, Given!IsFormulaOperation, Given!FormulaOperations

LEMMA GivenSemantics ==
  ASSUME NEW f, Buildable(f)
  PROVE  Given(f)!SemanticsAssumption
<1>1. ASSUME NEW m \in Model, NEW x \in FormulasOf(f)
      PROVE  /\ OpOf(f)[x] = "constant_true"  => x \in TheoryOf(f)[m]
             /\ OpOf(f)[x] = "constant_false" => x \notin TheoryOf(f)[m]
             /\ OpOf(f)[x] = "negation"    => (x \in TheoryOf(f)[m] <=> Second(f)[x] \notin TheoryOf(f)[m])
             /\ OpOf(f)[x] = "conjunction" => (x \in TheoryOf(f)[m] <=> /\ Second(f)[x] \in TheoryOf(f)[m]
                                                                        /\ Third(f)[x] \in TheoryOf(f)[m])
             /\ OpOf(f)[x] = "disjunction" => (x \in TheoryOf(f)[m] <=> \/ Second(f)[x] \in TheoryOf(f)[m]
                                                                        \/ Third(f)[x] \in TheoryOf(f)[m])
  <2>1. PICK n \in FormulaNodes(f) :
           /\ x = Identity(n)
           /\ OpOf(f)[x] = IF n[1] = "contact" THEN "c" ELSE n[1]
           /\ n[1] \in {"negation", "conjunction", "disjunction"} => Second(f)[x] = Identity(n[2])
           /\ n[1] \in {"conjunction", "disjunction"} => Third(f)[x] = Identity(n[3])
    BY <1>1, GivenNode
  <2>2. /\ n \in Tree
        /\ n[1] \in {"negation", "conjunction", "disjunction"} => n[2] \in FormulaNodes(f)
        /\ n[1] \in {"conjunction", "disjunction"} => n[3] \in FormulaNodes(f)
    BY BuildableNode
  <2>3. \A k \in FormulaNodes(f) : k \in Tree /\ (Identity(k) \in TheoryOf(f)[m] <=> m \in Meaning(k))
    BY TheorySays, BuildableNode
  <2>4. OpOf(f)[x] \notin {"c", "contact"} => n[1] = OpOf(f)[x]
    BY <2>1
  <2>5. CASE OpOf(f)[x] = "constant_true"
    <3>1. n[1] = "constant_true" /\ n \in Leaf
      BY <2>2, <2>4, <2>5, UnaryIs, BinaryIs, Sides
    <3>2. Meaning(n) = Model
      BY <3>1, LeafParts, MeansOfLeaf
    <3> QED  BY <2>1, <2>3, <2>5, <3>2
  <2>6. CASE OpOf(f)[x] = "constant_false"
    <3>1. n[1] = "constant_false" /\ n \in Leaf
      BY <2>2, <2>4, <2>6, UnaryIs, BinaryIs, Sides
    <3>2. Meaning(n) = {}
      BY <3>1, LeafParts, MeansOfLeaf
    <3> QED  BY <2>1, <2>3, <2>6, <3>2
  <2>7. CASE OpOf(f)[x] = "negation"
    <3>1. n[1] = "negation"
      BY <2>4, <2>7
    <3>2. n[2] \in FormulaNodes(f) /\ n[2] \in Tree /\ n = Un("negation", n[2])
      BY <2>2, <3>1, UnaryIs, Sides
    <3>3. Meaning(n) = Model \ Meaning(n[2])
      BY <3>2, MeansOfUn
    <3>4. x \in TheoryOf(f)[m] <=> m \in Meaning(n)
      BY <2>1, <2>3
    <3>5. Second(f)[x] \in TheoryOf(f)[m] <=> m \in Meaning(n[2])
      BY <2>1, <2>3, <3>1, <3>2
    <3> QED  BY <2>7, <3>3, <3>4, <3>5
  <2>8. CASE OpOf(f)[x] \in {"conjunction", "disjunction"}
    <3>1. n[1] = OpOf(f)[x]
      BY <2>4, <2>8
    <3>2. /\ n[2] \in FormulaNodes(f) /\ n[3] \in FormulaNodes(f)
          /\ n[2] \in Tree /\ n[3] \in Tree /\ n = Bin(n[1], n[2], n[3])
      BY <2>2, <2>8, <3>1, BinaryIs, Sides
    <3>3. /\ n[1] = "conjunction" => Meaning(n) = Meaning(n[2]) \cap Meaning(n[3])
          /\ n[1] = "disjunction" => Meaning(n) = Meaning(n[2]) \cup Meaning(n[3])
      BY <3>2, MeansOfJunction
    <3>4. x \in TheoryOf(f)[m] <=> m \in Meaning(n)
      BY <2>1, <2>3
    <3>5. /\ Second(f)[x] \in TheoryOf(f)[m] <=> m \in Meaning(n[2])
          /\ Third(f)[x] \in TheoryOf(f)[m] <=> m \in Meaning(n[3])
      BY <2>1, <2>3, <2>8, <3>1, <3>2
    <3> QED  BY <2>8, <3>1, <3>3, <3>4, <3>5
  <2> QED  BY <2>5, <2>6, <2>7, <2>8
<1> QED  BY <1>1 DEF Given!SemanticsAssumption

\* Terms in contact have points.
LEMMA ContactHasPoints ==
  ASSUME NEW u, u \subseteq Point, NEW v, v \subseteq Point
  PROVE  InContact[u][v] \cap Empty[u] = {} /\ InContact[u][v] \cap Empty[v] = {}
<1>1. \A w \in SUBSET Point : InContact[w][Point] = Model \ Empty[w]
  BY StructureAssumption
<1>2. Point \in SUBSET Point /\ u \in SUBSET Point /\ v \in SUBSET Point
  OBVIOUS
<1>3. ASSUME NEW s, s \subseteq Point, NEW t, t \subseteq Point PROVE InContact[s][t] \cap Empty[s] = {}
  <2>1. Point = t \cup Point
    BY <1>3
  <2>2. InContact[s][Point] = InContact[s][t] \cup InContact[s][Point]
    <3>1. PICK p : p = Point
      OBVIOUS
    <3>2. PICK c : c = t \cup p
      OBVIOUS
    <3>3. p \subseteq Point /\ s \subseteq Point /\ t \subseteq Point
      BY <1>3, <3>1
    <3>4. InContact[s][c] = InContact[s][t] \cup InContact[s][p]
      BY ONLY <3>2, <3>3, ContactsOfUnion
    <3> QED  BY <2>1, <3>1, <3>2, <3>4
  <2>3. InContact[s][Point] = Model \ Empty[s]
    BY <1>1, <1>3
  <2> QED  BY <2>2, <2>3
<1>4. InContact[u][v] = InContact[v][u]
  BY <1>2, StructureAssumption
<1> QED  BY <1>3, <1>4

LEMMA GivenContactRule ==
  ASSUME NEW f, Buildable(f)
  PROVE  Given(f)!ContactRuleAssumption
<1>1. ASSUME NEW x \in FormulasOf(f), OpOf(f)[x] = "c",
             NEW z \in FormulasOf(f), OpOf(f)[z] = "eq_zero",
             LeftTermOf(f)[z] \in {LeftTermOf(f)[x], RightTermOf(f)[x]},
             NEW m \in Model, x \in TheoryOf(f)[m]
      PROVE  z \notin TheoryOf(f)[m]
  <2>1. PICK n \in FormulaNodes(f) :
           /\ x = Identity(n)
           /\ OpOf(f)[x] = IF n[1] = "contact" THEN "c" ELSE n[1]
           /\ n[1] = "contact" =>
                {LeftTermOf(f)[x], RightTermOf(f)[x]} = {Identity(n[2]), Identity(n[3])}
    BY GivenNode
  <2>2. PICK k \in FormulaNodes(f) :
           /\ z = Identity(k)
           /\ OpOf(f)[z] = IF k[1] = "contact" THEN "c" ELSE k[1]
           /\ k[1] = "eq_zero" => LeftTermOf(f)[z] = Identity(k[2])
    BY GivenNode
  <2>3. k[1] = "eq_zero"
    BY <1>1, <2>2
  <2>4. n[1] = "contact"
    <3>1. n[1] # "c"
      BY BuildableNode
    <3> QED  BY <1>1, <2>1, <3>1
  <2>5. /\ n \in Tree /\ n[2] \in Tree /\ n[3] \in Tree
        /\ k \in Tree /\ k[2] \in Tree
    BY <2>3, <2>4, BuildableNode
  <2>6. n = Bin("contact", n[2], n[3]) /\ k = Un("eq_zero", k[2])
    BY <2>3, <2>4, <2>5, BinaryIs, UnaryIs, Sides
  <2>7. Val(k[2]) = Val(n[2]) \/ Val(k[2]) = Val(n[3])
    <3>1. Identity(k[2]) = Identity(n[2]) \/ Identity(k[2]) = Identity(n[3])
      BY <1>1, <2>1, <2>2, <2>3, <2>4
    <3> QED  BY <2>5, <3>1, IdentityMeans
  <2>8. Meaning(n) = InContact[Val(n[2])][Val(n[3])]
    <3>1. Meaning(Bin("contact", n[2], n[3])) = InContact[Val(n[2])][Val(n[3])]
      BY <2>5, MeansOfAtomic
    <3> QED  BY <2>6, <3>1
  <2>9. Meaning(k) = Empty[Val(k[2])]
    BY <2>5, <2>6, MeansOfUn
  <2>10. Meaning(n) \cap Meaning(k) = {}
    <3>1. /\ InContact[Val(n[2])][Val(n[3])] \cap Empty[Val(n[2])] = {}
          /\ InContact[Val(n[2])][Val(n[3])] \cap Empty[Val(n[3])] = {}
      BY <2>5, MeansTyped, ContactHasPoints
    <3> QED  BY <2>7, <2>8, <2>9, <3>1
  <2>11. m \in Meaning(n)
    BY <1>1, <2>1, TheorySays
  <2> QED  BY <2>2, <2>10, <2>11, TheorySays
<1> QED  BY <1>1 DEF Given!ContactRuleAssumption

\* f is what module Formulas assumes of the formulas of a tableau, and what is
\* satisfiable there is so here.
IsGiven(f) ==
  /\ Given(f)!SyntaxAssumption
  /\ Given(f)!NonemptyAssumption
  /\ Given(f)!SemanticsAssumption
  /\ Given(f)!ContactRuleAssumption
  /\ Identity(f) \in FormulasOf(f)
  /\ \A m \in Model : Identity(f) \in TheoryOf(f)[m] <=> m \in Meaning(f)
  /\ Given(f)!IsSatisfiable(Identity(f)) <=> Meaning(f) # {}

LEMMA BuildableIsGiven ==
  ASSUME NEW f, Buildable(f)
  PROVE  IsGiven(f)
<1>1. f \in FormulaNodes(f)
  BY NodesBelow DEF Buildable, Proper, FormulaNodes
<1>2. Identity(f) \in FormulasOf(f)
  BY <1>1 DEF FormulasOf
<1>3. \A m \in Model : Identity(f) \in TheoryOf(f)[m] <=> m \in Meaning(f)
  BY <1>1, TheorySays
<1>4. Meaning(f) \subseteq Model
  BY MeansTyped DEF Buildable, Proper
<1>5. Given(f)!IsSatisfiable(Identity(f)) <=> Meaning(f) # {}
  BY <1>3, <1>4 DEF Given!IsSatisfiable
<1>6. Given(f)!NonemptyAssumption
  BY ModelAssumption DEF Given!NonemptyAssumption
<1> QED  BY <1>2, <1>3, <1>5, <1>6, GivenSyntax, GivenSemantics, GivenContactRule DEF IsGiven

(***************************************************************************)
(* What the manager hands to the tableau is what TableauProofs assumes of  *)
(* the formulas it is asked about (module Formulas): every node has the    *)
(* children of its operation, the connectives have their meaning, also     *)
(* when nodes that operator== does not tell apart are one                  *)
(* (formula.cpp:37-76), and terms in contact are not empty.  So its        *)
(* theorems hold of f_, and what they say is satisfiable has a structure   *)
(* in Meaning(f_): IsSatisfiable takes the tableau at its word.            *)
(***************************************************************************)
THEOREM TableauApplies == Spec => [](pc \in {"built", "solved"} => IsGiven(f_))
<1>1. ASSUME IInv, pc \in {"built", "solved"} PROVE Buildable(f_)
  BY <1>1 DEF IInv, Built, Kept, Obeys, Free, Gone, Buildable
<1>2. IInv => (pc \in {"built", "solved"} => IsGiven(f_))
  BY <1>1, BuildableIsGiven
<1> QED  BY <1>2, Invariant, PTL
-----------------------------------------------------------------------------
(* StructureAssumption is true of the structures of the logic.             *)

\* A model that a model class has built (module Points).
IsStructure(s) ==
  /\ s.points \subseteq Point /\ s.points # {}
  /\ s.contacts \subseteq s.points \X s.points
  /\ \A p \in s.points : <<p, p>> \in s.contacts
  /\ \A p, q \in s.points : <<p, q>> \in s.contacts => <<q, p>> \in s.contacts

EmptyIn(S) == [u \in SUBSET Point |-> {s \in S : s.points \cap u = {}}]
ContactIn(S) ==
  [u \in SUBSET Point |-> [v \in SUBSET Point |-> {s \in S : s.contacts \cap (u \X v) # {}}]]

Among(S, L) == INSTANCE Visitors WITH Model <- S, Empty <- EmptyIn(S), InContact <- ContactIn(S), LessEq <- L

(***************************************************************************)
(* Whatever structures a model class searches through, with distinct       *)
(* points, one at least, and a reflexive and symmetric contact             *)
(* (model.cpp:34-37, 56-75), and however measures are compared in them,    *)
(* the assumption that all theorems of this module rest on holds.          *)
(***************************************************************************)
THEOREM StructuresAreAsAssumed ==
  ASSUME NEW S, S # {}, \A s \in S : IsStructure(s),
         NEW L \in [SUBSET Point -> [SUBSET Point -> SUBSET S]]
  PROVE  Among(S, L)!ModelAssumption /\ Among(S, L)!StructureAssumption
<1>1. /\ EmptyIn(S) \in [SUBSET Point -> SUBSET S]
      /\ ContactIn(S) \in [SUBSET Point -> [SUBSET Point -> SUBSET S]]
  BY DEF EmptyIn, ContactIn
<1>2. \A u \in SUBSET Point, s \in S : s \in EmptyIn(S)[u] <=> s.points \cap u = {}
  BY DEF EmptyIn
<1>3. \A u, v \in SUBSET Point, s \in S :
        s \in ContactIn(S)[u][v] <=> \E p \in u, q \in v : <<p, q>> \in s.contacts
  <2>1. ASSUME NEW u \in SUBSET Point, NEW v \in SUBSET Point, NEW s \in S
        PROVE  s \in ContactIn(S)[u][v] <=> \E p \in u, q \in v : <<p, q>> \in s.contacts
    <3>1. s \in ContactIn(S)[u][v] <=> s.contacts \cap (u \X v) # {}
      BY DEF ContactIn
    <3>2. s.contacts \subseteq s.points \X s.points
      BY DEF IsStructure
    <3>3. s.contacts \cap (u \X v) # {} <=> \E p \in u, q \in v : <<p, q>> \in s.contacts
      <4>1. ASSUME s.contacts \cap (u \X v) # {}
            PROVE  \E p \in u, q \in v : <<p, q>> \in s.contacts
        <5>1. PICK c \in u \X v : c \in s.contacts
          BY <4>1
        <5>2. PICK p \in u, q \in v : c = <<p, q>>
          BY <5>1
        <5> QED  BY <5>1, <5>2
      <4>2. ASSUME NEW p \in u, NEW q \in v, <<p, q>> \in s.contacts
            PROVE  s.contacts \cap (u \X v) # {}
        <5>1. <<p, q>> \in u \X v
          OBVIOUS
        <5> QED  BY <4>2, <5>1
      <4> QED  BY <4>1, <4>2
    <3> QED  BY <3>1, <3>3
  <2> QED  BY <2>1
<1>4. \A s \in S : \A p, q : <<p, q>> \in s.contacts =>
        p \in s.points /\ q \in s.points /\ p \in Point /\ q \in Point /\ <<q, p>> \in s.contacts
  BY DEF IsStructure
<1>5. \A s \in S : s.points \subseteq Point /\ s.points # {} /\ \A p \in s.points : <<p, p>> \in s.contacts
  BY DEF IsStructure
<1>6. \A u, v \in SUBSET Point : EmptyIn(S)[u] \subseteq S /\ ContactIn(S)[u][v] \subseteq S
  BY <1>1
<1>7. {} \in SUBSET Point /\ Point \in SUBSET Point
  OBVIOUS
<1>8. EmptyIn(S)[{}] = S /\ EmptyIn(S)[Point] = {}
  <2>1. ASSUME NEW s \in S
        PROVE  s \in EmptyIn(S)[{}] /\ s \notin EmptyIn(S)[Point]
    <3>1. s.points \cap {} = {}
      OBVIOUS
    <3>2. s.points \cap Point # {}
      BY <1>5
    <3> QED  BY <1>2, <1>7, <3>1, <3>2
  <2> QED  BY <1>6, <1>7, <2>1
<1>9. ASSUME NEW u \in SUBSET Point
      PROVE  /\ ContactIn(S)[{}][u] = {}
             /\ ContactIn(S)[u][u] = S \ EmptyIn(S)[u]
             /\ ContactIn(S)[u][Point] = S \ EmptyIn(S)[u]
  <2>1. ASSUME NEW s \in S
        PROVE  /\ s \notin ContactIn(S)[{}][u]
               /\ s \in ContactIn(S)[u][u] <=> s \notin EmptyIn(S)[u]
               /\ s \in ContactIn(S)[u][Point] <=> s \notin EmptyIn(S)[u]
    <3>1. s \notin EmptyIn(S)[u] <=> \E p \in u : p \in s.points
      BY <1>2
    <3>2. s \notin ContactIn(S)[{}][u]
      BY <1>3, <1>7
    <3>3. s \in ContactIn(S)[u][u] <=> \E p \in u : p \in s.points
      BY <1>3, <1>4, <1>5
    <3>4. s \in ContactIn(S)[u][Point] <=> \E p \in u : p \in s.points
      <4>1. s \in ContactIn(S)[u][Point] <=> \E p \in u, q \in Point : <<p, q>> \in s.contacts
        BY <1>3, <1>7
      <4>2. ASSUME NEW p \in u, p \in s.points
            PROVE  \E q \in Point : <<p, q>> \in s.contacts
        <5>1. <<p, p>> \in s.contacts
          BY <1>5, <4>2
        <5> QED  BY <5>1
      <4>3. \A p \in u, q \in Point : <<p, q>> \in s.contacts => p \in s.points
        BY <1>4
      <4> QED  BY <4>1, <4>2, <4>3
    <3> QED  BY <3>1, <3>2, <3>3, <3>4
  <2> QED  BY <1>6, <1>7, <2>1
<1>10. ASSUME NEW u \in SUBSET Point, NEW v \in SUBSET Point
       PROVE  /\ EmptyIn(S)[u \cup v] = EmptyIn(S)[u] \cap EmptyIn(S)[v]
              /\ ContactIn(S)[u][v] = ContactIn(S)[v][u]
  <2>1. u \cup v \in SUBSET Point
    OBVIOUS
  <2>2. ASSUME NEW s \in S
        PROVE  /\ s \in EmptyIn(S)[u \cup v] <=> s \in EmptyIn(S)[u] /\ s \in EmptyIn(S)[v]
               /\ s \in ContactIn(S)[u][v] <=> s \in ContactIn(S)[v][u]
    <3>1. s \in EmptyIn(S)[u \cup v] <=> s.points \cap (u \cup v) = {}
      BY <1>2, <2>1
    <3>2. s \in EmptyIn(S)[u] /\ s \in EmptyIn(S)[v] <=> s.points \cap u = {} /\ s.points \cap v = {}
      BY <1>2
    <3>3. s \in ContactIn(S)[u][v] <=> s \in ContactIn(S)[v][u]
      BY <1>3, <1>4
    <3> QED  BY <3>1, <3>2, <3>3
  <2> QED  BY <1>6, <2>1, <2>2
<1>11. ASSUME NEW u \in SUBSET Point, NEW v \in SUBSET Point, NEW w \in SUBSET Point
       PROVE  ContactIn(S)[u \cup v][w] = ContactIn(S)[u][w] \cup ContactIn(S)[v][w]
  <2>1. u \cup v \in SUBSET Point
    OBVIOUS
  <2>2. ASSUME NEW s \in S
        PROVE  s \in ContactIn(S)[u \cup v][w] <=> s \in ContactIn(S)[u][w] \/ s \in ContactIn(S)[v][w]
    <3>1. s \in ContactIn(S)[u \cup v][w] <=> \E p \in u \cup v, q \in w : <<p, q>> \in s.contacts
      BY <1>3, <2>1
    <3> QED  BY <1>3, <3>1
  <2> QED  BY <1>6, <2>1, <2>2
<1>12. Among(S, L)!ModelAssumption
  BY DEF Among!ModelAssumption
<1>13. Among(S, L)!StructureAssumption
  <2> DEFINE P == Among(S, L)!Point
  <2>1. P = Point
    BY DEF Among!Point, Point
  <2> HIDE DEF P
  <2>2. EmptyIn(S) \in [SUBSET P -> SUBSET S]
    BY <1>1, <2>1
  <2>3. ContactIn(S) \in [SUBSET P -> [SUBSET P -> SUBSET S]]
    BY <1>1, <2>1
  <2>4. L \in [SUBSET P -> [SUBSET P -> SUBSET S]]
    BY <2>1
  <2>5. EmptyIn(S)[{}] = S /\ EmptyIn(S)[P] = {}
    BY <1>8, <2>1
  <2>6. \A u \in SUBSET P : ContactIn(S)[{}][u] = {} /\ ContactIn(S)[u][u] = S \ EmptyIn(S)[u]
    BY <1>9, <2>1
  <2>7. \A u \in SUBSET P : ContactIn(S)[u][P] = S \ EmptyIn(S)[u]
    BY <1>9, <2>1
  <2>8. \A u, v \in SUBSET P : EmptyIn(S)[u \cup v] = EmptyIn(S)[u] \cap EmptyIn(S)[v]
    <3>1. ASSUME NEW u \in SUBSET P, NEW v \in SUBSET P
          PROVE  EmptyIn(S)[u \cup v] = EmptyIn(S)[u] \cap EmptyIn(S)[v]
      <4>1. u \in SUBSET Point /\ v \in SUBSET Point
        BY <2>1
      <4> QED  BY <1>10, <4>1
    <3> QED  BY <3>1
  <2>9. \A u, v \in SUBSET P : ContactIn(S)[u][v] = ContactIn(S)[v][u]
    BY <1>10, <2>1
  <2>10. \A u, v, w \in SUBSET P :
           ContactIn(S)[u \cup v][w] = ContactIn(S)[u][w] \cup ContactIn(S)[v][w]
    <3> DEFINE Adds(x, y, z) ==
                 ContactIn(S)[x \cup y][z] = ContactIn(S)[x][z] \cup ContactIn(S)[y][z]
    <3>1. \A u, v, w \in SUBSET Point : Adds(u, v, w)
      BY <1>11, Zenon
    <3> HIDE DEF Adds
    <3>2. \A u, v, w \in SUBSET P : Adds(u, v, w)
      BY <2>1, <3>1
    <3> QED  BY <3>2, Zenon DEF Adds
  <2> QED
    BY <2>2, <2>3, <2>4, <2>5, <2>6, <2>7, <2>8, <2>9, <2>10, Zenon
    DEF Among!StructureAssumption, P
<1> QED  BY <1>12, <1>13
=============================================================================
