--------------------------- MODULE SampleFormulas ---------------------------
(***************************************************************************)
(* Formulas over the Boolean variables a and b to check a prover on, and   *)
(* the structures they really have: a set of points, each the set of       *)
(* variables true in it, with a reflexive and symmetric contact relation   *)
(* and a positive measure.                                                 *)
(*                                                                         *)
(* An MC module extends this one before the specification it instantiates: *)
(* TLC then has the values of these definitions when it comes to those of  *)
(* the specification.                                                      *)
(***************************************************************************)
EXTENDS Formulas, Naturals, FiniteSets, TLC

MCTrue == <<"constant_true">>
MCFalse == <<"constant_false">>
MCContact == <<"c", "a", "b">>
MCSelfContact == <<"c", "a", "a">>
MCZeroA == <<"eq_zero", "a">>
MCZeroB == <<"eq_zero", "b">>
MCMeasured == <<"measured_less_eq", "a", "b">>

\* The atomic formulas and constants of the shallow roots, and of the deep ones.
Leaves == {MCTrue, MCFalse, MCContact, MCSelfContact, MCZeroA, MCZeroB, MCMeasured}
Core == {MCContact, MCZeroA, MCMeasured}

Not(f) == <<"negation", f>>
And(f, g) == <<"conjunction", f, g>>
Or(f, g) == <<"disjunction", f, g>>

\* Conjunctions and disjunctions of two literals, of two clauses without
\* constants, and the negations that bring these under the F rules.
Roots ==
  LET Literals == Leaves \cup {Not(f) : f \in Leaves}
      Clauses == {And(f, g) : f, g \in Literals} \cup {Or(f, g) : f, g \in Literals}
      Small == {And(f, g) : f, g \in Core} \cup {Or(f, g) : f, g \in Core}
      Deep == {Or(f, Not(g)) : f, g \in Small} \cup {And(f, Or(g, f)) : f, g \in Small}
      Positive == Literals \cup Clauses \cup Deep
  IN Positive \cup {Not(f) : f \in Positive}

\* S with the child formulas of its members.
WithChildren(S) ==
  S \cup {f[2] : f \in {g \in S : g[1] \in FormulaOperations}}
    \cup {f[3] : f \in {g \in S : g[1] \in {"conjunction", "disjunction"}}}

\* Roots are at most five levels deep.
MCLevel1 == WithChildren(Roots)
MCLevel2 == WithChildren(MCLevel1)
MCLevel3 == WithChildren(MCLevel2)
Subformulas == WithChildren(MCLevel3)

TheOp == [f \in Subformulas |-> f[1]]
TheLeft == [f \in {g \in Subformulas : g[1] \in FormulaOperations} |-> f[2]]
TheRight == [f \in {g \in Subformulas : g[1] \in {"conjunction", "disjunction"}} |-> f[3]]
TheLeftTerm == [f \in {g \in Subformulas : g[1] \in Atomics} |-> f[2]]
TheRightTerm == [f \in {g \in Subformulas : g[1] \in {"c", "measured_less_eq"}} |-> f[3]]

\* The atomic formulas that hold over points P with contacts R, measure w.
Truths(P, R, w) ==
  LET ext(v) == {p \in P : v \in p}
      measure(v) == LET m[S \in SUBSET P] ==
                          IF S = {} THEN 0
                          ELSE LET p == CHOOSE p \in S : TRUE
                               IN w[p] + m[S \ {p}]
                    IN m[ext(v)]
      touch(u, v) == \E p \in ext(u), q \in ext(v) : p = q \/ {p, q} \in R
  IN {f \in Leaves :
        CASE f[1] = "c" -> touch(f[2], f[3])
          [] f[1] = "eq_zero" -> ext(f[2]) = {}
          [] f[1] = "measured_less_eq" -> measure(f[2]) <= measure(f[3])
          [] OTHER -> f = MCTrue}

Structures ==
  LET Points == SUBSET {"a", "b"}
      Pairs(P) == {S \in SUBSET P : Cardinality(S) = 2}
  IN UNION {UNION {{Truths(P, R, w) : w \in [P -> 1..2]} : R \in SUBSET Pairs(P)}
              : P \in (SUBSET Points) \ {{}}}

TheTheory ==
  [M \in Structures |->
    LET holds[f \in Subformulas] ==
          CASE f[1] = "negation" -> ~holds[f[2]]
            [] f[1] = "conjunction" -> holds[f[2]] /\ holds[f[3]]
            [] f[1] = "disjunction" -> holds[f[2]] \/ holds[f[3]]
            [] OTHER -> f \in M
    IN {f \in Subformulas : holds[f]}]
=============================================================================
