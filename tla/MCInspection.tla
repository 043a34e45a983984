--------------------------- MODULE MCInspection ---------------------------
(* A program for TLC: m1 is an instance method with two variables of one name,
   the first of which leaves its slot to a third; m2 is a static method whose
   argument is where `this` would be. *)
EXTENDS Inspection, TLC

CONSTANTS m1, m2

Program == {m1, m2}

Var(n, s, k, a, b) == [name |-> n, slot |-> s, kind |-> k, from |-> a, to |-> b]

LocalVariables ==
  [m \in Program |->
     IF m = m1 THEN <<Var("this", 0, "object", 0, 1), Var("i", 1, "int", 0, 0),
                      Var("i", 2, "int", 1, 1), Var("j", 1, "int", 1, 1)>>
     ELSE <<Var("j", 0, "object", 0, 1), Var("i", 1, "int", 0, 0)>>]

Last == [m \in Program |-> IF m = m1 THEN 1 ELSE 0]

Result == [m \in Program |-> IF m = m1 THEN "String" ELSE "void"]

Symmetry == Permutations(Threads) \cup Permutations(ThreadNames)
===========================================================================
