------------------------------ MODULE MCScope ------------------------------
(* A few names on tables so small that they move three times.                 *)
EXTENDS Scope, TLC

CONSTANTS n1, n2, n3, n4
MCNames == {n1, n2, n3, n4}
\* No base object, and one with a variable.
MCBases == {Nothing, One(n1, 1)}
MCHashSizes == <<2, 3>>
MCSymmetry == Permutations({n2, n3, n4})
=============================================================================
