------------------------------ MODULE Objects ------------------------------
(* Objects of the JSON library as functions from names to values.             *)

Nothing == [n \in {} |-> n]
One(n, v) == [x \in {n} |-> v]
\* The object g, with the items of f in place of its own.
Over(f, g) == [n \in DOMAIN f \cup DOMAIN g |-> IF n \in DOMAIN f THEN f[n] ELSE g[n]]
=============================================================================
