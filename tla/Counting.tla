------------------------------- MODULE Counting -------------------------------
(* How often something stands in a function, a sequence, or several of them.  *)
EXTENDS Naturals, FiniteSets

One(b) == IF b THEN 1 ELSE 0

Places(f, e) == {x \in DOMAIN f : f[x] = e}
Occ(f, e) == Cardinality(Places(f, e))

\* The size of the disjoint union of the sets that a function gives.
Tally(X) == Cardinality(UNION {{i} \X X[i] : i \in DOMAIN X})
=============================================================================
