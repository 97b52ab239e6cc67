-------------------------- MODULE MCListStorePower --------------------------
(* Small instances of ListStorePower. *)
EXTENDS ListStorePower

CONSTANTS a, b, k1, k2, c1, c2

OneBase == {[i \in IDs |-> IF i = a THEN k1 ELSE None]}

=============================================================================
