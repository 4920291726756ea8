--------------------------- MODULE MCEtsi004Relay ---------------------------
(* Instances of Etsi004Relay for TLC: a path with one repeater.            *)
EXTENDS Etsi004Relay, TLC

CONSTANT s1

Symmetry == Permutations(KeyIds)

Same   == [k \in KeyIds |-> 3]

Alice  == [s \in Ksids |-> 0]
Source == {0}

(* LOCAL FILLs of the masters of the two links.                             *)
FillOnce == [l \in Link |-> IF l[2] = l[1] + 1 THEN 1 ELSE 0]
=============================================================================
