----------------------------- MODULE MCKmsLink -----------------------------
(* Instances of KmsLink for TLC.                                           *)
EXTENDS KmsLink, TLC

Symmetry == Permutations(KeyIds) \cup Permutations(SupplyIds)

Mixed    == {[number |-> 1, size |-> 3], [number |-> 2, size |-> 1]}
=============================================================================
