----------------------------- MODULE MCSBuffer -----------------------------
(* Instances of SBuffer for TLC.  Keys and supply keys are model values and*)
(* interchangeable.                                                        *)
EXTENDS SBuffer, TLC

Symmetry == Permutations(KeyIds) \cup Permutations(SupplyIds)
=============================================================================
