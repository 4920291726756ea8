--------------------------- MODULE MCEtsi004Link ---------------------------
(* Instances of Etsi004Link for TLC.                                       *)
EXTENDS Etsi004Link, TLC

CONSTANTS s1, s2

Symmetry == Permutations(KeyIds)

Same     == [k \in KeyIds |-> 3]

AtMaster == [s \in Ksids |-> "A"]
AtSlave  == [s \in Ksids |-> "B"]
AtBoth   == [s \in Ksids |-> IF s = s1 THEN "A" ELSE "B"]
=============================================================================
