--------------------------- MODULE MCStreamBuffer ---------------------------
(* Instances of StreamBuffer for TLC.                                      *)
EXTENDS StreamBuffer

(* Keys shorter than, as long as, and longer than a chunk of 3 units.      *)
Lengths == [k \in KeyIds |-> CASE k = 1 -> 1 [] k = 2 -> 2 [] k = 3 -> 3 [] k = 4 -> 5 [] OTHER -> 7]
=============================================================================
