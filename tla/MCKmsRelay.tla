----------------------------- MODULE MCKmsRelay -----------------------------
(* Instances of KmsRelay for TLC: a path with one repeater.                *)
EXTENDS KmsRelay

Source == {0}
=============================================================================
