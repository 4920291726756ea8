------------------------------ MODULE MCApp014 ------------------------------
(* Instances of App014 for TLC.                                            *)
EXTENDS App014

(* Encryption keys only, with every fault; and both kinds of keys.         *)
OneKind   == {[cipher |-> "AES", auth |-> FALSE, udp |-> b, slow |-> b] : b \in BOOLEAN}
OneTime   == {[cipher |-> "OTP", auth |-> FALSE, udp |-> FALSE, slow |-> TRUE]}
BothKinds == {[cipher |-> "AES", auth |-> TRUE, udp |-> FALSE, slow |-> TRUE]}

Faulted == OneKind \cup OneTime
Tried   == Faulted \cup BothKinds
=============================================================================
