------------------------------ MODULE MCApp004 ------------------------------
(* Instances of App004 for TLC.                                            *)
EXTENDS App004
=============================================================================
