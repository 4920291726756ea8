--------------------------- MODULE ChunkedStream ---------------------------
(***************************************************************************)
(* What an ETSI 004 key stream promises its user: the key material is one  *)
(* tape, chunk number i is its i-th piece of Chunk units, and the chunks   *)
(* are given out in the order of their numbers, each one once, complete.   *)
(***************************************************************************)
EXTENDS Naturals, Sequences

CONSTANTS Unit, Chunk

VARIABLES
  tape,    \* the units of the stream so far
  given    \* the chunks given out, with their numbers

Init == tape = <<>> /\ given = <<>>

Extend ==
  /\ \E n \in 1 .. Len(tape') : SubSeq(tape', 1, Len(tape') - n) = tape
  /\ tape' \in Seq(Unit)
  /\ UNCHANGED given

Take ==
  LET i == Len(given)
  IN /\ (i + 1) * Chunk <= Len(tape)
     /\ given' = Append(given, [index |-> i, key |-> SubSeq(tape, i * Chunk + 1, (i + 1) * Chunk)])
     /\ UNCHANGED tape

Next == Extend \/ Take

Spec == Init /\ [][Next]_<<tape, given>>
=============================================================================
