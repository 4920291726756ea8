------------------------- MODULE StreamProofs -------------------------
(***************************************************************************)
(* Proofs about the streams of ETSI 004, for any keys, lengths and chunk   *)
(* size.                                                                   *)
(*                                                                         *)
(* The first part is about one buffer (StreamBuffer): it holds, and gives  *)
(* out, the pieces of one tape, and its account is what the tape still has.*)
(* A buffer that has given out g chunks of a tape of n units holds the     *)
(* units g * Chunk + 1 .. n, which is what the assertion of LogUpdate      *)
(* counts.                                                                 *)
(*                                                                         *)
(* The second part is about the two buffers of a session (Etsi004Link):    *)
(* every end of a session has a tape, and the tape of the master is a      *)
(* beginning of the tape of the slave: what is missing there is in the     *)
(* answers on the way, in their order. So the chunks of one index agree    *)
(* (IndexAgreeHolds).                                                      *)
(***************************************************************************)
EXTENDS StreamBuffer, Etsi004Link, Integers, FiniteSetTheorems, WellFoundedInduction, TLAPS

-----------------------------------------------------------------------------
(* Arithmetic of a product and of a quotient.                              *)

(* Where the quotient lies.                                                *)
LEMMA Quotient ==
  ASSUME NEW c \in Nat \ {0}, NEW n \in Nat
  PROVE  /\ n \div c \in Nat /\ (n \div c) * c \in Nat
         /\ (n \div c) * c <= n /\ n < (n \div c) * c + c
  OBVIOUS

(* Multiples of c are c apart.                                             *)
LEMMA Multiples ==
  ASSUME NEW c \in Nat \ {0}, NEW i \in Int, NEW j \in Int
  PROVE  /\ i * c \in Int /\ (i + 1) * c = i * c + c /\ (i - 1) * c = i * c - c
         /\ i <= j => i * c <= j * c
         /\ i < j => i * c + c <= j * c
<1>1. i * c \in Int /\ (i + 1) * c = i * c + c /\ (i - 1) * c = i * c - c
  OBVIOUS
<1>2. ASSUME NEW d \in Nat
      PROVE  d * c \in Nat /\ (i + d) * c = i * c + d * c
  <2>1. d * c \in Nat
    OBVIOUS
  <2>2. (i + d) * c = i * c + d * c
    OBVIOUS
  <2> QED BY <2>1, <2>2
<1>3. i <= j => i * c <= j * c
  <2>1. SUFFICES ASSUME i <= j PROVE i * c <= j * c
    OBVIOUS
  <2>2. j - i \in Nat /\ i + (j - i) = j
    BY <2>1
  <2>3. j * c = i * c + (j - i) * c /\ (j - i) * c \in Nat
    BY <1>2, <2>2
  <2> QED BY <2>3
<1>4. i < j => i * c + c <= j * c
  <2>1. SUFFICES ASSUME i < j PROVE i * c + c <= j * c
    OBVIOUS
  <2>2. j - i - 1 \in Nat /\ i + ((j - i - 1) + 1) = j /\ (j - i - 1) + 1 \in Nat
    BY <2>1
  <2>3. j * c = i * c + ((j - i - 1) + 1) * c /\ (j - i - 1) * c \in Nat
    BY <1>2, <2>2
  <2>4. ((j - i - 1) + 1) * c = (j - i - 1) * c + c
    BY <2>2
  <2> QED BY <2>3, <2>4
<1> QED BY <1>1, <1>3, <1>4

(* Where piece i of a tape begins.                                         *)
At(i) == i * Chunk

(* Where chunks begin: later chunks begin at least a chunk later.          *)
LEMMA AtOrder ==
  ASSUME NEW i \in Int, NEW j \in Int
  PROVE  /\ At(i) \in Int /\ At(j) \in Int
         /\ i <= j => At(i) <= At(j)
         /\ i < j => At(i) + Chunk <= At(j)
  BY StreamAssumption, Multiples DEF At

(* Where a chunk and its neighbours begin.                                 *)
LEMMA AtNext ==
  ASSUME NEW i \in Int
  PROVE  /\ At(i) \in Int /\ At(0) = 0
         /\ At(i + 1) = At(i) + Chunk /\ At(i - 1) = At(i) - Chunk
<1>1. Chunk \in Nat \ {0} /\ 0 * Chunk = 0
  BY StreamAssumption
<1> QED BY <1>1, Multiples DEF At

(* A chunk begins at a unit of the tape.                                   *)
LEMMA AtNat ==
  ASSUME NEW i \in Nat
  PROVE  At(i) \in Nat
  BY StreamAssumption DEF At

(* The piece a unit is in.                                                 *)
LEMMA PieceOf ==
  ASSUME NEW n \in Nat
  PROVE  /\ n \div Chunk \in Nat
         /\ At(n \div Chunk) <= n /\ n < At(n \div Chunk) + Chunk
<1>1. Chunk \in Nat \ {0}
  BY StreamAssumption
<1> QED BY <1>1, Quotient DEF At

(* The pieces of n units: the last one ends at or behind the last unit, and*)
(* begins in front of it; and there is one such number of pieces only.     *)
LEMMA Pieces ==
  ASSUME NEW n \in Nat
  PROVE  /\ PieceCount(n) \in Nat
         /\ n <= At(PieceCount(n)) /\ At(PieceCount(n) - 1) < n
<1>1. Chunk \in Nat \ {0} /\ n + Chunk - 1 \in Nat
  BY StreamAssumption
<1>2. /\ PieceCount(n) \in Nat
      /\ At(PieceCount(n)) <= n + Chunk - 1 /\ n + Chunk - 1 < At(PieceCount(n)) + Chunk
  BY <1>1, PieceOf DEF PieceCount
<1>3. At(PieceCount(n) - 1) = At(PieceCount(n)) - Chunk /\ At(PieceCount(n)) \in Int
  BY <1>2, AtNext
<1> QED BY <1>1, <1>2, <1>3

(* The chunks it takes to hold n units: the only such count.               *)
LEMMA PiecesUnique ==
  ASSUME NEW n \in Nat, NEW q \in Int, n <= At(q), At(q - 1) < n
  PROVE  PieceCount(n) = q
<1> DEFINE p == PieceCount(n)
<1>1. p \in Nat /\ n <= At(p) /\ At(p - 1) < n /\ Chunk \in Nat \ {0}
  BY Pieces, StreamAssumption
<1> HIDE DEF p
<1>2. ~(p < q)
  <2>1. SUFFICES ASSUME p < q PROVE FALSE
    OBVIOUS
  <2>2. At(p) <= At(q - 1) /\ At(p) \in Int /\ At(q - 1) \in Int
    BY <1>1, <2>1, AtOrder
  <2> QED BY <1>1, <2>2
<1>3. ~(q < p)
  <2>1. SUFFICES ASSUME q < p PROVE FALSE
    OBVIOUS
  <2>2. At(q) <= At(p - 1) /\ At(q) \in Int /\ At(p - 1) \in Int
    BY <1>1, <2>1, AtOrder
  <2> QED BY <1>1, <2>2
<1>4. p = q
  BY <1>1, <1>2, <1>3
<1> QED BY <1>4 DEF p

-----------------------------------------------------------------------------
(* Pieces of a tape                                                        *)

(* The units of the tape.                                                  *)
Unit == KeyIds \X Nat

(* Where piece i of the tape begins and ends.                              *)
LEMMA PieceIs ==
  ASSUME NEW text \in Seq(Unit), NEW i \in Nat, i < PieceCount(Len(text))
  PROVE  /\ PieceAt(text, i) \in Seq(Unit) /\ At(i) \in Nat /\ At(i) < Len(text)
         /\ Len(PieceAt(text, i)) = IF At(i) + Chunk < Len(text) THEN Chunk
                                    ELSE Len(text) - At(i)
         /\ \A j \in 1 .. Len(PieceAt(text, i)) : PieceAt(text, i)[j] = text[At(i) + j]
<1>1. Chunk \in Nat \ {0} /\ Len(text) \in Nat /\ PieceCount(Len(text)) \in Nat
  BY StreamAssumption, Pieces
<1>2. At(i) \in Nat /\ At(i + 1) = At(i) + Chunk
  BY AtNat, AtNext
<1>3. /\ At(i) <= At(PieceCount(Len(text)) - 1) /\ At(PieceCount(Len(text)) - 1) \in Int
      /\ At(PieceCount(Len(text)) - 1) < Len(text)
  <2>1. PieceCount(Len(text)) - 1 \in Int /\ i <= PieceCount(Len(text)) - 1
    BY <1>1
  <2>2. At(PieceCount(Len(text)) - 1) < Len(text)
    BY <1>1, Pieces
  <2> QED BY <2>1, <2>2, AtOrder
<1>4. At(i) \in Nat /\ At(i) < Len(text)
  BY <1>1, <1>2, <1>3
<1>5. PICK e : /\ e = IF At(i) + Chunk < Len(text) THEN At(i) + Chunk ELSE Len(text)
               /\ PieceAt(text, i) = SubSeq(text, At(i) + 1, e)
  BY <1>2 DEF PieceAt, At
<1>6. e \in Nat /\ At(i) < e /\ e <= Len(text)
  BY <1>1, <1>4, <1>5
<1>7. /\ PieceAt(text, i) \in Seq(Unit) /\ Len(PieceAt(text, i)) = e - At(i)
      /\ \A j \in 1 .. e - At(i) : PieceAt(text, i)[j] = text[At(i) + j]
  BY <1>4, <1>5, <1>6, SMTT(30)
<1>8. e - At(i) = IF At(i) + Chunk < Len(text) THEN Chunk ELSE Len(text) - At(i)
  BY <1>1, <1>4, <1>5
<1> QED BY <1>4, <1>7, <1>8

(* Two pieces are the same when they have the same units.                  *)
LEMMA SamePiece ==
  ASSUME NEW s \in Seq(Unit), NEW t \in Seq(Unit), Len(s) = Len(t),
         \A j \in 1 .. Len(s) : s[j] = t[j]
  PROVE  s = t
  OBVIOUS

(* The end of one tape and the beginning of another.                       *)
LEMMA ConcatIs ==
  ASSUME NEW s \in Seq(Unit), NEW t \in Seq(Unit)
  PROVE  s \o t \in Seq(Unit) /\ Len(s \o t) = Len(s) + Len(t)
  OBVIOUS

(* The chunks of a buffer that has given out g pieces of the tape.         *)
Holds(c, text, g) ==
  /\ DOMAIN c = g .. PieceCount(Len(text)) - 1
  /\ \A i \in DOMAIN c : c[i] = PieceAt(text, i)

(* What they count: every unit of the tape behind the first g pieces is in *)
(* one chunk at one place.                                                 *)
LEMMA AmountIs ==
  ASSUME NEW text \in Seq(Unit), NEW g \in Nat, At(g) <= Len(text),
         NEW c, Holds(c.chunks, text, g)
  PROVE  StreamAmount(c) = Len(text) - At(g)
<1> DEFINE n == Len(text)
           S == At(g) + 1 .. n
           Place(p) == <<(p - 1) \div Chunk, (p - 1) - At((p - 1) \div Chunk) + 1>>
           f == [p \in S |-> Place(p)]
<1>1. Chunk \in Nat \ {0} /\ n \in Nat /\ At(g) \in Nat /\ PieceCount(n) \in Nat
  BY StreamAssumption, AtNat, Pieces
<1>2. ASSUME NEW i \in Nat, NEW j
      PROVE  <<i, j>> \in ChunkUnits(c) <=> g <= i /\ j \in 1 .. Chunk /\ At(i) + j <= n
  <2>1. <<i, j>> \in ChunkUnits(c) <=> i \in DOMAIN c.chunks /\ j \in DOMAIN c.chunks[i]
    BY DEF ChunkUnits, Indexes
  <2>2. DOMAIN c.chunks = g .. PieceCount(n) - 1
    BY DEF Holds
  <2>3. i \in DOMAIN c.chunks <=> g <= i /\ i < PieceCount(n)
    BY <1>1, <2>2
  <2>4. CASE i < PieceCount(n)
    <3>1. /\ PieceAt(text, i) \in Seq(Unit) /\ At(i) \in Nat /\ At(i) < n
          /\ Len(PieceAt(text, i)) = IF At(i) + Chunk < n THEN Chunk ELSE n - At(i)
      BY <2>4, PieceIs
    <3>2. g <= i => c.chunks[i] = PieceAt(text, i)
      BY <2>3, <2>4 DEF Holds
    <3>3. g <= i => (j \in DOMAIN c.chunks[i] <=> j \in 1 .. Len(PieceAt(text, i)))
      BY <3>1, <3>2
    <3>4. j \in 1 .. Len(PieceAt(text, i)) <=> j \in 1 .. Chunk /\ At(i) + j <= n
      BY <1>1, <3>1
    <3> QED BY <2>1, <2>3, <2>4, <3>3, <3>4
  <2>5. CASE ~(i < PieceCount(n))
    <3>1. At(i) \in Int /\ At(PieceCount(n)) <= At(i) /\ At(PieceCount(n)) \in Int
      BY <1>1, <2>5, AtOrder
    <3>2. n <= At(PieceCount(n))
      BY <1>1, Pieces
    <3>3. ~(j \in 1 .. Chunk /\ At(i) + j <= n)
      BY <1>1, <3>1, <3>2
    <3> QED BY <2>1, <2>3, <2>5, <3>3
  <2> QED BY <2>4, <2>5
<1>3. ASSUME NEW u \in ChunkUnits(c)
      PROVE  u[1] \in Nat /\ u = <<u[1], u[2]>> /\ g <= u[1] /\ u[2] \in 1 .. Chunk
             /\ At(u[1]) + u[2] <= n
  <2>1. PICK i \in DOMAIN c.chunks : u \in {i} \X DOMAIN c.chunks[i]
    BY DEF ChunkUnits, Indexes
  <2>2. u = <<i, u[2]>> /\ u[1] = i
    BY <2>1
  <2>3. DOMAIN c.chunks = g .. PieceCount(n) - 1
    BY DEF Holds
  <2>4. i \in Nat
    BY <1>1, <2>1, <2>3
  <2> QED BY <1>2, <2>2, <2>4
<1>4. ASSUME NEW p \in S
      PROVE  Place(p) \in ChunkUnits(c) /\ At(Place(p)[1]) + Place(p)[2] = p
  <2>1. p \in Nat /\ p - 1 \in Nat /\ At(g) <= p - 1 /\ p <= n
    BY <1>1
  <2>2. PICK q \in Nat : /\ q = (p - 1) \div Chunk
                         /\ At(q) <= p - 1 /\ p - 1 < At(q) + Chunk
    BY <2>1, PieceOf
  <2>3. Place(p) = <<q, (p - 1) - At(q) + 1>>
    BY <2>2
  <2>4. At(q) \in Int /\ ~(q < g)
    <3>1. At(q) \in Int /\ (q < g => At(q) + Chunk <= At(g))
      BY AtOrder, SMTT(30)
    <3> QED BY <1>1, <2>1, <2>2, <3>1
  <2>5. (p - 1) - At(q) + 1 \in 1 .. Chunk /\ At(q) + ((p - 1) - At(q) + 1) = p
    <3>1. p \in Nat /\ At(q) \in Int /\ Chunk \in Nat /\ At(q) <= p - 1 /\ p - 1 < At(q) + Chunk
      BY <1>1, <2>1, <2>2, <2>4
    <3> QED BY <3>1
  <2>6. <<q, (p - 1) - At(q) + 1>> \in ChunkUnits(c)
    BY <1>2, <2>1, <2>4, <2>5
  <2> QED BY <2>3, <2>5, <2>6
<1>5. ASSUME NEW u \in ChunkUnits(c)
      PROVE  At(u[1]) + u[2] \in S /\ Place(At(u[1]) + u[2]) = u
  <2>1. PICK i, j : i = u[1] /\ j = u[2] /\ u = <<i, j>> /\ i \in Nat /\ g <= i
                    /\ j \in 1 .. Chunk /\ At(i) + j <= n
    BY <1>3
  <2>2. i \in Int /\ g <= i
    BY <2>1
  <2>2a. At(i) \in Int /\ At(g) <= At(i)
    BY <2>2, AtOrder
  <2>3. At(i) + j \in S /\ (At(i) + j) - 1 \in Nat
    BY <1>1, <2>1, <2>2a, SMTT(30)
  <2>4. PICK q \in Nat : /\ q = ((At(i) + j) - 1) \div Chunk
                         /\ At(q) <= (At(i) + j) - 1 /\ (At(i) + j) - 1 < At(q) + Chunk
    BY <2>3, PieceOf
  <2>5. /\ At(q) \in Int
        /\ q < i => At(q) + Chunk <= At(i)
        /\ i < q => At(i) + Chunk <= At(q)
    BY <2>2, AtOrder
  <2>6. q = i
    <3>1. /\ i \in Int /\ j \in 1 .. Chunk /\ Chunk \in Nat /\ At(i) \in Int
          /\ At(q) <= (At(i) + j) - 1 /\ (At(i) + j) - 1 < At(q) + Chunk
      BY <1>1, <2>1, <2>2a, <2>4
    <3> QED BY <2>5, <3>1
  <2>7. Place(At(i) + j) = <<i, j>>
    <3>1. Place(At(i) + j) = <<q, ((At(i) + j) - 1) - At(q) + 1>>
      BY <2>4
    <3>2. ((At(i) + j) - 1) - At(q) + 1 = j
      BY <2>1, <2>2a, <2>6
    <3> QED BY <2>6, <3>1, <3>2
  <2> QED BY <2>1, <2>3, <2>7
<1> HIDE DEF Place
<1>6. f \in [S -> ChunkUnits(c)]
  BY <1>4
<1>7. \A p, q \in S : f[p] = f[q] => p = q
  BY <1>4
<1>8. \A u \in ChunkUnits(c) : \E p \in S : f[p] = u
  BY <1>5
<1>9. IsFiniteSet(S) /\ Cardinality(S) = n - At(g)
  <2>1. At(g) + 1 \in Int /\ n \in Int /\ At(g) <= n
    BY <1>1
  <2>2. IsFiniteSet(S) /\ Cardinality(S) = IF At(g) + 1 > n THEN 0 ELSE n - (At(g) + 1) + 1
    BY <2>1, FS_Interval
  <2> QED BY <1>1, <2>1, <2>2
<1> HIDE DEF f, S
<1>10. f \in Bijection(S, ChunkUnits(c))
  BY <1>6, <1>7, <1>8 DEF Bijection, Injection, Surjection, IsInjective
<1>11. ExistsBijection(S, ChunkUnits(c))
  BY <1>10 DEF ExistsBijection
<1> QED BY <1>9, <1>11, FS_Bijection DEF StreamAmount

(* A piece begins in front of the end of the tape.                         *)
LEMMA PieceAhead ==
  ASSUME NEW n \in Nat, NEW i \in Int
  PROVE  i < PieceCount(n) <=> At(i) < n
<1>1. PieceCount(n) \in Nat /\ n <= At(PieceCount(n)) /\ At(PieceCount(n) - 1) < n
  BY Pieces
<1>2. At(i) \in Int /\ At(PieceCount(n)) \in Int /\ (PieceCount(n) <= i => At(PieceCount(n)) <= At(i))
  BY <1>1, AtOrder
<1>3. PieceCount(n) - 1 \in Int /\ (i < PieceCount(n) => i <= PieceCount(n) - 1)
  BY <1>1
<1>4. At(PieceCount(n) - 1) \in Int /\ (i < PieceCount(n) => At(i) <= At(PieceCount(n) - 1))
  BY <1>3, AtOrder
<1> QED BY <1>1, <1>2, <1>4

(* What is appended to a tape leaves its whole pieces alone.               *)
LEMMA PieceKept ==
  ASSUME NEW text \in Seq(Unit), NEW more \in Seq(Unit), NEW i \in Nat,
         At(i) + Chunk <= Len(text)
  PROVE  PieceAt(text \o more, i) = PieceAt(text, i) /\ Len(PieceAt(text, i)) = Chunk
<1> DEFINE new == text \o more
<1>1. Chunk \in Nat \ {0} /\ At(i) \in Nat /\ Len(text) \in Nat
  BY StreamAssumption, AtNat
<1>2. new \in Seq(Unit) /\ Len(new) \in Nat /\ Len(text) <= Len(new)
      /\ \A j \in 1 .. Len(text) : new[j] = text[j]
  OBVIOUS
<1> HIDE DEF new
<1>3. i < PieceCount(Len(text)) /\ i < PieceCount(Len(new))
  BY <1>1, <1>2, PieceAhead
<1>4. /\ PieceAt(text, i) \in Seq(Unit) /\ Len(PieceAt(text, i)) = Chunk
      /\ \A j \in 1 .. Chunk : PieceAt(text, i)[j] = text[At(i) + j]
  <2>1. Len(PieceAt(text, i)) = IF At(i) + Chunk < Len(text) THEN Chunk ELSE Len(text) - At(i)
    BY <1>3, PieceIs
  <2>2. Len(PieceAt(text, i)) = Chunk
    BY <1>1, <2>1
  <2> QED BY <1>3, <2>2, PieceIs
<1>5. /\ PieceAt(new, i) \in Seq(Unit) /\ Len(PieceAt(new, i)) = Chunk
      /\ \A j \in 1 .. Chunk : PieceAt(new, i)[j] = new[At(i) + j]
  <2>1. Len(PieceAt(new, i)) = IF At(i) + Chunk < Len(new) THEN Chunk ELSE Len(new) - At(i)
    BY <1>2, <1>3, PieceIs
  <2>2. Len(PieceAt(new, i)) = Chunk
    BY <1>1, <1>2, <2>1
  <2> QED BY <1>2, <1>3, <2>2, PieceIs
<1>6. \A j \in 1 .. Chunk : At(i) + j \in 1 .. Len(text)
  BY <1>1
<1>7. PieceAt(new, i) = PieceAt(text, i)
  BY <1>2, <1>4, <1>5, <1>6, SamePiece
<1> QED BY <1>4, <1>7 DEF new

(* The pieces of the tape from its s-th one on.                            *)
LEMMA TailPieces ==
  ASSUME NEW text \in Seq(Unit), NEW s \in Nat, At(s) <= Len(text),
         NEW rest \in Seq(Unit), Len(rest) = Len(text) - At(s),
         \A j \in 1 .. Len(rest) : rest[j] = text[At(s) + j]
  PROVE  /\ PieceCount(Len(rest)) = PieceCount(Len(text)) - s
         /\ \A i \in Nat : s <= i /\ i < PieceCount(Len(text)) =>
              PieceAt(rest, i - s) = PieceAt(text, i)
<1>1. Chunk \in Nat \ {0} /\ At(s) \in Nat /\ Len(text) \in Nat /\ Len(rest) \in Nat
  BY StreamAssumption, AtNat
<1>2. ASSUME NEW i \in Int
      PROVE  At(i - s) = At(i) - At(s)
  BY StreamAssumption DEF At
<1>3. PieceCount(Len(rest)) = PieceCount(Len(text)) - s
  <2> DEFINE q == PieceCount(Len(text))
  <2>1. q \in Nat /\ Len(text) <= At(q) /\ At(q - 1) < Len(text)
    BY <1>1, Pieces
  <2> HIDE DEF q
  <2>2. At(q - s) = At(q) - At(s) /\ At((q - 1) - s) = At(q - 1) - At(s)
    BY <1>2, <2>1
  <2>3. At(q) \in Int /\ At(q - 1) \in Int
    BY <2>1, AtOrder
  <2>4. q - s \in Int /\ Len(rest) <= At(q - s) /\ At((q - s) - 1) < Len(rest)
    <3>1. (q - 1) - s = (q - s) - 1 /\ q - s \in Int
      BY <2>1
    <3>2. Len(rest) <= At(q - s)
      BY <1>1, <2>1, <2>2, <2>3
    <3>3. At((q - 1) - s) < Len(rest)
      BY <1>1, <2>1, <2>2, <2>3
    <3> QED BY <3>1, <3>2, <3>3
  <2>5. PieceCount(Len(rest)) = q - s
    BY <1>1, <2>4, PiecesUnique
  <2> QED BY <2>5 DEF q
<1>4. ASSUME NEW i \in Nat, s <= i, i < PieceCount(Len(text))
      PROVE  PieceAt(rest, i - s) = PieceAt(text, i)
  <2>1. /\ PieceAt(text, i) \in Seq(Unit) /\ At(i) \in Nat /\ At(i) < Len(text)
        /\ Len(PieceAt(text, i)) = IF At(i) + Chunk < Len(text) THEN Chunk
                                   ELSE Len(text) - At(i)
        /\ \A j \in 1 .. Len(PieceAt(text, i)) : PieceAt(text, i)[j] = text[At(i) + j]
    BY <1>4, PieceIs
  <2>2. i - s \in Nat /\ At(i - s) = At(i) - At(s) /\ i - s < PieceCount(Len(rest))
    <3>1. PieceCount(Len(text)) \in Nat /\ PieceCount(Len(rest)) \in Nat /\ i - s \in Nat
      BY <1>1, <1>4, Pieces
    <3>2. i - s < PieceCount(Len(rest))
      BY <1>3, <1>4, <3>1
    <3> QED BY <1>2, <3>1, <3>2
  <2>3. /\ PieceAt(rest, i - s) \in Seq(Unit) /\ At(i - s) \in Nat
        /\ Len(PieceAt(rest, i - s)) = IF At(i - s) + Chunk < Len(rest) THEN Chunk
                                       ELSE Len(rest) - At(i - s)
        /\ \A j \in 1 .. Len(PieceAt(rest, i - s)) :
             PieceAt(rest, i - s)[j] = rest[At(i - s) + j]
    BY <2>2, PieceIs
  <2>4. Len(PieceAt(rest, i - s)) = Len(PieceAt(text, i))
    <3>1. At(i - s) + Chunk < Len(rest) <=> At(i) + Chunk < Len(text)
      BY <1>1, <2>1, <2>2
    <3>2. Len(rest) - At(i - s) = Len(text) - At(i)
      BY <1>1, <2>1, <2>2
    <3> QED BY <2>1, <2>3, <3>1, <3>2
  <2>5. ASSUME NEW j \in 1 .. Len(PieceAt(text, i))
        PROVE  PieceAt(rest, i - s)[j] = PieceAt(text, i)[j]
    <3>1. At(i) + j <= Len(text) /\ j \in Nat \ {0}
      BY <1>1, <2>1
    <3>2. At(i - s) + j \in 1 .. Len(rest) /\ At(s) + (At(i - s) + j) = At(i) + j
      <4>1. /\ At(i - s) \in Nat /\ At(i - s) = At(i) - At(s) /\ At(i) \in Nat /\ At(s) \in Nat
            /\ Len(rest) = Len(text) - At(s) /\ Len(rest) \in Nat /\ Len(text) \in Nat
        BY <1>1, <2>1, <2>2, <2>3
      <4> QED BY <3>1, <4>1
    <3> QED BY <2>1, <2>3, <2>4, <3>2
  <2> QED BY <2>1, <2>3, <2>4, <2>5, SamePiece
<1> QED BY <1>3, <1>4

-----------------------------------------------------------------------------
(* The operations of the buffer                                            *)

Chunkings == UNION {[I -> Seq(Unit)] : I \in SUBSET Nat}

StreamType ==
  [ reserved : SUBSET KeyIds, nrKeys : Nat, nrBits : Nat, chunks : Chunkings,
    last : Nat, begun : BOOLEAN, bits : Nat, failed : BOOLEAN ]

(* Buffer c has given out g pieces of the tape and holds the others.       *)
Follows(c, text, g) ==
  /\ At(g) <= Len(text)
  /\ Holds(c.chunks, text, g)
  /\ c.begun <=> Len(text) > 0
  /\ c.last = IF Len(text) > 0 THEN PieceCount(Len(text)) - 1 ELSE 0
  /\ c.bits = Len(text) - At(g)

(* The units of a key.                                                     *)
LEMMA MaterialIs ==
  ASSUME NEW k \in KeyIds
  PROVE  Units[k] \in Nat \ {0} /\ Material(k) \in Seq(Unit) /\ Len(Material(k)) = Units[k]
<1>1. Units[k] \in Nat \ {0}
  BY StreamAssumption
<1>2. \A i \in 1 .. Units[k] : <<k, i>> \in Unit
  BY <1>1 DEF Unit
<1> QED BY <1>1, <1>2 DEF Material

(* The first and the last chunk of a buffer that holds one.                *)
LEMMA EndsOf ==
  ASSUME NEW c, NEW text \in Seq(Unit), NEW g \in Nat, Follows(c, text, g),
         g < PieceCount(Len(text))
  PROVE  FirstOf(c) = g /\ LastOf(c) = PieceCount(Len(text)) - 1
<1> DEFINE q == PieceCount(Len(text))
<1>1. Indexes(c) = g .. q - 1 /\ q \in Nat /\ g <= q - 1
  BY Pieces DEF Follows, Holds, Indexes
<1> HIDE DEF q
<1>2. PICK l \in Int : l = q - 1 /\ Indexes(c) = g .. l /\ g <= l
  BY <1>1
<1>3. g \in Indexes(c) /\ (\A j \in Indexes(c) : g <= j)
      /\ \A i \in Indexes(c) : (\A j \in Indexes(c) : i <= j) => i = g
  BY <1>2
<1>4. l \in Indexes(c) /\ (\A j \in Indexes(c) : j <= l)
      /\ \A i \in Indexes(c) : (\A j \in Indexes(c) : j <= i) => i = l
  BY <1>2
<1>5. FirstOf(c) = g
  BY <1>3 DEF FirstOf
<1>6. LastOf(c) = l
  BY <1>4 DEF LastOf
<1> QED BY <1>2, <1>5, <1>6 DEF q

(* The last chunk is short when the pieces go beyond the tape.             *)
LEMMA ShortIs ==
  ASSUME NEW c, NEW text \in Seq(Unit), NEW g \in Nat, Follows(c, text, g)
  PROVE  /\ Short(c) <=> g < PieceCount(Len(text)) /\ Len(text) # At(PieceCount(Len(text)))
         /\ Indexes(c) = {} <=> PieceCount(Len(text)) <= g
         /\ g <= PieceCount(Len(text))
         /\ Len(text) > 0 <=> 0 < PieceCount(Len(text))
<1> DEFINE n == Len(text)
           q == PieceCount(n)
<1>1. Indexes(c) = g .. q - 1 /\ q \in Nat /\ n \in Nat /\ n <= At(q) /\ Chunk \in Nat \ {0}
  BY StreamAssumption, Pieces DEF Follows, Holds, Indexes
<1>2. Indexes(c) = {} <=> q <= g
  <2>1. ASSUME NEW i \in Nat PROVE (g .. i - 1) = {} <=> i <= g
    OBVIOUS
  <2> QED BY <1>1, <2>1
<1>3. g <= q /\ (n > 0 <=> 0 < q)
  <2>1. At(g) <= n /\ At(g - 1) < At(g)
    <3>1. At(g) \in Int /\ At(g - 1) = At(g) - Chunk
      BY AtNext
    <3> QED BY <1>1, <3>1 DEF Follows
  <2>2. At(g) \in Nat /\ At(g - 1) \in Int /\ At(0) = 0
    BY AtNat, AtNext, AtOrder
  <2>3. g - 1 < q
    BY <1>1, <2>1, <2>2, PieceAhead
  <2>4. 0 < q <=> 0 < n
    BY <1>1, <2>2, PieceAhead
  <2> QED BY <1>1, <2>3, <2>4
<1>4. ASSUME g < q
      PROVE  Len(c.chunks[q - 1]) # Chunk <=> n # At(q)
  <2>1. q - 1 \in Nat /\ q - 1 < q /\ q - 1 \in g .. q - 1
    BY <1>1, <1>4
  <2>2. c.chunks[q - 1] = PieceAt(text, q - 1)
    BY <2>1 DEF Follows, Holds
  <2>3. Len(PieceAt(text, q - 1)) = IF At(q - 1) + Chunk < n THEN Chunk ELSE n - At(q - 1)
    BY <2>1, PieceIs
  <2>4. At(q - 1) = At(q) - Chunk /\ At(q) \in Nat
    BY <1>1, AtNext, AtNat
  <2>5. (IF At(q - 1) + Chunk < n THEN Chunk ELSE n - At(q - 1)) # Chunk <=> n # At(q)
    BY <1>1, <2>4
  <2> QED BY <2>2, <2>3, <2>5
<1>5. g < q => LastOf(c) = q - 1
  BY EndsOf
<1> HIDE DEF q, n
<1>6. Short(c) <=> g < q /\ n # At(q)
  <2>1. CASE q <= g
    <3>1. ~(g < q)
      BY <1>1, <2>1
    <3> QED BY <1>2, <2>1, <3>1 DEF Short
  <2>2. CASE g < q
    <3>1. ~(q <= g)
      BY <1>1, <2>2
    <3>2. Indexes(c) # {}
      BY <1>2, <3>1
    <3> QED BY <1>4, <1>5, <2>2, <3>2 DEF Short
  <2> QED BY <1>1, <2>1, <2>2
<1> QED BY <1>2, <1>3, <1>6 DEF q, n

(* Where a key goes: from piece s on, behind what that piece has already.  *)
Continues(c, text, g, more, s) ==
  /\ StartIndex(c) = s /\ g <= s /\ s <= PieceCount(Len(text)) /\ At(s) <= Len(text)
  /\ Text(c, more) \in Seq(Unit)
  /\ Len(Text(c, more)) = Len(text \o more) - At(s)
  /\ \A j \in 1 .. Len(Text(c, more)) : Text(c, more)[j] = (text \o more)[At(s) + j]

(* What InsertKeyToStreamSession pours in continues the tape.              *)
LEMMA TextIs ==
  ASSUME NEW c, NEW text \in Seq(Unit), NEW g \in Nat, Follows(c, text, g),
         NEW more \in Seq(Unit)
  PROVE  \E s \in Nat : Continues(c, text, g, more, s)
<1> DEFINE n == Len(text)
           q == PieceCount(n)
           new == text \o more
<1>1. /\ q \in Nat /\ n \in Nat /\ n <= At(q) /\ Chunk \in Nat \ {0} /\ At(q) \in Nat
      /\ g <= q /\ At(g) <= n /\ At(g) \in Nat
  <2>1. q \in Nat /\ n \in Nat /\ n <= At(q) /\ Chunk \in Nat \ {0}
    BY StreamAssumption, Pieces
  <2>2. g <= q
    BY ShortIs
  <2>3. At(g) <= n
    BY DEF Follows
  <2> QED BY <2>1, <2>2, <2>3, AtNat
<1>2. /\ Len(more) \in Nat /\ Len(new) = n + Len(more)
      /\ \A j \in 1 .. n : new[j] = text[j]
      /\ \A j \in 1 .. Len(more) : new[n + j] = more[j]
  OBVIOUS
<1> HIDE DEF new
<1>3. CASE Short(c)
  <2>1. g < q /\ n # At(q) /\ LastOf(c) = q - 1 /\ Indexes(c) # {}
    <3>1. g < q /\ n # At(q)
      BY <1>3, ShortIs
    <3>2. LastOf(c) = q - 1
      BY <3>1, EndsOf
    <3> QED BY <1>3, <3>1, <3>2 DEF Short
  <2>2. StartIndex(c) = q - 1
    BY <1>3, <2>1 DEF StartIndex
  <2>3. q - 1 \in Nat /\ g <= q - 1 /\ q - 1 < q /\ q - 1 \in g .. q - 1
    BY <1>1, <2>1
  <2>4. At(q - 1) \in Nat /\ At(q - 1) <= n /\ At(q - 1) + Chunk = At(q)
    <3>1. At(q - 1) = At(q) - Chunk /\ At(q - 1) \in Nat
      BY <1>1, <2>3, AtNext, AtNat
    <3>2. At(q - 1) < n
      BY <1>1, Pieces
    <3> QED BY <1>1, <3>1, <3>2
  <2>5. PICK t : t = PieceAt(text, q - 1)
    OBVIOUS
  <2>6. /\ t \in Seq(Unit) /\ Len(t) = n - At(q - 1)
        /\ \A j \in 1 .. Len(t) : t[j] = text[At(q - 1) + j]
    <3>1. Len(t) = IF At(q - 1) + Chunk < n THEN Chunk ELSE n - At(q - 1)
      BY <2>3, <2>5, PieceIs
    <3>2. Len(t) = n - At(q - 1)
      BY <1>1, <2>4, <3>1
    <3> QED BY <2>3, <2>5, <3>2, PieceIs
  <2>7. Text(c, more) = t \o more
    <3>1. c.chunks[q - 1] = t
      BY <2>3, <2>5 DEF Follows, Holds
    <3> QED BY <1>3, <2>1, <3>1 DEF Text
  <2>8. /\ t \o more \in Seq(Unit) /\ Len(t \o more) = Len(t) + Len(more)
        /\ \A j \in 1 .. Len(t) : (t \o more)[j] = t[j]
        /\ \A j \in 1 .. Len(more) : (t \o more)[Len(t) + j] = more[j]
    <3>1. t \in Seq(Unit)
      BY <2>6
    <3> QED BY <3>1
  <2>9. Len(t \o more) = Len(new) - At(q - 1)
    BY <1>1, <1>2, <2>4, <2>6, <2>8
  <2>10. ASSUME NEW j \in 1 .. Len(t \o more)
         PROVE  (t \o more)[j] = new[At(q - 1) + j]
    <3>1. Len(t) \in Nat /\ j \in Nat /\ Len(t) = n - At(q - 1)
      <4>1. Len(t) \in Nat /\ Len(t \o more) \in Nat
        BY <2>6, <2>8
      <4> QED BY <2>6, <4>1
    <3>2. CASE j <= Len(t)
      <4>1. j \in 1 .. Len(t) /\ At(q - 1) + j \in 1 .. n
        BY <1>1, <2>4, <3>1, <3>2
      <4> QED BY <1>2, <2>6, <2>8, <4>1
    <3>3. CASE j > Len(t)
      <4>1. PICK i \in 1 .. Len(more) : j = Len(t) + i /\ At(q - 1) + j = n + i
        <5>1. j - Len(t) \in 1 .. Len(more) /\ j = Len(t) + (j - Len(t))
          BY <1>2, <2>8, <3>1, <3>3
        <5>2. At(q - 1) + j = n + (j - Len(t))
          BY <1>1, <2>4, <3>1
        <5> QED BY <5>1, <5>2
      <4> QED BY <1>2, <2>8, <4>1
    <3> QED BY <3>1, <3>2, <3>3
  <2>11. q - 1 <= q
    BY <1>1
  <2> QED BY <2>2, <2>3, <2>4, <2>7, <2>8, <2>9, <2>10, <2>11, ZenonT(60) DEF new, Continues
<1>4. CASE ~Short(c)
  <2>1. n = At(q)
    <3>1. CASE g < q
      BY <1>4, <3>1, ShortIs
    <3>2. CASE g = q
      BY <1>1, <3>2
    <3> QED BY <1>1, <3>1, <3>2
  <2>2. StartIndex(c) = q
    <3>1. CASE Indexes(c) = {}
      <4>1. /\ (c.begun <=> n > 0) /\ (n > 0 <=> 0 < q)
            /\ c.last = IF n > 0 THEN q - 1 ELSE 0
        BY ShortIs DEF Follows
      <4>2. CASE n > 0
        <5>1. c.begun /\ c.last = q - 1 /\ (q - 1) + 1 = q
          BY <1>1, <4>1, <4>2
        <5> QED BY <1>4, <3>1, <5>1 DEF StartIndex
      <4>3. CASE ~(n > 0)
        <5>1. ~c.begun /\ q = 0
          BY <1>1, <4>1, <4>3
        <5> QED BY <1>4, <3>1, <5>1 DEF StartIndex
      <4> QED BY <4>2, <4>3
    <3>2. CASE Indexes(c) # {}
      <4>1. LastOf(c) = q - 1
        <5>1. ~(q <= g)
          BY <3>2, ShortIs
        <5>2. g < q
          BY <1>1, <5>1
        <5> QED BY <5>2, EndsOf
      <4>2. LastOf(c) + 1 = q
        BY <1>1, <4>1
      <4> QED BY <1>4, <3>2, <4>2 DEF StartIndex
    <3> QED BY <3>1, <3>2
  <2>3. Text(c, more) = more
    BY <1>4 DEF Text
  <2>4. Len(more) = Len(new) - At(q)
    BY <1>1, <1>2, <2>1
  <2>5. \A j \in 1 .. Len(more) : more[j] = new[At(q) + j]
    BY <1>2, <2>1
  <2>6. q <= q /\ At(q) <= n
    BY <1>1, <2>1
  <2> QED BY <1>1, <2>2, <2>3, <2>4, <2>5, <2>6 DEF new, Continues
<1> QED BY <1>3, <1>4

(* LogUpdate finds its account right after an addition and a subtraction.  *)
LEMMA AddIs ==
  ASSUME NEW c \in StreamType, NEW text \in Seq(Unit), NEW g \in Nat,
         Holds(c.chunks, text, g), At(g) <= Len(text),
         NEW m \in Nat, c.bits + m = Len(text) - At(g)
  PROVE  StreamAdd(c, m) = [c EXCEPT !.bits = Len(text) - At(g)]
<1>1. StreamAmount(c) = Len(text) - At(g)
  BY AmountIs
<1>2. c.failed \/ c.bits + m # StreamAmount(c) <=> c.failed
  BY <1>1
<1>3. c.failed \in BOOLEAN
  BY DEF StreamType
<1> QED BY <1>1, <1>2, <1>3 DEF StreamAdd, StreamType

(* LogUpdate with a negative amount passes its assertion.                  *)
LEMMA SubIs ==
  ASSUME NEW c \in StreamType, NEW text \in Seq(Unit), NEW g \in Nat,
         Holds(c.chunks, text, g), At(g) <= Len(text),
         NEW m \in Nat, m <= c.bits, c.bits - m = Len(text) - At(g)
  PROVE  StreamSub(c, m) = [c EXCEPT !.bits = Len(text) - At(g)]
<1>1. StreamAmount(c) = Len(text) - At(g)
  BY AmountIs
<1>2. c.bits \in Nat /\ ~(m > c.bits) /\ c.failed \in BOOLEAN
  BY DEF StreamType
<1>3. (IF m > c.bits THEN c.bits ELSE c.bits - m) = Len(text) - At(g)
  BY <1>2
<1> QED BY <1>1, <1>2, <1>3 DEF StreamSub, StreamType

(* InsertKeyToStreamSession continues the tape.                            *)
LEMMA InsertIs ==
  ASSUME NEW c \in StreamType, NEW text \in Seq(Unit), NEW g \in Nat,
         Follows(c, text, g), NEW k \in KeyIds
  PROVE  /\ InsertKeyToStreamSession(c, k) \in StreamType
         /\ Follows(InsertKeyToStreamSession(c, k), text \o Material(k), g)
         /\ InsertKeyToStreamSession(c, k).failed = c.failed
         /\ InsertKeyToStreamSession(c, k).reserved = c.reserved
         /\ InsertKeyToStreamSession(c, k).nrKeys = c.nrKeys
         /\ InsertKeyToStreamSession(c, k).nrBits = c.nrBits
<1>1. PICK n, m, q : n = Len(text) /\ m = Units[k] /\ q = PieceCount(n)
  OBVIOUS
<1>2. PICK new : new = text \o Material(k)
  OBVIOUS
<1>3. /\ n \in Nat /\ m \in Nat \ {0} /\ q \in Nat /\ Material(k) \in Seq(Unit)
      /\ new \in Seq(Unit) /\ Len(new) = n + m /\ Len(new) \in Nat
  <2>1. m \in Nat \ {0} /\ Material(k) \in Seq(Unit) /\ Len(Material(k)) = m
    BY <1>1, MaterialIs
  <2>2. n \in Nat /\ q \in Nat
    BY <1>1, Pieces
  <2>3. new \in Seq(Unit) /\ Len(new) = Len(text) + Len(Material(k))
    BY <1>2, <2>1, ConcatIs
  <2>4. Len(new) = n + m /\ n + m \in Nat
    BY <1>1, <2>1, <2>2, <2>3
  <2> QED BY <2>1, <2>2, <2>3, <2>4
<1>4. PICK s \in Nat :
        /\ StartIndex(c) = s /\ g <= s /\ s <= q /\ At(s) <= n
        /\ Text(c, Material(k)) \in Seq(Unit)
        /\ Len(Text(c, Material(k))) = Len(new) - At(s)
        /\ \A j \in 1 .. Len(Text(c, Material(k))) :
             Text(c, Material(k))[j] = new[At(s) + j]
  <2>1. Material(k) \in Seq(Unit)
    BY <1>3
  <2>2. PICK s \in Nat : Continues(c, text, g, Material(k), s)
    BY <2>1, TextIs
  <2> QED BY <1>1, <1>2, <2>2 DEF Continues
<1>5. PICK rest : rest = Text(c, Material(k))
  OBVIOUS
<1>6. PICK p : p = PieceCount(Len(new))
  OBVIOUS
<1>7. /\ PieceCount(Len(rest)) = p - s
      /\ \A i \in Nat : s <= i /\ i < p => PieceAt(rest, i - s) = PieceAt(new, i)
  <2>1. At(s) <= Len(new)
    <3>1. At(s) \in Nat
      BY AtNat
    <3> QED BY <1>3, <1>4, <3>1
  <2>2. /\ new \in Seq(Unit) /\ rest \in Seq(Unit) /\ Len(rest) = Len(new) - At(s)
        /\ \A j \in 1 .. Len(rest) : rest[j] = new[At(s) + j]
    BY <1>3, <1>4, <1>5
  <2> QED BY <1>6, <2>1, <2>2, TailPieces
<1>8. p \in Nat /\ q <= p /\ s < p
  <2>1. p \in Nat
    BY <1>3, <1>6, Pieces
  <2>2. At(s) \in Nat /\ At(s) < Len(new)
    BY <1>3, <1>4, AtNat
  <2>3. s < p
    BY <1>3, <1>6, <2>2, PieceAhead
  <2>4. At(q - 1) < n /\ At(q - 1) \in Int
    BY <1>1, <1>3, Pieces, AtOrder
  <2>5. At(q - 1) < Len(new)
    BY <1>3, <2>4
  <2>6. q - 1 < p
    BY <1>3, <1>6, <2>5, PieceAhead
  <2> QED BY <1>3, <2>1, <2>3, <2>6
<1>9. Indexes(c) = g .. q - 1
  BY <1>1 DEF Follows, Holds, Indexes
<1>10. PICK new_chunks : new_chunks = [i \in g .. p - 1 |-> PieceAt(new, i)]
  OBVIOUS
<1>11. [i \in Indexes(c) \cup s .. (s + PieceCount(Len(rest)) - 1) |->
          IF i < s THEN c.chunks[i] ELSE PieceAt(rest, i - s)] = new_chunks
  <2>1. s + PieceCount(Len(rest)) - 1 = p - 1
    BY <1>7, <1>8
  <2>2. Indexes(c) \cup s .. (p - 1) = g .. p - 1
    BY <1>3, <1>4, <1>8, <1>9
  <2>3. ASSUME NEW i \in g .. p - 1
        PROVE  (IF i < s THEN c.chunks[i] ELSE PieceAt(rest, i - s)) = PieceAt(new, i)
    <3>1. i \in Nat /\ g <= i /\ i < p
      BY <1>8
    <3>2. CASE i < s
      <4>1. i \in DOMAIN c.chunks
        BY <1>3, <1>4, <1>9, <3>1, <3>2 DEF Indexes
      <4>2. c.chunks[i] = PieceAt(text, i)
        BY <4>1 DEF Follows, Holds
      <4>3. At(i) \in Int /\ At(i) + Chunk <= At(s) /\ At(s) \in Int /\ Chunk \in Nat
        <5>1. i \in Int /\ s \in Int /\ i < s
          BY <3>1, <3>2
        <5> QED BY <5>1, AtOrder, StreamAssumption
      <4>4. At(i) + Chunk <= n
        BY <1>3, <1>4, <4>3
      <4>5. PieceAt(new, i) = PieceAt(text, i)
        BY <1>1, <1>2, <1>3, <3>1, <4>4, PieceKept
      <4> QED BY <3>2, <4>2, <4>5
    <3>3. CASE ~(i < s)
      <4>1. PieceAt(rest, i - s) = PieceAt(new, i)
        BY <1>7, <3>1, <3>3
      <4> QED BY <3>3, <4>1
    <3> QED BY <3>2, <3>3
  <2> QED BY <1>10, <2>1, <2>2, <2>3
<1>12. PICK d : d = [c EXCEPT !.chunks = new_chunks, !.last = p - 1, !.begun = TRUE]
  OBVIOUS
<1>13. InsertKeyToStreamSession(c, k) = StreamAdd(d, m)
  <2>1. s + PieceCount(Len(rest)) - 1 = p - 1
    BY <1>7, <1>8
  <2> QED BY <1>1, <1>4, <1>5, <1>11, <1>12, <2>1 DEF InsertKeyToStreamSession
<1>14. new_chunks \in Chunkings
  <2>1. ASSUME NEW i \in g .. p - 1
        PROVE  PieceAt(new, i) \in Seq(Unit)
    <3>1. i \in Nat /\ i < p
      BY <1>8
    <3> QED BY <1>3, <1>6, <3>1, PieceIs
  <2>2. g .. p - 1 \in SUBSET Nat
    BY <1>8
  <2>3. new_chunks \in [g .. p - 1 -> Seq(Unit)]
    BY <1>10, <2>1
  <2> QED BY <2>2, <2>3 DEF Chunkings
<1>15. d \in StreamType /\ d.chunks = new_chunks /\ d.bits = c.bits /\ p - 1 \in Nat
  <2>1. p - 1 \in Nat
    BY <1>8
  <2> QED BY <1>12, <1>14, <2>1 DEF StreamType
<1>16. Holds(d.chunks, new, g)
  BY <1>6, <1>10, <1>15 DEF Holds
<1>17. At(g) \in Nat /\ At(g) <= Len(new) /\ c.bits = n - At(g)
  <2>1. At(g) \in Nat /\ At(g) <= n /\ c.bits = n - At(g)
    BY <1>1, AtNat DEF Follows
  <2> QED BY <1>3, <2>1
<1>18. d.bits + m = Len(new) - At(g)
  BY <1>3, <1>15, <1>17
<1>19. StreamAdd(d, m) = [d EXCEPT !.bits = Len(new) - At(g)]
  BY <1>3, <1>15, <1>16, <1>17, <1>18, AddIs
<1>20. Len(new) - At(g) \in Nat /\ Len(new) > 0
  BY <1>3, <1>17
<1>21. PICK z : z = [d EXCEPT !.bits = Len(new) - At(g)]
  OBVIOUS
<1>22. /\ z \in StreamType /\ z.chunks = d.chunks /\ z.bits = Len(new) - At(g)
       /\ z.begun = TRUE /\ z.last = p - 1 /\ z.failed = c.failed /\ z.reserved = c.reserved
       /\ z.nrKeys = c.nrKeys /\ z.nrBits = c.nrBits
  BY <1>12, <1>15, <1>20, <1>21 DEF StreamType
<1>23. Follows(z, new, g)
  BY <1>6, <1>16, <1>17, <1>20, <1>22 DEF Follows
<1> QED BY <1>2, <1>13, <1>19, <1>21, <1>22, <1>23

(* GetStreamKey gives the first piece out, when it is complete.            *)
LEMMA DropIs ==
  ASSUME NEW c \in StreamType, NEW text \in Seq(Unit), NEW g \in Nat,
         Follows(c, text, g), GetStreamKeyCount(c) > 0
  PROVE  /\ GetNextIndex(c) = g /\ c.chunks[FirstOf(c)] = PieceAt(text, g)
         /\ At(g) + Chunk <= Len(text)
         /\ GetStreamKey(c) \in StreamType
         /\ Follows(GetStreamKey(c), text, g + 1)
         /\ GetStreamKey(c).failed = c.failed
         /\ GetStreamKey(c).reserved = c.reserved
         /\ GetStreamKey(c).nrKeys = c.nrKeys
         /\ GetStreamKey(c).nrBits = c.nrBits
<1>1. PICK n, q : n = Len(text) /\ q = PieceCount(n)
  OBVIOUS
<1>2. /\ n \in Nat /\ q \in Nat /\ Chunk \in Nat \ {0} /\ n <= At(q) /\ At(q) \in Nat
      /\ At(g) <= n /\ At(g) \in Nat
  BY <1>1, StreamAssumption, Pieces, AtNat DEF Follows
<1>3. Indexes(c) = g .. q - 1 /\ DOMAIN c.chunks = g .. q - 1
  BY <1>1 DEF Follows, Holds, Indexes
<1>4. g < q /\ At(g) + Chunk <= n
  <2>1. Cardinality(Indexes(c)) = IF g > q - 1 THEN 0 ELSE (q - 1) - g + 1
    BY <1>2, <1>3, FS_Interval
  <2>2. CASE Short(c)
    <3>1. Cardinality(Indexes(c)) - 1 > 0
      BY <2>2 DEF GetStreamKeyCount
    <3>2. g < q - 1 /\ g \in Int /\ q - 1 \in Int
      BY <1>2, <2>1, <3>1
    <3>3. At(g) + Chunk <= At(q - 1) /\ At(q - 1) \in Int
      BY <3>2, AtOrder
    <3>4. At(q - 1) < n
      BY <1>1, <1>2, Pieces
    <3>5. At(g) + Chunk <= n
      BY <1>2, <3>3, <3>4
    <3> QED BY <1>2, <3>2, <3>5
  <2>3. CASE ~Short(c)
    <3>1. Cardinality(Indexes(c)) > 0
      BY <2>3 DEF GetStreamKeyCount
    <3>2. g < q
      BY <1>2, <2>1, <3>1
    <3>3. n = At(q)
      BY <1>1, <2>3, <3>2, ShortIs
    <3>4. At(g) + Chunk <= At(q)
      BY <1>2, <3>2, AtOrder
    <3> QED BY <3>2, <3>3, <3>4
  <2> QED BY <2>2, <2>3
<1>5. FirstOf(c) = g /\ g \in Indexes(c)
  BY <1>1, <1>2, <1>3, <1>4, EndsOf
<1>6. c.chunks[g] = PieceAt(text, g)
  BY <1>5 DEF Follows, Holds, Indexes
<1>7. Len(PieceAt(text, g)) = Chunk
  <2>1. Len(PieceAt(text, g)) = IF At(g) + Chunk < n THEN Chunk ELSE n - At(g)
    BY <1>1, <1>4, PieceIs
  <2> QED BY <1>2, <1>4, <2>1
<1>8. GetNextIndex(c) = g
  BY <1>5 DEF GetNextIndex
<1>9. PICK left : left = [i \in Indexes(c) \ {g} |-> c.chunks[i]]
  OBVIOUS
<1>10. PICK d : d = [c EXCEPT !.chunks = left]
  OBVIOUS
<1>11. GetStreamKey(c) = StreamSub(d, Chunk)
  <2>1. Indexes(c) # {}
    BY <1>5
  <2> QED BY <1>5, <1>6, <1>7, <1>9, <1>10, <2>1 DEF GetStreamKey, DropChunk
<1>12. Indexes(c) \ {g} = (g + 1) .. q - 1
  BY <1>2, <1>3
<1>13. left \in Chunkings
  <2>1. PICK I \in SUBSET Nat : c.chunks \in [I -> Seq(Unit)]
    BY DEF StreamType, Chunkings
  <2>2. I \ {g} \in SUBSET Nat /\ left \in [I \ {g} -> Seq(Unit)]
    BY <1>9, <2>1 DEF Indexes
  <2> QED BY <2>2 DEF Chunkings
<1>14. d \in StreamType /\ d.chunks = left /\ d.bits = c.bits
  BY <1>10, <1>13 DEF StreamType
<1>15. Holds(d.chunks, text, g + 1)
  <2>1. DOMAIN left = (g + 1) .. PieceCount(Len(text)) - 1
    BY <1>1, <1>9, <1>12
  <2>2. \A i \in DOMAIN left : left[i] = PieceAt(text, i)
    BY <1>9 DEF Follows, Holds, Indexes
  <2> QED BY <1>14, <2>1, <2>2 DEF Holds
<1>16. At(g + 1) = At(g) + Chunk
  BY AtNext
<1>17. c.bits = n - At(g)
  BY <1>1 DEF Follows
<1>18. Chunk <= d.bits /\ d.bits - Chunk = n - At(g + 1) /\ At(g + 1) <= n /\ g + 1 \in Nat
  BY <1>2, <1>4, <1>14, <1>16, <1>17
<1>19. StreamSub(d, Chunk) = [d EXCEPT !.bits = n - At(g + 1)]
  BY <1>1, <1>2, <1>14, <1>15, <1>18, SubIs
<1>20. n - At(g + 1) \in Nat
  BY <1>2, <1>16, <1>18
<1>21. PICK z : z = [d EXCEPT !.bits = n - At(g + 1)]
  OBVIOUS
<1>22. /\ z \in StreamType /\ z.chunks = d.chunks /\ z.bits = n - At(g + 1)
       /\ z.begun = c.begun /\ z.last = c.last /\ z.failed = c.failed /\ z.reserved = c.reserved
       /\ z.nrKeys = c.nrKeys /\ z.nrBits = c.nrBits
  BY <1>10, <1>14, <1>20, <1>21 DEF StreamType
<1>23. Follows(z, text, g + 1)
  BY <1>1, <1>15, <1>18, <1>22 DEF Follows
<1>24. GetStreamKey(c) = z
  BY <1>11, <1>19, <1>21
<1>25. At(g) + Chunk <= Len(text)
  BY <1>1, <1>4
<1> QED BY <1>5, <1>6, <1>8, <1>22, <1>23, <1>24, <1>25

-----------------------------------------------------------------------------
(* The counters of the reserved keys                                       *)

UnitsOf(keys) == UNION {{k} \X (1 .. Units[k]) : k \in keys}

(* They cover the reserved keys; accepted keys stay in them.               *)
Covered(c) ==
  /\ c.nrKeys >= Cardinality(c.reserved)
  /\ c.nrBits >= Cardinality(UnitsOf(c.reserved))

(* One more key brings its own units.                                      *)
LEMMA UnitsOfKey ==
  ASSUME NEW keys \in SUBSET KeyIds, NEW k \in KeyIds, k \notin keys
  PROVE  /\ Cardinality(keys) \in Nat /\ Cardinality(keys \cup {k}) = Cardinality(keys) + 1
         /\ Cardinality(UnitsOf(keys)) \in Nat
         /\ Cardinality(UnitsOf(keys \cup {k})) = Cardinality(UnitsOf(keys)) + Units[k]
<1> DEFINE f == [j \in keys |-> {j} \X (1 .. Units[j])]
           T == {{j} \X (1 .. Units[j]) : j \in keys}
           new == {k} \X (1 .. Units[k])
<1>1. IsFiniteSet(keys) /\ k \notin keys
  BY StreamAssumption, FS_Subset
<1>2. ASSUME NEW j \in KeyIds
      PROVE  /\ IsFiniteSet({j} \X (1 .. Units[j]))
             /\ Cardinality({j} \X (1 .. Units[j])) = Units[j]
  <2>1. Units[j] \in Nat
    BY StreamAssumption
  <2>2. IsFiniteSet(1 .. Units[j]) /\ Cardinality(1 .. Units[j]) = Units[j]
    BY <2>1, FS_Interval
  <2>3. IsFiniteSet({j}) /\ Cardinality({j}) = 1
    BY FS_Singleton
  <2>4. IsFiniteSet({j} \X (1 .. Units[j]))
        /\ Cardinality({j} \X (1 .. Units[j])) = Cardinality({j}) * Cardinality(1 .. Units[j])
    BY <2>2, <2>3, FS_Product
  <2> QED BY <2>1, <2>2, <2>3, <2>4
<1>3. f \in Surjection(keys, T)
  BY DEF Surjection
<1>4. IsFiniteSet(T)
  BY <1>1, <1>3, FS_Surjection
<1>5. \A t \in T : IsFiniteSet(t)
  BY <1>2
<1>6. IsFiniteSet(UnitsOf(keys))
  BY <1>4, <1>5, FS_UNION DEF UnitsOf
<1>7. UnitsOf(keys \cup {k}) = UnitsOf(keys) \cup new
  BY DEF UnitsOf
<1>8. UnitsOf(keys) \cap new = {}
  BY DEF UnitsOf
<1>9. /\ IsFiniteSet(new) /\ Cardinality(new) = Units[k] /\ Units[k] \in Nat
      /\ Cardinality(UnitsOf(keys)) \in Nat /\ Cardinality({}) = 0
  BY <1>2, <1>6, StreamAssumption, FS_CardinalityType, FS_EmptySet
<1>10. Cardinality(UnitsOf(keys) \cup new) =
         Cardinality(UnitsOf(keys)) + Cardinality(new) - Cardinality(UnitsOf(keys) \cap new)
  BY <1>6, <1>9, FS_Union
<1>11. Cardinality(UnitsOf(keys \cup {k})) = Cardinality(UnitsOf(keys)) + Units[k]
  <2>1. Cardinality(UnitsOf(keys) \cap new) = 0
    BY <1>8, <1>9
  <2>2. Cardinality(UnitsOf(keys \cup {k})) =
          Cardinality(UnitsOf(keys)) + Units[k] - Cardinality(UnitsOf(keys) \cap new)
    BY <1>7, <1>9, <1>10
  <2> QED BY <1>9, <2>1, <2>2
<1>12. Cardinality(keys) \in Nat /\ Cardinality(keys \cup {k}) = Cardinality(keys) + 1
  BY <1>1, FS_AddElement, FS_CardinalityType
<1> QED BY <1>9, <1>11, <1>12

-----------------------------------------------------------------------------
(* The invariant                                                           *)

GivenChunks == [index : Nat, key : Seq(Unit)]

StreamInv ==
  /\ stream \in StreamType /\ used \in SUBSET KeyIds /\ stream.reserved \subseteq used /\ ~stream.failed
  /\ poured \in Seq(Unit) /\ taken \in Seq(GivenChunks)
  /\ Follows(stream, poured, Len(taken))
  /\ \A i \in 1 .. Len(taken) : taken[i] = [index |-> i - 1, key |-> PieceAt(poured, i - 1)]
  /\ Covered(stream)

(* The invariant of a stream buffer holds at first.                        *)
LEMMA InitInv == StreamInit => StreamInv
<1> SUFFICES ASSUME StreamInit PROVE StreamInv
  OBVIOUS
<1>1. stream = EmptyStream /\ used = {} /\ poured = <<>> /\ taken = <<>>
  BY DEF StreamInit
<1>2. <<>> \in [{} -> Seq(Unit)] /\ {} \in SUBSET Nat /\ DOMAIN <<>> = {}
  OBVIOUS
<1>3. <<>> \in Chunkings
  BY <1>2 DEF Chunkings
<1>4. stream \in StreamType /\ stream.reserved = {} /\ ~stream.failed
  BY <1>1, <1>3 DEF StreamType, EmptyStream
<1>5. poured \in Seq(Unit) /\ taken \in Seq(GivenChunks) /\ Len(poured) = 0 /\ Len(taken) = 0
  BY <1>1
<1>6. At(0) = 0 /\ PieceCount(0) = 0
  <2>1. At(0) = 0 /\ At(0 - 1) = At(0) - Chunk /\ Chunk \in Nat \ {0}
    BY AtNext, StreamAssumption
  <2>2. 0 <= At(0) /\ At(0 - 1) < 0
    BY <2>1
  <2> QED BY <2>1, <2>2, PiecesUnique
<1>7. Holds(stream.chunks, poured, 0)
  BY <1>1, <1>2, <1>5, <1>6 DEF Holds, EmptyStream
<1>8. Follows(stream, poured, Len(taken))
  BY <1>1, <1>5, <1>6, <1>7 DEF Follows, EmptyStream
<1>9. Cardinality({}) = 0 /\ UnitsOf({}) = {}
  BY FS_EmptySet DEF UnitsOf
<1>10. Covered(stream)
  <2>1. stream.reserved = {} /\ stream.nrKeys = 0 /\ stream.nrBits = 0
    BY <1>1 DEF EmptyStream
  <2> QED BY <1>9, <2>1 DEF Covered
<1>11. \A i \in 1 .. Len(taken) : taken[i] = [index |-> i - 1, key |-> PieceAt(poured, i - 1)]
  BY <1>5
<1> QED BY <1>1, <1>4, <1>5, <1>8, <1>10, <1>11 DEF StreamInv

(* Fill: only the reserved keys and their counters change.                 *)
LEMMA FillInv ==
  ASSUME StreamInv, NEW k \in KeyIds, FillReserves(k)
  PROVE  StreamInv' /\ UNCHANGED <<poured, taken>>
<1>1. /\ stream' = ReserveStreamKey(stream, k) /\ used' = used \cup {k} /\ k \notin used
      /\ UNCHANGED <<poured, taken>>
  BY DEF FillReserves
<1>2. stream \in StreamType /\ k \notin stream.reserved /\ Units[k] \in Nat \ {0}
  BY <1>1, MaterialIs DEF StreamInv
<1>3. /\ stream' \in StreamType /\ stream'.reserved = stream.reserved \cup {k} /\ stream'.failed = stream.failed
      /\ stream'.nrKeys = stream.nrKeys + 1 /\ stream'.nrBits = stream.nrBits + Units[k]
      /\ stream'.chunks = stream.chunks /\ stream'.begun = stream.begun /\ stream'.last = stream.last /\ stream'.bits = stream.bits
  <2>1. /\ stream.reserved \in SUBSET KeyIds /\ stream.nrKeys + 1 \in Nat /\ stream.nrBits + Units[k] \in Nat
    BY <1>2 DEF StreamType
  <2>2. stream' = [stream EXCEPT !.reserved = stream.reserved \cup {k}, !.nrKeys = stream.nrKeys + 1,
                       !.nrBits = stream.nrBits + Units[k]]
    BY <1>1 DEF ReserveStreamKey
  <2>3. stream.reserved \cup {k} \in SUBSET KeyIds
    BY <2>1
  <2> QED BY <1>2, <2>1, <2>2, <2>3 DEF StreamType
<1>4. Covered(stream')
  <2>1. stream.reserved \in SUBSET KeyIds /\ stream.nrKeys \in Nat /\ stream.nrBits \in Nat
    BY <1>2 DEF StreamType
  <2>2. PICK i, j \in Nat :
          /\ i = Cardinality(stream.reserved) /\ j = Cardinality(UnitsOf(stream.reserved))
          /\ Cardinality(stream'.reserved) = i + 1 /\ Cardinality(UnitsOf(stream'.reserved)) = j + Units[k]
    BY <1>2, <1>3, <2>1, UnitsOfKey
  <2>3. stream.nrKeys >= i /\ stream.nrBits >= j
    BY <2>2 DEF StreamInv, Covered
  <2>4. stream'.nrKeys >= i + 1 /\ stream'.nrBits >= j + Units[k]
    BY <1>2, <1>3, <2>1, <2>3
  <2> QED BY <2>2, <2>4 DEF Covered
<1>5. Follows(stream', poured, Len(taken))
  BY <1>3 DEF StreamInv, Follows
<1>6. used' \in SUBSET KeyIds /\ stream'.reserved \subseteq used' /\ ~stream'.failed
  BY <1>1, <1>3 DEF StreamInv
<1> QED BY <1>1, <1>3, <1>4, <1>5, <1>6 DEF StreamInv

(* A key that was not listed leaves the reserved ones; its counters are    *)
(* there.                                                                  *)
LEMMA FillUnlistedInv ==
  ASSUME StreamInv, NEW k \in KeyIds, FillUnlisted(k)
  PROVE  StreamInv' /\ UNCHANGED <<poured, taken>>
<1>1. /\ stream' = DiscardStreamKey(stream, k) /\ k \in stream.reserved
      /\ UNCHANGED <<used, poured, taken>>
  BY DEF FillUnlisted
<1>2. /\ stream \in StreamType /\ Units[k] \in Nat \ {0}
      /\ stream.reserved \in SUBSET KeyIds /\ stream.nrKeys \in Nat /\ stream.nrBits \in Nat
  BY MaterialIs DEF StreamInv, StreamType
<1>3. PICK i, j \in Nat :
        /\ i = Cardinality(stream.reserved \ {k}) /\ j = Cardinality(UnitsOf(stream.reserved \ {k}))
        /\ Cardinality(stream.reserved) = i + 1 /\ Cardinality(UnitsOf(stream.reserved)) = j + Units[k]
  <2>1. stream.reserved \ {k} \in SUBSET KeyIds /\ k \notin stream.reserved \ {k}
        /\ (stream.reserved \ {k}) \cup {k} = stream.reserved
    BY <1>1, <1>2
  <2> QED BY <2>1, UnitsOfKey
<1>4. stream.nrKeys >= i + 1 /\ stream.nrBits >= j + Units[k]
  BY <1>3 DEF StreamInv, Covered
<1>5. /\ stream.nrKeys > 0 /\ stream.nrBits >= Units[k]
      /\ stream.nrKeys - 1 \in Nat /\ stream.nrBits - Units[k] \in Nat
      /\ stream.nrKeys - 1 >= i /\ stream.nrBits - Units[k] >= j
  BY <1>2, <1>4
<1>6. stream' = [stream EXCEPT !.reserved = @ \ {k}, !.nrKeys = @ - 1, !.nrBits = @ - Units[k]]
  BY <1>1, <1>5 DEF DiscardStreamKey
<1>7. /\ stream' \in StreamType /\ stream'.reserved = stream.reserved \ {k} /\ stream'.failed = stream.failed
      /\ stream'.nrKeys = stream.nrKeys - 1 /\ stream'.nrBits = stream.nrBits - Units[k]
      /\ stream'.chunks = stream.chunks /\ stream'.begun = stream.begun /\ stream'.last = stream.last /\ stream'.bits = stream.bits
  BY <1>2, <1>5, <1>6 DEF StreamType
<1>8. Covered(stream')
  BY <1>3, <1>5, <1>7 DEF Covered
<1>9. Follows(stream', poured, Len(taken))
  BY <1>7 DEF StreamInv, Follows
<1> QED BY <1>1, <1>7, <1>8, <1>9 DEF StreamInv

(* A tape that goes on leaves the pieces given out alone.                  *)
LEMMA GivenKept ==
  ASSUME StreamInv, NEW k \in KeyIds
  PROVE  \A i \in 1 .. Len(taken) :
           taken[i] = [index |-> i - 1, key |-> PieceAt(poured \o Material(k), i - 1)]
<1> SUFFICES ASSUME NEW i \in 1 .. Len(taken)
             PROVE  taken[i] = [index |-> i - 1, key |-> PieceAt(poured \o Material(k), i - 1)]
  OBVIOUS
<1>1. /\ taken[i] = [index |-> i - 1, key |-> PieceAt(poured, i - 1)]
      /\ poured \in Seq(Unit) /\ Len(taken) \in Nat /\ At(Len(taken)) <= Len(poured)
  BY DEF StreamInv, Follows
<1>2. i - 1 \in Nat /\ i - 1 < Len(taken)
  BY <1>1
<1>3. At(i - 1) + Chunk <= At(Len(taken)) /\ At(i - 1) \in Nat /\ At(Len(taken)) \in Nat
      /\ Chunk \in Nat /\ Len(poured) \in Nat
  BY <1>1, <1>2, AtOrder, AtNat, StreamAssumption
<1>4. At(i - 1) + Chunk <= Len(poured)
  BY <1>1, <1>3
<1>5. PieceAt(poured \o Material(k), i - 1) = PieceAt(poured, i - 1)
  BY <1>1, <1>2, <1>4, MaterialIs, PieceKept
<1> QED BY <1>1, <1>5

(* Accepted keys and keys that are asked for continue the tape.            *)
LEMMA PourInv ==
  ASSUME StreamInv, NEW k \in KeyIds, NEW c \in StreamType, Follows(c, poured, Len(taken)),
         ~c.failed, c.reserved \subseteq used', used' \in SUBSET KeyIds, Covered(c),
         stream' = InsertKeyToStreamSession(c, k), poured' = poured \o Material(k), UNCHANGED taken
  PROVE  StreamInv'
<1>1. poured \in Seq(Unit) /\ Len(taken) \in Nat /\ taken \in Seq(GivenChunks)
  BY DEF StreamInv
<1>2. /\ stream' \in StreamType /\ Follows(stream', poured', Len(taken)) /\ ~stream'.failed
      /\ stream'.reserved = c.reserved /\ stream'.nrKeys = c.nrKeys /\ stream'.nrBits = c.nrBits
  BY <1>1, InsertIs
<1>3. poured' \in Seq(Unit)
  BY <1>1, MaterialIs, ConcatIs
<1>4. Covered(stream')
  BY <1>2 DEF Covered
<1>5. \A i \in 1 .. Len(taken) : taken[i] = [index |-> i - 1, key |-> PieceAt(poured', i - 1)]
  BY GivenKept
<1> QED BY <1>1, <1>2, <1>3, <1>4, <1>5 DEF StreamInv

(* A reserved key that is accepted is poured in.                           *)
LEMMA FillAcceptedInv ==
  ASSUME StreamInv, NEW k \in KeyIds, FillAccepted(k)
  PROVE  StreamInv' /\ poured' = poured \o Material(k) /\ UNCHANGED taken
<1>1. /\ k \in stream.reserved /\ stream' = AcceptStreamKey(stream, k)
      /\ poured' = poured \o Material(k) /\ UNCHANGED <<used, taken>>
  BY DEF FillAccepted
<1>2. PICK c : c = [stream EXCEPT !.reserved = @ \ {k}]
  OBVIOUS
<1>3. stream' = InsertKeyToStreamSession(c, k)
  BY <1>1, <1>2 DEF AcceptStreamKey
<1>4. /\ stream \in StreamType /\ stream.reserved \in SUBSET KeyIds
      /\ stream.nrKeys \in Nat /\ stream.nrBits \in Nat /\ Units[k] \in Nat
  BY MaterialIs DEF StreamInv, StreamType
<1>5. /\ c \in StreamType /\ c.reserved = stream.reserved \ {k} /\ c.failed = stream.failed
      /\ c.nrKeys = stream.nrKeys /\ c.nrBits = stream.nrBits
      /\ c.chunks = stream.chunks /\ c.begun = stream.begun /\ c.last = stream.last /\ c.bits = stream.bits
  BY <1>2, <1>4 DEF StreamType
<1>6. Covered(c)
  <2>1. stream.reserved \ {k} \in SUBSET KeyIds /\ k \notin stream.reserved \ {k}
        /\ (stream.reserved \ {k}) \cup {k} = stream.reserved
    BY <1>1, <1>4
  <2>2. PICK i, j \in Nat :
          /\ i = Cardinality(c.reserved) /\ j = Cardinality(UnitsOf(c.reserved))
          /\ Cardinality(stream.reserved) = i + 1 /\ Cardinality(UnitsOf(stream.reserved)) = j + Units[k]
    BY <1>5, <2>1, UnitsOfKey
  <2>3. stream.nrKeys >= i + 1 /\ stream.nrBits >= j + Units[k]
    BY <2>2 DEF StreamInv, Covered
  <2>4. c.nrKeys >= i /\ c.nrBits >= j
    BY <1>4, <1>5, <2>3
  <2> QED BY <2>2, <2>4 DEF Covered
<1>7. Follows(c, poured, Len(taken))
  BY <1>5 DEF StreamInv, Follows
<1>8. ~c.failed /\ c.reserved \subseteq used' /\ used' \in SUBSET KeyIds
  BY <1>1, <1>5 DEF StreamInv
<1> QED BY <1>1, <1>3, <1>5, <1>6, <1>7, <1>8, PourInv

(* A key of a fill that is asked for is poured in.                         *)
LEMMA FillAskedInv ==
  ASSUME StreamInv, NEW k \in KeyIds, FillAsked(k)
  PROVE  StreamInv' /\ poured' = poured \o Material(k) /\ UNCHANGED taken
<1>1. /\ stream' = InsertKeyToStreamSession(stream, k) /\ used' = used \cup {k}
      /\ poured' = poured \o Material(k) /\ UNCHANGED taken
  BY DEF FillAsked
<1>2. /\ stream \in StreamType /\ Follows(stream, poured, Len(taken)) /\ ~stream.failed /\ Covered(stream)
      /\ stream.reserved \subseteq used' /\ used' \in SUBSET KeyIds
  BY <1>1 DEF StreamInv
<1> QED BY <1>1, <1>2, PourInv

(* GET_KEY gives out the next piece.                                       *)
LEMMA GetKeyInv ==
  ASSUME StreamInv, GetStreamKey004
  PROVE  /\ StreamInv' /\ UNCHANGED poured /\ At(Len(taken)) + Chunk <= Len(poured)
         /\ taken' = Append(taken, [index |-> Len(taken), key |-> PieceAt(poured, Len(taken))])
<1>1. /\ taken' = Append(taken, [index |-> GetNextIndex(stream), key |-> stream.chunks[FirstOf(stream)]])
      /\ stream' = GetStreamKey(stream) /\ UNCHANGED <<used, poured>> /\ GetStreamKeyCount(stream) > 0
  BY DEF GetStreamKey004, HasStreamKey
<1>2. /\ stream \in StreamType /\ poured \in Seq(Unit) /\ taken \in Seq(GivenChunks)
      /\ Len(taken) \in Nat /\ Follows(stream, poured, Len(taken)) /\ ~stream.failed
  BY DEF StreamInv
<1>3. PICK g \in Nat : g = Len(taken)
  BY <1>2
<1>4. /\ GetNextIndex(stream) = g /\ stream.chunks[FirstOf(stream)] = PieceAt(poured, g)
      /\ At(g) + Chunk <= Len(poured) /\ stream' \in StreamType /\ Follows(stream', poured, g + 1)
      /\ stream'.failed = stream.failed /\ stream'.reserved = stream.reserved
      /\ stream'.nrKeys = stream.nrKeys /\ stream'.nrBits = stream.nrBits
  BY <1>1, <1>2, <1>3, DropIs
<1>5. PICK e : e = [index |-> g, key |-> PieceAt(poured, g)]
  OBVIOUS
<1>6. PieceAt(poured, g) \in Seq(Unit)
  <2>1. At(g) < Len(poured)
    <3>1. At(g) \in Nat /\ Chunk \in Nat \ {0} /\ Len(poured) \in Nat
      BY <1>2, AtNat, StreamAssumption
    <3> QED BY <1>4, <3>1
  <2>2. g < PieceCount(Len(poured))
    BY <1>2, <2>1, PieceAhead
  <2> QED BY <1>2, <2>2, PieceIs
<1>7. taken' = Append(taken, e) /\ e \in GivenChunks
  BY <1>1, <1>4, <1>5, <1>6 DEF GivenChunks
<1>8. /\ taken' \in Seq(GivenChunks) /\ Len(taken') = g + 1 /\ taken'[g + 1] = e
      /\ \A i \in 1 .. g : taken'[i] = taken[i]
  BY <1>2, <1>3, <1>7
<1>9. ASSUME NEW i \in 1 .. Len(taken')
      PROVE  taken'[i] = [index |-> i - 1, key |-> PieceAt(poured, i - 1)]
  <2>1. CASE i = g + 1
    <3>1. i - 1 = g
      BY <2>1
    <3> QED BY <1>5, <1>8, <2>1, <3>1
  <2>2. CASE i # g + 1
    <3>1. i \in 1 .. g
      BY <1>8, <2>2
    <3> QED BY <1>3, <1>8, <3>1 DEF StreamInv
  <2> QED BY <2>1, <2>2
<1>10. Covered(stream')
  BY <1>4 DEF StreamInv, Covered
<1>11. Follows(stream', poured', Len(taken'))
  BY <1>1, <1>4, <1>8
<1>12. StreamInv'
  BY <1>1, <1>2, <1>4, <1>8, <1>9, <1>10, <1>11 DEF StreamInv
<1> QED BY <1>1, <1>3, <1>4, <1>12

(* Every step of a stream buffer keeps its invariant.                      *)
LEMMA NextInv ==
  ASSUME StreamInv, [StreamNext]_streamVars
  PROVE  StreamInv'
<1>1. ASSUME UNCHANGED streamVars
      PROVE  StreamInv'
  BY <1>1 DEF streamVars, StreamInv, Follows, Holds, Covered
<1>2. ASSUME NEW k \in KeyIds, FillReserves(k) \/ FillAccepted(k) \/ FillUnlisted(k) \/ FillAsked(k)
      PROVE  StreamInv'
  BY <1>2, FillInv, FillAcceptedInv, FillUnlistedInv, FillAskedInv
<1> QED BY <1>1, <1>2, GetKeyInv DEF StreamNext

(* The inductive invariant of StreamBuffer.                                *)
LEMMA Invariant == StreamSpec => []StreamInv
  BY InitInv, NextInv, PTL DEF StreamSpec

-----------------------------------------------------------------------------
(* The results                                                             *)

(* The buffer, its account and its counters are well formed whatever is    *)
(* poured in and given out: LogUpdate's assertion never fails.             *)
LEMMA TypeHolds == StreamInv => StreamTypeOK
<1>1. Chunkings \subseteq UNION {[I -> Seq(Unit)] : I \in SUBSET Nat}
  BY DEF Chunkings
<1>2. ASSUME StreamInv
      PROVE  Indexes(stream) \subseteq Nat
  BY <1>2 DEF StreamInv, StreamType, Chunkings, Indexes
<1> QED BY <1>2 DEF StreamInv, StreamType, StreamTypeOK

(* The counters and chunks of a stream buffer (SBuffer::LogUpdate and MarkKey) are well formed, and LogUpdate's assertion holds. *)
THEOREM StreamTypeCorrect == StreamSpec => []StreamTypeOK
  BY Invariant, TypeHolds, PTL

(* No unit is lost or doubled: what was given out, and then the chunks by  *)
(* their index, are the pieces of what was poured in.                      *)
THEOREM NothingLostHolds == StreamSpec => []NothingLost
<1>1. ASSUME StreamInv
      PROVE  NothingLost
  <2>1. PICK q : q = PieceCount(Len(poured))
    OBVIOUS
  <2>2. Indexes(stream) = Len(taken) .. q - 1 /\ q \in Nat /\ Len(taken) \in Nat
    BY <1>1, <2>1, Pieces DEF StreamInv, Follows, Holds, Indexes
  <2>3. ASSUME NEW i \in 0 .. q - 1
        PROVE  Cut(i) = PieceAt(poured, i)
    <3>1. CASE i < Len(taken)
      <4>1. i + 1 \in 1 .. Len(taken) /\ (i + 1) - 1 = i
        BY <2>2, <3>1
      <4>2. taken[i + 1] = [index |-> i, key |-> PieceAt(poured, i)]
        BY <1>1, <4>1 DEF StreamInv
      <4> QED BY <3>1, <4>2 DEF Cut
    <3>2. CASE ~(i < Len(taken))
      <4>1. i \in Indexes(stream)
        BY <2>2, <3>2
      <4> QED BY <1>1, <3>2, <4>1 DEF Cut, StreamInv, Follows, Holds, Indexes
    <3> QED BY <3>1, <3>2
  <2> QED BY <1>1, <2>1, <2>2, <2>3, TypeHolds DEF NothingLost
<1> QED BY <1>1, Invariant, PTL

(* A key poured in extends the tape of ChunkedStream.                      *)
LEMMA PourExtends ==
  ASSUME StreamInv, NEW k \in KeyIds, poured' = poured \o Material(k), UNCHANGED taken
  PROVE  Abstract!Next
<1>1. poured \in Seq(Unit) /\ Material(k) \in Seq(Unit) /\ Len(Material(k)) \in Nat \ {0}
  BY MaterialIs DEF StreamInv
<1>2. PICK n : n = Len(Material(k))
  OBVIOUS
<1>3. poured' \in Seq(Unit) /\ Len(poured') = Len(poured) + Len(Material(k))
  BY <1>1, ConcatIs
<1>4. n \in 1 .. Len(poured') /\ Len(poured') - n = Len(poured)
  <2>1. Len(poured) \in Nat /\ n \in Nat \ {0} /\ Len(poured') = Len(poured) + n
    BY <1>1, <1>2, <1>3
  <2> QED BY <2>1
<1>5. SubSeq(poured', 1, Len(poured)) = poured
  BY <1>1
<1>6. Abstract!Extend
  BY <1>3, <1>4, <1>5 DEF Abstract!Extend, Unit
<1> QED BY <1>6 DEF Abstract!Next

(* A chunk given out is the one ChunkedStream takes.                       *)
LEMMA GetTakes ==
  ASSUME StreamInv, GetStreamKey004
  PROVE  Abstract!Next
<1>1. /\ UNCHANGED poured /\ At(Len(taken)) + Chunk <= Len(poured)
      /\ taken' = Append(taken, [index |-> Len(taken), key |-> PieceAt(poured, Len(taken))])
  BY GetKeyInv
<1>2. PICK i \in Nat : i = Len(taken)
  BY DEF StreamInv
<1>3. Len(poured) \in Nat /\ At(i) + Chunk = (i + 1) * Chunk /\ (i + 1) * Chunk \in Nat
      /\ At(i) = i * Chunk
  <2>1. At(i + 1) = At(i) + Chunk /\ At(i + 1) = (i + 1) * Chunk /\ At(i) = i * Chunk
    BY AtNext DEF At
  <2>2. At(i + 1) \in Nat
    BY AtNat
  <2> QED BY <2>1, <2>2 DEF StreamInv
<1>4. (i + 1) * Chunk <= Len(poured)
  BY <1>1, <1>2, <1>3
<1>5. (IF (i + 1) * Chunk < Len(poured) THEN (i + 1) * Chunk ELSE Len(poured)) = (i + 1) * Chunk
  BY <1>3, <1>4
<1>6. PieceAt(poured, i) = SubSeq(poured, i * Chunk + 1, (i + 1) * Chunk)
  BY <1>5 DEF PieceAt
<1>7. Abstract!Take
  BY <1>1, <1>2, <1>4, <1>6 DEF Abstract!Take
<1> QED BY <1>7 DEF Abstract!Next

(* The stream buffer gives out the stream ChunkedStream describes, whatever*)
(* the lengths of the keys and in whatever order fills and calls come.     *)
THEOREM StreamImplemented == StreamSpec => IsChunkedStream
<1>1. StreamInit => Abstract!Init
  BY DEF StreamInit, Abstract!Init
<1>2. ASSUME StreamInv, [StreamNext]_streamVars
      PROVE  [Abstract!Next]_<<poured, taken>>
  <2>1. CASE UNCHANGED streamVars
    BY <2>1 DEF streamVars
  <2>2. ASSUME NEW k \in KeyIds, FillReserves(k) \/ FillAccepted(k) \/ FillUnlisted(k) \/ FillAsked(k)
        PROVE  Abstract!Next \/ UNCHANGED <<poured, taken>>
    <3>1. CASE FillReserves(k) \/ FillUnlisted(k)
      BY <1>2, <3>1, FillInv, FillUnlistedInv
    <3>2. CASE FillAccepted(k) \/ FillAsked(k)
      BY <1>2, <3>2, FillAcceptedInv, FillAskedInv, PourExtends
    <3> QED BY <2>2, <3>1, <3>2
  <2> QED BY <1>2, <2>1, <2>2, GetTakes DEF StreamNext
<1> QED BY <1>1, <1>2, Invariant, PTL DEF StreamSpec, IsChunkedStream, Abstract!Spec

-----------------------------------------------------------------------------
(* Handlers that go through a list of keys.                                *)

(* Induction on the natural numbers, for a set of them.                    *)
LEMMA NatInd ==
  ASSUME NEW S, 0 \in S, \A n \in Nat : n \in S => n + 1 \in S
  PROVE  Nat \subseteq S
<1> DEFINE R == {p \in Nat \X Nat : p[1] < p[2]}
           T == Nat \ S
<1>1. IsWellFoundedOn(R, Nat)
  BY NatLessThanWellFounded, IsWellFoundedOnSubrelation DEF OpToRel
<1>2. SUFFICES ASSUME T # {} PROVE FALSE
  OBVIOUS
<1>3. PICK x \in T : \A y \in T : <<y, x>> \notin R
  <2> HIDE DEF R
  <2> QED BY <1>1, <1>2, WFMin
<1>4. x \in Nat /\ x # 0 /\ x - 1 \in Nat /\ x - 1 < x
  BY <1>3
<1>5. x - 1 \in S
  BY <1>3, <1>4
<1> QED BY <1>3, <1>4, <1>5


(* f goes through the list step by step, from base and by O.               *)
Runs(f, T, ks, base, O) ==
  /\ f \in [0 .. Len(ks) -> T] /\ f[0] = base
  /\ \A i \in 1 .. Len(ks) : f[i] = O[<<f[i - 1], ks[i]>>]

(* There is such a function: what EachKey denotes is not an arbitrary      *)
(* value.                                                                  *)
LEMMA RunExists ==
  ASSUME NEW ks \in Seq(KeyIds), NEW T, NEW base \in T, NEW O \in [T \X KeyIds -> T]
  PROVE  \E f : Runs(f, T, ks, base, O)
<1> DEFINE Upto(f, n) == /\ f \in [0 .. n -> T] /\ f[0] = base
                         /\ \A i \in 1 .. n : f[i] = O[<<f[i - 1], ks[i]>>]
           N == {n \in Nat : n <= Len(ks) => \E f : Upto(f, n)}
<1>1. 0 \in N
  <2>1. Upto([i \in 0 .. 0 |-> base], 0)
    OBVIOUS
  <2> QED BY <2>1
<1>2. ASSUME NEW n \in Nat, n \in N
      PROVE  n + 1 \in N
  <2>1. SUFFICES ASSUME n + 1 <= Len(ks) PROVE \E f : Upto(f, n + 1)
    OBVIOUS
  <2>2. n <= Len(ks) /\ ks[n + 1] \in KeyIds
    BY <2>1
  <2>3. PICK f : Upto(f, n)
    BY <1>2, <2>2
  <2>4. PICK x : x = O[<<f[n], ks[n + 1]>>]
    OBVIOUS
  <2>5. x \in T
    BY <2>2, <2>3, <2>4
  <2>6. PICK g : g = [i \in 0 .. n + 1 |-> IF i <= n THEN f[i] ELSE x]
    OBVIOUS
  <2>7. g \in [0 .. n + 1 -> T] /\ g[0] = base
    BY <2>3, <2>5, <2>6
  <2>8. ASSUME NEW i \in 1 .. n + 1
        PROVE  g[i] = O[<<g[i - 1], ks[i]>>]
    <3>1. CASE i <= n
      <4>1. g[i] = f[i] /\ g[i - 1] = f[i - 1] /\ i \in 1 .. n
        BY <2>6, <3>1
      <4> QED BY <2>3, <4>1
    <3>2. CASE i = n + 1
      <4>1. g[i] = x /\ g[i - 1] = f[n]
        BY <2>6, <3>2
      <4> QED BY <2>4, <3>2, <4>1
    <3> QED BY <3>1, <3>2
  <2> QED BY <2>7, <2>8
<1>3. Len(ks) \in N
  <2> HIDE DEF N
  <2>1. Nat \subseteq N
    BY <1>1, <1>2, NatInd
  <2> QED BY <2>1
<1> QED BY <1>3 DEF Runs

(* A step that pours: the buffers that follow some tape are closed under   *)
(* what handlers do with a key.                                            *)
Streams == {c \in StreamType : \E text \in Seq(Unit), g \in Nat : Follows(c, text, g)}

(* The operations of a fill give streams again.                            *)
LEMMA StreamsClosed ==
  ASSUME NEW c \in Streams, NEW k \in KeyIds
  PROVE  /\ InsertKeyToStreamSession(c, k) \in Streams /\ AcceptStreamKey(c, k) \in Streams
         /\ DiscardStreamKey(c, k) \in Streams /\ ReserveStreamKey(c, k) \in Streams
<1>1. PICK text \in Seq(Unit), g \in Nat : c \in StreamType /\ Follows(c, text, g)
  BY DEF Streams
<1>2. Units[k] \in Nat \ {0} /\ Material(k) \in Seq(Unit)
  BY MaterialIs
<1>3. ASSUME NEW d \in StreamType, Follows(d, text, g)
      PROVE  InsertKeyToStreamSession(d, k) \in Streams
  <2>1. text \o Material(k) \in Seq(Unit)
    BY <1>2
  <2> QED BY <1>3, <2>1, InsertIs DEF Streams
<1>4. ASSUME NEW r \in SUBSET KeyIds, NEW i \in Nat, NEW j \in Nat, NEW f \in BOOLEAN,
             NEW d, d = [c EXCEPT !.reserved = r, !.nrKeys = i, !.nrBits = j, !.failed = f]
      PROVE  d \in StreamType /\ Follows(d, text, g)
  <2>1. d \in StreamType
    BY <1>1, <1>4 DEF StreamType
  <2>2. d.chunks = c.chunks /\ d.begun = c.begun /\ d.last = c.last /\ d.bits = c.bits
    BY <1>1, <1>4 DEF StreamType
  <2> QED BY <1>1, <2>1, <2>2 DEF Follows
<1>5. /\ c.reserved \in SUBSET KeyIds /\ c.nrKeys \in Nat /\ c.nrBits \in Nat
      /\ c.failed \in BOOLEAN
  BY <1>1 DEF StreamType
<1>6. StopStream(c) \in Streams
  <2>1. StopStream(c) = [c EXCEPT !.reserved = c.reserved, !.nrKeys = c.nrKeys,
                                  !.nrBits = c.nrBits, !.failed = TRUE]
    BY <1>1 DEF StopStream, StreamType
  <2> QED BY <1>4, <1>5, <2>1 DEF Streams
<1>7. ASSUME k \in c.reserved
      PROVE  AcceptStreamKey(c, k) \in Streams
  <2>1. PICK d : d = [c EXCEPT !.reserved = @ \ {k}]
    OBVIOUS
  <2>2. d = [c EXCEPT !.reserved = c.reserved \ {k}, !.nrKeys = c.nrKeys,
                      !.nrBits = c.nrBits, !.failed = c.failed]
    BY <1>1, <2>1 DEF StreamType
  <2>3. d \in StreamType /\ Follows(d, text, g)
    BY <1>4, <1>5, <2>2
  <2> QED BY <1>3, <1>7, <2>1, <2>3 DEF AcceptStreamKey
<1>8. AcceptStreamKey(c, k) \in Streams
  BY <1>6, <1>7 DEF AcceptStreamKey
<1>9. DiscardStreamKey(c, k) \in Streams
  <2>1. ASSUME k \in c.reserved, c.nrKeys > 0, c.nrBits >= Units[k]
        PROVE  DiscardStreamKey(c, k) \in Streams
    <3>1. c.nrKeys - 1 \in Nat /\ c.nrBits - Units[k] \in Nat
      BY <1>2, <1>5, <2>1
    <3>2. DiscardStreamKey(c, k) = [c EXCEPT !.reserved = c.reserved \ {k}, !.nrKeys = c.nrKeys - 1,
                                             !.nrBits = c.nrBits - Units[k], !.failed = c.failed]
      BY <1>1, <2>1 DEF DiscardStreamKey, StreamType
    <3> QED BY <1>4, <1>5, <3>1, <3>2 DEF Streams
  <2>2. ASSUME ~(k \in c.reserved /\ c.nrKeys > 0 /\ c.nrBits >= Units[k])
        PROVE  DiscardStreamKey(c, k) \in Streams
    BY <1>6, <2>2 DEF DiscardStreamKey
  <2> QED BY <2>1, <2>2
<1>10. ReserveStreamKey(c, k) \in Streams
  <2>1. c.nrKeys + 1 \in Nat /\ c.nrBits + Units[k] \in Nat /\ c.reserved \cup {k} \in SUBSET KeyIds
    BY <1>2, <1>5
  <2>2. ReserveStreamKey(c, k) = [c EXCEPT !.reserved = c.reserved \cup {k}, !.nrKeys = c.nrKeys + 1,
                                           !.nrBits = c.nrBits + Units[k], !.failed = c.failed]
    BY <1>1 DEF ReserveStreamKey, StreamType
  <2> QED BY <1>4, <1>5, <2>1, <2>2 DEF Streams
<1> QED BY <1>1, <1>3, <1>8, <1>9, <1>10

(* What EachKey does with the operation of a handler.                      *)
LEMMA InsertEach ==
  ASSUME NEW ks \in Seq(KeyIds), NEW c \in Streams
  PROVE  \E f : /\ f[0] = c /\ EachKey(InsertKeyToStreamSession, c, ks) = f[Len(ks)]
                /\ \A i \in 1 .. Len(ks) : f[i] = InsertKeyToStreamSession(f[i - 1], ks[i])
<1> DEFINE O == [p \in Streams \X KeyIds |-> InsertKeyToStreamSession(p[1], p[2])]
           F == CHOOSE f : f = [i \in 0 .. Len(ks) |-> IF i = 0 THEN c ELSE InsertKeyToStreamSession(f[i - 1], ks[i])]
<1>1. O \in [Streams \X KeyIds -> Streams]
  BY StreamsClosed
<1>2. \A d \in Streams, k \in KeyIds : O[<<d, k>>] = InsertKeyToStreamSession(d, k)
  OBVIOUS
<1>3. PICK f : Runs(f, Streams, ks, c, O)
  <2> HIDE DEF O
  <2> QED BY <1>1, RunExists
<1>4. \A i \in 1 .. Len(ks) : f[i] = InsertKeyToStreamSession(f[i - 1], ks[i])
  <2>1. TAKE i \in 1 .. Len(ks)
  <2>2. i - 1 \in 0 .. Len(ks) /\ ks[i] \in KeyIds
    OBVIOUS
  <2>3. f[i - 1] \in Streams
    BY <1>3, <2>2 DEF Runs
  <2> HIDE DEF O
  <2> QED BY <1>2, <1>3, <2>2, <2>3 DEF Runs
<1>5. f = [i \in 0 .. Len(ks) |-> IF i = 0 THEN c ELSE InsertKeyToStreamSession(f[i - 1], ks[i])]
  <2>1. ASSUME NEW i \in 0 .. Len(ks)
        PROVE  f[i] = IF i = 0 THEN c ELSE InsertKeyToStreamSession(f[i - 1], ks[i])
    <3>1. CASE i = 0
      BY <1>3, <3>1 DEF Runs
    <3>2. CASE i # 0
      BY <1>4, <3>2
    <3> QED BY <3>1, <3>2
  <2>2. f \in [0 .. Len(ks) -> Streams]
    BY <1>3 DEF Runs
  <2> HIDE DEF O, F
  <2> QED BY <2>1, <2>2
<1>6. F = [i \in 0 .. Len(ks) |-> IF i = 0 THEN c ELSE InsertKeyToStreamSession(F[i - 1], ks[i])]
  BY <1>5
<1>7. EachKey(InsertKeyToStreamSession, c, ks) = F[Len(ks)]
  BY DEF EachKey
<1>8. PICK h : h = F
  OBVIOUS
<1>9. h = [i \in 0 .. Len(ks) |-> IF i = 0 THEN c ELSE InsertKeyToStreamSession(h[i - 1], ks[i])]
  <2> HIDE DEF F
  <2> QED BY <1>6, <1>8
<1>10. EachKey(InsertKeyToStreamSession, c, ks) = h[Len(ks)]
  BY <1>7, <1>8
<1>11. h[0] = c /\ \A i \in 1 .. Len(ks) : h[i] = InsertKeyToStreamSession(h[i - 1], ks[i])
  <2> HIDE DEF O, F
  <2>1. \A i \in 0 .. Len(ks) : h[i] = IF i = 0 THEN c ELSE InsertKeyToStreamSession(h[i - 1], ks[i])
    BY <1>9
  <2>2. 0 \in 0 .. Len(ks)
    OBVIOUS
  <2>3. ASSUME NEW i \in 1 .. Len(ks)
        PROVE  h[i] = InsertKeyToStreamSession(h[i - 1], ks[i])
    <3>1. i \in 0 .. Len(ks) /\ i # 0
      OBVIOUS
    <3> QED BY <2>1, <3>1
  <2> QED BY <2>1, <2>2, <2>3
<1> QED BY <1>10, <1>11

(* A stream accepts the keys of a list one by one.                         *)
LEMMA AcceptEach ==
  ASSUME NEW ks \in Seq(KeyIds), NEW c \in Streams
  PROVE  \E f : /\ f[0] = c /\ EachKey(AcceptStreamKey, c, ks) = f[Len(ks)]
                /\ \A i \in 1 .. Len(ks) : f[i] = AcceptStreamKey(f[i - 1], ks[i])
<1> DEFINE O == [p \in Streams \X KeyIds |-> AcceptStreamKey(p[1], p[2])]
           F == CHOOSE f : f = [i \in 0 .. Len(ks) |-> IF i = 0 THEN c ELSE AcceptStreamKey(f[i - 1], ks[i])]
<1>1. O \in [Streams \X KeyIds -> Streams]
  BY StreamsClosed
<1>2. \A d \in Streams, k \in KeyIds : O[<<d, k>>] = AcceptStreamKey(d, k)
  OBVIOUS
<1>3. PICK f : Runs(f, Streams, ks, c, O)
  <2> HIDE DEF O
  <2> QED BY <1>1, RunExists
<1>4. \A i \in 1 .. Len(ks) : f[i] = AcceptStreamKey(f[i - 1], ks[i])
  <2>1. TAKE i \in 1 .. Len(ks)
  <2>2. i - 1 \in 0 .. Len(ks) /\ ks[i] \in KeyIds
    OBVIOUS
  <2>3. f[i - 1] \in Streams
    BY <1>3, <2>2 DEF Runs
  <2> HIDE DEF O
  <2> QED BY <1>2, <1>3, <2>2, <2>3 DEF Runs
<1>5. f = [i \in 0 .. Len(ks) |-> IF i = 0 THEN c ELSE AcceptStreamKey(f[i - 1], ks[i])]
  <2>1. ASSUME NEW i \in 0 .. Len(ks)
        PROVE  f[i] = IF i = 0 THEN c ELSE AcceptStreamKey(f[i - 1], ks[i])
    <3>1. CASE i = 0
      BY <1>3, <3>1 DEF Runs
    <3>2. CASE i # 0
      BY <1>4, <3>2
    <3> QED BY <3>1, <3>2
  <2>2. f \in [0 .. Len(ks) -> Streams]
    BY <1>3 DEF Runs
  <2> HIDE DEF O, F
  <2> QED BY <2>1, <2>2
<1>6. F = [i \in 0 .. Len(ks) |-> IF i = 0 THEN c ELSE AcceptStreamKey(F[i - 1], ks[i])]
  BY <1>5
<1>7. EachKey(AcceptStreamKey, c, ks) = F[Len(ks)]
  BY DEF EachKey
<1>8. PICK h : h = F
  OBVIOUS
<1>9. h = [i \in 0 .. Len(ks) |-> IF i = 0 THEN c ELSE AcceptStreamKey(h[i - 1], ks[i])]
  <2> HIDE DEF F
  <2> QED BY <1>6, <1>8
<1>10. EachKey(AcceptStreamKey, c, ks) = h[Len(ks)]
  BY <1>7, <1>8
<1>11. h[0] = c /\ \A i \in 1 .. Len(ks) : h[i] = AcceptStreamKey(h[i - 1], ks[i])
  <2> HIDE DEF O, F
  <2>1. \A i \in 0 .. Len(ks) : h[i] = IF i = 0 THEN c ELSE AcceptStreamKey(h[i - 1], ks[i])
    BY <1>9
  <2>2. 0 \in 0 .. Len(ks)
    OBVIOUS
  <2>3. ASSUME NEW i \in 1 .. Len(ks)
        PROVE  h[i] = AcceptStreamKey(h[i - 1], ks[i])
    <3>1. i \in 0 .. Len(ks) /\ i # 0
      OBVIOUS
    <3> QED BY <2>1, <3>1
  <2> QED BY <2>1, <2>2, <2>3
<1> QED BY <1>10, <1>11

(* A stream drops the keys of a list one by one.                           *)
LEMMA DiscardEach ==
  ASSUME NEW ks \in Seq(KeyIds), NEW c \in Streams
  PROVE  \E f : /\ f[0] = c /\ EachKey(DiscardStreamKey, c, ks) = f[Len(ks)]
                /\ \A i \in 1 .. Len(ks) : f[i] = DiscardStreamKey(f[i - 1], ks[i])
<1> DEFINE O == [p \in Streams \X KeyIds |-> DiscardStreamKey(p[1], p[2])]
           F == CHOOSE f : f = [i \in 0 .. Len(ks) |-> IF i = 0 THEN c ELSE DiscardStreamKey(f[i - 1], ks[i])]
<1>1. O \in [Streams \X KeyIds -> Streams]
  BY StreamsClosed
<1>2. \A d \in Streams, k \in KeyIds : O[<<d, k>>] = DiscardStreamKey(d, k)
  OBVIOUS
<1>3. PICK f : Runs(f, Streams, ks, c, O)
  <2> HIDE DEF O
  <2> QED BY <1>1, RunExists
<1>4. \A i \in 1 .. Len(ks) : f[i] = DiscardStreamKey(f[i - 1], ks[i])
  <2>1. TAKE i \in 1 .. Len(ks)
  <2>2. i - 1 \in 0 .. Len(ks) /\ ks[i] \in KeyIds
    OBVIOUS
  <2>3. f[i - 1] \in Streams
    BY <1>3, <2>2 DEF Runs
  <2> HIDE DEF O
  <2> QED BY <1>2, <1>3, <2>2, <2>3 DEF Runs
<1>5. f = [i \in 0 .. Len(ks) |-> IF i = 0 THEN c ELSE DiscardStreamKey(f[i - 1], ks[i])]
  <2>1. ASSUME NEW i \in 0 .. Len(ks)
        PROVE  f[i] = IF i = 0 THEN c ELSE DiscardStreamKey(f[i - 1], ks[i])
    <3>1. CASE i = 0
      BY <1>3, <3>1 DEF Runs
    <3>2. CASE i # 0
      BY <1>4, <3>2
    <3> QED BY <3>1, <3>2
  <2>2. f \in [0 .. Len(ks) -> Streams]
    BY <1>3 DEF Runs
  <2> HIDE DEF O, F
  <2> QED BY <2>1, <2>2
<1>6. F = [i \in 0 .. Len(ks) |-> IF i = 0 THEN c ELSE DiscardStreamKey(F[i - 1], ks[i])]
  BY <1>5
<1>7. EachKey(DiscardStreamKey, c, ks) = F[Len(ks)]
  BY DEF EachKey
<1>8. PICK h : h = F
  OBVIOUS
<1>9. h = [i \in 0 .. Len(ks) |-> IF i = 0 THEN c ELSE DiscardStreamKey(h[i - 1], ks[i])]
  <2> HIDE DEF F
  <2> QED BY <1>6, <1>8
<1>10. EachKey(DiscardStreamKey, c, ks) = h[Len(ks)]
  BY <1>7, <1>8
<1>11. h[0] = c /\ \A i \in 1 .. Len(ks) : h[i] = DiscardStreamKey(h[i - 1], ks[i])
  <2> HIDE DEF O, F
  <2>1. \A i \in 0 .. Len(ks) : h[i] = IF i = 0 THEN c ELSE DiscardStreamKey(h[i - 1], ks[i])
    BY <1>9
  <2>2. 0 \in 0 .. Len(ks)
    OBVIOUS
  <2>3. ASSUME NEW i \in 1 .. Len(ks)
        PROVE  h[i] = DiscardStreamKey(h[i - 1], ks[i])
    <3>1. i \in 0 .. Len(ks) /\ i # 0
      OBVIOUS
    <3> QED BY <2>1, <3>1
  <2> QED BY <2>1, <2>2, <2>3
<1> QED BY <1>10, <1>11

(* A stream reserves the keys of a list one by one.                        *)
LEMMA ReserveEach ==
  ASSUME NEW ks \in Seq(KeyIds), NEW c \in Streams
  PROVE  \E f : /\ f[0] = c /\ EachKey(ReserveStreamKey, c, ks) = f[Len(ks)]
                /\ \A i \in 1 .. Len(ks) : f[i] = ReserveStreamKey(f[i - 1], ks[i])
<1> DEFINE O == [p \in Streams \X KeyIds |-> ReserveStreamKey(p[1], p[2])]
           F == CHOOSE f : f = [i \in 0 .. Len(ks) |-> IF i = 0 THEN c ELSE ReserveStreamKey(f[i - 1], ks[i])]
<1>1. O \in [Streams \X KeyIds -> Streams]
  BY StreamsClosed
<1>2. \A d \in Streams, k \in KeyIds : O[<<d, k>>] = ReserveStreamKey(d, k)
  OBVIOUS
<1>3. PICK f : Runs(f, Streams, ks, c, O)
  <2> HIDE DEF O
  <2> QED BY <1>1, RunExists
<1>4. \A i \in 1 .. Len(ks) : f[i] = ReserveStreamKey(f[i - 1], ks[i])
  <2>1. TAKE i \in 1 .. Len(ks)
  <2>2. i - 1 \in 0 .. Len(ks) /\ ks[i] \in KeyIds
    OBVIOUS
  <2>3. f[i - 1] \in Streams
    BY <1>3, <2>2 DEF Runs
  <2> HIDE DEF O
  <2> QED BY <1>2, <1>3, <2>2, <2>3 DEF Runs
<1>5. f = [i \in 0 .. Len(ks) |-> IF i = 0 THEN c ELSE ReserveStreamKey(f[i - 1], ks[i])]
  <2>1. ASSUME NEW i \in 0 .. Len(ks)
        PROVE  f[i] = IF i = 0 THEN c ELSE ReserveStreamKey(f[i - 1], ks[i])
    <3>1. CASE i = 0
      BY <1>3, <3>1 DEF Runs
    <3>2. CASE i # 0
      BY <1>4, <3>2
    <3> QED BY <3>1, <3>2
  <2>2. f \in [0 .. Len(ks) -> Streams]
    BY <1>3 DEF Runs
  <2> HIDE DEF O, F
  <2> QED BY <2>1, <2>2
<1>6. F = [i \in 0 .. Len(ks) |-> IF i = 0 THEN c ELSE ReserveStreamKey(F[i - 1], ks[i])]
  BY <1>5
<1>7. EachKey(ReserveStreamKey, c, ks) = F[Len(ks)]
  BY DEF EachKey
<1>8. PICK h : h = F
  OBVIOUS
<1>9. h = [i \in 0 .. Len(ks) |-> IF i = 0 THEN c ELSE ReserveStreamKey(h[i - 1], ks[i])]
  <2> HIDE DEF F
  <2> QED BY <1>6, <1>8
<1>10. EachKey(ReserveStreamKey, c, ks) = h[Len(ks)]
  BY <1>7, <1>8
<1>11. h[0] = c /\ \A i \in 1 .. Len(ks) : h[i] = ReserveStreamKey(h[i - 1], ks[i])
  <2> HIDE DEF O, F
  <2>1. \A i \in 0 .. Len(ks) : h[i] = IF i = 0 THEN c ELSE ReserveStreamKey(h[i - 1], ks[i])
    BY <1>9
  <2>2. 0 \in 0 .. Len(ks)
    OBVIOUS
  <2>3. ASSUME NEW i \in 1 .. Len(ks)
        PROVE  h[i] = ReserveStreamKey(h[i - 1], ks[i])
    <3>1. i \in 0 .. Len(ks) /\ i # 0
      OBVIOUS
    <3> QED BY <2>1, <3>1
  <2> QED BY <2>1, <2>2, <2>3
<1> QED BY <1>10, <1>11

(* Those keys of a list that are in S.                                     *)
LEMMA ListedEach ==
  ASSUME NEW ks \in Seq(KeyIds), NEW S
  PROVE  \E f : /\ f[0] = <<>> /\ Listed(ks, S) = f[Len(ks)]
                /\ \A i \in 1 .. Len(ks) : f[i] = IF ks[i] \in S THEN Append(f[i - 1], ks[i]) ELSE f[i - 1]
<1> DEFINE O == [p \in Seq(KeyIds) \X KeyIds |-> IF p[2] \in S THEN Append(p[1], p[2]) ELSE p[1]]
           F == CHOOSE f : f = [i \in 0 .. Len(ks) |-> IF i = 0 THEN <<>> ELSE IF ks[i] \in S THEN Append(f[i - 1], ks[i]) ELSE f[i - 1]]
<1>1. O \in [Seq(KeyIds) \X KeyIds -> Seq(KeyIds)]
  OBVIOUS
<1>2. \A d \in Seq(KeyIds), k \in KeyIds : O[<<d, k>>] = IF k \in S THEN Append(d, k) ELSE d
  OBVIOUS
<1>3. PICK f : Runs(f, Seq(KeyIds), ks, <<>>, O)
  <2> HIDE DEF O
  <2>1. <<>> \in Seq(KeyIds)
    OBVIOUS
  <2> QED BY <1>1, <2>1, RunExists
<1>4. \A i \in 1 .. Len(ks) : f[i] = IF ks[i] \in S THEN Append(f[i - 1], ks[i]) ELSE f[i - 1]
  <2>1. TAKE i \in 1 .. Len(ks)
  <2>2. i - 1 \in 0 .. Len(ks) /\ ks[i] \in KeyIds
    OBVIOUS
  <2>3. f[i - 1] \in Seq(KeyIds)
    BY <1>3, <2>2 DEF Runs
  <2> HIDE DEF O
  <2> QED BY <1>2, <1>3, <2>2, <2>3 DEF Runs
<1>5. f = [i \in 0 .. Len(ks) |-> IF i = 0 THEN <<>> ELSE IF ks[i] \in S THEN Append(f[i - 1], ks[i]) ELSE f[i - 1]]
  <2>1. ASSUME NEW i \in 0 .. Len(ks)
        PROVE  f[i] = IF i = 0 THEN <<>> ELSE IF ks[i] \in S THEN Append(f[i - 1], ks[i]) ELSE f[i - 1]
    <3>1. CASE i = 0
      BY <1>3, <3>1 DEF Runs
    <3>2. CASE i # 0
      BY <1>4, <3>2
    <3> QED BY <3>1, <3>2
  <2>2. f \in [0 .. Len(ks) -> Seq(KeyIds)]
    BY <1>3 DEF Runs
  <2> HIDE DEF O, F
  <2> QED BY <2>1, <2>2
<1>6. F = [i \in 0 .. Len(ks) |-> IF i = 0 THEN <<>> ELSE IF ks[i] \in S THEN Append(F[i - 1], ks[i]) ELSE F[i - 1]]
  BY <1>5
<1>7. Listed(ks, S) = F[Len(ks)]
  BY DEF Listed, EachKey
<1>8. PICK h : h = F
  OBVIOUS
<1>9. h = [i \in 0 .. Len(ks) |-> IF i = 0 THEN <<>> ELSE IF ks[i] \in S THEN Append(h[i - 1], ks[i]) ELSE h[i - 1]]
  <2> HIDE DEF F
  <2> QED BY <1>6, <1>8
<1>10. Listed(ks, S) = h[Len(ks)]
  BY <1>7, <1>8
<1>11. h[0] = <<>> /\ \A i \in 1 .. Len(ks) : h[i] = IF ks[i] \in S THEN Append(h[i - 1], ks[i]) ELSE h[i - 1]
  <2> HIDE DEF O, F
  <2>1. \A i \in 0 .. Len(ks) : h[i] = IF i = 0 THEN <<>> ELSE IF ks[i] \in S THEN Append(h[i - 1], ks[i]) ELSE h[i - 1]
    BY <1>9
  <2>2. 0 \in 0 .. Len(ks)
    OBVIOUS
  <2>3. ASSUME NEW i \in 1 .. Len(ks)
        PROVE  h[i] = IF ks[i] \in S THEN Append(h[i - 1], ks[i]) ELSE h[i - 1]
    <3>1. i \in 0 .. Len(ks) /\ i # 0
      OBVIOUS
    <3> QED BY <2>1, <3>1
  <2> QED BY <2>1, <2>2, <2>3
<1> QED BY <1>10, <1>11

-----------------------------------------------------------------------------
(* What a handler makes of a stream with a list of keys.                   *)

(* Lists of different keys, and the keys of the first n.                   *)
Lists == {ks \in Seq(KeyIds) : \A i, j \in 1 .. Len(ks) : ks[i] = ks[j] => i = j}

UpTo(ks, n) == {ks[i] : i \in 1 .. n}

(* The keys of a list up to a position.                                    *)
LEMMA UpToIs ==
  ASSUME NEW ks \in Seq(KeyIds)
  PROVE  /\ UpTo(ks, 0) = {} /\ UpTo(ks, Len(ks)) = KeysIn(ks) /\ KeysIn(ks) \in SUBSET KeyIds
         /\ \A n \in 1 .. Len(ks) : /\ UpTo(ks, n) = UpTo(ks, n - 1) \cup {ks[n]}
                                    /\ ks[n] \in KeyIds /\ ks[n] \in KeysIn(ks)
                                    /\ UpTo(ks, n) \subseteq KeysIn(ks)
         /\ ks \in Lists => \A n \in 1 .. Len(ks) : ks[n] \notin UpTo(ks, n - 1)
<1>1. UpTo(ks, 0) = {} /\ UpTo(ks, Len(ks)) = KeysIn(ks) /\ KeysIn(ks) \in SUBSET KeyIds
  BY DEF UpTo, KeysIn
<1>2. ASSUME NEW n \in 1 .. Len(ks)
      PROVE  /\ UpTo(ks, n) = UpTo(ks, n - 1) \cup {ks[n]}
             /\ ks[n] \in KeyIds /\ ks[n] \in KeysIn(ks)
             /\ UpTo(ks, n) \subseteq KeysIn(ks)
  <2>1. 1 .. n = (1 .. n - 1) \cup {n}
    OBVIOUS
  <2>2. UpTo(ks, n) = UpTo(ks, n - 1) \cup {ks[n]}
    BY <2>1 DEF UpTo
  <2>3. 1 .. n \subseteq DOMAIN ks
    OBVIOUS
  <2> QED BY <2>2, <2>3 DEF UpTo, KeysIn
<1>3. ASSUME ks \in Lists, NEW n \in 1 .. Len(ks)
      PROVE  ks[n] \notin UpTo(ks, n - 1)
  BY <1>3 DEF Lists, UpTo
<1> QED BY <1>1, <1>2, <1>3

(* Tape u is tape t with the material of the keys behind it.               *)
Pours(t, ks, u) ==
  \E st : /\ st \in [0 .. Len(ks) -> Seq(Unit)] /\ st[0] = t /\ st[Len(ks)] = u
          /\ \A i \in 1 .. Len(ks) : st[i] = st[i - 1] \o Material(ks[i])

Begins(t, u) == \E more \in Seq(Unit) : u = t \o more

(* Any keys can be poured on a tape.                                       *)
LEMMA PoursSome ==
  ASSUME NEW t \in Seq(Unit), NEW ks \in Seq(KeyIds)
  PROVE  \E u \in Seq(Unit) : Pours(t, ks, u)
<1> DEFINE O == [p \in Seq(Unit) \X KeyIds |-> p[1] \o Material(p[2])]
<1>1. \A k \in KeyIds : Material(k) \in Seq(Unit)
  BY MaterialIs
<1>2. O \in [Seq(Unit) \X KeyIds -> Seq(Unit)]
  BY <1>1
<1>3. \A s \in Seq(Unit), k \in KeyIds : O[<<s, k>>] = s \o Material(k)
  OBVIOUS
<1>4. PICK st : Runs(st, Seq(Unit), ks, t, O)
  <2> HIDE DEF O
  <2> QED BY <1>2, RunExists
<1>5. ASSUME NEW i \in 1 .. Len(ks)
      PROVE  st[i] = st[i - 1] \o Material(ks[i])
  <2>1. i - 1 \in 0 .. Len(ks) /\ ks[i] \in KeyIds
    OBVIOUS
  <2>2. st[i - 1] \in Seq(Unit)
    BY <1>4, <2>1 DEF Runs
  <2> HIDE DEF O
  <2> QED BY <1>3, <1>4, <2>1, <2>2 DEF Runs
<1>6. st \in [0 .. Len(ks) -> Seq(Unit)] /\ st[0] = t /\ st[Len(ks)] \in Seq(Unit)
  BY <1>4 DEF Runs
<1> QED BY <1>5, <1>6 DEF Pours

(* Being a beginning is reflexive and transitive.                          *)
LEMMA BeginsTrans ==
  ASSUME NEW t \in Seq(Unit), NEW u \in Seq(Unit), NEW w \in Seq(Unit)
  PROVE  Begins(t, t) /\ (Begins(t, u) /\ Begins(u, w) => Begins(t, w))
<1>1. Begins(t, t)
  <2>1. <<>> \in Seq(Unit) /\ t \o <<>> = t
    OBVIOUS
  <2> QED BY <2>1 DEF Begins
<1>2. ASSUME Begins(t, u), Begins(u, w)
      PROVE  Begins(t, w)
  <2>1. PICK x \in Seq(Unit) : u = t \o x
    BY <1>2 DEF Begins
  <2>2. PICK y \in Seq(Unit) : w = u \o y
    BY <1>2 DEF Begins
  <2>3. x \o y \in Seq(Unit) /\ (t \o x) \o y = t \o (x \o y)
    OBVIOUS
  <2> QED BY <2>1, <2>2, <2>3 DEF Begins
<1> QED BY <1>1, <1>2

(* A tape is the beginning of what it is after a fill.                     *)
LEMMA PoursBegins ==
  ASSUME NEW t \in Seq(Unit), NEW ks \in Seq(KeyIds), NEW u, Pours(t, ks, u)
  PROVE  u \in Seq(Unit) /\ Begins(t, u) /\ (ks = <<>> => u = t)
<1>1. PICK st : /\ st \in [0 .. Len(ks) -> Seq(Unit)] /\ st[0] = t /\ st[Len(ks)] = u
                /\ \A i \in 1 .. Len(ks) : st[i] = st[i - 1] \o Material(ks[i])
  BY DEF Pours
<1> DEFINE N == {n \in Nat : n <= Len(ks) => Begins(t, st[n])}
<1>2. 0 \in N
  BY <1>1, BeginsTrans
<1>3. ASSUME NEW n \in Nat, n \in N
      PROVE  n + 1 \in N
  <2>1. SUFFICES ASSUME n + 1 <= Len(ks) PROVE Begins(t, st[n + 1])
    OBVIOUS
  <2>2. n + 1 \in 1 .. Len(ks) /\ n \in 0 .. Len(ks) /\ (n + 1) - 1 = n /\ n + 1 \in 0 .. Len(ks)
    BY <2>1
  <2>3. st[n + 1] = st[n] \o Material(ks[n + 1]) /\ Begins(t, st[n])
    <3>1. st[n + 1] = st[n] \o Material(ks[n + 1])
      BY <1>1, <2>2
    <3>2. Begins(t, st[n])
      BY <1>3, <2>1
    <3> QED BY <3>1, <3>2
  <2>4. Material(ks[n + 1]) \in Seq(Unit)
    BY <2>2, MaterialIs
  <2>5. Begins(st[n], st[n + 1])
    BY <2>3, <2>4 DEF Begins
  <2> QED BY <1>1, <2>2, <2>3, <2>5, BeginsTrans
<1>4. Nat \subseteq N
  <2> HIDE DEF N
  <2> QED BY <1>2, <1>3, NatInd
<1>5. Begins(t, u)
  BY <1>1, <1>4
<1> QED BY <1>1, <1>5

(* The buffer of the side that is asked.                                   *)
LEMMA InsertAll ==
  ASSUME NEW ks \in Seq(KeyIds), NEW c \in StreamType, NEW t \in Seq(Unit), NEW g \in Nat,
         Follows(c, t, g), NEW u, Pours(t, ks, u)
  PROVE  LET d == EachKey(InsertKeyToStreamSession, c, ks)
         IN /\ d \in StreamType /\ Follows(d, u, g)
            /\ d.failed = c.failed /\ d.reserved = c.reserved
            /\ d.nrKeys = c.nrKeys /\ d.nrBits = c.nrBits
<1>1. PICK st : /\ st \in [0 .. Len(ks) -> Seq(Unit)] /\ st[0] = t /\ st[Len(ks)] = u
                /\ \A i \in 1 .. Len(ks) : st[i] = st[i - 1] \o Material(ks[i])
  BY DEF Pours
<1>2. PICK f : /\ f[0] = c /\ EachKey(InsertKeyToStreamSession, c, ks) = f[Len(ks)]
               /\ \A i \in 1 .. Len(ks) : f[i] = InsertKeyToStreamSession(f[i - 1], ks[i])
  <2>1. c \in Streams
    BY DEF Streams
  <2> QED BY <2>1, InsertEach
<1> DEFINE Same(d) == /\ d.failed = c.failed /\ d.reserved = c.reserved
                      /\ d.nrKeys = c.nrKeys /\ d.nrBits = c.nrBits
           N == {n \in Nat : n <= Len(ks) => /\ f[n] \in StreamType /\ Follows(f[n], st[n], g)
                                             /\ Same(f[n])}
<1>3. 0 \in N
  BY <1>1, <1>2
<1>4. ASSUME NEW n \in Nat, n \in N
      PROVE  n + 1 \in N
  <2>1. SUFFICES ASSUME n + 1 <= Len(ks)
                 PROVE  /\ f[n + 1] \in StreamType /\ Follows(f[n + 1], st[n + 1], g)
                        /\ Same(f[n + 1])
    OBVIOUS
  <2>2. n + 1 \in 1 .. Len(ks) /\ n \in 0 .. Len(ks) /\ (n + 1) - 1 = n /\ ks[n + 1] \in KeyIds
    BY <2>1
  <2>3. /\ st[n + 1] = st[n] \o Material(ks[n + 1]) /\ st[n] \in Seq(Unit)
        /\ f[n + 1] = InsertKeyToStreamSession(f[n], ks[n + 1])
    BY <1>1, <1>2, <2>2
  <2>4. f[n] \in StreamType /\ Follows(f[n], st[n], g) /\ Same(f[n])
    BY <1>4, <2>1
  <2> QED BY <2>2, <2>3, <2>4, InsertIs
<1>5. Len(ks) \in N
  <2> HIDE DEF N
  <2>1. Nat \subseteq N
    BY <1>3, <1>4, NatInd
  <2> QED BY <2>1
<1> QED BY <1>1, <1>2, <1>5

(* Fewer keys are covered by the counters of more.                         *)
LEMMA CoveredLess ==
  ASSUME NEW c \in StreamType, Covered(c), NEW d, d.nrKeys = c.nrKeys, d.nrBits = c.nrBits,
         NEW k \in KeyIds, k \in c.reserved, d.reserved = c.reserved \ {k}
  PROVE  /\ Covered(d) /\ c.nrKeys > 0 /\ c.nrBits >= Units[k]
         /\ c.nrKeys - 1 >= Cardinality(d.reserved)
         /\ c.nrBits - Units[k] >= Cardinality(UnitsOf(d.reserved))
<1>1. /\ c.reserved \in SUBSET KeyIds /\ c.nrKeys \in Nat /\ c.nrBits \in Nat
      /\ Units[k] \in Nat \ {0}
  BY MaterialIs DEF StreamType
<1>2. PICK i, j \in Nat :
        /\ i = Cardinality(c.reserved \ {k}) /\ j = Cardinality(UnitsOf(c.reserved \ {k}))
        /\ Cardinality(c.reserved) = i + 1 /\ Cardinality(UnitsOf(c.reserved)) = j + Units[k]
  <2>1. /\ c.reserved \ {k} \in SUBSET KeyIds /\ k \notin c.reserved \ {k}
        /\ (c.reserved \ {k}) \cup {k} = c.reserved
    BY <1>1
  <2> QED BY <2>1, UnitsOfKey
<1>3. c.nrKeys >= i + 1 /\ c.nrBits >= j + Units[k]
  BY <1>2 DEF Covered
<1>4. c.nrKeys > 0 /\ c.nrBits >= Units[k] /\ c.nrKeys - 1 >= i /\ c.nrBits - Units[k] >= j
      /\ c.nrKeys >= i /\ c.nrBits >= j
  BY <1>1, <1>2, <1>3
<1> QED BY <1>2, <1>4 DEF Covered

(* A key that is accepted lengthens the tape by its material.              *)
LEMMA AcceptOne ==
  ASSUME NEW c \in StreamType, NEW t \in Seq(Unit), NEW g \in Nat, Follows(c, t, g),
         NEW k \in KeyIds, k \in c.reserved
  PROVE  LET d == AcceptStreamKey(c, k)
         IN /\ d \in StreamType /\ Follows(d, t \o Material(k), g)
            /\ d.failed = c.failed /\ d.reserved = c.reserved \ {k}
            /\ Covered(c) => Covered(d)
<1>1. PICK e : e = [c EXCEPT !.reserved = @ \ {k}]
  OBVIOUS
<1>2. /\ e \in StreamType /\ e.reserved = c.reserved \ {k} /\ e.failed = c.failed
      /\ e.nrKeys = c.nrKeys /\ e.nrBits = c.nrBits
      /\ e.chunks = c.chunks /\ e.begun = c.begun /\ e.last = c.last /\ e.bits = c.bits
  BY <1>1 DEF StreamType
<1>3. Follows(e, t, g)
  BY <1>2 DEF Follows
<1>4. AcceptStreamKey(c, k) = InsertKeyToStreamSession(e, k)
  BY <1>1 DEF AcceptStreamKey
<1>5. PICK d : d = InsertKeyToStreamSession(e, k)
  OBVIOUS
<1>6. /\ d \in StreamType /\ Follows(d, t \o Material(k), g) /\ d.failed = e.failed
      /\ d.reserved = e.reserved /\ d.nrKeys = e.nrKeys /\ d.nrBits = e.nrBits
  BY <1>2, <1>3, <1>5, InsertIs
<1>7. Covered(c) => Covered(d)
  BY <1>2, <1>6, CoveredLess
<1> QED BY <1>2, <1>4, <1>5, <1>6, <1>7

(* ProcessFillResponse: the keys that are accepted follow into the stream. *)
LEMMA AcceptAll ==
  ASSUME NEW ks \in Lists, NEW c \in StreamType, NEW t \in Seq(Unit), NEW g \in Nat,
         Follows(c, t, g), KeysIn(ks) \subseteq c.reserved, NEW u, Pours(t, ks, u)
  PROVE  LET d == EachKey(AcceptStreamKey, c, ks)
         IN /\ d \in StreamType /\ Follows(d, u, g)
            /\ d.failed = c.failed /\ d.reserved = c.reserved \ KeysIn(ks)
            /\ Covered(c) => Covered(d)
<1>0. ks \in Seq(KeyIds)
  BY DEF Lists
<1>1. PICK st : /\ st \in [0 .. Len(ks) -> Seq(Unit)] /\ st[0] = t /\ st[Len(ks)] = u
                /\ \A i \in 1 .. Len(ks) : st[i] = st[i - 1] \o Material(ks[i])
  BY DEF Pours
<1>2. PICK f : /\ f[0] = c /\ EachKey(AcceptStreamKey, c, ks) = f[Len(ks)]
               /\ \A i \in 1 .. Len(ks) : f[i] = AcceptStreamKey(f[i - 1], ks[i])
  <2>1. c \in Streams
    BY DEF Streams
  <2> QED BY <1>0, <2>1, AcceptEach
<1> DEFINE Good(n) == /\ f[n] \in StreamType /\ Follows(f[n], st[n], g)
                      /\ f[n].failed = c.failed /\ f[n].reserved = c.reserved \ UpTo(ks, n)
                      /\ Covered(c) => Covered(f[n])
           N == {n \in Nat : n <= Len(ks) => Good(n)}
<1>3. 0 \in N
  BY <1>0, <1>1, <1>2, UpToIs
<1>4. ASSUME NEW n \in Nat, n \in N
      PROVE  n + 1 \in N
  <2>1. SUFFICES ASSUME n + 1 <= Len(ks) PROVE Good(n + 1)
    OBVIOUS
  <2>2. n + 1 \in 1 .. Len(ks) /\ n \in 0 .. Len(ks) /\ (n + 1) - 1 = n
    BY <1>0, <2>1
  <2>3. /\ st[n + 1] = st[n] \o Material(ks[n + 1]) /\ st[n] \in Seq(Unit)
        /\ f[n + 1] = AcceptStreamKey(f[n], ks[n + 1])
    BY <1>1, <1>2, <2>2
  <2>4. Good(n)
    BY <1>4, <2>1
  <2>5. /\ UpTo(ks, n + 1) = UpTo(ks, n) \cup {ks[n + 1]} /\ ks[n + 1] \in KeyIds
        /\ ks[n + 1] \in c.reserved /\ ks[n + 1] \notin UpTo(ks, n)
    BY <1>0, <2>2, UpToIs
  <2>6. ks[n + 1] \in f[n].reserved
    BY <2>4, <2>5
  <2>7. /\ f[n + 1] \in StreamType /\ Follows(f[n + 1], st[n + 1], g)
        /\ f[n + 1].failed = f[n].failed /\ f[n + 1].reserved = f[n].reserved \ {ks[n + 1]}
        /\ Covered(f[n]) => Covered(f[n + 1])
    BY <2>3, <2>4, <2>5, <2>6, AcceptOne
  <2> QED BY <2>4, <2>5, <2>7
<1>5. Len(ks) \in N
  <2> HIDE DEF N
  <2>1. Nat \subseteq N
    BY <1>3, <1>4, NatInd
  <2> QED BY <1>0, <2>1
<1> QED BY <1>0, <1>1, <1>2, <1>5, UpToIs

(* What the peer has not listed leaves the reserved keys.                  *)
LEMMA DiscardOne ==
  ASSUME NEW c \in StreamType, NEW t \in Seq(Unit), NEW g \in Nat, Follows(c, t, g),
         NEW k \in KeyIds
  PROVE  LET d == DiscardStreamKey(c, k)
         IN /\ d \in StreamType /\ Follows(d, t, g) /\ c.reserved \ {k} \subseteq d.reserved
            /\ d.reserved \subseteq c.reserved
            /\ k \in c.reserved /\ Covered(c) =>
                 Covered(d) /\ d.failed = c.failed /\ d.reserved = c.reserved \ {k}
<1>1. /\ c.reserved \in SUBSET KeyIds /\ c.nrKeys \in Nat /\ c.nrBits \in Nat
      /\ Units[k] \in Nat \ {0}
  BY MaterialIs DEF StreamType
<1>2. CASE k \in c.reserved /\ c.nrKeys > 0 /\ c.nrBits >= Units[k]
  <2>1. PICK d : d = [c EXCEPT !.reserved = @ \ {k}, !.nrKeys = @ - 1, !.nrBits = @ - Units[k]]
    OBVIOUS
  <2>2. c.nrKeys - 1 \in Nat /\ c.nrBits - Units[k] \in Nat /\ c.reserved \ {k} \in SUBSET KeyIds
    BY <1>1, <1>2
  <2>3. /\ d \in StreamType /\ d.reserved = c.reserved \ {k} /\ d.failed = c.failed
        /\ d.nrKeys = c.nrKeys - 1 /\ d.nrBits = c.nrBits - Units[k]
        /\ d.chunks = c.chunks /\ d.begun = c.begun /\ d.last = c.last /\ d.bits = c.bits
    BY <2>1, <2>2 DEF StreamType
  <2>4. Follows(d, t, g)
    BY <2>3 DEF Follows
  <2>5. Covered(c) => Covered(d)
    <3>1. SUFFICES ASSUME Covered(c) PROVE Covered(d)
      OBVIOUS
    <3>2. PICK e : e = [c EXCEPT !.reserved = @ \ {k}]
      OBVIOUS
    <3>3. e.nrKeys = c.nrKeys /\ e.nrBits = c.nrBits /\ e.reserved = c.reserved \ {k}
      BY <3>2 DEF StreamType
    <3>4. /\ c.nrKeys - 1 >= Cardinality(e.reserved)
          /\ c.nrBits - Units[k] >= Cardinality(UnitsOf(e.reserved))
      BY <1>2, <3>1, <3>3, CoveredLess
    <3> QED BY <2>3, <3>3, <3>4 DEF Covered
  <2>6. DiscardStreamKey(c, k) = d
    BY <1>2, <2>1 DEF DiscardStreamKey
  <2> QED BY <2>3, <2>4, <2>5, <2>6
<1>3. CASE ~(k \in c.reserved /\ c.nrKeys > 0 /\ c.nrBits >= Units[k])
  <2>1. PICK d : d = [c EXCEPT !.failed = TRUE]
    OBVIOUS
  <2>2. /\ d \in StreamType /\ d.reserved = c.reserved
        /\ d.chunks = c.chunks /\ d.begun = c.begun /\ d.last = c.last /\ d.bits = c.bits
    BY <2>1 DEF StreamType
  <2>3. Follows(d, t, g)
    BY <2>2 DEF Follows
  <2>4. k \in c.reserved => ~Covered(c)
    <3>1. SUFFICES ASSUME k \in c.reserved, Covered(c) PROVE FALSE
      OBVIOUS
    <3>2. PICK e : e = [c EXCEPT !.reserved = @ \ {k}]
      OBVIOUS
    <3>3. e.nrKeys = c.nrKeys /\ e.nrBits = c.nrBits /\ e.reserved = c.reserved \ {k}
      BY <3>2 DEF StreamType
    <3>4. c.nrKeys > 0 /\ c.nrBits >= Units[k]
      BY <3>1, <3>3, CoveredLess
    <3> QED BY <1>3, <3>1, <3>4
  <2>5. DiscardStreamKey(c, k) = d
    BY <1>3, <2>1 DEF DiscardStreamKey, StopStream
  <2> QED BY <2>2, <2>3, <2>4, <2>5
<1> QED BY <1>2, <1>3

(* Keys that are not listed leave the tape as it is.                       *)
LEMMA DiscardAll ==
  ASSUME NEW ks \in Seq(KeyIds), NEW c \in StreamType, NEW t \in Seq(Unit), NEW g \in Nat,
         Follows(c, t, g)
  PROVE  LET d == EachKey(DiscardStreamKey, c, ks)
         IN /\ d \in StreamType /\ Follows(d, t, g) /\ c.reserved \ KeysIn(ks) \subseteq d.reserved
            /\ d.reserved \subseteq c.reserved
            /\ ks \in Lists /\ KeysIn(ks) \subseteq c.reserved /\ Covered(c) =>
                 Covered(d) /\ d.failed = c.failed /\ d.reserved = c.reserved \ KeysIn(ks)
<1>1. c \in Streams
  BY DEF Streams
<1>2. PICK f : /\ f[0] = c /\ EachKey(DiscardStreamKey, c, ks) = f[Len(ks)]
               /\ \A i \in 1 .. Len(ks) : f[i] = DiscardStreamKey(f[i - 1], ks[i])
  BY <1>1, DiscardEach
<1> DEFINE Sure == ks \in Lists /\ KeysIn(ks) \subseteq c.reserved /\ Covered(c)
           Good(n) == /\ f[n] \in StreamType /\ Follows(f[n], t, g)
                      /\ c.reserved \ UpTo(ks, n) \subseteq f[n].reserved
                      /\ f[n].reserved \subseteq c.reserved
                      /\ Sure => /\ Covered(f[n]) /\ f[n].failed = c.failed
                                 /\ f[n].reserved = c.reserved \ UpTo(ks, n)
           N == {n \in Nat : n <= Len(ks) => Good(n)}
<1>3. 0 \in N
  BY <1>2, UpToIs
<1>4. ASSUME NEW n \in Nat, n \in N
      PROVE  n + 1 \in N
  <2>1. SUFFICES ASSUME n + 1 <= Len(ks) PROVE Good(n + 1)
    OBVIOUS
  <2>2. n + 1 \in 1 .. Len(ks) /\ n \in 0 .. Len(ks) /\ (n + 1) - 1 = n
    BY <2>1
  <2>3. f[n + 1] = DiscardStreamKey(f[n], ks[n + 1])
    BY <1>2, <2>2
  <2>4. Good(n)
    BY <1>4, <2>1
  <2>5. /\ UpTo(ks, n + 1) = UpTo(ks, n) \cup {ks[n + 1]} /\ ks[n + 1] \in KeyIds
        /\ ks[n + 1] \in KeysIn(ks)
        /\ ks \in Lists => ks[n + 1] \notin UpTo(ks, n)
    BY <2>2, UpToIs
  <2>6. PICK d : d = f[n + 1]
    OBVIOUS
  <2>7. /\ d \in StreamType /\ Follows(d, t, g) /\ f[n].reserved \ {ks[n + 1]} \subseteq d.reserved
        /\ d.reserved \subseteq f[n].reserved
        /\ ks[n + 1] \in f[n].reserved /\ Covered(f[n]) =>
             Covered(d) /\ d.failed = f[n].failed /\ d.reserved = f[n].reserved \ {ks[n + 1]}
    <3>1. f[n] \in StreamType /\ Follows(f[n], t, g)
      BY <2>4
    <3> HIDE DEF Good
    <3> QED BY <2>3, <2>5, <2>6, <3>1, DiscardOne
  <2>8. ASSUME Sure
        PROVE  Covered(d) /\ d.failed = c.failed /\ d.reserved = c.reserved \ UpTo(ks, n + 1)
    <3>1. Covered(f[n]) /\ f[n].failed = c.failed /\ f[n].reserved = c.reserved \ UpTo(ks, n)
      BY <2>4, <2>8
    <3>2. ks[n + 1] \in f[n].reserved
      BY <2>5, <2>8, <3>1
    <3> QED BY <2>5, <2>7, <3>1, <3>2
  <2>9. c.reserved \ UpTo(ks, n + 1) \subseteq d.reserved /\ d.reserved \subseteq c.reserved
    BY <2>4, <2>5, <2>7
  <2> HIDE DEF Sure
  <2> QED BY <2>6, <2>7, <2>8, <2>9
<1>5. Good(Len(ks))
  <2>1. Len(ks) \in N
    <3> HIDE DEF N
    <3>1. Nat \subseteq N
      BY <1>3, <1>4, NatInd
    <3> QED BY <3>1
  <2> QED BY <2>1
<1>6. UpTo(ks, Len(ks)) = KeysIn(ks)
  BY UpToIs
<1>7. PICK d : d = f[Len(ks)] /\ d = EachKey(DiscardStreamKey, c, ks)
  BY <1>2
<1>8. /\ d \in StreamType /\ Follows(d, t, g) /\ c.reserved \ KeysIn(ks) \subseteq d.reserved
      /\ d.reserved \subseteq c.reserved
      /\ Sure => Covered(d) /\ d.failed = c.failed /\ d.reserved = c.reserved \ KeysIn(ks)
  BY <1>5, <1>6, <1>7
<1> HIDE DEF Good, N
<1> QED BY <1>7, <1>8

(* Fill reserves the keys.                                                 *)
LEMMA ReserveOne ==
  ASSUME NEW c \in StreamType, NEW t \in Seq(Unit), NEW g \in Nat, Follows(c, t, g),
         NEW k \in KeyIds
  PROVE  LET d == ReserveStreamKey(c, k)
         IN /\ d \in StreamType /\ Follows(d, t, g) /\ d.reserved = c.reserved \cup {k}
            /\ d.failed = c.failed
            /\ k \notin c.reserved /\ Covered(c) => Covered(d)
<1>1. /\ c.reserved \in SUBSET KeyIds /\ c.nrKeys \in Nat /\ c.nrBits \in Nat
      /\ Units[k] \in Nat \ {0}
  BY MaterialIs DEF StreamType
<1>2. PICK d : d = [c EXCEPT !.reserved = @ \cup {k}, !.nrKeys = @ + 1, !.nrBits = @ + Units[k]]
  OBVIOUS
<1>3. c.nrKeys + 1 \in Nat /\ c.nrBits + Units[k] \in Nat /\ c.reserved \cup {k} \in SUBSET KeyIds
  BY <1>1
<1>4. /\ d \in StreamType /\ d.reserved = c.reserved \cup {k} /\ d.failed = c.failed
      /\ d.nrKeys = c.nrKeys + 1 /\ d.nrBits = c.nrBits + Units[k]
      /\ d.chunks = c.chunks /\ d.begun = c.begun /\ d.last = c.last /\ d.bits = c.bits
  BY <1>2, <1>3 DEF StreamType
<1>5. Follows(d, t, g)
  BY <1>4 DEF Follows
<1>6. ASSUME k \notin c.reserved, Covered(c)
      PROVE  Covered(d)
  <2>0. PICK K : K = c.reserved
    OBVIOUS
  <2>1. PICK i, j \in Nat : /\ i = Cardinality(c.reserved) /\ j = Cardinality(UnitsOf(c.reserved))
                            /\ Cardinality(d.reserved) = i + 1
                            /\ Cardinality(UnitsOf(d.reserved)) = j + Units[k]
    <3>1. K \in SUBSET KeyIds /\ k \notin K
      BY <1>1, <1>6, <2>0
    <3>2. PICK i, j \in Nat : /\ i = Cardinality(K) /\ j = Cardinality(UnitsOf(K))
                              /\ Cardinality(K \cup {k}) = i + 1
                              /\ Cardinality(UnitsOf(K \cup {k})) = j + Units[k]
      BY <3>1, UnitsOfKey
    <3> QED BY <1>4, <2>0, <3>2
  <2>2. c.nrKeys >= i /\ c.nrBits >= j
    BY <1>6, <2>1 DEF Covered
  <2>3. d.nrKeys >= i + 1 /\ d.nrBits >= j + Units[k]
    BY <1>1, <1>4, <2>2
  <2> QED BY <2>1, <2>3 DEF Covered
<1> QED BY <1>2, <1>4, <1>5, <1>6 DEF ReserveStreamKey

(* Keys that are reserved leave the tape as it is.                         *)
LEMMA ReserveAll ==
  ASSUME NEW ks \in Seq(KeyIds), NEW c \in StreamType, NEW t \in Seq(Unit), NEW g \in Nat,
         Follows(c, t, g)
  PROVE  LET d == EachKey(ReserveStreamKey, c, ks)
         IN /\ d \in StreamType /\ Follows(d, t, g) /\ d.reserved = c.reserved \cup KeysIn(ks)
            /\ d.failed = c.failed
            /\ ks \in Lists /\ KeysIn(ks) \cap c.reserved = {} /\ Covered(c) => Covered(d)
<1>1. c \in Streams
  BY DEF Streams
<1>2. PICK f : /\ f[0] = c /\ EachKey(ReserveStreamKey, c, ks) = f[Len(ks)]
               /\ \A i \in 1 .. Len(ks) : f[i] = ReserveStreamKey(f[i - 1], ks[i])
  BY <1>1, ReserveEach
<1> DEFINE Sure == ks \in Lists /\ KeysIn(ks) \cap c.reserved = {} /\ Covered(c)
           Good(n) == /\ f[n] \in StreamType /\ Follows(f[n], t, g)
                      /\ f[n].reserved = c.reserved \cup UpTo(ks, n) /\ f[n].failed = c.failed
                      /\ Sure => Covered(f[n])
           N == {n \in Nat : n <= Len(ks) => Good(n)}
<1>3. 0 \in N
  BY <1>2, UpToIs
<1>4. ASSUME NEW n \in Nat, n \in N
      PROVE  n + 1 \in N
  <2>1. SUFFICES ASSUME n + 1 <= Len(ks) PROVE Good(n + 1)
    OBVIOUS
  <2>2. n + 1 \in 1 .. Len(ks) /\ n \in 0 .. Len(ks) /\ (n + 1) - 1 = n
    BY <2>1
  <2>3. f[n + 1] = ReserveStreamKey(f[n], ks[n + 1])
    BY <1>2, <2>2
  <2>4. Good(n)
    BY <1>4, <2>1
  <2>5. /\ UpTo(ks, n + 1) = UpTo(ks, n) \cup {ks[n + 1]} /\ ks[n + 1] \in KeyIds
        /\ ks[n + 1] \in KeysIn(ks)
        /\ ks \in Lists => ks[n + 1] \notin UpTo(ks, n)
    BY <2>2, UpToIs
  <2>6. PICK d : d = f[n + 1]
    OBVIOUS
  <2>7. /\ d \in StreamType /\ Follows(d, t, g) /\ d.reserved = f[n].reserved \cup {ks[n + 1]}
        /\ d.failed = f[n].failed
        /\ ks[n + 1] \notin f[n].reserved /\ Covered(f[n]) => Covered(d)
    <3>1. f[n] \in StreamType /\ Follows(f[n], t, g)
      BY <2>4
    <3> HIDE DEF Good
    <3> QED BY <2>3, <2>5, <2>6, <3>1, ReserveOne
  <2>8. ASSUME Sure
        PROVE  Covered(d)
    <3>1. Covered(f[n]) /\ f[n].reserved = c.reserved \cup UpTo(ks, n)
      BY <2>4, <2>8
    <3>2. ks[n + 1] \notin f[n].reserved
      BY <2>5, <2>8, <3>1
    <3> QED BY <2>7, <3>1, <3>2
  <2>9. d.reserved = c.reserved \cup UpTo(ks, n + 1) /\ d.failed = c.failed
    BY <2>4, <2>5, <2>7
  <2> HIDE DEF Sure
  <2> QED BY <2>6, <2>7, <2>8, <2>9
<1>5. Good(Len(ks))
  <2>1. Len(ks) \in N
    <3> HIDE DEF N
    <3>1. Nat \subseteq N
      BY <1>3, <1>4, NatInd
    <3> QED BY <3>1
  <2> QED BY <2>1
<1>6. UpTo(ks, Len(ks)) = KeysIn(ks)
  BY UpToIs
<1>7. PICK d : d = f[Len(ks)] /\ d = EachKey(ReserveStreamKey, c, ks)
  BY <1>2
<1>8. /\ d \in StreamType /\ Follows(d, t, g) /\ d.reserved = c.reserved \cup KeysIn(ks)
      /\ d.failed = c.failed
      /\ Sure => Covered(d)
  BY <1>5, <1>6, <1>7
<1> HIDE DEF Good, N
<1> QED BY <1>7, <1>8

(* The keys of a list that are in a set.                                   *)
LEMMA ListedIs ==
  ASSUME NEW ks \in Lists, NEW S
  PROVE  Listed(ks, S) \in Lists /\ KeysIn(Listed(ks, S)) = KeysIn(ks) \cap S
<1>1. ks \in Seq(KeyIds) /\ <<>> \in Seq(KeyIds)
  BY DEF Lists
<1>2. PICK f : /\ f[0] = <<>> /\ Listed(ks, S) = f[Len(ks)]
               /\ \A i \in 1 .. Len(ks) :
                    f[i] = IF ks[i] \in S THEN Append(f[i - 1], ks[i]) ELSE f[i - 1]
  BY <1>1, ListedEach
<1> DEFINE Good(n) == f[n] \in Lists /\ KeysIn(f[n]) = UpTo(ks, n) \cap S
           N == {n \in Nat : n <= Len(ks) => Good(n)}
<1>3. 0 \in N
  <2>1. <<>> \in Lists /\ KeysIn(<<>>) = {}
    BY DEF Lists, KeysIn
  <2> QED BY <1>1, <1>2, <2>1, UpToIs
<1>4. ASSUME NEW n \in Nat, n \in N
      PROVE  n + 1 \in N
  <2>1. SUFFICES ASSUME n + 1 <= Len(ks) PROVE Good(n + 1)
    OBVIOUS
  <2>2. n + 1 \in 1 .. Len(ks) /\ (n + 1) - 1 = n
    BY <1>1, <2>1
  <2>3. f[n + 1] = IF ks[n + 1] \in S THEN Append(f[n], ks[n + 1]) ELSE f[n]
    BY <1>2, <2>2
  <2>4. Good(n)
    BY <1>4, <2>1
  <2>5. /\ UpTo(ks, n + 1) = UpTo(ks, n) \cup {ks[n + 1]} /\ ks[n + 1] \in KeyIds
        /\ ks[n + 1] \notin UpTo(ks, n)
    BY <1>1, <2>2, UpToIs
  <2>6. CASE ks[n + 1] \notin S
    BY <2>3, <2>4, <2>5, <2>6
  <2>7. CASE ks[n + 1] \in S
    <3>1. PICK s, k : s = f[n] /\ k = ks[n + 1]
      OBVIOUS
    <3>2. s \in Seq(KeyIds) /\ k \in KeyIds /\ k \notin KeysIn(s) /\ KeysIn(s) = UpTo(ks, n) \cap S
      BY <2>4, <2>5, <3>1 DEF Lists
    <3>3. /\ Append(s, k) \in Seq(KeyIds) /\ Len(Append(s, k)) = Len(s) + 1
          /\ \A i \in 1 .. Len(s) : Append(s, k)[i] = s[i]
          /\ Append(s, k)[Len(s) + 1] = k
      BY <3>2
    <3>4. \A i \in 1 .. Len(s) : s[i] \in KeysIn(s)
      BY <3>2 DEF KeysIn
    <3>5. ASSUME NEW i \in 1 .. Len(s) + 1, NEW j \in 1 .. Len(s) + 1,
                 Append(s, k)[i] = Append(s, k)[j]
          PROVE  i = j
      <4>1. CASE i <= Len(s) /\ j <= Len(s)
        BY <2>4, <3>1, <3>3, <3>5, <4>1 DEF Lists
      <4>2. CASE i = Len(s) + 1 \/ j = Len(s) + 1
        BY <3>2, <3>3, <3>4, <3>5, <4>2
      <4> QED BY <3>2, <4>1, <4>2
    <3>6. Append(s, k) \in Lists
      BY <3>3, <3>5 DEF Lists
    <3>7. KeysIn(Append(s, k)) = KeysIn(s) \cup {k}
      <4>1. DOMAIN Append(s, k) = 1 .. Len(s) + 1 /\ DOMAIN s = 1 .. Len(s)
        BY <3>2
      <4> QED BY <3>2, <3>3, <4>1 DEF KeysIn
    <3> QED BY <2>3, <2>5, <2>7, <3>1, <3>2, <3>6, <3>7
  <2> QED BY <2>6, <2>7
<1>5. Good(Len(ks))
  <2>1. Len(ks) \in N
    <3> HIDE DEF N
    <3>1. Nat \subseteq N
      BY <1>3, <1>4, NatInd
    <3> QED BY <1>1, <3>1
  <2> QED BY <2>1
<1> QED BY <1>1, <1>2, <1>5, UpToIs

-----------------------------------------------------------------------------
(* The link.  Its parts are stated of a value w with the variables as      *)
(* fields, because one step of the master may make several changes.        *)

Sides == {"A", "B", "none"}

Asks   == [type : {"new_app", "new_app_ok", "register", "register_ok"}, ksid : Ksids]
Fills  == [type : {"fill"}, ksid : Ksids, keys : Lists]
Founds == [type : {"filled"}, keys : Lists]
Closes == [type : {"close"}, ksid : Ksids, surplus : Sides, sync : Nat]
Ended  == [type : {"closed"}, ksid : Ksids, surplus : Sides, flag : BOOLEAN, sync : Nat]

Mail == Asks \cup Fills \cup Founds \cup Closes \cup Ended

Association == [open : BOOLEAN, peerRegistered : BOOLEAN, buf : StreamType]

KmsOf(x) ==
  [ q : SUBSET KeyIds, assoc : [Ksids -> Association], checks : SUBSET Ksids,
    looks : SUBSET Ksids, releases : SUBSET [ksid : Ksids, surplus : Sides, sync : Nat],
    query : Seq(Mail), back : {x.back}, failed : {"no", "fatal", "undefined"} ]

Shaped(w) ==
  /\ w.kms = [n \in Node |-> w.kms[n]] /\ \A n \in Node : w.kms[n] \in KmsOf(w.kms[n])
  /\ w.net \in [Node -> Seq(Mail)]
  /\ w.app \in [Node -> [Ksids -> {"none", "open", "closed", "ignored"}]]
  /\ w.given \in [Node -> [Ksids -> Seq(GivenChunks)]]
  /\ w.stored \in [Node -> SUBSET KeyIds] /\ w.kms["A"].q \subseteq w.stored["A"]

(* Only the master fills.                                                  *)
OneSided(w) ==
  /\ w.kms["B"].looks = {}
  /\ \A i \in 1 .. Len(w.kms["B"].query) : w.kms["B"].query[i].type # "fill"
  /\ \A i \in 1 .. Len(w.net["A"]) : w.net["A"][i].type # "fill"
  /\ \A i \in 1 .. Len(w.net["B"]) : w.net["B"][i].type # "filled"

(* The keys of a fill have left the QBuffer of the master, each for one    *)
(* fill, and wait in the stream of its session until they are answered.    *)
Gone(w) == w.stored["A"] \ w.kms["A"].q

Waits(x, i, gone) ==
  LET r == x.query[i]
  IN /\ KeysIn(r.keys) \subseteq gone
     /\ x.assoc[r.ksid].open => KeysIn(r.keys) \subseteq x.assoc[r.ksid].buf.reserved
     /\ \A j \in 1 .. Len(x.query) :
          j # i /\ x.query[j].type = "fill" => KeysIn(r.keys) \cap KeysIn(x.query[j].keys) = {}

Waiting(w) ==
  /\ \A i \in 1 .. Len(w.kms["A"].query) :
       w.kms["A"].query[i].type = "fill" => Waits(w.kms["A"], i, Gone(w))
  /\ \A n \in Node : \A i \in 1 .. Len(w.net[n]) :
       w.net[n][i].type \in {"fill", "filled"} => KeysIn(w.net[n][i].keys) \subseteq Gone(w)

(* A session is created once at each end.  It is fresh until it is at the  *)
(* second one, and no key has been asked for it.                           *)
Replica(s) == Peer(Primary[s])

Fresh(w, s) ==
  \/ w.app[Primary[s]][s] = "none"
  \/ \E i \in 1 .. Len(w.net[Replica(s)]) : w.net[Replica(s)][i] = Ask("new_app", s)

Unheard(ns, s) ==
  /\ \A i \in 1 .. Len(ns["B"]) : ns["B"][i].type = "fill" => ns["B"][i].ksid # s
  /\ \A i \in 1 .. Len(ns["A"]) : ns["A"][i].type = "register" => ns["A"][i].ksid # s

Untouched(w, s) ==
  /\ ~w.kms[Replica(s)].assoc[s].open
  /\ ~(w.kms["A"].assoc[s].open /\ w.kms["A"].assoc[s].peerRegistered)
  /\ \A i \in 1 .. Len(w.kms["A"].query) :
       w.kms["A"].query[i].type = "fill" => w.kms["A"].query[i].ksid # s
  /\ Unheard(w.net, s)

OnceIn(ns, ap, n, i) ==
  LET s == ns[n][i].ksid
  IN /\ s \in Ksids /\ n = Replica(s) /\ ap[Primary[s]][s] # "none"
     /\ \A j \in 1 .. Len(ns[n]) : ns[n][j] = ns[n][i] => j = i

OnceNew(w, n, i) == OnceIn(w.net, w.app, n, i)

Creation(w) ==
  /\ \A n \in Node : \A i \in 1 .. Len(w.net[n]) :
       w.net[n][i].type = "new_app" => OnceNew(w, n, i)
  /\ \A s \in Ksids : Fresh(w, s) => Untouched(w, s)

(* The stream of an association follows its tape; what the application has *)
(* got are the first chunks of it.                                         *)
Told(a, t, g) ==
  /\ At(Len(g)) <= Len(t)
  /\ \A i \in 1 .. Len(g) : g[i] = [index |-> i - 1, key |-> PieceAt(t, i - 1)]
  /\ a.open => Follows(a.buf, t, Len(g))
  /\ ~a.open => a.buf = EmptyStream

(* What a message on its way to the master will pour into session s.       *)
Share(own, s, m) ==
  IF m.type = "filled" /\ m.keys # <<>> /\ own[m.keys[1]] = s THEN m.keys ELSE <<>>

(* With the answers on their way the tape of the master is that of the     *)
(* slave.                                                                  *)
Linked(own, s, t, u, ms) ==
  \E st : /\ st \in [0 .. Len(ms) -> Seq(Unit)] /\ st[0] = t /\ st[Len(ms)] = u
          /\ \A i \in 1 .. Len(ms) : Pours(st[i - 1], Share(own, s, ms[i]), st[i])

(* The keys of a fill are for the session it names.                        *)
Claimed(own, ms) ==
  \A i \in 1 .. Len(ms) : ms[i].type = "fill" => \A k \in KeysIn(ms[i].keys) : own[k] = ms[i].ksid

Tapes(w, own, tape) ==
  /\ own = [k \in KeyIds |-> own[k]] /\ tape \in [Node -> [Ksids -> Seq(Unit)]]
  /\ \A n \in Node, s \in Ksids : Told(w.kms[n].assoc[s], tape[n][s], w.given[n][s])
  /\ \A s \in Ksids : Begins(tape["A"][s], tape["B"][s])
  /\ w.kms["A"].failed = "no" =>
       \A s \in Ksids : Linked(own, s, tape["A"][s], tape["B"][s], w.net["A"])
  /\ \A s \in Ksids : Fresh(w, s) => tape["A"][s] = <<>> /\ tape["B"][s] = <<>>
  /\ Claimed(own, w.kms["A"].query) /\ Claimed(own, w.net["B"])

Streaming(w) ==
  /\ Shaped(w) /\ OneSided(w) /\ Waiting(w) /\ Creation(w)
  /\ \E own, tape : Tapes(w, own, tape)

-----------------------------------------------------------------------------
(* Changes that leave the streams alone.                                   *)

(* The messages by their type.                                             *)
LEMMA MailIs ==
  ASSUME NEW m \in Mail
  PROVE  /\ m.type \in {"new_app", "new_app_ok", "register", "register_ok", "fill", "filled",
                        "close", "closed"}
         /\ m.type \in {"fill", "filled"} => m.keys \in Lists
         /\ m.type # "filled" => m.ksid \in Ksids
         /\ m.type = "fill" => m \in Fills
         /\ m.type = "close" => m \in Closes
         /\ m.type = "closed" => m \in Ended
         /\ m.type \in {"new_app", "new_app_ok", "register", "register_ok"} => m = Ask(m.type, m.ksid)
  BY DEF Mail, Asks, Fills, Founds, Closes, Ended, Ask

(* The two ends and the two roles of a session.                            *)
LEMMA NodeIs ==
  /\ Node = {"A", "B"} /\ Peer("A") = "B" /\ Peer("B") = "A"
  /\ \A n \in Node : Peer(n) \in Node /\ Peer(Peer(n)) = n /\ Peer(n) # n
  /\ \A s \in Ksids : Primary[s] \in Node /\ Replica(s) \in Node /\ Replica(s) # Primary[s]
  BY Link004Assumption DEF Node, Peer, Replica

(* Messages leave: what is at an end of v was there in w.                  *)
Fewer(w, v) ==
  \A m \in Node : \A i \in 1 .. Len(v.net[m]) : \E k \in 1 .. Len(w.net[m]) : v.net[m][i] = w.net[m][k]

(* The first message of end n leaves.                                      *)
Pops(w, v, n) ==
  /\ \A m \in Node : w.net[m] \in Seq(Mail)
  /\ w.net[n] # <<>> /\ v.net[n] = Tail(w.net[n]) /\ \A m \in Node : m # n => v.net[m] = w.net[m]

(* Then message i of m was message i + D[m].                               *)
Shift(w, v, n, D) ==
  /\ D \in [Node -> {0, 1}] /\ D[n] = 1
  /\ \A m \in Node : \A i \in 1 .. Len(v.net[m]) :
       i + D[m] \in 1 .. Len(w.net[m]) /\ v.net[m][i] = w.net[m][i + D[m]]

(* A shift only loses messages.                                            *)
LEMMA ShiftFewer ==
  ASSUME NEW w, NEW v, NEW n, NEW D, Shift(w, v, n, D)
  PROVE  Fewer(w, v)
  BY DEF Shift, Fewer

(* OneSided is about the messages and what B looks up and queries.         *)
LEMMA OneSidedSame ==
  ASSUME NEW w, NEW v, OneSided(w), v.net = w.net,
         v.kms["B"].looks = w.kms["B"].looks, v.kms["B"].query = w.kms["B"].query
  PROVE  OneSided(v)
  BY DEF OneSided

(* It survives the loss of messages.                                       *)
LEMMA OneSidedFewer ==
  ASSUME NEW w, NEW v, OneSided(w), Fewer(w, v),
         v.kms["B"].looks = w.kms["B"].looks, v.kms["B"].query = w.kms["B"].query
  PROVE  OneSided(v)
<1>1. "A" \in Node /\ "B" \in Node
  BY NodeIs
<1>2. \A i \in 1 .. Len(v.net["A"]) : v.net["A"][i].type # "fill"
  BY <1>1 DEF OneSided, Fewer
<1>3. \A i \in 1 .. Len(v.net["B"]) : v.net["B"][i].type # "filled"
  BY <1>1 DEF OneSided, Fewer
<1> QED BY <1>2, <1>3 DEF OneSided

(* OnceNew is about the messages and the applications, only.               *)
LEMMA OnceNewSame ==
  ASSUME NEW w, NEW v, NEW n, NEW i, OnceNew(w, n, i), v.net = w.net, v.app = w.app
  PROVE  OnceNew(v, n, i)
  BY DEF OnceNew

(* A session nobody was told of stays so when messages leave.              *)
LEMMA UnheardFewer ==
  ASSUME NEW w, NEW v, NEW s, Unheard(w.net, s), Fewer(w, v)
  PROVE  Unheard(v.net, s)
<1>1. \A n \in {"A", "B"} : \A i \in 1 .. Len(v.net[n]) :
        \E k \in 1 .. Len(w.net[n]) : v.net[n][i] = w.net[n][k]
  BY NodeIs DEF Fewer
<1>2. PICK a, b, c, d : a = v.net["A"] /\ b = v.net["B"] /\ c = w.net["A"] /\ d = w.net["B"]
  OBVIOUS
<1>3. /\ \A i \in 1 .. Len(a) : \E k \in 1 .. Len(c) : a[i] = c[k]
      /\ \A i \in 1 .. Len(b) : \E k \in 1 .. Len(d) : b[i] = d[k]
  BY <1>1, <1>2
<1>4. /\ \A i \in 1 .. Len(d) : d[i].type = "fill" => d[i].ksid # s
      /\ \A i \in 1 .. Len(c) : c[i].type = "register" => c[i].ksid # s
  BY <1>2 DEF Unheard
<1>5. /\ \A i \in 1 .. Len(b) : b[i].type = "fill" => b[i].ksid # s
      /\ \A i \in 1 .. Len(a) : a[i].type = "register" => a[i].ksid # s
  BY <1>3, <1>4
<1> QED BY <1>2, <1>5 DEF Unheard

(* A session stays untouched: the end it is missing at does not open it,   *)
(* and that of the master is not registered.                               *)
LEMMA UntouchedSame ==
  ASSUME NEW w, NEW v, NEW s, Untouched(w, s), Unheard(v.net, s),
         v.kms["A"].query = w.kms["A"].query,
         v.kms[Replica(s)].assoc[s].open => w.kms[Replica(s)].assoc[s].open,
         v.kms["A"].assoc[s].open /\ v.kms["A"].assoc[s].peerRegistered =>
           w.kms["A"].assoc[s].open /\ w.kms["A"].assoc[s].peerRegistered
  PROVE  Untouched(v, s)
  BY DEF Untouched

(* The KMS of one end changes, the fills it has asked for may be forgotten *)
(* from the first on, and a session may end.                               *)
Barred(w, n, s) == n = "A" /\ Fresh(w, s)

Calm(w, n, z) ==
  LET x == w.kms[n]
  IN /\ z.q = x.q /\ (n = "B" => z.looks = {})
     /\ x.failed # "no" => z.failed # "no"
     /\ \E d \in Nat : \A i \in 1 .. Len(z.query) :
          z.query[i].type = "fill" => i + d \in 1 .. Len(x.query) /\ x.query[i + d] = z.query[i]
     /\ \A s \in Ksids :
          /\ z.assoc[s].open => x.assoc[s].open /\ z.assoc[s].buf = x.assoc[s].buf
          /\ ~z.assoc[s].open => z.assoc[s].buf = EmptyStream
          /\ z.assoc[s].open /\ z.assoc[s].peerRegistered =>
               x.assoc[s].peerRegistered \/ ~Barred(w, n, s)

(* A KMS that changes neither tape nor keys keeps the invariant.           *)
LEMMA CalmKeeps ==
  ASSUME NEW w, Streaming(w), NEW n \in Node, NEW z, z \in KmsOf(z), Calm(w, n, z), NEW v,
         v.kms = [w.kms EXCEPT ![n] = z], v.net = w.net, v.app = w.app,
         v.given = w.given, v.stored = w.stored
  PROVE  Streaming(v)
<1>1. PICK own, tape : Tapes(w, own, tape)
  BY DEF Streaming
<1>2. PICK x : x = w.kms[n] /\ x \in KmsOf(x)
  BY DEF Streaming, Shaped
<1>3. /\ Shaped(w) /\ OneSided(w) /\ Waiting(w) /\ Creation(w)
  BY DEF Streaming
<1>4. /\ v.kms[n] = z /\ \A m \in Node : m # n => v.kms[m] = w.kms[m]
      /\ v.kms = [m \in Node |-> v.kms[m]]
  BY <1>3 DEF Shaped
<1>5. PICK d \in Nat : \A i \in 1 .. Len(z.query) :
        z.query[i].type = "fill" => i + d \in 1 .. Len(x.query) /\ x.query[i + d] = z.query[i]
  BY <1>2 DEF Calm
<1>6. /\ z.q = x.q /\ (n = "B" => z.looks = {}) /\ (x.failed # "no" => z.failed # "no")
      /\ \A s \in Ksids :
          /\ z.assoc[s].open => x.assoc[s].open /\ z.assoc[s].buf = x.assoc[s].buf
          /\ ~z.assoc[s].open => z.assoc[s].buf = EmptyStream
          /\ z.assoc[s].open /\ z.assoc[s].peerRegistered =>
               x.assoc[s].peerRegistered \/ ~Barred(w, n, s)
  BY <1>2 DEF Calm
<1>7. \A s \in Ksids : Fresh(v, s) <=> Fresh(w, s)
  BY DEF Fresh
<1>8. Gone(v) = Gone(w) /\ v.kms["A"].q = w.kms["A"].q
  BY <1>2, <1>4, <1>6, NodeIs DEF Gone
<1>9. Shaped(v)
  <2>1. \A m \in Node : v.kms[m] \in KmsOf(v.kms[m])
    BY <1>3, <1>4 DEF Shaped
  <2> QED BY <1>3, <1>4, <1>8, <2>1 DEF Shaped
<1>10. OneSided(v)
  <2>1. CASE n = "A"
    BY <1>3, <1>4, <2>1, NodeIs DEF OneSided
  <2>2. CASE n = "B"
    BY <1>2, <1>3, <1>4, <1>5, <1>6, <2>2 DEF OneSided
  <2> QED BY <2>1, <2>2, NodeIs
<1>11. Waiting(v)
  <2>1. CASE n = "B"
    BY <1>3, <1>4, <1>8, <2>1, NodeIs DEF Waiting
  <2>2. CASE n = "A"
    <3>1. ASSUME NEW i \in 1 .. Len(z.query), z.query[i].type = "fill"
          PROVE  Waits(z, i, Gone(v))
      <4>1. /\ i + d \in 1 .. Len(x.query) /\ x.query[i + d] = z.query[i]
            /\ Waits(x, i + d, Gone(w))
        BY <1>2, <1>3, <1>5, <2>2, <3>1 DEF Waiting
      <4>2. PICK r : r = z.query[i]
        OBVIOUS
      <4>3. r \in Mail /\ r.ksid \in Ksids
        <5>1. z.query \in Seq(Mail)
          BY DEF KmsOf
        <5> QED BY <3>1, <4>2, <5>1, MailIs
      <4>4. KeysIn(r.keys) \subseteq Gone(v)
        BY <1>8, <4>1, <4>2 DEF Waits
      <4>5. z.assoc[r.ksid].open => KeysIn(r.keys) \subseteq z.assoc[r.ksid].buf.reserved
        BY <1>6, <4>1, <4>2, <4>3 DEF Waits
      <4>6. ASSUME NEW j \in 1 .. Len(z.query), j # i, z.query[j].type = "fill"
            PROVE  KeysIn(r.keys) \cap KeysIn(z.query[j].keys) = {}
        <5>1. j + d \in 1 .. Len(x.query) /\ x.query[j + d] = z.query[j] /\ j + d # i + d
          BY <1>5, <4>6
        <5> QED BY <4>1, <4>2, <4>6, <5>1 DEF Waits
      <4> QED BY <4>2, <4>4, <4>5, <4>6 DEF Waits
    <3> QED BY <1>3, <1>4, <1>8, <2>2, <3>1 DEF Waiting
  <2> QED BY <2>1, <2>2, NodeIs
<1>12. Creation(v)
  <2>1. ASSUME NEW m \in Node, NEW i \in 1 .. Len(v.net[m]), v.net[m][i].type = "new_app"
        PROVE  OnceNew(v, m, i)
    <3>1. OnceNew(w, m, i)
      BY <1>3, <2>1 DEF Creation
    <3> QED BY <3>1, OnceNewSame
  <2>2. ASSUME NEW s \in Ksids, Fresh(v, s)
        PROVE  Untouched(v, s)
    <3>1. Untouched(w, s) /\ Fresh(w, s)
      BY <1>3, <1>7, <2>2 DEF Creation
    <3>2. ~v.kms[Replica(s)].assoc[s].open
      BY <1>2, <1>4, <1>6, <3>1, NodeIs DEF Untouched, Unheard
    <3>3. ~(v.kms["A"].assoc[s].open /\ v.kms["A"].assoc[s].peerRegistered)
      BY <1>2, <1>4, <1>6, <3>1, NodeIs DEF Untouched, Unheard, Barred
    <3>4. ASSUME NEW i \in 1 .. Len(v.kms["A"].query), v.kms["A"].query[i].type = "fill"
          PROVE  v.kms["A"].query[i].ksid # s
      <4>1. CASE n = "A"
        <5>1. v.kms["A"] = z /\ w.kms["A"] = x
          BY <1>2, <1>4, <4>1
        <5>2. i + d \in 1 .. Len(x.query) /\ x.query[i + d] = z.query[i]
          BY <1>5, <3>4, <5>1
        <5>3. \A j \in 1 .. Len(x.query) : x.query[j].type = "fill" => x.query[j].ksid # s
          BY <3>1, <5>1 DEF Untouched, Unheard
        <5> QED BY <3>4, <5>1, <5>2, <5>3
      <4>2. CASE n # "A"
        BY <1>4, <3>1, <3>4, <4>2, NodeIs DEF Untouched, Unheard
      <4> QED BY <4>1, <4>2
    <3> QED BY <3>1, <3>2, <3>3, <3>4 DEF Untouched, Unheard
  <2> QED BY <2>1, <2>2 DEF Creation
<1>13. Tapes(v, own, tape)
  <2>1. ASSUME NEW m \in Node, NEW s \in Ksids
        PROVE  Told(v.kms[m].assoc[s], tape[m][s], v.given[m][s])
    <3>1. Told(w.kms[m].assoc[s], tape[m][s], w.given[m][s])
      BY <1>1 DEF Tapes
    <3>2. CASE m # n
      BY <1>4, <3>1, <3>2
    <3>3. CASE m = n
      <4>1. v.kms[m] = z /\ w.kms[m] = x
        BY <1>2, <1>4, <3>3
      <4>2. PICK b, a, t, g : b = z.assoc[s] /\ a = x.assoc[s] /\ t = tape[m][s] /\ g = v.given[m][s]
        OBVIOUS
      <4>3. Told(a, t, g)
        BY <3>1, <4>1, <4>2
      <4>4. (b.open => a.open /\ b.buf = a.buf) /\ (~b.open => b.buf = EmptyStream)
        BY <1>6, <4>2
      <4>5. Told(b, t, g)
        BY <4>3, <4>4 DEF Told
      <4> QED BY <4>1, <4>2, <4>5
    <3> QED BY <3>2, <3>3
  <2>2. Claimed(own, v.kms["A"].query)
    <3>1. CASE n = "A"
      <4>1. v.kms["A"] = z /\ w.kms["A"] = x
        BY <1>2, <1>4, <3>1
      <4>2. Claimed(own, x.query)
        BY <1>1, <4>1 DEF Tapes
      <4>3. ASSUME NEW i \in 1 .. Len(z.query), z.query[i].type = "fill"
            PROVE  \A k \in KeysIn(z.query[i].keys) : own[k] = z.query[i].ksid
        <5>1. i + d \in 1 .. Len(x.query) /\ x.query[i + d] = z.query[i]
          BY <1>5, <4>3
        <5> QED BY <4>2, <4>3, <5>1 DEF Claimed
      <4> QED BY <4>1, <4>3 DEF Claimed
    <3>2. CASE n # "A"
      BY <1>1, <1>4, <3>2, NodeIs DEF Tapes
    <3> QED BY <3>1, <3>2
  <2>3. v.kms["A"].failed = "no" => w.kms["A"].failed = "no"
    BY <1>2, <1>4, <1>6, NodeIs
  <2> QED BY <1>1, <1>7, <2>1, <2>2, <2>3 DEF Tapes
<1> QED BY <1>9, <1>10, <1>11, <1>12, <1>13 DEF Streaming

-----------------------------------------------------------------------------
(* Messages                                                                *)

(* An empty fill leaves the tape as it is.                                 *)
LEMMA PoursNone ==
  ASSUME NEW t \in Seq(Unit)
  PROVE  Pours(t, <<>>, t)
<1>1. PICK st : st = [i \in 0 .. 0 |-> t]
  OBVIOUS
<1>2. st \in [0 .. Len(<<>>) -> Seq(Unit)] /\ st[0] = t /\ st[Len(<<>>)] = t
  BY <1>1
<1>3. \A i \in 1 .. Len(<<>>) : st[i] = st[i - 1] \o Material(<<>>[i])
  OBVIOUS
<1> QED BY <1>2, <1>3 DEF Pours

(* The first message on the way is read: its keys are poured.              *)
LEMMA LinkedTail ==
  ASSUME NEW own, NEW s, NEW t \in Seq(Unit), NEW u, NEW ms \in Seq(Mail), ms # <<>>,
         Linked(own, s, t, u, ms)
  PROVE  \E t2 \in Seq(Unit) : Pours(t, Share(own, s, Head(ms)), t2) /\ Linked(own, s, t2, u, Tail(ms))
<1>1. PICK st : /\ st \in [0 .. Len(ms) -> Seq(Unit)] /\ st[0] = t /\ st[Len(ms)] = u
                /\ \A i \in 1 .. Len(ms) : Pours(st[i - 1], Share(own, s, ms[i]), st[i])
  BY DEF Linked
<1>2. PICK n \in Nat : Len(ms) = n + 1
  <2>1. Len(ms) \in Nat /\ Len(ms) # 0
    OBVIOUS
  <2> QED BY <2>1
<1>3. Len(Tail(ms)) = n /\ (\A i \in 1 .. n : Tail(ms)[i] = ms[i + 1]) /\ Head(ms) = ms[1]
  BY <1>2
<1>4. PICK h : h = [i \in 0 .. n |-> st[i + 1]]
  OBVIOUS
<1>5. h \in [0 .. n -> Seq(Unit)] /\ h[0] = st[1] /\ h[n] = u /\ st[1] \in Seq(Unit)
  BY <1>1, <1>2, <1>4
<1>6. ASSUME NEW i \in 1 .. n
      PROVE  Pours(h[i - 1], Share(own, s, Tail(ms)[i]), h[i])
  <2>1. h[i - 1] = st[i] /\ h[i] = st[i + 1] /\ Tail(ms)[i] = ms[i + 1]
    BY <1>3, <1>4
  <2>2. i + 1 \in 1 .. Len(ms) /\ (i + 1) - 1 = i
    BY <1>2
  <2> QED BY <1>1, <2>1, <2>2
<1>7. Linked(own, s, st[1], u, Tail(ms))
  BY <1>3, <1>5, <1>6 DEF Linked
<1>8. Pours(t, Share(own, s, Head(ms)), st[1])
  <2>1. 1 \in 1 .. Len(ms) /\ 1 - 1 = 0
    BY <1>2
  <2> QED BY <1>1, <1>3, <2>1
<1> QED BY <1>5, <1>7, <1>8

(* A message is sent: the slave has poured what it lists.                  *)
LEMMA LinkedMore ==
  ASSUME NEW own, NEW s, NEW t, NEW u, NEW ms \in Seq(Mail), NEW m, Linked(own, s, t, u, ms),
         NEW u2 \in Seq(Unit), Pours(u, Share(own, s, m), u2)
  PROVE  Linked(own, s, t, u2, Append(ms, m))
<1>1. PICK st : /\ st \in [0 .. Len(ms) -> Seq(Unit)] /\ st[0] = t /\ st[Len(ms)] = u
                /\ \A i \in 1 .. Len(ms) : Pours(st[i - 1], Share(own, s, ms[i]), st[i])
  BY DEF Linked
<1>2. PICK n \in Nat : n = Len(ms)
  OBVIOUS
<1>3. /\ Len(Append(ms, m)) = n + 1 /\ Append(ms, m)[n + 1] = m
      /\ \A i \in 1 .. n : Append(ms, m)[i] = ms[i]
  BY <1>2
<1>4. PICK h : h = [i \in 0 .. n + 1 |-> IF i = n + 1 THEN u2 ELSE st[i]]
  OBVIOUS
<1>5. h \in [0 .. n + 1 -> Seq(Unit)] /\ h[0] = t /\ h[n + 1] = u2 /\ h[n] = u
  BY <1>1, <1>2, <1>4
<1>6. ASSUME NEW i \in 1 .. n + 1
      PROVE  Pours(h[i - 1], Share(own, s, Append(ms, m)[i]), h[i])
  <2>1. CASE i = n + 1
    <3>1. h[i - 1] = u /\ h[i] = u2 /\ Append(ms, m)[i] = m
      BY <1>3, <1>5, <2>1
    <3> QED BY <3>1
  <2>2. CASE i # n + 1
    <3>1. i \in 1 .. n /\ i - 1 \in 0 .. n
      BY <2>2
    <3>2. h[i - 1] = st[i - 1] /\ h[i] = st[i] /\ Append(ms, m)[i] = ms[i]
      BY <1>3, <1>4, <3>1
    <3> QED BY <1>1, <1>2, <3>1, <3>2
  <2> QED BY <2>1, <2>2
<1> QED BY <1>3, <1>5, <1>6 DEF Linked

(* Linked looks at the shares of the messages only.                        *)
LEMMA LinkedSame ==
  ASSUME NEW own, NEW own2, NEW s, NEW t, NEW u, NEW ms \in Seq(Mail), Linked(own, s, t, u, ms),
         \A i \in 1 .. Len(ms) : Share(own2, s, ms[i]) = Share(own, s, ms[i])
  PROVE  Linked(own2, s, t, u, ms)
  BY DEF Linked

(* A list without its first element.                                       *)
LEMMA TailIs ==
  ASSUME NEW T, NEW ms \in Seq(T), ms # <<>>
  PROVE  /\ Tail(ms) \in Seq(T) /\ Head(ms) = ms[1] /\ 1 \in 1 .. Len(ms) /\ Head(ms) \in T
         /\ Len(ms) \in Nat \ {0} /\ Len(Tail(ms)) = Len(ms) - 1
         /\ \A i \in 1 .. Len(Tail(ms)) : i + 1 \in 1 .. Len(ms) /\ Tail(ms)[i] = ms[i + 1]
  OBVIOUS

(* The first message of one end leaves.                                    *)
LEMMA TailShift ==
  ASSUME NEW w, NEW v, NEW n \in Node, Pops(w, v, n)
  PROVE  \E D : Shift(w, v, n, D)
<1>0. /\ \A m \in Node : w.net[m] \in Seq(Mail)
      /\ w.net[n] # <<>> /\ v.net[n] = Tail(w.net[n]) /\ \A m \in Node : m # n => v.net[m] = w.net[m]
  BY DEF Pops
<1>1. PICK D : D = [m \in Node |-> IF m = n THEN 1 ELSE 0]
  OBVIOUS
<1>2. D \in [Node -> {0, 1}] /\ D[n] = 1
  BY <1>1
<1>3. ASSUME NEW m \in Node, NEW i \in 1 .. Len(v.net[m])
      PROVE  i + D[m] \in 1 .. Len(w.net[m]) /\ v.net[m][i] = w.net[m][i + D[m]]
  <2>1. CASE m = n
    <3>1. PICK ms : ms = w.net[m] /\ ms \in Seq(Mail) /\ ms # <<>>
      BY <1>0, <2>1
    <3>2. D[m] = 1 /\ v.net[m] = Tail(ms)
      BY <1>0, <1>1, <2>1, <3>1
    <3>3. \A j \in 1 .. Len(Tail(ms)) : j + 1 \in 1 .. Len(ms) /\ Tail(ms)[j] = ms[j + 1]
      BY <3>1, TailIs
    <3>4. i \in 1 .. Len(Tail(ms))
      BY <3>2
    <3>5. i + 1 \in 1 .. Len(ms) /\ Tail(ms)[i] = ms[i + 1]
      BY <3>3, <3>4
    <3> QED BY <3>1, <3>2, <3>5
  <2>2. CASE m # n
    <3>1. D[m] = 0 /\ v.net[m] = w.net[m] /\ i \in 1 .. Len(w.net[m]) /\ i + 0 = i
      BY <1>0, <1>1, <2>2
    <3> QED BY <3>1
  <2> QED BY <2>1, <2>2
<1>4. Shift(w, v, n, D)
  BY <1>2, <1>3 DEF Shift
<1> QED BY <1>4

(* A list with one more element.                                           *)
LEMMA AppendIs ==
  ASSUME NEW T, NEW ms \in Seq(T), NEW m \in T
  PROVE  /\ Append(ms, m) \in Seq(T) /\ ms \o <<m>> = Append(ms, m)
         /\ Len(ms) \in Nat /\ Len(Append(ms, m)) = Len(ms) + 1
         /\ Len(ms) + 1 \in 1 .. Len(Append(ms, m)) /\ Append(ms, m)[Len(ms) + 1] = m
         /\ \A i \in 1 .. Len(ms) : i \in 1 .. Len(Append(ms, m)) /\ Append(ms, m)[i] = ms[i]
         /\ \A i \in 1 .. Len(Append(ms, m)) : i \in 1 .. Len(ms) \/ i = Len(ms) + 1
  OBVIOUS

(* The first message leaves a connection.                                  *)
LEMMA PopKeeps ==
  ASSUME NEW w, Streaming(w), NEW n \in Node, w.net[n] # <<>>,
         n = "A" /\ Head(w.net[n]).type = "filled" => w.kms["A"].failed # "no",
         NEW v, v.net = [w.net EXCEPT ![n] = Tail(@)],
         v.kms = w.kms, v.app = w.app, v.given = w.given, v.stored = w.stored
  PROVE  Streaming(v)
<1>1. PICK own, tape : Tapes(w, own, tape)
  BY DEF Streaming
<1>2. /\ Shaped(w) /\ OneSided(w) /\ Waiting(w) /\ Creation(w)
  BY DEF Streaming
<1>3. \A m \in Node : w.net[m] \in Seq(Mail)
  BY <1>2 DEF Shaped
<1>4. v.net[n] = Tail(w.net[n]) /\ (\A m \in Node : m # n => v.net[m] = w.net[m])
      /\ v.net \in [Node -> Seq(Mail)]
  <2>1. Tail(w.net[n]) \in Seq(Mail)
    BY <1>3, TailIs
  <2> QED BY <1>2, <2>1 DEF Shaped
<1>5a. PICK D : Shift(w, v, n, D)
  <2>1. Pops(w, v, n)
    BY <1>3, <1>4 DEF Pops
  <2> QED BY <2>1, TailShift
<1>5. /\ D \in [Node -> {0, 1}]
      /\ \A m \in Node : \A i \in 1 .. Len(v.net[m]) :
           i + D[m] \in 1 .. Len(w.net[m]) /\ v.net[m][i] = w.net[m][i + D[m]]
  BY <1>5a DEF Shift
<1>6a. Fewer(w, v)
  BY <1>5a, ShiftFewer
<1>6. \A m \in Node : \A i \in 1 .. Len(v.net[m]) : \E k \in 1 .. Len(w.net[m]) : v.net[m][i] = w.net[m][k]
  BY <1>6a DEF Fewer
<1>7. "A" \in Node /\ "B" \in Node
  BY DEF Node
<1>8. Gone(v) = Gone(w)
  BY DEF Gone
<1>9. \A s \in Ksids : Fresh(v, s) => Fresh(w, s)
  <2> SUFFICES ASSUME NEW s \in Ksids, Fresh(v, s) PROVE Fresh(w, s)
    OBVIOUS
  <2>1. CASE v.app[Primary[s]][s] = "none"
    BY <2>1 DEF Fresh
  <2>2. CASE \E i \in 1 .. Len(v.net[Replica(s)]) : v.net[Replica(s)][i] = Ask("new_app", s)
    BY <1>5, <2>2, NodeIs DEF Fresh
  <2> QED BY <2>1, <2>2 DEF Fresh
<1>10. Shaped(v)
  BY <1>2, <1>4 DEF Shaped
<1>11. OneSided(v)
  BY <1>2, <1>6a, OneSidedFewer
<1>12. Waiting(v)
  <2>1. ASSUME NEW m \in Node, NEW i \in 1 .. Len(v.net[m]), v.net[m][i].type \in {"fill", "filled"}
        PROVE  KeysIn(v.net[m][i].keys) \subseteq Gone(v)
    BY <1>2, <1>5, <1>8, <2>1 DEF Waiting
  <2> QED BY <1>2, <1>8, <2>1 DEF Waiting
<1>13. Creation(v)
  <2>1. ASSUME NEW m \in Node, NEW i \in 1 .. Len(v.net[m]), v.net[m][i].type = "new_app"
        PROVE  OnceNew(v, m, i)
    <3>1. PICK k : k = i + D[m]
      OBVIOUS
    <3>2. k \in 1 .. Len(w.net[m]) /\ v.net[m][i] = w.net[m][k] /\ OnceNew(w, m, k)
      BY <1>2, <1>5, <2>1, <3>1 DEF Creation
    <3>3. ASSUME NEW j \in 1 .. Len(v.net[m]), v.net[m][j] = v.net[m][i]
          PROVE  j = i
      <4>1. j + D[m] \in 1 .. Len(w.net[m]) /\ w.net[m][j + D[m]] = w.net[m][k]
        BY <1>5, <3>2, <3>3
      <4>2. j + D[m] = k
        BY <3>2, <4>1 DEF OnceNew, OnceIn
      <4>3. D[m] \in {0, 1} /\ j + D[m] = i + D[m]
        BY <1>5, <3>1, <4>2
      <4> QED BY <4>3
    <3> QED BY <3>2, <3>3 DEF OnceNew, OnceIn
  <2>2. ASSUME NEW s \in Ksids, Fresh(v, s)
        PROVE  Untouched(v, s)
    <3>1. Untouched(w, s)
      BY <1>2, <1>9, <2>2 DEF Creation
    <3>2. Unheard(w.net, s)
      BY <3>1 DEF Untouched
    <3>3. Unheard(v.net, s)
      BY <1>6a, <3>2, UnheardFewer
    <3> QED BY <3>1, <3>3, UntouchedSame
  <2> QED BY <2>1, <2>2 DEF Creation
<1>14. Tapes(v, own, tape)
  <2>1. Claimed(own, v.net["B"])
    <3>1. Claimed(own, w.net["B"])
      BY <1>1 DEF Tapes
    <3>2. ASSUME NEW i \in 1 .. Len(v.net["B"]), v.net["B"][i].type = "fill",
                 NEW k \in KeysIn(v.net["B"][i].keys)
          PROVE  own[k] = v.net["B"][i].ksid
      <4>1. PICK j \in 1 .. Len(w.net["B"]) : v.net["B"][i] = w.net["B"][j]
        BY <1>6, <1>7
      <4> QED BY <3>1, <3>2, <4>1 DEF Claimed
    <3> QED BY <3>2 DEF Claimed
  <2>2. ASSUME v.kms["A"].failed = "no", NEW s \in Ksids
        PROVE  Linked(own, s, tape["A"][s], tape["B"][s], v.net["A"])
    <3>1. Linked(own, s, tape["A"][s], tape["B"][s], w.net["A"])
      BY <1>1, <2>2 DEF Tapes
    <3>2. CASE n # "A"
      BY <1>4, <3>1, <3>2, NodeIs
    <3>3. CASE n = "A"
      <4>1. tape["A"][s] \in Seq(Unit) /\ w.net["A"] \in Seq(Mail)
        BY <1>1, <1>3, NodeIs DEF Tapes
      <4>2. Share(own, s, Head(w.net["A"])) = <<>>
        BY <2>2, <3>3 DEF Share
      <4>5. w.net["A"] # <<>>
        BY <3>3
      <4>3. PICK t2 \in Seq(Unit) : /\ Pours(tape["A"][s], <<>>, t2)
                                    /\ Linked(own, s, t2, tape["B"][s], Tail(w.net["A"]))
        <5> DEFINE ms == w.net["A"]
                   t  == tape["A"][s]
                   u  == tape["B"][s]
        <5>1. ms \in Seq(Mail) /\ ms # <<>> /\ t \in Seq(Unit) /\ Linked(own, s, t, u, ms)
              /\ Share(own, s, Head(ms)) = <<>>
          BY <3>1, <4>1, <4>2, <4>5
        <5> HIDE DEF ms, t, u
        <5>2. \E t2 \in Seq(Unit) : Pours(t, Share(own, s, Head(ms)), t2) /\ Linked(own, s, t2, u, Tail(ms))
          BY <5>1, LinkedTail
        <5>3. \E t2 \in Seq(Unit) : Pours(t, <<>>, t2) /\ Linked(own, s, t2, u, Tail(ms))
          BY <5>1, <5>2
        <5> QED BY <5>3 DEF ms, t, u
      <4>4. t2 = tape["A"][s]
        <5>1. <<>> \in Seq(KeyIds)
          OBVIOUS
        <5> QED BY <4>1, <4>3, <5>1, PoursBegins
      <4> QED BY <1>4, <3>3, <4>3, <4>4
    <3> QED BY <3>2, <3>3
  <2> QED BY <1>1, <1>9, <2>1, <2>2 DEF Tapes
<1> QED BY <1>10, <1>11, <1>12, <1>13, <1>14 DEF Streaming

(* A message that carries no keys and creates nothing is sent.             *)
Plain(w, n, m) ==
  /\ m \in Mail /\ m.type \in {"new_app_ok", "register", "register_ok", "close", "closed"}
  /\ n = "A" /\ m.type = "register" => ~Fresh(w, m.ksid)

(* A message that says nothing of keys keeps the invariant.                *)
LEMMA SendKeeps ==
  ASSUME NEW w, Streaming(w), NEW n \in Node, NEW m, Plain(w, n, m),
         NEW v, v.net = [w.net EXCEPT ![n] = Append(@, m)],
         v.kms = w.kms, v.app = w.app, v.given = w.given, v.stored = w.stored
  PROVE  Streaming(v)
<1>1. PICK own, tape : Tapes(w, own, tape)
  BY DEF Streaming
<1>2. /\ Shaped(w) /\ OneSided(w) /\ Waiting(w) /\ Creation(w)
  BY DEF Streaming
<1>3. \A l \in Node : w.net[l] \in Seq(Mail)
  BY <1>2 DEF Shaped
<1>4. v.net[n] = Append(w.net[n], m) /\ (\A l \in Node : l # n => v.net[l] = w.net[l])
      /\ v.net \in [Node -> Seq(Mail)]
  <2>1. Append(w.net[n], m) \in Seq(Mail)
    BY <1>3, AppendIs DEF Plain
  <2> QED BY <1>2, <2>1 DEF Shaped
<1>5. "A" \in Node /\ "B" \in Node
  BY DEF Node
<1>6. /\ m \in Mail /\ m.type \in {"new_app_ok", "register", "register_ok", "close", "closed"}
      /\ n = "A" /\ m.type = "register" => ~Fresh(w, m.ksid)
  BY DEF Plain
<1>7. ASSUME NEW l \in Node, NEW i \in 1 .. Len(v.net[l])
      PROVE  \/ i \in 1 .. Len(w.net[l]) /\ v.net[l][i] = w.net[l][i]
             \/ l = n /\ v.net[l][i] = m
  <2>1. CASE l = n
    <3>1. PICK ms : ms = w.net[l] /\ ms \in Seq(Mail)
      BY <1>3
    <3>2. PICK e : e = v.net[l][i]
      OBVIOUS
    <3>4. i \in 1 .. Len(Append(ms, m)) /\ e = Append(ms, m)[i]
      BY <1>4, <2>1, <3>1, <3>2
    <3>3. (i \in 1 .. Len(ms) /\ e = ms[i]) \/ e = m
      BY <1>6, <3>1, <3>4, AppendIs
    <3> QED BY <2>1, <3>1, <3>2, <3>3
  <2>2. CASE l # n
    BY <1>4, <2>2
  <2> QED BY <2>1, <2>2
<1>8. Gone(v) = Gone(w)
  BY DEF Gone
<1>9. \A s \in Ksids : Fresh(v, s) => Fresh(w, s)
  <2> SUFFICES ASSUME NEW s \in Ksids, Fresh(v, s) PROVE Fresh(w, s)
    OBVIOUS
  <2>1. CASE v.app[Primary[s]][s] = "none"
    BY <2>1 DEF Fresh
  <2>2. CASE \E i \in 1 .. Len(v.net[Replica(s)]) : v.net[Replica(s)][i] = Ask("new_app", s)
    <3>1. PICK i \in 1 .. Len(v.net[Replica(s)]) : v.net[Replica(s)][i] = Ask("new_app", s)
      BY <2>2
    <3>2. Ask("new_app", s) # m /\ Replica(s) \in Node
      BY <1>6, NodeIs DEF Ask
    <3>3. i \in 1 .. Len(w.net[Replica(s)]) /\ w.net[Replica(s)][i] = Ask("new_app", s)
      BY <1>7, <3>1, <3>2
    <3> QED BY <3>3 DEF Fresh
  <2> QED BY <2>1, <2>2 DEF Fresh
<1>10. Shaped(v)
  BY <1>2, <1>4 DEF Shaped
<1>11. OneSided(v)
  <2>1. \A i \in 1 .. Len(v.net["A"]) : v.net["A"][i].type # "fill"
    BY <1>2, <1>5, <1>6, <1>7 DEF OneSided
  <2>2. \A i \in 1 .. Len(v.net["B"]) : v.net["B"][i].type # "filled"
    BY <1>2, <1>5, <1>6, <1>7 DEF OneSided
  <2> QED BY <1>2, <2>1, <2>2 DEF OneSided
<1>12. Waiting(v)
  <2>1. ASSUME NEW l \in Node, NEW i \in 1 .. Len(v.net[l]), v.net[l][i].type \in {"fill", "filled"}
        PROVE  KeysIn(v.net[l][i].keys) \subseteq Gone(v)
    <3>1. i \in 1 .. Len(w.net[l]) /\ v.net[l][i] = w.net[l][i]
      BY <1>6, <1>7, <2>1
    <3> QED BY <1>2, <1>8, <2>1, <3>1 DEF Waiting
  <2> QED BY <1>2, <1>8, <2>1 DEF Waiting
<1>13. Creation(v)
  <2>1. ASSUME NEW l \in Node, NEW i \in 1 .. Len(v.net[l]), v.net[l][i].type = "new_app"
        PROVE  OnceNew(v, l, i)
    <3>1. i \in 1 .. Len(w.net[l]) /\ v.net[l][i] = w.net[l][i]
      BY <1>6, <1>7, <2>1
    <3>2. OnceNew(w, l, i)
      BY <1>2, <2>1, <3>1 DEF Creation
    <3>3. ASSUME NEW j \in 1 .. Len(v.net[l]), v.net[l][j] = v.net[l][i]
          PROVE  j = i
      <4>1. j \in 1 .. Len(w.net[l]) /\ w.net[l][j] = w.net[l][i]
        BY <1>6, <1>7, <2>1, <3>1, <3>3
      <4> QED BY <3>2, <4>1 DEF OnceNew, OnceIn
    <3> QED BY <3>1, <3>2, <3>3 DEF OnceNew, OnceIn
  <2>2. ASSUME NEW s \in Ksids, Fresh(v, s)
        PROVE  Untouched(v, s)
    <3>1. Untouched(w, s) /\ Fresh(w, s)
      BY <1>2, <1>9, <2>2 DEF Creation
    <3>2. \A i \in 1 .. Len(v.net["B"]) : v.net["B"][i].type = "fill" => v.net["B"][i].ksid # s
      BY <1>5, <1>6, <1>7, <3>1 DEF Untouched, Unheard
    <3>3. ASSUME NEW i \in 1 .. Len(v.net["A"]), v.net["A"][i].type = "register"
          PROVE  v.net["A"][i].ksid # s
      <4>1. CASE i \in 1 .. Len(w.net["A"]) /\ v.net["A"][i] = w.net["A"][i]
        BY <3>1, <3>3, <4>1 DEF Untouched, Unheard
      <4>2. CASE n = "A" /\ v.net["A"][i] = m
        BY <1>6, <3>1, <3>3, <4>2
      <4> QED BY <1>5, <1>7, <4>1, <4>2
    <3>4. Unheard(v.net, s)
      BY <3>2, <3>3 DEF Unheard
    <3> QED BY <3>1, <3>4, UntouchedSame
  <2> QED BY <2>1, <2>2 DEF Creation
<1>14. Tapes(v, own, tape)
  <2>1. Claimed(own, v.net["B"])
    <3>1. Claimed(own, w.net["B"])
      BY <1>1 DEF Tapes
    <3>2. ASSUME NEW i \in 1 .. Len(v.net["B"]), v.net["B"][i].type = "fill",
                 NEW k \in KeysIn(v.net["B"][i].keys)
          PROVE  own[k] = v.net["B"][i].ksid
      <4>1. i \in 1 .. Len(w.net["B"]) /\ v.net["B"][i] = w.net["B"][i]
        BY <1>5, <1>6, <1>7, <3>2
      <4> QED BY <3>1, <3>2, <4>1 DEF Claimed
    <3> QED BY <3>2 DEF Claimed
  <2>2. ASSUME v.kms["A"].failed = "no", NEW s \in Ksids
        PROVE  Linked(own, s, tape["A"][s], tape["B"][s], v.net["A"])
    <3>1. Linked(own, s, tape["A"][s], tape["B"][s], w.net["A"])
      BY <1>1, <2>2 DEF Tapes
    <3>2. CASE n # "A"
      BY <1>4, <1>5, <3>1, <3>2
    <3>3. CASE n = "A"
      <4>1. tape["B"][s] \in Seq(Unit) /\ w.net["A"] \in Seq(Mail)
        BY <1>1, <1>3, <1>5 DEF Tapes
      <4>2. Share(own, s, m) = <<>>
        BY <1>6 DEF Share
      <4> DEFINE ms == w.net["A"]
                 t  == tape["A"][s]
                 u  == tape["B"][s]
      <4>3. ms \in Seq(Mail) /\ u \in Seq(Unit) /\ Linked(own, s, t, u, ms)
        BY <3>1, <4>1
      <4> HIDE DEF ms, t, u
      <4>4. Linked(own, s, t, u, Append(ms, m))
        BY <4>2, <4>3, PoursNone, LinkedMore
      <4> QED BY <1>4, <3>3, <4>4 DEF ms, t, u
    <3> QED BY <3>2, <3>3
  <2> QED BY <1>1, <1>9, <2>1, <2>2 DEF Tapes
<1> QED BY <1>10, <1>11, <1>12, <1>13, <1>14 DEF Streaming

World(k, c, a, g, d) == [kms |-> k, net |-> c, app |-> a, given |-> g, stored |-> d]

(* Only the applications may differ.                                       *)
SameLink(w, v) == v.kms = w.kms /\ v.net = w.net /\ v.given = w.given /\ v.stored = w.stored

(* An application moves on, other than to open a new session.              *)
LEMMA AppKeeps ==
  ASSUME NEW w, Streaming(w), NEW v,
         v.app \in [Node -> [Ksids -> {"none", "open", "closed", "ignored"}]],
         \A s \in Ksids : v.app[Primary[s]][s] = "none" <=> w.app[Primary[s]][s] = "none",
         SameLink(w, v)
  PROVE  Streaming(v)
<1>0. v.kms = w.kms /\ v.net = w.net /\ v.given = w.given /\ v.stored = w.stored
  BY DEF SameLink
<1>1. PICK own, tape : Tapes(w, own, tape)
  BY DEF Streaming
<1>2. /\ Shaped(w) /\ OneSided(w) /\ Waiting(w) /\ Creation(w)
  BY DEF Streaming
<1>3. \A s \in Ksids : Fresh(v, s) <=> Fresh(w, s)
  BY <1>0 DEF Fresh
<1>4. Gone(v) = Gone(w)
  BY <1>0 DEF Gone
<1>5. Shaped(v)
  BY <1>0, <1>2 DEF Shaped
<1>6. OneSided(v)
  BY <1>0, <1>2, OneSidedSame
<1>7. Waiting(v)
  BY <1>0, <1>2, <1>4 DEF Waiting
<1>8. Creation(v)
  <2>1. ASSUME NEW m \in Node, NEW i \in 1 .. Len(v.net[m]), v.net[m][i].type = "new_app"
        PROVE  OnceNew(v, m, i)
    <3>1. OnceNew(w, m, i)
      BY <1>0, <1>2, <2>1 DEF Creation
    <3>2. PICK ns, ap, bp : ns = w.net /\ ap = w.app /\ bp = v.app
      OBVIOUS
    <3>3. OnceIn(ns, ap, m, i) /\ \A s \in Ksids : bp[Primary[s]][s] = "none" <=> ap[Primary[s]][s] = "none"
      BY <3>1, <3>2 DEF OnceNew
    <3>4. OnceIn(ns, bp, m, i)
      BY <3>3 DEF OnceIn
    <3> QED BY <1>0, <3>2, <3>4 DEF OnceNew
  <2>2. ASSUME NEW s \in Ksids, Fresh(v, s)
        PROVE  Untouched(v, s)
    <3>1. Untouched(w, s)
      BY <1>2, <1>3, <2>2 DEF Creation
    <3>2. Unheard(v.net, s)
      BY <1>0, <3>1 DEF Untouched
    <3> QED BY <1>0, <3>1, <3>2, UntouchedSame
  <2> QED BY <2>1, <2>2 DEF Creation
<1>9. Tapes(v, own, tape)
  BY <1>0, <1>1, <1>3 DEF Tapes
<1> QED BY <1>5, <1>6, <1>7, <1>8, <1>9 DEF Streaming

(* A handler or a call that leaves the streams alone.                      *)
Harmless(w, n, o) ==
  /\ o.kms \in KmsOf(o.kms) /\ Calm(w, n, o.kms)
  /\ o.sends = <<>> \/ \E m : o.sends = <<m>> /\ Plain(w, Peer(n), m)

(* One end of the link comes to outcome o.                                 *)
Steps(w, n, o, v) ==
  /\ v.kms = [w.kms EXCEPT ![n] = o.kms] /\ v.net = [w.net EXCEPT ![Peer(n)] = @ \o o.sends]
  /\ v.app = w.app /\ v.given = w.given /\ v.stored = w.stored

(* A harmless step of a KMS keeps the invariant.                           *)
LEMMA StepKeeps ==
  ASSUME NEW w, Streaming(w), NEW n \in Node, NEW o, Harmless(w, n, o), NEW v, Steps(w, n, o, v)
  PROVE  Streaming(v)
<1> DEFINE w1 == World(v.kms, w.net, w.app, w.given, w.stored)
<1>1. Streaming(w1)
  <2>1. /\ w1.kms = [w.kms EXCEPT ![n] = o.kms] /\ w1.net = w.net /\ w1.app = w.app
        /\ w1.given = w.given /\ w1.stored = w.stored
    BY DEF World, Steps
  <2>2. o.kms \in KmsOf(o.kms) /\ Calm(w, n, o.kms)
    BY DEF Harmless
  <2> HIDE DEF w1
  <2> QED BY <2>1, <2>2, CalmKeeps
<1>2. Peer(n) \in Node /\ Peer(n) # n /\ w.net \in [Node -> Seq(Mail)]
  BY NodeIs DEF Streaming, Shaped
<1>3. CASE o.sends = <<>>
  <2>1. w.net[Peer(n)] \o <<>> = w.net[Peer(n)]
    BY <1>2
  <2>2. v.net = w.net
    BY <1>2, <1>3, <2>1 DEF Steps
  <2>3. /\ v.net = w1.net /\ v.kms = w1.kms
        /\ v.app = w1.app /\ v.given = w1.given /\ v.stored = w1.stored
    BY <2>2 DEF World, Steps
  <2> HIDE DEF w1
  <2>4. w1.app \in [Node -> [Ksids -> {"none", "open", "closed", "ignored"}]]
    BY <1>1 DEF Streaming, Shaped
  <2>5. /\ v.app \in [Node -> [Ksids -> {"none", "open", "closed", "ignored"}]]
        /\ \A s \in Ksids : v.app[Primary[s]][s] = "none" <=> w1.app[Primary[s]][s] = "none"
    BY <2>3, <2>4
  <2>6. SameLink(w1, v)
    BY <2>3 DEF SameLink
  <2> QED BY <1>1, <2>5, <2>6, AppKeeps
<1>4. CASE \E m : o.sends = <<m>> /\ Plain(w, Peer(n), m)
  <2>1. PICK m : o.sends = <<m>> /\ Plain(w, Peer(n), m)
    BY <1>4
  <2>2. w.net[Peer(n)] \o <<m>> = Append(w.net[Peer(n)], m)
    BY <1>2, <2>1, AppendIs DEF Plain
  <2>3. /\ v.net = [w1.net EXCEPT ![Peer(n)] = Append(@, m)] /\ v.kms = w1.kms
        /\ v.app = w1.app /\ v.given = w1.given /\ v.stored = w1.stored
    BY <2>1, <2>2 DEF World, Steps
  <2>4. Plain(w1, Peer(n), m)
    BY <2>1 DEF Plain, Fresh, World
  <2> HIDE DEF w1
  <2> QED BY <1>1, <1>2, <2>3, <2>4, SendKeeps
<1> QED BY <1>3, <1>4 DEF Harmless

(* The QKD module pushes a key.                                            *)
LEMMA StoreKeeps ==
  ASSUME NEW w, Streaming(w), NEW n \in Node, NEW k \in KeyIds, k \notin w.stored[n],
         NEW v, v.kms = [w.kms EXCEPT ![n] = [w.kms[n] EXCEPT !.q = @ \cup {k}]],
         v.stored = [w.stored EXCEPT ![n] = @ \cup {k}],
         v.net = w.net, v.app = w.app, v.given = w.given
  PROVE  Streaming(v)
<1>1. PICK own, tape : Tapes(w, own, tape)
  BY DEF Streaming
<1>2. /\ Shaped(w) /\ OneSided(w) /\ Waiting(w) /\ Creation(w)
  BY DEF Streaming
<1>3. PICK x : x = w.kms[n] /\ x \in KmsOf(x)
  BY <1>2 DEF Shaped
<1>4. PICK z : z = [x EXCEPT !.q = @ \cup {k}]
  OBVIOUS
<1>5. z \in KmsOf(z)
  <2>1. x.q \cup {k} \in SUBSET KeyIds
    BY <1>3 DEF KmsOf
  <2> QED BY <1>3, <1>4, <2>1 DEF KmsOf
<1>6. /\ z.q = x.q \cup {k} /\ z.assoc = x.assoc /\ z.query = x.query /\ z.looks = x.looks
      /\ z.failed = x.failed
  BY <1>3, <1>4 DEF KmsOf
<1>7. /\ v.kms[n] = z /\ (\A m \in Node : m # n => v.kms[m] = w.kms[m])
      /\ v.kms = [m \in Node |-> v.kms[m]]
  BY <1>2, <1>3, <1>4 DEF Shaped
<1>8. \A m \in Node : /\ v.kms[m].assoc = w.kms[m].assoc /\ v.kms[m].query = w.kms[m].query
                      /\ v.kms[m].looks = w.kms[m].looks /\ v.kms[m].failed = w.kms[m].failed
  BY <1>3, <1>6, <1>7
<1>9. "A" \in Node /\ "B" \in Node
  BY DEF Node
<1>10. \A s \in Ksids : Fresh(v, s) <=> Fresh(w, s)
  BY DEF Fresh
<1>11. /\ v.stored \in [Node -> SUBSET KeyIds] /\ v.kms["A"].q \subseteq v.stored["A"]
       /\ Gone(v) = Gone(w)
  <2>1. w.stored \in [Node -> SUBSET KeyIds] /\ w.kms["A"].q \subseteq w.stored["A"]
    BY <1>2 DEF Shaped
  <2>2. CASE n = "A"
    BY <1>3, <1>6, <1>7, <1>9, <2>1, <2>2 DEF Gone
  <2>3. CASE n # "A"
    BY <1>7, <1>9, <2>1, <2>3 DEF Gone
  <2> QED BY <2>2, <2>3
<1>12. Shaped(v)
  <2>1. \A m \in Node : v.kms[m] \in KmsOf(v.kms[m])
    BY <1>2, <1>5, <1>7 DEF Shaped
  <2> QED BY <1>2, <1>7, <1>11, <2>1 DEF Shaped
<1>13. OneSided(v)
  BY <1>2, <1>8, <1>9, OneSidedSame
<1>14. Waiting(v)
  <2>1. \A i \in 1 .. Len(v.kms["A"].query) :
          v.kms["A"].query[i].type = "fill" => Waits(v.kms["A"], i, Gone(v))
    <3>1. PICK x1, x2 : x1 = v.kms["A"] /\ x2 = w.kms["A"]
      OBVIOUS
    <3>2. x1.assoc = x2.assoc /\ x1.query = x2.query
      BY <1>8, <1>9, <3>1
    <3>3. \A i \in 1 .. Len(x2.query) : x2.query[i].type = "fill" => Waits(x2, i, Gone(w))
      BY <1>2, <3>1 DEF Waiting
    <3>4. \A i : Waits(x2, i, Gone(w)) => Waits(x1, i, Gone(v))
      BY <1>11, <3>2 DEF Waits
    <3> QED BY <3>1, <3>2, <3>3, <3>4
  <2> QED BY <1>2, <1>11, <2>1 DEF Waiting
<1>15. Creation(v)
  <2>1. ASSUME NEW m \in Node, NEW i \in 1 .. Len(v.net[m]), v.net[m][i].type = "new_app"
        PROVE  OnceNew(v, m, i)
    <3>1. OnceNew(w, m, i)
      BY <1>2, <2>1 DEF Creation
    <3> QED BY <3>1, OnceNewSame
  <2>2. ASSUME NEW s \in Ksids, Fresh(v, s)
        PROVE  Untouched(v, s)
    <3>1. Untouched(w, s) /\ Replica(s) \in Node
      BY <1>2, <1>10, <2>2, NodeIs DEF Creation
    <3> QED BY <1>8, <1>9, <3>1 DEF Untouched, Unheard
  <2> QED BY <2>1, <2>2 DEF Creation
<1>16. Tapes(v, own, tape)
  BY <1>1, <1>8, <1>9, <1>10 DEF Tapes
<1> QED BY <1>12, <1>13, <1>14, <1>15, <1>16 DEF Streaming

(* One more chunk is noted of a session.                                   *)
LEMMA GivenMore ==
  ASSUME NEW old \in [Node -> [Ksids -> Seq(GivenChunks)]], NEW n \in Node, NEW s \in Ksids,
         NEW e \in GivenChunks, NEW new, new = [old EXCEPT ![n][s] = Append(@, e)]
  PROVE  /\ new \in [Node -> [Ksids -> Seq(GivenChunks)]] /\ new[n][s] = Append(old[n][s], e)
         /\ \A m \in Node, r \in Ksids : m # n \/ r # s => new[m][r] = old[m][r]
  OBVIOUS

(* The chunk that is given out is noted.                                   *)
GivesOut(w, n, s, v) ==
  v.given = [w.given EXCEPT ![n][s] =
    Append(@, [index |-> GetNextIndex(w.kms[n].assoc[s].buf),
               key |-> w.kms[n].assoc[s].buf.chunks[FirstOf(w.kms[n].assoc[s].buf)]])]

(* An application gets the first chunk.                                    *)
LEMMA TakeKeeps ==
  ASSUME NEW w, Streaming(w), NEW n \in Node, NEW s \in Ksids, HasChunk(w.kms[n].assoc[s]),
         NEW v, v.kms = [w.kms EXCEPT ![n] = TakenFrom(w.kms[n], s)],
         GivesOut(w, n, s, v), v.net = w.net, v.app = w.app, v.stored = w.stored
  PROVE  Streaming(v)
<1>1. PICK own, tape : Tapes(w, own, tape)
  BY DEF Streaming
<1>2. /\ Shaped(w) /\ OneSided(w) /\ Waiting(w) /\ Creation(w)
  BY DEF Streaming
<1>3. PICK x : x = w.kms[n] /\ x \in KmsOf(x)
  BY <1>2 DEF Shaped
<1>4. PICK a : a = x.assoc[s] /\ a \in Association
  BY <1>3 DEF KmsOf
<1>5. PICK t, g : t = tape[n][s] /\ g = w.given[n][s]
  OBVIOUS
<1>6. t \in Seq(Unit) /\ g \in Seq(GivenChunks) /\ Told(a, t, g)
  BY <1>1, <1>2, <1>3, <1>4, <1>5 DEF Tapes, Shaped
<1>7. a.open /\ a.peerRegistered /\ GetStreamKeyCount(a.buf) > 0 /\ a.buf \in StreamType
  BY <1>3, <1>4 DEF HasChunk, Association
<1>8. PICK d : d = GetStreamKey(a.buf)
  OBVIOUS
<1>9. PICK e : e = [index |-> Len(g), key |-> PieceAt(t, Len(g))]
  OBVIOUS
<1>10. /\ GetNextIndex(a.buf) = Len(g) /\ a.buf.chunks[FirstOf(a.buf)] = PieceAt(t, Len(g))
       /\ At(Len(g)) + Chunk <= Len(t) /\ d \in StreamType /\ Follows(d, t, Len(g) + 1)
       /\ d.reserved = a.buf.reserved
  <2>0. PICK c : c = a.buf
    OBVIOUS
  <2>1. PICK l \in Nat : l = Len(g)
    BY <1>6
  <2>2. c \in StreamType /\ Follows(c, t, l) /\ GetStreamKeyCount(c) > 0
    BY <1>6, <1>7, <2>0, <2>1 DEF Told
  <2>3. /\ GetNextIndex(c) = l /\ c.chunks[FirstOf(c)] = PieceAt(t, l)
        /\ At(l) + Chunk <= Len(t) /\ GetStreamKey(c) \in StreamType
        /\ Follows(GetStreamKey(c), t, l + 1) /\ GetStreamKey(c).reserved = c.reserved
    BY <1>6, <2>2, DropIs
  <2> QED BY <1>8, <2>0, <2>1, <2>3
<1>11. e \in GivenChunks /\ At(Len(g) + 1) <= Len(t)
  <2>1. PICK l \in Nat : l = Len(g)
    BY <1>6
  <2>2. At(l) \in Nat /\ Chunk \in Nat \ {0} /\ Len(t) \in Nat /\ At(l + 1) = At(l) + Chunk
    <3>1. At(l) \in Nat
      BY AtNat
    <3>2. l \in Int /\ At(l + 1) = At(l) + Chunk
      BY AtNext
    <3> QED BY <1>6, <3>1, <3>2, StreamAssumption
  <2>3. At(l) < Len(t)
    BY <1>10, <2>1, <2>2
  <2>4. l < PieceCount(Len(t))
    BY <2>2, <2>3, PieceAhead
  <2>5. PieceAt(t, l) \in Seq(Unit)
    BY <1>6, <2>4, PieceIs
  <2> QED BY <1>9, <1>10, <2>1, <2>2, <2>5 DEF GivenChunks
<1>12. PICK b : b = [a EXCEPT !.buf = d]
  OBVIOUS
<1>13. b \in Association /\ b.open = a.open /\ b.peerRegistered = a.peerRegistered /\ b.buf = d
  BY <1>4, <1>10, <1>12 DEF Association
<1>14. PICK z : z = [x EXCEPT !.assoc = [x.assoc EXCEPT ![s] = b]]
  OBVIOUS
<1>15. x.assoc \in [Ksids -> Association]
  BY <1>3 DEF KmsOf
<1>16. z \in KmsOf(z) /\ z.q = x.q /\ z.query = x.query /\ z.looks = x.looks /\ z.failed = x.failed
       /\ z.assoc = [x.assoc EXCEPT ![s] = b]
  <2>1. [x.assoc EXCEPT ![s] = b] \in [Ksids -> Association]
    BY <1>13, <1>15
  <2> QED BY <1>3, <1>14, <2>1 DEF KmsOf
<1>17. z.assoc[s] = b /\ \A r \in Ksids : r # s => z.assoc[r] = x.assoc[r]
  BY <1>15, <1>16
<1>18. TakenFrom(w.kms[n], s) = z
  <2>1. GetStreamKey(x.assoc[s].buf) = d
    BY <1>4, <1>8
  <2>2. TakenFrom(x, s) = [x EXCEPT !.assoc[s].buf = GetStreamKey(x.assoc[s].buf)]
    BY DEF TakenFrom
  <2> QED BY <1>3, <1>4, <1>12, <1>14, <2>1, <2>2
<1>19. /\ v.kms[n] = z /\ (\A m \in Node : m # n => v.kms[m] = w.kms[m])
       /\ v.kms = [m \in Node |-> v.kms[m]]
  BY <1>2, <1>18 DEF Shaped
<1>20. /\ v.given \in [Node -> [Ksids -> Seq(GivenChunks)]] /\ v.given[n][s] = Append(g, e)
       /\ \A m \in Node, r \in Ksids : m # n \/ r # s => v.given[m][r] = w.given[m][r]
  <2>1. w.given \in [Node -> [Ksids -> Seq(GivenChunks)]]
    BY <1>2 DEF Shaped
  <2>2. v.given = [w.given EXCEPT ![n][s] = Append(@, e)]
    BY <1>3, <1>4, <1>9, <1>10 DEF GivesOut
  <2>3. e \in GivenChunks /\ g = w.given[n][s]
    BY <1>5, <1>11
  <2> QED BY <2>1, <2>2, <2>3, GivenMore
<1>21. /\ \A m \in Node : /\ v.kms[m].q = w.kms[m].q /\ v.kms[m].query = w.kms[m].query
                          /\ v.kms[m].looks = w.kms[m].looks /\ v.kms[m].failed = w.kms[m].failed
       /\ \A m \in Node, r \in Ksids :
            /\ v.kms[m].assoc[r].open = w.kms[m].assoc[r].open
            /\ v.kms[m].assoc[r].peerRegistered = w.kms[m].assoc[r].peerRegistered
            /\ v.kms[m].assoc[r].buf.reserved = w.kms[m].assoc[r].buf.reserved
  <2>1. ASSUME NEW r \in Ksids
        PROVE  /\ z.assoc[r].open = x.assoc[r].open
               /\ z.assoc[r].peerRegistered = x.assoc[r].peerRegistered
               /\ z.assoc[r].buf.reserved = x.assoc[r].buf.reserved
    <3>1. CASE r = s
      BY <1>4, <1>10, <1>13, <1>17, <3>1
    <3>2. CASE r # s
      BY <1>17, <3>2
    <3> QED BY <3>1, <3>2
  <2>2. ASSUME NEW m \in Node
        PROVE  /\ v.kms[m].q = w.kms[m].q /\ v.kms[m].query = w.kms[m].query
               /\ v.kms[m].looks = w.kms[m].looks /\ v.kms[m].failed = w.kms[m].failed
               /\ \A r \in Ksids :
                    /\ v.kms[m].assoc[r].open = w.kms[m].assoc[r].open
                    /\ v.kms[m].assoc[r].peerRegistered = w.kms[m].assoc[r].peerRegistered
                    /\ v.kms[m].assoc[r].buf.reserved = w.kms[m].assoc[r].buf.reserved
    <3>1. CASE m = n
      <4>1. v.kms[m] = z /\ w.kms[m] = x
        BY <1>3, <1>19, <3>1
      <4> QED BY <1>16, <2>1, <4>1
    <3>2. CASE m # n
      <4>1. v.kms[m] = w.kms[m]
        BY <1>19, <3>2
      <4> QED BY <4>1
    <3> QED BY <3>1, <3>2
  <2> QED BY <2>2
<1>22. "A" \in Node /\ "B" \in Node
  BY DEF Node
<1>23. \A r \in Ksids : Fresh(v, r) <=> Fresh(w, r)
  BY DEF Fresh
<1>24. Gone(v) = Gone(w)
  BY <1>21, <1>22 DEF Gone
<1>25. Shaped(v)
  <2>1. \A m \in Node : v.kms[m] \in KmsOf(v.kms[m])
    BY <1>2, <1>16, <1>19 DEF Shaped
  <2>2. v.kms["A"].q \subseteq v.stored["A"]
    BY <1>2, <1>21, <1>22 DEF Shaped
  <2> QED BY <1>2, <1>19, <1>20, <2>1, <2>2 DEF Shaped
<1>26. OneSided(v)
  BY <1>2, <1>21, <1>22, OneSidedSame
<1>27. Waiting(v)
  <2>1. ASSUME NEW i \in 1 .. Len(v.kms["A"].query), v.kms["A"].query[i].type = "fill"
        PROVE  Waits(v.kms["A"], i, Gone(v))
    <3>1. PICK x1, x2 : x1 = v.kms["A"] /\ x2 = w.kms["A"]
      OBVIOUS
    <3>2. /\ x1.query = x2.query
          /\ \A r \in Ksids : /\ x1.assoc[r].open = x2.assoc[r].open
                              /\ x1.assoc[r].buf.reserved = x2.assoc[r].buf.reserved
      BY <1>21, <1>22, <3>1
    <3>3. Waits(x2, i, Gone(w))
      BY <1>2, <2>1, <3>1, <3>2 DEF Waiting
    <3>4. x2.query[i].ksid \in Ksids
      <4>1. x2.query \in Seq(Mail)
        BY <1>2, <1>22, <3>1 DEF Shaped, KmsOf
      <4>2. x2.query[i] \in Mail
        BY <2>1, <3>1, <3>2, <4>1
      <4> QED BY <2>1, <3>1, <3>2, <4>2, MailIs
    <3>5. PICK q : q = x2.query[i]
      OBVIOUS
    <3>6. /\ x1.query[i] = q /\ x1.query = x2.query /\ x1.assoc[q.ksid].open = x2.assoc[q.ksid].open
          /\ x1.assoc[q.ksid].buf.reserved = x2.assoc[q.ksid].buf.reserved
      BY <3>2, <3>4, <3>5
    <3>7. Waits(x1, i, Gone(w))
      BY <3>3, <3>5, <3>6 DEF Waits
    <3> QED BY <1>24, <3>1, <3>7
  <2> QED BY <1>2, <1>24, <2>1 DEF Waiting
<1>28. Creation(v)
  <2>1. ASSUME NEW m \in Node, NEW i \in 1 .. Len(v.net[m]), v.net[m][i].type = "new_app"
        PROVE  OnceNew(v, m, i)
    <3>1. OnceNew(w, m, i)
      BY <1>2, <2>1 DEF Creation
    <3> QED BY <3>1, OnceNewSame
  <2>2. ASSUME NEW r \in Ksids, Fresh(v, r)
        PROVE  Untouched(v, r)
    <3>1. Untouched(w, r) /\ Replica(r) \in Node
      BY <1>2, <1>23, <2>2, NodeIs DEF Creation
    <3>2. /\ v.kms["A"].query = w.kms["A"].query
          /\ v.kms["A"].assoc[r].open = w.kms["A"].assoc[r].open
          /\ v.kms["A"].assoc[r].peerRegistered = w.kms["A"].assoc[r].peerRegistered
          /\ v.kms[Replica(r)].assoc[r].open = w.kms[Replica(r)].assoc[r].open
      BY <1>21, <1>22, <3>1
    <3>3. Unheard(v.net, r)
      BY <3>1 DEF Untouched
    <3> QED BY <3>1, <3>2, <3>3, UntouchedSame
  <2> QED BY <2>1, <2>2 DEF Creation
<1>29. Told(b, t, Append(g, e))
  <2>1. PICK l \in Nat : l = Len(g)
    BY <1>6
  <2>2. PICK h : h = Append(g, e)
    OBVIOUS
  <2>3. Len(h) = l + 1 /\ h[l + 1] = e /\ \A i \in 1 .. l : h[i] = g[i]
    BY <1>6, <1>11, <2>1, <2>2
  <2>4. ASSUME NEW i \in 1 .. l + 1
        PROVE  h[i] = [index |-> i - 1, key |-> PieceAt(t, i - 1)]
    <3>1. CASE i = l + 1
      <4>1. i - 1 = l
        BY <3>1
      <4> QED BY <1>9, <2>1, <2>3, <3>1, <4>1
    <3>2. CASE i # l + 1
      <4>1. i \in 1 .. l
        BY <3>2
      <4> QED BY <1>6, <2>1, <2>3, <4>1 DEF Told
    <3> QED BY <3>1, <3>2
  <2>5. At(Len(h)) <= Len(t) /\ Follows(b.buf, t, Len(h)) /\ b.open
    BY <1>7, <1>10, <1>11, <1>13, <2>1, <2>3
  <2> QED BY <2>2, <2>3, <2>4, <2>5 DEF Told
<1>30. Tapes(v, own, tape)
  <2>1. ASSUME NEW m \in Node, NEW r \in Ksids
        PROVE  Told(v.kms[m].assoc[r], tape[m][r], v.given[m][r])
    <3>1. CASE m = n /\ r = s
      BY <1>5, <1>17, <1>19, <1>20, <1>29, <3>1
    <3>2. CASE m # n \/ r # s
      <4>1. v.kms[m].assoc[r] = w.kms[m].assoc[r] /\ v.given[m][r] = w.given[m][r]
        BY <1>3, <1>17, <1>19, <1>20, <3>2
      <4> QED BY <1>1, <4>1 DEF Tapes
    <3> QED BY <3>1, <3>2
  <2> QED BY <1>1, <1>21, <1>22, <1>23, <2>1 DEF Tapes
<1> QED BY <1>25, <1>26, <1>27, <1>28, <1>30 DEF Streaming

(* A new stream buffer holds the empty tape.                               *)
LEMMA EmptyFollows == EmptyStream \in StreamType /\ Follows(EmptyStream, <<>>, 0)
<1>1. <<>> \in [{} -> Seq(Unit)] /\ {} \in SUBSET Nat /\ DOMAIN <<>> = {}
  OBVIOUS
<1>2. <<>> \in Chunkings
  BY <1>1 DEF Chunkings
<1>3. EmptyStream \in StreamType
  BY <1>2 DEF StreamType, EmptyStream
<1>4. At(0) = 0 /\ PieceCount(0) = 0
  <2>1. At(0) = 0 /\ At(0 - 1) = At(0) - Chunk /\ Chunk \in Nat \ {0}
    BY AtNext, StreamAssumption
  <2>2. 0 <= At(0) /\ At(0 - 1) < 0
    BY <2>1
  <2> QED BY <2>1, <2>2, PiecesUnique
<1>5. Len(<<>>) = 0
  OBVIOUS
<1>6. Holds(EmptyStream.chunks, <<>>, 0)
  BY <1>1, <1>4, <1>5 DEF Holds, EmptyStream
<1>7. Follows(EmptyStream, <<>>, 0)
  BY <1>4, <1>5, <1>6 DEF Follows, EmptyStream
<1> QED BY <1>3, <1>7

(* A session that is created has an empty tape.                            *)
LEMMA ToldNew ==
  ASSUME NEW a, NEW g \in Seq(GivenChunks), Told(a, <<>>, g), NEW b, b.open, b.buf = EmptyStream
  PROVE  Told(b, <<>>, g)
<1>1. PICK l \in Nat : l = Len(g)
  OBVIOUS
<1>2. At(l) <= Len(<<>>) /\ Len(<<>>) = 0
  BY <1>1 DEF Told
<1>3. l = 0
  <2>1. At(l) \in Nat /\ Chunk \in Nat \ {0}
    BY AtNat, StreamAssumption
  <2>2. At(0) = 0 /\ (0 < l => At(0) + Chunk <= At(l))
    BY AtNext, AtOrder
  <2> QED BY <1>2, <2>1, <2>2
<1> QED BY <1>1, <1>2, <1>3, EmptyFollows DEF Told

(* A session is created at one end.                                        *)
LEMMA SessionIs ==
  ASSUME NEW x, x \in KmsOf(x), NEW s \in Ksids, NEW registered \in BOOLEAN, NEW z,
         z = CreateKeyStreamSession(x, s, registered)
  PROVE  /\ z \in KmsOf(z) /\ z.q = x.q /\ z.query = x.query /\ z.looks = x.looks
         /\ z.failed = x.failed
         /\ \A r \in Ksids \ {s} : z.assoc[r] = x.assoc[r]
         /\ z.assoc[s].open /\ z.assoc[s].peerRegistered = registered /\ z.assoc[s].buf = EmptyStream
<1>1. PICK b : b = [open |-> TRUE, peerRegistered |-> registered, buf |-> EmptyStream]
  OBVIOUS
<1>2. b \in Association
  BY <1>1, EmptyFollows DEF Association
<1>3. x.assoc \in [Ksids -> Association]
  BY DEF KmsOf
<1>4. z = [x EXCEPT !.assoc = [x.assoc EXCEPT ![s] = b]]
  BY <1>1 DEF CreateKeyStreamSession
<1>5. [x.assoc EXCEPT ![s] = b] \in [Ksids -> Association]
  BY <1>2, <1>3
<1>6. z \in KmsOf(z) /\ z.q = x.q /\ z.query = x.query /\ z.looks = x.looks /\ z.failed = x.failed
      /\ z.assoc = [x.assoc EXCEPT ![s] = b]
  BY <1>4, <1>5 DEF KmsOf
<1> QED BY <1>1, <1>3, <1>6

(* NEW_APP creates the session at the second end.                          *)
LEMMA CreateKeeps ==
  ASSUME NEW w, Streaming(w), NEW n \in Node, w.net[n] # <<>>, Head(w.net[n]).type = "new_app",
         NEW v,
         v.kms = [w.kms EXCEPT ![n] = CreateKeyStreamSession(w.kms[n], Head(w.net[n]).ksid, TRUE)],
         v.net = [w.net EXCEPT ![n] = Tail(@)],
         v.app = w.app, v.given = w.given, v.stored = w.stored
  PROVE  Streaming(v)
<1>1. PICK own, tape : Tapes(w, own, tape)
  BY DEF Streaming
<1>2. /\ Shaped(w) /\ OneSided(w) /\ Waiting(w) /\ Creation(w)
  BY DEF Streaming
<1>3. PICK ms : ms = w.net[n] /\ ms \in Seq(Mail) /\ ms # <<>>
  BY <1>2 DEF Shaped
<1>4. PICK m \in Mail : m = Head(ms) /\ m = ms[1] /\ m.type = "new_app" /\ 1 \in 1 .. Len(ms)
  BY <1>3, TailIs
<1>5. PICK s \in Ksids : s = m.ksid /\ m = Ask("new_app", s)
  BY <1>4, MailIs
<1>6. OnceNew(w, n, 1)
  BY <1>2, <1>3, <1>4 DEF Creation
<1>7. n = Replica(s) /\ w.app[Primary[s]][s] # "none"
      /\ \A j \in 1 .. Len(ms) : ms[j] = m => j = 1
  BY <1>3, <1>4, <1>5, <1>6 DEF OnceNew, OnceIn
<1>8. Fresh(w, s)
  <2>1. 1 \in 1 .. Len(w.net[Replica(s)]) /\ w.net[Replica(s)][1] = Ask("new_app", s)
    BY <1>3, <1>4, <1>5, <1>7
  <2> QED BY <2>1 DEF Fresh
<1>9. PICK x : x = w.kms[n] /\ x \in KmsOf(x)
  BY <1>2 DEF Shaped
<1>10. PICK z : z = CreateKeyStreamSession(x, s, TRUE)
  OBVIOUS
<1>11. /\ z \in KmsOf(z) /\ z.q = x.q /\ z.query = x.query /\ z.looks = x.looks
       /\ z.failed = x.failed
       /\ \A r \in Ksids \ {s} : z.assoc[r] = x.assoc[r]
       /\ z.assoc[s].open /\ z.assoc[s].buf = EmptyStream
  <2>1. PICK b \in BOOLEAN : b = TRUE
    OBVIOUS
  <2>2. z = CreateKeyStreamSession(x, s, b)
    BY <1>10, <2>1
  <2> QED BY <1>9, <2>2, SessionIs
<1>12. /\ v.kms[n] = z /\ (\A l \in Node : l # n => v.kms[l] = w.kms[l])
       /\ v.kms = [l \in Node |-> v.kms[l]]
  BY <1>2, <1>3, <1>4, <1>5, <1>9, <1>10 DEF Shaped
<1>13. /\ v.net \in [Node -> Seq(Mail)] /\ v.net[n] = Tail(ms)
       /\ \A l \in Node : l # n => v.net[l] = w.net[l]
  <2>1. Tail(ms) \in Seq(Mail)
    BY <1>3, TailIs
  <2> QED BY <1>2, <1>3, <2>1 DEF Shaped
<1>14a. PICK D : Shift(w, v, n, D)
  <2>1. \A l \in Node : w.net[l] \in Seq(Mail)
    BY <1>2 DEF Shaped
  <2>2. Pops(w, v, n)
    BY <1>3, <1>13, <2>1 DEF Pops
  <2> QED BY <2>2, TailShift
<1>14. /\ D \in [Node -> {0, 1}] /\ D[n] = 1
       /\ \A l \in Node : \A i \in 1 .. Len(v.net[l]) :
            i + D[l] \in 1 .. Len(w.net[l]) /\ v.net[l][i] = w.net[l][i + D[l]]
  BY <1>14a DEF Shift
<1>15a. Fewer(w, v)
  BY <1>14a, ShiftFewer
<1>15. \A l \in Node : \A i \in 1 .. Len(v.net[l]) : \E k \in 1 .. Len(w.net[l]) : v.net[l][i] = w.net[l][k]
  BY <1>15a DEF Fewer
<1>16. "A" \in Node /\ "B" \in Node
  BY DEF Node
<1>17. \A l \in Node : /\ v.kms[l].q = w.kms[l].q /\ v.kms[l].query = w.kms[l].query
                       /\ v.kms[l].looks = w.kms[l].looks /\ v.kms[l].failed = w.kms[l].failed
  BY <1>9, <1>11, <1>12
<1>18. ASSUME NEW l \in Node, NEW r \in Ksids, l # n \/ r # s
       PROVE  v.kms[l].assoc[r] = w.kms[l].assoc[r]
  <2>1. CASE l # n
    BY <1>12, <2>1
  <2>2. CASE l = n /\ r # s
    <3>1. v.kms[l] = z /\ w.kms[l] = x
      BY <1>9, <1>12, <2>2
    <3>2. z.assoc[r] = x.assoc[r]
      BY <1>11, <2>2
    <3> QED BY <3>1, <3>2
  <2> QED BY <1>18, <2>1, <2>2
<1>19. Gone(v) = Gone(w)
  BY <1>16, <1>17 DEF Gone
<1>20. ASSUME NEW r \in Ksids, Fresh(v, r)
       PROVE  Fresh(w, r) /\ r # s
  <2>1. CASE v.app[Primary[r]][r] = "none"
    BY <1>7, <2>1 DEF Fresh
  <2>2. CASE \E i \in 1 .. Len(v.net[Replica(r)]) : v.net[Replica(r)][i] = Ask("new_app", r)
    <3>1. PICK i \in 1 .. Len(v.net[Replica(r)]) : v.net[Replica(r)][i] = Ask("new_app", r)
      BY <2>2
    <3>2. Fresh(w, r)
      BY <1>15, <3>1, NodeIs DEF Fresh
    <3>3. ASSUME r = s PROVE FALSE
      <4>0. i \in 1 .. Len(v.net[n]) /\ v.net[n][i] = m /\ D[n] = 1 /\ n \in Node
        BY <1>5, <1>7, <1>14, <3>1, <3>3
      <4>1. i + 1 \in 1 .. Len(ms) /\ ms[i + 1] = m
        <5>1. i + D[n] \in 1 .. Len(w.net[n]) /\ v.net[n][i] = w.net[n][i + D[n]]
          BY <1>14, <4>0
        <5> QED BY <1>3, <4>0, <5>1
      <4>2. i + 1 = 1 /\ i \in Int /\ i >= 1
        BY <1>7, <3>1, <4>1
      <4> QED BY <4>2
    <3> QED BY <3>2, <3>3
  <2> QED BY <1>20, <2>1, <2>2 DEF Fresh
<1>21. Untouched(w, s)
  BY <1>2, <1>8 DEF Creation
<1>22. Shaped(v)
  <2>1. \A l \in Node : v.kms[l] \in KmsOf(v.kms[l])
    BY <1>2, <1>11, <1>12 DEF Shaped
  <2>2. v.kms["A"].q \subseteq v.stored["A"]
    BY <1>2, <1>16, <1>17 DEF Shaped
  <2> QED BY <1>2, <1>12, <1>13, <2>1, <2>2 DEF Shaped
<1>23. OneSided(v)
  BY <1>2, <1>15a, <1>16, <1>17, OneSidedFewer
<1>24. Waiting(v)
  <2>1. ASSUME NEW l \in Node, NEW i \in 1 .. Len(v.net[l]), v.net[l][i].type \in {"fill", "filled"}
        PROVE  KeysIn(v.net[l][i].keys) \subseteq Gone(v)
    BY <1>2, <1>15, <1>19, <2>1 DEF Waiting
  <2>2. ASSUME NEW i \in 1 .. Len(v.kms["A"].query), v.kms["A"].query[i].type = "fill"
        PROVE  Waits(v.kms["A"], i, Gone(v))
    <3>1. PICK x1, x2 : x1 = v.kms["A"] /\ x2 = w.kms["A"]
      OBVIOUS
    <3>2. x1.query = x2.query /\ \A r \in Ksids : r # s => x1.assoc[r] = x2.assoc[r]
      BY <1>16, <1>17, <1>18, <3>1
    <3>3. Waits(x2, i, Gone(w))
      BY <1>2, <2>2, <3>1, <3>2 DEF Waiting
    <3>4. x2.query[i].ksid \in Ksids /\ x2.query[i].ksid # s
      <4>1. x2.query \in Seq(Mail)
        BY <1>2, <1>16, <3>1 DEF Shaped, KmsOf
      <4>4. i \in 1 .. Len(x2.query) /\ x2.query[i].type = "fill"
        BY <2>2, <3>1, <3>2
      <4>2. x2.query[i] \in Mail
        BY <4>1, <4>4
      <4>3. x2.query[i].ksid # s
        BY <1>21, <2>2, <3>1, <3>2 DEF Untouched, Unheard
      <4> QED BY <4>2, <4>3, <4>4, MailIs
    <3>5. PICK q : q = x2.query[i]
      OBVIOUS
    <3>6. x1.query[i] = q /\ x1.assoc[q.ksid] = x2.assoc[q.ksid] /\ x1.query = x2.query
      BY <3>2, <3>4, <3>5
    <3>7. Waits(x1, i, Gone(w))
      BY <3>3, <3>5, <3>6 DEF Waits
    <3> QED BY <1>19, <3>1, <3>7
  <2> QED BY <2>1, <2>2 DEF Waiting
<1>25. Creation(v)
  <2>1. ASSUME NEW l \in Node, NEW i \in 1 .. Len(v.net[l]), v.net[l][i].type = "new_app"
        PROVE  OnceNew(v, l, i)
    <3>1. PICK k : k = i + D[l]
      OBVIOUS
    <3>2. k \in 1 .. Len(w.net[l]) /\ v.net[l][i] = w.net[l][k] /\ OnceNew(w, l, k)
      BY <1>2, <1>14, <2>1, <3>1 DEF Creation
    <3>3. ASSUME NEW j \in 1 .. Len(v.net[l]), v.net[l][j] = v.net[l][i]
          PROVE  j = i
      <4>1. j + D[l] \in 1 .. Len(w.net[l]) /\ w.net[l][j + D[l]] = w.net[l][k]
        BY <1>14, <3>2, <3>3
      <4>2. j + D[l] = k
        BY <3>2, <4>1 DEF OnceNew, OnceIn
      <4>3. D[l] \in {0, 1} /\ j + D[l] = i + D[l]
        BY <1>14, <3>1, <4>2
      <4> QED BY <4>3
    <3> QED BY <3>2, <3>3 DEF OnceNew, OnceIn
  <2>2. ASSUME NEW r \in Ksids, Fresh(v, r)
        PROVE  Untouched(v, r)
    <3>1. Untouched(w, r) /\ r # s /\ Replica(r) \in Node
      BY <1>2, <1>20, <2>2, NodeIs DEF Creation
    <3>2. Unheard(w.net, r)
      BY <3>1 DEF Untouched
    <3>3. Unheard(v.net, r)
      BY <1>15a, <3>2, UnheardFewer
    <3>4. \A l \in Node : v.kms[l].assoc[r] = w.kms[l].assoc[r] /\ v.kms[l].query = w.kms[l].query
      BY <1>17, <1>18, <3>1
    <3>5. /\ v.kms["A"].query = w.kms["A"].query /\ v.kms["A"].assoc[r] = w.kms["A"].assoc[r]
          /\ v.kms[Replica(r)].assoc[r] = w.kms[Replica(r)].assoc[r]
      BY <1>16, <3>1, <3>4
    <3> QED BY <3>1, <3>3, <3>5, UntouchedSame
  <2> QED BY <2>1, <2>2 DEF Creation
<1>26. Tapes(v, own, tape)
  <2>1. ASSUME NEW l \in Node, NEW r \in Ksids
        PROVE  Told(v.kms[l].assoc[r], tape[l][r], v.given[l][r])
    <3>1. Told(w.kms[l].assoc[r], tape[l][r], w.given[l][r])
      BY <1>1 DEF Tapes
    <3>2. CASE l = n /\ r = s
      <4>1. tape[l][r] = <<>> /\ w.given[l][r] \in Seq(GivenChunks)
        BY <1>1, <1>2, <1>8, <3>2, NodeIs DEF Tapes, Shaped, Node
      <4>2. v.kms[l].assoc[r].open /\ v.kms[l].assoc[r].buf = EmptyStream
        BY <1>11, <1>12, <3>2
      <4>3. PICK a, b, g : a = w.kms[l].assoc[r] /\ b = v.kms[l].assoc[r] /\ g = w.given[l][r]
        OBVIOUS
      <4>4. Told(a, <<>>, g) /\ g \in Seq(GivenChunks) /\ b.open /\ b.buf = EmptyStream
        BY <3>1, <4>1, <4>2, <4>3
      <4>5. Told(b, <<>>, g)
        BY <4>4, ToldNew
      <4> QED BY <4>1, <4>3, <4>5
    <3>3. CASE l # n \/ r # s
      BY <1>18, <3>1, <3>3
    <3> QED BY <3>2, <3>3
  <2>2. Claimed(own, v.net["B"])
    <3>1. Claimed(own, w.net["B"])
      BY <1>1 DEF Tapes
    <3>2. ASSUME NEW i \in 1 .. Len(v.net["B"]), v.net["B"][i].type = "fill",
                 NEW k \in KeysIn(v.net["B"][i].keys)
          PROVE  own[k] = v.net["B"][i].ksid
      <4>1. PICK j \in 1 .. Len(w.net["B"]) : v.net["B"][i] = w.net["B"][j]
        BY <1>15, <1>16
      <4> QED BY <3>1, <3>2, <4>1 DEF Claimed
    <3> QED BY <3>2 DEF Claimed
  <2>3. ASSUME v.kms["A"].failed = "no", NEW r \in Ksids
        PROVE  Linked(own, r, tape["A"][r], tape["B"][r], v.net["A"])
    <3>1. Linked(own, r, tape["A"][r], tape["B"][r], w.net["A"])
      BY <1>1, <1>16, <1>17, <2>3 DEF Tapes
    <3>2. CASE n # "A"
      BY <1>13, <1>16, <3>1, <3>2
    <3>3. CASE n = "A"
      <4> DEFINE t == tape["A"][r]
                 u == tape["B"][r]
      <4>1. t \in Seq(Unit) /\ Linked(own, r, t, u, ms)
        BY <1>1, <1>3, <1>16, <3>1, <3>3 DEF Tapes
      <4>2. Share(own, r, Head(ms)) = <<>>
        BY <1>4 DEF Share
      <4> HIDE DEF t, u
      <4>3. \E t2 \in Seq(Unit) : Pours(t, Share(own, r, Head(ms)), t2) /\ Linked(own, r, t2, u, Tail(ms))
        BY <1>3, <4>1, LinkedTail
      <4>4. PICK t2 \in Seq(Unit) : Pours(t, <<>>, t2) /\ Linked(own, r, t2, u, Tail(ms))
        BY <4>2, <4>3
      <4>5. t2 = t
        <5>1. <<>> \in Seq(KeyIds)
          OBVIOUS
        <5> QED BY <4>1, <4>4, <5>1, PoursBegins
      <4> QED BY <1>13, <3>3, <4>4, <4>5 DEF t, u
    <3> QED BY <3>2, <3>3
  <2> QED BY <1>1, <1>16, <1>17, <1>20, <2>1, <2>2, <2>3 DEF Tapes
<1> QED BY <1>22, <1>23, <1>24, <1>25, <1>26 DEF Streaming

(* A new session begins at the KMS of its primary.                         *)
LEMMA StartKeeps ==
  ASSUME NEW w, Streaming(w), NEW n \in Node, NEW s \in Ksids, n = Primary[s],
         w.app[n][s] = "none", NEW v,
         v.kms = [w.kms EXCEPT ![n] = CreateKeyStreamSession(w.kms[n], s, FALSE)],
         v.net = w.net, v.app = w.app, v.given = w.given, v.stored = w.stored
  PROVE  Streaming(v)
<1>1. PICK own, tape : Tapes(w, own, tape)
  BY DEF Streaming
<1>2. /\ Shaped(w) /\ OneSided(w) /\ Waiting(w) /\ Creation(w)
  BY DEF Streaming
<1>3. \A r \in Ksids : Fresh(v, r) <=> Fresh(w, r)
  BY DEF Fresh
<1>4. Fresh(w, s) /\ Untouched(w, s)
  BY <1>2 DEF Fresh, Creation
<1>5. PICK x : x = w.kms[n] /\ x \in KmsOf(x)
  BY <1>2 DEF Shaped
<1>6. PICK z : z = CreateKeyStreamSession(x, s, FALSE)
  OBVIOUS
<1>7. /\ z \in KmsOf(z) /\ z.q = x.q /\ z.query = x.query /\ z.looks = x.looks
      /\ z.failed = x.failed
      /\ \A r \in Ksids \ {s} : z.assoc[r] = x.assoc[r]
      /\ z.assoc[s].open /\ ~z.assoc[s].peerRegistered /\ z.assoc[s].buf = EmptyStream
  <2>1. PICK b \in BOOLEAN : b = FALSE
    OBVIOUS
  <2>2. z = CreateKeyStreamSession(x, s, b)
    BY <1>6, <2>1
  <2>3. /\ z \in KmsOf(z) /\ z.q = x.q /\ z.query = x.query /\ z.looks = x.looks
        /\ z.failed = x.failed
        /\ \A r \in Ksids \ {s} : z.assoc[r] = x.assoc[r]
        /\ z.assoc[s].open /\ z.assoc[s].peerRegistered = b /\ z.assoc[s].buf = EmptyStream
    BY <1>5, <2>2, SessionIs
  <2> QED BY <2>1, <2>3
<1>8. /\ v.kms[n] = z /\ (\A l \in Node : l # n => v.kms[l] = w.kms[l])
      /\ v.kms = [l \in Node |-> v.kms[l]]
  BY <1>2, <1>5, <1>6 DEF Shaped
<1>9. "A" \in Node /\ "B" \in Node
  BY DEF Node
<1>10. \A l \in Node : /\ v.kms[l].q = w.kms[l].q /\ v.kms[l].query = w.kms[l].query
                       /\ v.kms[l].looks = w.kms[l].looks /\ v.kms[l].failed = w.kms[l].failed
  BY <1>5, <1>7, <1>8
<1>11. ASSUME NEW l \in Node, NEW r \in Ksids, l # n \/ r # s
       PROVE  v.kms[l].assoc[r] = w.kms[l].assoc[r]
  <2>1. CASE l # n
    BY <1>8, <2>1
  <2>2. CASE l = n /\ r # s
    <3>1. v.kms[l] = z /\ w.kms[l] = x
      BY <1>5, <1>8, <2>2
    <3>2. z.assoc[r] = x.assoc[r]
      BY <1>7, <2>2
    <3> QED BY <3>1, <3>2
  <2> QED BY <1>11, <2>1, <2>2
<1>12. Gone(v) = Gone(w)
  BY <1>9, <1>10 DEF Gone
<1>13. Shaped(v)
  <2>1. \A l \in Node : v.kms[l] \in KmsOf(v.kms[l])
    BY <1>2, <1>7, <1>8 DEF Shaped
  <2>2. v.kms["A"].q \subseteq v.stored["A"]
    BY <1>2, <1>9, <1>10 DEF Shaped
  <2> QED BY <1>2, <1>8, <2>1, <2>2 DEF Shaped
<1>14. OneSided(v)
  BY <1>2, <1>9, <1>10, OneSidedSame
<1>15. Waiting(v)
  <2>1. ASSUME NEW i \in 1 .. Len(v.kms["A"].query), v.kms["A"].query[i].type = "fill"
        PROVE  Waits(v.kms["A"], i, Gone(v))
    <3>1. PICK x1, x2 : x1 = v.kms["A"] /\ x2 = w.kms["A"]
      OBVIOUS
    <3>2. x1.query = x2.query /\ \A r \in Ksids : r # s => x1.assoc[r] = x2.assoc[r]
      BY <1>9, <1>10, <1>11, <3>1
    <3>3. Waits(x2, i, Gone(w))
      BY <1>2, <2>1, <3>1, <3>2 DEF Waiting
    <3>4. i \in 1 .. Len(x2.query) /\ x2.query[i].type = "fill"
      BY <2>1, <3>1, <3>2
    <3>5. x2.query[i].ksid \in Ksids /\ x2.query[i].ksid # s
      <4>1. x2.query \in Seq(Mail)
        BY <1>2, <1>9, <3>1 DEF Shaped, KmsOf
      <4>2. x2.query[i] \in Mail
        BY <3>4, <4>1
      <4>3. x2.query[i].ksid # s
        BY <1>4, <3>1, <3>4 DEF Untouched, Unheard
      <4> QED BY <3>4, <4>2, <4>3, MailIs
    <3>6. PICK q : q = x2.query[i]
      OBVIOUS
    <3>7. x1.query[i] = q /\ x1.assoc[q.ksid] = x2.assoc[q.ksid] /\ x1.query = x2.query
      BY <3>2, <3>5, <3>6
    <3>8. Waits(x1, i, Gone(w))
      BY <3>3, <3>6, <3>7 DEF Waits
    <3> QED BY <1>12, <3>1, <3>8
  <2> QED BY <1>2, <1>12, <2>1 DEF Waiting
<1>16. Creation(v)
  <2>1. ASSUME NEW l \in Node, NEW i \in 1 .. Len(v.net[l]), v.net[l][i].type = "new_app"
        PROVE  OnceNew(v, l, i)
    <3>1. OnceNew(w, l, i)
      BY <1>2, <2>1 DEF Creation
    <3> QED BY <3>1, OnceNewSame
  <2>2. ASSUME NEW r \in Ksids, Fresh(v, r)
        PROVE  Untouched(v, r)
    <3>1. Untouched(w, r) /\ Replica(r) \in Node /\ Replica(r) # Primary[r]
      BY <1>2, <1>3, <2>2, NodeIs DEF Creation
    <3>2. ~v.kms[Replica(r)].assoc[r].open
      <4>1. Replica(r) # n \/ r # s
        BY <3>1
      <4>2. v.kms[Replica(r)].assoc[r] = w.kms[Replica(r)].assoc[r]
        BY <1>11, <3>1, <4>1
      <4> QED BY <3>1, <4>2 DEF Untouched, Unheard
    <3>3. ~(v.kms["A"].assoc[r].open /\ v.kms["A"].assoc[r].peerRegistered)
      <4>1. CASE n = "A" /\ r = s
        BY <1>7, <1>8, <4>1
      <4>2. CASE n # "A" \/ r # s
        <5>1. v.kms["A"].assoc[r] = w.kms["A"].assoc[r]
          BY <1>9, <1>11, <4>2
        <5> QED BY <3>1, <5>1 DEF Untouched, Unheard
      <4> QED BY <4>1, <4>2
    <3>4. v.kms["A"].query = w.kms["A"].query
      BY <1>9, <1>10
    <3>5. Unheard(v.net, r)
      BY <3>1 DEF Untouched
    <3> QED BY <3>1, <3>2, <3>3, <3>4, <3>5, UntouchedSame
  <2> QED BY <2>1, <2>2 DEF Creation
<1>17. Tapes(v, own, tape)
  <2>1. ASSUME NEW l \in Node, NEW r \in Ksids
        PROVE  Told(v.kms[l].assoc[r], tape[l][r], v.given[l][r])
    <3>1. Told(w.kms[l].assoc[r], tape[l][r], w.given[l][r])
      BY <1>1 DEF Tapes
    <3>2. CASE l = n /\ r = s
      <4>1. tape[l][r] = <<>> /\ w.given[l][r] \in Seq(GivenChunks)
        BY <1>1, <1>2, <1>4, <3>2, NodeIs DEF Tapes, Shaped, Node
      <4>2. v.kms[l].assoc[r].open /\ v.kms[l].assoc[r].buf = EmptyStream
        BY <1>7, <1>8, <3>2
      <4>3. PICK a, b, g : a = w.kms[l].assoc[r] /\ b = v.kms[l].assoc[r] /\ g = w.given[l][r]
        OBVIOUS
      <4>4. Told(a, <<>>, g) /\ g \in Seq(GivenChunks) /\ b.open /\ b.buf = EmptyStream
        BY <3>1, <4>1, <4>2, <4>3
      <4>5. Told(b, <<>>, g)
        BY <4>4, ToldNew
      <4> QED BY <4>1, <4>3, <4>5
    <3>3. CASE l # n \/ r # s
      BY <1>11, <3>1, <3>3
    <3> QED BY <3>2, <3>3
  <2> QED BY <1>1, <1>3, <1>9, <1>10, <2>1 DEF Tapes
<1> QED BY <1>13, <1>14, <1>15, <1>16, <1>17 DEF Streaming

(* NEW_APP is sent, and the application of the primary has its session.    *)
LEMMA NewKeeps ==
  ASSUME NEW w, Streaming(w), NEW n \in Node, NEW s \in Ksids, n = Primary[s],
         w.app[n][s] = "none", NEW v,
         v.app = [w.app EXCEPT ![n][s] = "open"],
         v.net = [w.net EXCEPT ![Peer(n)] = Append(@, Ask("new_app", s))],
         v.kms = w.kms, v.given = w.given, v.stored = w.stored
  PROVE  Streaming(v)
<1>1. PICK own, tape : Tapes(w, own, tape)
  BY DEF Streaming
<1>2. /\ Shaped(w) /\ OneSided(w) /\ Waiting(w) /\ Creation(w)
  BY DEF Streaming
<1>3. PICK m : m = Ask("new_app", s)
  OBVIOUS
<1>4. m \in Mail /\ m.type = "new_app" /\ m.ksid = s
  BY <1>3 DEF Mail, Asks, Ask
<1>5. PICK p \in Node : p = Peer(n) /\ p = Replica(s) /\ p # n
  BY NodeIs DEF Replica
<1>6. "A" \in Node /\ "B" \in Node
  BY DEF Node
<1>7. PICK ms : ms = w.net[p] /\ ms \in Seq(Mail)
  BY <1>2 DEF Shaped
<1>8. /\ v.net[p] = Append(ms, m) /\ (\A l \in Node : l # p => v.net[l] = w.net[l])
      /\ v.net \in [Node -> Seq(Mail)]
  <2>1. Append(ms, m) \in Seq(Mail)
    BY <1>4, <1>7, AppendIs
  <2> QED BY <1>2, <1>3, <1>5, <1>7, <2>1 DEF Shaped
<1>9. ASSUME NEW l \in Node, NEW i \in 1 .. Len(v.net[l])
      PROVE  \/ i \in 1 .. Len(w.net[l]) /\ v.net[l][i] = w.net[l][i]
             \/ l = p /\ v.net[l][i] = m /\ i = Len(ms) + 1
  <2>1. CASE l = p
    <3>1. PICK e : e = v.net[l][i]
      OBVIOUS
    <3>2. i \in 1 .. Len(Append(ms, m)) /\ e = Append(ms, m)[i]
      BY <1>8, <2>1, <3>1
    <3>3. (i \in 1 .. Len(ms) /\ e = ms[i]) \/ (e = m /\ i = Len(ms) + 1)
      BY <1>4, <1>7, <3>2, AppendIs
    <3> QED BY <1>7, <2>1, <3>1, <3>3
  <2>2. CASE l # p
    BY <1>8, <2>2
  <2> QED BY <2>1, <2>2
<1>18. ASSUME NEW r \in Ksids, r # s
       PROVE  v.app[Primary[r]][r] = w.app[Primary[r]][r]
  BY <1>2, <1>18, NodeIs DEF Shaped
<1>10. Fresh(w, s)
  BY DEF Fresh
<1>11. ASSUME NEW r \in Ksids, Fresh(v, r)
       PROVE  Fresh(w, r)
  <2>1. CASE r = s
    BY <1>10, <2>1
  <2>2. CASE r # s
    <3>1. v.app[Primary[r]][r] = w.app[Primary[r]][r]
      BY <1>2, <2>2, NodeIs DEF Shaped
    <3>2. CASE \E i \in 1 .. Len(v.net[Replica(r)]) : v.net[Replica(r)][i] = Ask("new_app", r)
      <4>1. PICK i \in 1 .. Len(v.net[Replica(r)]) : v.net[Replica(r)][i] = Ask("new_app", r)
        BY <3>2
      <4>2. Ask("new_app", r) # m
        BY <1>4, <2>2 DEF Ask
      <4>3. i \in 1 .. Len(w.net[Replica(r)]) /\ w.net[Replica(r)][i] = Ask("new_app", r)
        BY <1>9, <4>1, <4>2, NodeIs
      <4> QED BY <4>3 DEF Fresh
    <3> QED BY <1>11, <3>1, <3>2 DEF Fresh
  <2> QED BY <2>1, <2>2
<1>12. Gone(v) = Gone(w)
  BY DEF Gone
<1>13. Shaped(v)
  <2>1. v.app \in [Node -> [Ksids -> {"none", "open", "closed", "ignored"}]]
    BY <1>2 DEF Shaped
  <2> QED BY <1>2, <1>8, <2>1 DEF Shaped
<1>14. OneSided(v)
  <2>1. \A i \in 1 .. Len(v.net["A"]) : v.net["A"][i].type # "fill"
    BY <1>2, <1>4, <1>6, <1>9 DEF OneSided
  <2>2. \A i \in 1 .. Len(v.net["B"]) : v.net["B"][i].type # "filled"
    BY <1>2, <1>4, <1>6, <1>9 DEF OneSided
  <2> QED BY <1>2, <2>1, <2>2 DEF OneSided
<1>15. Waiting(v)
  <2>1. ASSUME NEW l \in Node, NEW i \in 1 .. Len(v.net[l]), v.net[l][i].type \in {"fill", "filled"}
        PROVE  KeysIn(v.net[l][i].keys) \subseteq Gone(v)
    <3>1. i \in 1 .. Len(w.net[l]) /\ v.net[l][i] = w.net[l][i]
      BY <1>4, <1>9, <2>1
    <3> QED BY <1>2, <1>12, <2>1, <3>1 DEF Waiting
  <2> QED BY <1>2, <1>12, <2>1 DEF Waiting
<1>16. Creation(v)
  <2>1. ASSUME NEW l \in Node, NEW i \in 1 .. Len(v.net[l]), v.net[l][i].type = "new_app"
        PROVE  OnceNew(v, l, i)
    <3>0. v.app[n][s] = "open"
      BY <1>2 DEF Shaped
    <3>1. ASSUME NEW j \in 1 .. Len(w.net[l]) PROVE w.net[l][j] # m
      <4>1. CASE w.net[l][j] = m
        <5>1. OnceNew(w, l, j) /\ w.net[l][j].ksid = s
          BY <1>2, <1>4, <4>1 DEF Creation
        <5> QED BY <5>1 DEF OnceNew, OnceIn
      <4> QED BY <4>1
    <3>2. CASE i \in 1 .. Len(w.net[l]) /\ v.net[l][i] = w.net[l][i]
      <4>1. OnceNew(w, l, i)
        BY <1>2, <2>1, <3>2 DEF Creation
      <4>2. PICK r : r = v.net[l][i].ksid /\ r \in Ksids /\ l = Replica(r) /\ w.app[Primary[r]][r] # "none"
        BY <3>2, <4>1 DEF OnceNew, OnceIn
      <4>3. v.app[Primary[r]][r] # "none"
        <5>1. r # s
          BY <4>2
        <5>2. v.app[Primary[r]][r] = w.app[Primary[r]][r]
          BY <1>18, <4>2, <5>1
        <5> QED BY <4>2, <5>2
      <4>4. ASSUME NEW j \in 1 .. Len(v.net[l]), v.net[l][j] = v.net[l][i]
            PROVE  j = i
        <5>1. v.net[l][j] # m
          BY <3>1, <3>2, <4>4
        <5>2. j \in 1 .. Len(w.net[l]) /\ v.net[l][j] = w.net[l][j]
          BY <1>9, <5>1
        <5> QED BY <3>2, <4>1, <4>4, <5>2 DEF OnceNew, OnceIn
      <4> QED BY <4>2, <4>3, <4>4 DEF OnceNew, OnceIn
    <3>3. CASE l = p /\ v.net[l][i] = m /\ i = Len(ms) + 1
      <4>1. ASSUME NEW j \in 1 .. Len(v.net[l]), v.net[l][j] = v.net[l][i]
            PROVE  j = i
        BY <1>9, <3>1, <3>3, <4>1
      <4> QED BY <1>4, <1>5, <3>0, <3>3, <4>1 DEF OnceNew, OnceIn
    <3> QED BY <1>9, <3>2, <3>3
  <2>2. ASSUME NEW r \in Ksids, Fresh(v, r)
        PROVE  Untouched(v, r)
    <3>1. Untouched(w, r)
      BY <1>2, <1>11, <2>2 DEF Creation
    <3>2. \A i \in 1 .. Len(v.net["B"]) : v.net["B"][i].type = "fill" => v.net["B"][i].ksid # r
      BY <1>4, <1>6, <1>9, <3>1 DEF Untouched, Unheard
    <3>3. \A i \in 1 .. Len(v.net["A"]) : v.net["A"][i].type = "register" => v.net["A"][i].ksid # r
      BY <1>4, <1>6, <1>9, <3>1 DEF Untouched, Unheard
    <3>4. Unheard(v.net, r)
      BY <3>2, <3>3 DEF Unheard
    <3> QED BY <3>1, <3>4, UntouchedSame
  <2> QED BY <2>1, <2>2 DEF Creation
<1>17. Tapes(v, own, tape)
  <2>1. Claimed(own, v.net["B"])
    <3>1. Claimed(own, w.net["B"])
      BY <1>1 DEF Tapes
    <3>2. ASSUME NEW i \in 1 .. Len(v.net["B"]), v.net["B"][i].type = "fill",
                 NEW k \in KeysIn(v.net["B"][i].keys)
          PROVE  own[k] = v.net["B"][i].ksid
      <4>1. i \in 1 .. Len(w.net["B"]) /\ v.net["B"][i] = w.net["B"][i]
        BY <1>4, <1>6, <1>9, <3>2
      <4> QED BY <3>1, <3>2, <4>1 DEF Claimed
    <3> QED BY <3>2 DEF Claimed
  <2>2. ASSUME v.kms["A"].failed = "no", NEW r \in Ksids
        PROVE  Linked(own, r, tape["A"][r], tape["B"][r], v.net["A"])
    <3>1. Linked(own, r, tape["A"][r], tape["B"][r], w.net["A"])
      BY <1>1, <2>2 DEF Tapes
    <3>2. CASE p # "A"
      BY <1>6, <1>8, <3>1, <3>2
    <3>3. CASE p = "A"
      <4> DEFINE t  == tape["A"][r]
                 u  == tape["B"][r]
      <4>1. u \in Seq(Unit) /\ Linked(own, r, t, u, ms)
        BY <1>1, <1>6, <1>7, <3>1, <3>3 DEF Tapes
      <4>2. Share(own, r, m) = <<>>
        BY <1>4 DEF Share
      <4> HIDE DEF t, u
      <4>3. Linked(own, r, t, u, Append(ms, m))
        BY <1>7, <4>1, <4>2, PoursNone, LinkedMore
      <4> QED BY <1>8, <3>3, <4>3 DEF t, u
    <3> QED BY <3>2, <3>3
  <2> QED BY <1>1, <1>11, <2>1, <2>2 DEF Tapes
<1> QED BY <1>13, <1>14, <1>15, <1>16, <1>17 DEF Streaming

(* More of the tape changes nothing of what was given out.                 *)
LEMMA ToldMore ==
  ASSUME NEW a, NEW t \in Seq(Unit), NEW g \in Seq(GivenChunks), Told(a, t, g),
         NEW u \in Seq(Unit), Begins(t, u), NEW b, b.open, Follows(b.buf, u, Len(g))
  PROVE  Told(b, u, g)
<1>1. PICK l \in Nat : l = Len(g)
  OBVIOUS
<1>2. PICK more \in Seq(Unit) : u = t \o more
  BY DEF Begins
<1>3. At(l) \in Nat /\ Len(t) \in Nat /\ Len(u) \in Nat /\ Len(t) <= Len(u) /\ At(l) <= Len(t)
  <2>1. At(l) \in Nat
    BY AtNat
  <2>2. At(l) <= Len(t)
    BY <1>1 DEF Told
  <2> QED BY <1>2, <2>1, <2>2
<1>4. ASSUME NEW i \in 1 .. l
      PROVE  g[i] = [index |-> i - 1, key |-> PieceAt(u, i - 1)]
  <2>1. i - 1 \in Nat /\ i - 1 \in Int /\ l \in Int /\ i - 1 < l
    OBVIOUS
  <2>2. At(i - 1) + Chunk <= At(l) /\ At(i - 1) \in Int
    BY <2>1, AtOrder
  <2>3. At(i - 1) + Chunk <= Len(t)
    BY <1>3, <2>2, StreamAssumption
  <2>4. PieceAt(u, i - 1) = PieceAt(t, i - 1)
    BY <1>2, <2>1, <2>3, PieceKept
  <2>5. g[i] = [index |-> i - 1, key |-> PieceAt(t, i - 1)]
    BY <1>1 DEF Told
  <2> QED BY <2>4, <2>5
<1>5. At(l) <= Len(u)
  BY <1>3
<1> QED BY <1>1, <1>4, <1>5 DEF Told

(* What becomes of the KMS of the slave.                                   *)
PouredIn(x, s, found, z) ==
  /\ z.q = x.q \ KeysIn(found) /\ z.query = x.query /\ z.looks = x.looks /\ z.failed = x.failed
  /\ z = [x EXCEPT !.q = z.q, !.assoc = z.assoc]
  /\ z.assoc = [x.assoc EXCEPT ![s] =
                  [x.assoc[s] EXCEPT !.buf = EachKey(InsertKeyToStreamSession, x.assoc[s].buf, found)]]

SlaveChange(w, m, found, z, v) ==
  /\ m.type = "fill" /\ (\E i \in 1 .. Len(w.net["B"]) : m = w.net["B"][i])
  /\ w.kms["B"].assoc[m.ksid].open /\ found = Listed(m.keys, w.kms["B"].q)
  /\ PouredIn(w.kms["B"], m.ksid, found, z)
  /\ v.kms = [w.kms EXCEPT !["B"] = z] /\ v.net = [w.net EXCEPT !["A"] = Append(@, Filled(found))]
  /\ v.app = w.app /\ v.given = w.given /\ v.stored = w.stored

(* The slave pours in the keys it holds and answers.                       *)
LEMMA SlavePours ==
  ASSUME NEW w, Streaming(w), NEW m, NEW found, NEW z, NEW v, SlaveChange(w, m, found, z, v)
  PROVE  Streaming(v)
<1>1. PICK own, tape : Tapes(w, own, tape)
  BY DEF Streaming
<1>2. /\ Shaped(w) /\ OneSided(w) /\ Waiting(w) /\ Creation(w)
  BY DEF Streaming
<1>3. "A" \in Node /\ "B" \in Node /\ Node = {"A", "B"}
  BY DEF Node
<1>4. PICK x : x = w.kms["B"] /\ x \in KmsOf(x)
  BY <1>2, <1>3 DEF Shaped
<1>5. /\ m.type = "fill" /\ x.assoc[m.ksid].open /\ found = Listed(m.keys, x.q)
      /\ PouredIn(x, m.ksid, found, z)
  BY <1>4 DEF SlaveChange
<1>6. PICK o \in 1 .. Len(w.net["B"]) : m = w.net["B"][o]
  BY DEF SlaveChange
<1>7. v.app = w.app /\ v.given = w.given /\ v.stored = w.stored
  BY DEF SlaveChange
<1>8. PICK s \in Ksids : s = m.ksid /\ m \in Mail /\ m.keys \in Lists
  <2>2. w.net["B"] \in Seq(Mail)
    BY <1>2, <1>3 DEF Shaped
  <2>3. m \in Mail
    BY <1>6, <2>2
  <2> QED BY <1>5, <2>3, MailIs
<1>9. found \in Lists /\ found \in Seq(KeyIds) /\ KeysIn(found) \subseteq KeysIn(m.keys)
  <2>1. found \in Lists /\ KeysIn(found) = KeysIn(m.keys) \cap x.q
    BY <1>8, <1>5, ListedIs
  <2> QED BY <2>1 DEF Lists
<1>10. /\ KeysIn(found) \subseteq Gone(w)
       /\ \A k \in KeysIn(found) : own[k] = s
       /\ ~Fresh(w, s)
  <2>1. KeysIn(m.keys) \subseteq Gone(w)
    BY <1>2, <1>3, <1>5, <1>6 DEF Waiting
  <2>2. \A k \in KeysIn(m.keys) : own[k] = s
    <3>1. Claimed(own, w.net["B"])
      BY <1>1 DEF Tapes
    <3> QED BY <1>8, <1>5, <1>6, <3>1 DEF Claimed
  <2>3. ~Fresh(w, s)
    <3>1. Fresh(w, s) => Untouched(w, s)
      BY <1>2 DEF Creation
    <3> QED BY <1>8, <1>5, <1>6, <3>1 DEF Untouched, Unheard
  <2> QED BY <1>9, <2>1, <2>2, <2>3
<1>11. PICK a : a = x.assoc[s] /\ a \in Association /\ a.open
  BY <1>4, <1>8, <1>5 DEF KmsOf
<1>12. PICK t, g : t = tape["B"][s] /\ g = w.given["B"][s]
  OBVIOUS
<1>13. t \in Seq(Unit) /\ g \in Seq(GivenChunks) /\ Told(a, t, g)
  BY <1>1, <1>2, <1>3, <1>4, <1>11, <1>12 DEF Tapes, Shaped
<1>14. PICK u \in Seq(Unit) : Pours(t, found, u) /\ Begins(t, u)
  BY <1>9, <1>13, PoursSome, PoursBegins
<1>15. PICK d : d = EachKey(InsertKeyToStreamSession, a.buf, found)
  OBVIOUS
<1>16. d \in StreamType /\ Follows(d, u, Len(g)) /\ d.reserved = a.buf.reserved
  <2>1. PICK c : c = a.buf
    OBVIOUS
  <2>2. PICK l \in Nat : l = Len(g)
    BY <1>13
  <2>3. c \in StreamType /\ Follows(c, t, l)
    BY <1>11, <1>13, <2>1, <2>2 DEF Told, Association
  <2>4. LET e == EachKey(InsertKeyToStreamSession, c, found)
        IN e \in StreamType /\ Follows(e, u, l) /\ e.reserved = c.reserved
    BY <1>9, <1>13, <1>14, <2>3, InsertAll
  <2> QED BY <1>15, <2>1, <2>2, <2>4
<1>17. PICK b : b = [a EXCEPT !.buf = d]
  OBVIOUS
<1>18. b \in Association /\ b.open /\ b.peerRegistered = a.peerRegistered /\ b.buf = d
  BY <1>11, <1>16, <1>17 DEF Association
<1>19. /\ z.q = x.q \ KeysIn(found) /\ z.query = x.query /\ z.looks = x.looks
       /\ z.failed = x.failed
       /\ z = [x EXCEPT !.q = z.q, !.assoc = z.assoc] /\ z.assoc = [x.assoc EXCEPT ![s] = b]
  BY <1>8, <1>11, <1>15, <1>17, <1>5 DEF PouredIn
<1>20. x.assoc \in [Ksids -> Association]
  BY <1>4 DEF KmsOf
<1>21. z \in KmsOf(z) /\ z.query = x.query /\ z.looks = x.looks /\ z.failed = x.failed
       /\ z.assoc = [x.assoc EXCEPT ![s] = b]
  <2>1. [x.assoc EXCEPT ![s] = b] \in [Ksids -> Association]
    BY <1>18, <1>20
  <2>2. x.q \ KeysIn(found) \in SUBSET KeyIds
    BY <1>4 DEF KmsOf
  <2> QED BY <1>4, <1>19, <2>1, <2>2 DEF KmsOf
<1>22. z.assoc[s] = b /\ \A r \in Ksids : r # s => z.assoc[r] = x.assoc[r]
  BY <1>20, <1>21
<1>23. z \in KmsOf(z)
  BY <1>21
<1>24. /\ v.kms["B"] = z /\ v.kms["A"] = w.kms["A"] /\ v.kms = [l \in Node |-> v.kms[l]]
  BY <1>2, <1>3 DEF Shaped, SlaveChange
<1>25. PICK f \in Mail : f = Filled(found) /\ f.type = "filled" /\ f.keys = found
  <2>1. PICK f : f = Filled(found)
    OBVIOUS
  <2>2. f \in Founds /\ f.type = "filled" /\ f.keys = found
    BY <1>9, <2>1 DEF Filled, Founds
  <2> QED BY <2>1, <2>2 DEF Mail
<1>26. PICK ms : ms = w.net["A"] /\ ms \in Seq(Mail)
  BY <1>2, <1>3 DEF Shaped
<1>27. /\ v.net["A"] = Append(ms, f) /\ v.net["B"] = w.net["B"] /\ v.net \in [Node -> Seq(Mail)]
  <2>1. Append(ms, f) \in Seq(Mail)
    BY <1>26, AppendIs
  <2>2. w.net \in [Node -> Seq(Mail)]
    BY <1>2 DEF Shaped
  <2>3. v.net = [w.net EXCEPT !["A"] = Append(ms, f)]
    BY <1>25, <1>26 DEF SlaveChange
  <2> QED BY <1>3, <2>1, <2>2, <2>3
<1>28. ASSUME NEW l \in Node, NEW i \in 1 .. Len(v.net[l])
       PROVE  \/ (i \in 1 .. Len(w.net[l]) /\ v.net[l][i] = w.net[l][i])
              \/ (l = "A" /\ v.net[l][i] = f)
  <2>1. CASE l = "A"
    <3>1. PICK e : e = v.net[l][i]
      OBVIOUS
    <3>2. i \in 1 .. Len(Append(ms, f)) /\ e = Append(ms, f)[i]
      BY <1>27, <2>1, <3>1
    <3>3. (i \in 1 .. Len(ms) /\ e = ms[i]) \/ e = f
      BY <1>26, <3>2, AppendIs
    <3>4. ms = w.net[l]
      BY <1>26, <2>1
    <3> QED BY <2>1, <3>1, <3>3, <3>4
  <2>2. CASE l # "A"
    <3>1. l = "B" /\ v.net["B"] = w.net["B"]
      BY <1>3, <1>27, <2>2
    <3>2. v.net[l] = w.net[l]
      BY <3>1
    <3> QED BY <3>2
  <2> QED BY <2>1, <2>2
<1>29. ASSUME NEW r \in Ksids, Fresh(v, r)
       PROVE  Fresh(w, r) /\ r # s
  <2>1. ~Fresh(w, s)
    BY <1>10
  <2>2. v.app[Primary[r]][r] = "none" => Fresh(w, r)
    <3>1. v.app[Primary[r]][r] = "none" => w.app[Primary[r]][r] = "none"
      BY <1>7
    <3> QED BY <3>1 DEF Fresh
  <2>3. ASSUME NEW i \in 1 .. Len(v.net[Replica(r)]), v.net[Replica(r)][i] = Ask("new_app", r)
        PROVE  Fresh(w, r)
    <3>1. Ask("new_app", r) # f /\ Replica(r) \in Node
      BY <1>25, NodeIs DEF Ask
    <3>2. i \in 1 .. Len(w.net[Replica(r)]) /\ w.net[Replica(r)][i] = Ask("new_app", r)
      BY <1>28, <2>3, <3>1
    <3> QED BY <3>2 DEF Fresh
  <2>4. Fresh(w, r)
    BY <1>29, <2>2, <2>3 DEF Fresh
  <2>5. r # s
    <3>1. r = s => Fresh(w, s)
      BY <2>4
    <3> QED BY <2>1, <3>1
  <2> QED BY <2>4, <2>5
<1>30. Gone(v) = Gone(w)
  BY <1>24, <1>7 DEF Gone
<1>31. Shaped(v)
  <2>1. \A l \in Node : v.kms[l] \in KmsOf(v.kms[l])
    BY <1>2, <1>3, <1>21, <1>24 DEF Shaped
  <2> QED BY <1>2, <1>24, <1>27, <1>7, <2>1 DEF Shaped
<1>32. OneSided(v)
  <2>1. \A i \in 1 .. Len(v.net["A"]) : v.net["A"][i].type # "fill"
    BY <1>2, <1>3, <1>25, <1>28 DEF OneSided
  <2> QED BY <1>2, <1>4, <1>21, <1>24, <1>27, <2>1 DEF OneSided
<1>33. Waiting(v)
  <2>1. ASSUME NEW l \in Node, NEW i \in 1 .. Len(v.net[l]), v.net[l][i].type \in {"fill", "filled"}
        PROVE  KeysIn(v.net[l][i].keys) \subseteq Gone(v)
    <3>1. CASE i \in 1 .. Len(w.net[l]) /\ v.net[l][i] = w.net[l][i]
      BY <1>2, <1>30, <2>1, <3>1 DEF Waiting
    <3>2. CASE v.net[l][i] = f
      BY <1>10, <1>25, <1>30, <3>2
    <3> QED BY <1>28, <3>1, <3>2
  <2> QED BY <1>2, <1>24, <1>30, <2>1 DEF Waiting
<1>34. Creation(v)
  <2>1. ASSUME NEW l \in Node, NEW i \in 1 .. Len(v.net[l]), v.net[l][i].type = "new_app"
        PROVE  OnceNew(v, l, i)
    <3>1. i \in 1 .. Len(w.net[l]) /\ v.net[l][i] = w.net[l][i]
      BY <1>25, <1>28, <2>1
    <3>2. OnceNew(w, l, i)
      BY <1>2, <2>1, <3>1 DEF Creation
    <3>3. ASSUME NEW j \in 1 .. Len(v.net[l]), v.net[l][j] = v.net[l][i]
          PROVE  j = i
      <4>1. j \in 1 .. Len(w.net[l]) /\ w.net[l][j] = w.net[l][i]
        BY <1>25, <1>28, <2>1, <3>1, <3>3
      <4> QED BY <3>2, <4>1 DEF OnceNew, OnceIn
    <3> QED BY <1>7, <3>1, <3>2, <3>3 DEF OnceNew, OnceIn
  <2>2. ASSUME NEW r \in Ksids, Fresh(v, r)
        PROVE  Untouched(v, r)
    <3>1. Untouched(w, r) /\ r # s /\ Replica(r) \in Node
      BY <1>2, <1>29, <2>2, NodeIs DEF Creation
    <3>2. \A i \in 1 .. Len(v.net["A"]) : v.net["A"][i].type = "register" => v.net["A"][i].ksid # r
      BY <1>3, <1>25, <1>28, <3>1 DEF Untouched, Unheard
    <3>3. \A l \in Node : v.kms[l].assoc[r] = w.kms[l].assoc[r]
      BY <1>3, <1>4, <1>22, <1>24, <3>1
    <3> QED BY <1>24, <1>27, <3>1, <3>2, <3>3 DEF Untouched, Unheard
  <2> QED BY <2>1, <2>2 DEF Creation
<1>35. PICK tape2 : tape2 = [tape EXCEPT !["B"][s] = u]
  OBVIOUS
<1>36. /\ tape2 \in [Node -> [Ksids -> Seq(Unit)]] /\ tape2["B"][s] = u
       /\ \A l \in Node, r \in Ksids : l # "B" \/ r # s => tape2[l][r] = tape[l][r]
  BY <1>1, <1>3, <1>35 DEF Tapes
<1>37. Tapes(v, own, tape2)
  <2>1. ASSUME NEW l \in Node, NEW r \in Ksids
        PROVE  Told(v.kms[l].assoc[r], tape2[l][r], v.given[l][r])
    <3>1. CASE l = "B" /\ r = s
      <4>1. Told(b, u, g)
        BY <1>13, <1>14, <1>16, <1>18, ToldMore
      <4> QED BY <1>12, <1>22, <1>24, <1>36, <1>7, <3>1, <4>1
    <3>2. CASE l # "B" \/ r # s
      <4>1. Told(w.kms[l].assoc[r], tape[l][r], w.given[l][r])
        BY <1>1 DEF Tapes
      <4>2. v.kms[l].assoc[r] = w.kms[l].assoc[r] /\ tape2[l][r] = tape[l][r]
        BY <1>3, <1>4, <1>22, <1>24, <1>36, <3>2
      <4> QED BY <1>7, <4>1, <4>2
    <3> QED BY <3>1, <3>2
  <2>2. ASSUME NEW r \in Ksids
        PROVE  Begins(tape2["A"][r], tape2["B"][r])
    <3>1. Begins(tape["A"][r], tape["B"][r]) /\ tape2["A"][r] = tape["A"][r]
      BY <1>1, <1>3, <1>36 DEF Tapes
    <3>2. CASE r = s
      <4>1. tape["A"][r] \in Seq(Unit)
        BY <1>1, <1>3 DEF Tapes
      <4> QED BY <1>12, <1>13, <1>14, <1>36, <3>1, <3>2, <4>1, BeginsTrans
    <3>3. CASE r # s
      BY <1>3, <1>36, <3>1, <3>3
    <3> QED BY <3>2, <3>3
  <2>3. ASSUME v.kms["A"].failed = "no", NEW r \in Ksids
        PROVE  Linked(own, r, tape2["A"][r], tape2["B"][r], v.net["A"])
    <3> DEFINE t0 == tape["A"][r]
               u0 == tape["B"][r]
               u2 == tape2["B"][r]
    <3>1. Linked(own, r, t0, u0, ms) /\ u0 \in Seq(Unit) /\ u2 \in Seq(Unit)
      BY <1>1, <1>3, <1>24, <1>26, <1>36, <2>3 DEF Tapes
    <3>2. Pours(u0, Share(own, r, f), u2)
      <4>1. CASE r = s
        <5>1. Share(own, r, f) = found
          <6>1. found # <<>> => own[found[1]] = s
            <7>1. found # <<>> => found[1] \in KeysIn(found)
              BY <1>9 DEF KeysIn
            <7> QED BY <1>10, <7>1
          <6> QED BY <1>25, <4>1, <6>1 DEF Share
        <5> QED BY <1>12, <1>14, <1>36, <4>1, <5>1
      <4>2. CASE r # s
        <5>1. Share(own, r, f) = <<>>
          <6>1. found # <<>> => own[found[1]] = s
            <7>1. found # <<>> => found[1] \in KeysIn(found)
              BY <1>9 DEF KeysIn
            <7> QED BY <1>10, <7>1
          <6> QED BY <1>25, <4>2, <6>1 DEF Share
        <5>2. u2 = u0
          BY <1>3, <1>36, <4>2
        <5> QED BY <3>1, <5>1, <5>2, PoursNone
      <4> QED BY <4>1, <4>2
    <3> HIDE DEF t0, u0, u2
    <3>3. Linked(own, r, t0, u2, Append(ms, f))
      BY <1>26, <3>1, <3>2, LinkedMore
    <3>4. tape2["A"][r] = tape["A"][r]
      BY <1>3, <1>36
    <3> QED BY <1>27, <3>3, <3>4 DEF t0, u2
  <2>4. ASSUME NEW r \in Ksids, Fresh(v, r)
        PROVE  tape2["A"][r] = <<>> /\ tape2["B"][r] = <<>>
    <3>1. Fresh(w, r) /\ r # s
      BY <1>29, <2>4
    <3>2. tape["A"][r] = <<>> /\ tape["B"][r] = <<>>
      BY <1>1, <3>1 DEF Tapes
    <3> QED BY <1>3, <1>36, <3>1, <3>2
  <2> QED BY <1>1, <1>24, <1>27, <1>36, <2>1, <2>2, <2>3, <2>4 DEF Tapes
<1> QED BY <1>31, <1>32, <1>33, <1>34, <1>37 DEF Streaming

(* What becomes of the KMS of the master when it asks for a fill.          *)
FillOf(s, ks) == [type |-> "fill", ksid |-> s, keys |-> ks]

AskedFor(x, s, ks, z) ==
  /\ z = [x EXCEPT !.q = z.q, !.assoc = z.assoc, !.query = z.query]
  /\ z.q = x.q \ KeysIn(ks) /\ z.query = Append(x.query, FillOf(s, ks))
  /\ z.assoc = [x.assoc EXCEPT ![s] =
                  [x.assoc[s] EXCEPT !.buf = EachKey(ReserveStreamKey, x.assoc[s].buf, ks)]]
  /\ z.looks = x.looks /\ z.failed = x.failed

FillChange(w, s, ks, z, v) ==
  /\ w.kms["A"].assoc[s].open /\ w.kms["A"].assoc[s].peerRegistered
  /\ ks \in Lists /\ KeysIn(ks) \subseteq w.kms["A"].q
  /\ AskedFor(w.kms["A"], s, ks, z)
  /\ v.kms = [w.kms EXCEPT !["A"] = z] /\ v.net = [w.net EXCEPT !["B"] = Append(@, FillOf(s, ks))]
  /\ v.app = w.app /\ v.given = w.given /\ v.stored = w.stored

(* The master asks for a fill.                                             *)
LEMMA MasterFills ==
  ASSUME NEW w, Streaming(w), NEW s \in Ksids, NEW ks, NEW z, NEW v, FillChange(w, s, ks, z, v)
  PROVE  Streaming(v)
<1>1. PICK own, tape : Tapes(w, own, tape)
  BY DEF Streaming
<1>2. /\ Shaped(w) /\ OneSided(w) /\ Waiting(w) /\ Creation(w)
  BY DEF Streaming
<1>3. "A" \in Node /\ "B" \in Node /\ Node = {"A", "B"}
  BY DEF Node
<1>4. PICK x : x = w.kms["A"] /\ x \in KmsOf(x)
  BY <1>2, <1>3 DEF Shaped
<1>5. /\ x.assoc[s].open /\ x.assoc[s].peerRegistered /\ ks \in Lists /\ KeysIn(ks) \subseteq x.q
      /\ AskedFor(x, s, ks, z)
  BY <1>4 DEF FillChange
<1>6. v.app = w.app /\ v.given = w.given /\ v.stored = w.stored
  BY DEF FillChange
<1>7. ks \in Seq(KeyIds)
  BY <1>5 DEF Lists
<1>8. ~Fresh(w, s)
  <2>1. Fresh(w, s) => Untouched(w, s)
    BY <1>2 DEF Creation
  <2> QED BY <1>4, <1>5, <2>1 DEF Untouched, Unheard
<1>9. PICK a : a = x.assoc[s] /\ a \in Association /\ a.open
  BY <1>4, <1>5 DEF KmsOf
<1>10. PICK t, g : t = tape["A"][s] /\ g = w.given["A"][s]
  OBVIOUS
<1>11. t \in Seq(Unit) /\ g \in Seq(GivenChunks) /\ Told(a, t, g)
  BY <1>1, <1>2, <1>3, <1>4, <1>9, <1>10 DEF Tapes, Shaped
<1>12. PICK d : d = EachKey(ReserveStreamKey, a.buf, ks)
  OBVIOUS
<1>13. d \in StreamType /\ Follows(d, t, Len(g)) /\ d.reserved = a.buf.reserved \cup KeysIn(ks)
  <2>1. PICK c : c = a.buf
    OBVIOUS
  <2>2. PICK l \in Nat : l = Len(g)
    BY <1>11
  <2>3. c \in StreamType /\ Follows(c, t, l)
    BY <1>9, <1>11, <2>1, <2>2 DEF Told, Association
  <2>4. LET e == EachKey(ReserveStreamKey, c, ks)
        IN e \in StreamType /\ Follows(e, t, l) /\ e.reserved = c.reserved \cup KeysIn(ks)
    BY <1>7, <1>11, <2>3, ReserveAll
  <2> QED BY <1>12, <2>1, <2>2, <2>4
<1>14. PICK b : b = [a EXCEPT !.buf = d]
  OBVIOUS
<1>15. b \in Association /\ b.open /\ b.peerRegistered = a.peerRegistered /\ b.buf = d
  BY <1>9, <1>13, <1>14 DEF Association
<1>16. PICK f : f = FillOf(s, ks)
  OBVIOUS
<1>17. f \in Mail /\ f.type = "fill" /\ f.keys = ks /\ f.ksid = s
  <2>1. f \in Fills /\ f.type = "fill" /\ f.keys = ks /\ f.ksid = s
    BY <1>5, <1>16 DEF FillOf, Fills
  <2> QED BY <2>1 DEF Mail
<1>18. PICK qs : qs = x.query /\ qs \in Seq(Mail)
  BY <1>4 DEF KmsOf
<1>19. /\ z.q = x.q \ KeysIn(ks) /\ z.query = Append(qs, f) /\ z.looks = x.looks
       /\ z.failed = x.failed
       /\ z = [x EXCEPT !.q = z.q, !.assoc = z.assoc, !.query = z.query]
       /\ z.assoc = [x.assoc EXCEPT ![s] = b]
  BY <1>5, <1>9, <1>12, <1>14, <1>16, <1>18 DEF AskedFor
<1>20. x.assoc \in [Ksids -> Association]
  BY <1>4 DEF KmsOf
<1>21. z.assoc[s] = b /\ \A r \in Ksids : r # s => z.assoc[r] = x.assoc[r]
  BY <1>19, <1>20
<1>22. z \in KmsOf(z)
  <2>1. z.assoc \in [Ksids -> Association]
    BY <1>15, <1>19, <1>20
  <2>2. z.q \in SUBSET KeyIds
    BY <1>4, <1>19 DEF KmsOf
  <2>3. z.query \in Seq(Mail)
    BY <1>17, <1>18, <1>19, AppendIs
  <2> QED BY <1>4, <1>19, <2>1, <2>2, <2>3 DEF KmsOf
<1>23. /\ v.kms["A"] = z /\ v.kms["B"] = w.kms["B"] /\ v.kms = [l \in Node |-> v.kms[l]]
  BY <1>2, <1>3 DEF Shaped, FillChange
<1>24. PICK ms : ms = w.net["B"] /\ ms \in Seq(Mail)
  BY <1>2, <1>3 DEF Shaped
<1>25. /\ v.net["B"] = Append(ms, f) /\ v.net["A"] = w.net["A"] /\ v.net \in [Node -> Seq(Mail)]
  <2>1. Append(ms, f) \in Seq(Mail)
    BY <1>17, <1>24, AppendIs
  <2>2. w.net \in [Node -> Seq(Mail)]
    BY <1>2 DEF Shaped
  <2>3. v.net = [w.net EXCEPT !["B"] = Append(ms, f)]
    BY <1>16, <1>24 DEF FillChange
  <2> QED BY <1>3, <2>1, <2>2, <2>3
<1>26. ASSUME NEW l \in Node, NEW i \in 1 .. Len(v.net[l])
       PROVE  \/ (i \in 1 .. Len(w.net[l]) /\ v.net[l][i] = w.net[l][i])
              \/ (l = "B" /\ v.net[l][i] = f)
  <2>1. CASE l = "B"
    <3>1. PICK e : e = v.net[l][i]
      OBVIOUS
    <3>2. i \in 1 .. Len(Append(ms, f)) /\ e = Append(ms, f)[i]
      BY <1>25, <2>1, <3>1
    <3>3. (i \in 1 .. Len(ms) /\ e = ms[i]) \/ e = f
      BY <1>17, <1>24, <3>2, AppendIs
    <3> QED BY <1>24, <2>1, <3>1, <3>3
  <2>2. CASE l # "B"
    BY <1>3, <1>25, <2>2
  <2> QED BY <2>1, <2>2
<1>27. ASSUME NEW i \in 1 .. Len(z.query)
       PROVE  \/ (i \in 1 .. Len(qs) /\ z.query[i] = qs[i])
              \/ (z.query[i] = f /\ i = Len(qs) + 1)
  <2>1. PICK e : e = z.query[i]
    OBVIOUS
  <2>2. i \in 1 .. Len(Append(qs, f)) /\ e = Append(qs, f)[i]
    BY <1>19, <2>1
  <2>3. (i \in 1 .. Len(qs) /\ e = qs[i]) \/ (e = f /\ i = Len(qs) + 1)
    BY <1>17, <1>18, <2>2, AppendIs
  <2> QED BY <2>1, <2>3
<1>28. ASSUME NEW r \in Ksids, Fresh(v, r)
       PROVE  Fresh(w, r) /\ r # s
  <2>1. Fresh(w, r)
    <3>1. CASE v.app[Primary[r]][r] = "none"
      BY <1>6, <3>1 DEF Fresh
    <3>2. CASE \E i \in 1 .. Len(v.net[Replica(r)]) : v.net[Replica(r)][i] = Ask("new_app", r)
      <4>1. PICK i \in 1 .. Len(v.net[Replica(r)]) : v.net[Replica(r)][i] = Ask("new_app", r)
        BY <3>2
      <4>2. Ask("new_app", r) # f /\ Replica(r) \in Node
        BY <1>17, NodeIs DEF Ask
      <4>3. i \in 1 .. Len(w.net[Replica(r)]) /\ w.net[Replica(r)][i] = Ask("new_app", r)
        BY <1>26, <4>1, <4>2
      <4> QED BY <4>3 DEF Fresh
    <3> QED BY <1>28, <3>1, <3>2 DEF Fresh
  <2> QED BY <1>8, <2>1
<1>29. PICK gone : gone = Gone(w) /\ gone \cap KeysIn(ks) = {} /\ Gone(v) = gone \cup KeysIn(ks)
  <2>1. x.q \subseteq w.stored["A"]
    BY <1>2, <1>4 DEF Shaped
  <2>2. Gone(w) = w.stored["A"] \ x.q
    BY <1>4 DEF Gone
  <2>3. Gone(v) = w.stored["A"] \ (x.q \ KeysIn(ks))
    BY <1>6, <1>19, <1>23 DEF Gone
  <2> QED BY <1>5, <2>1, <2>2, <2>3
<1>30. Shaped(v)
  <2>1. \A l \in Node : v.kms[l] \in KmsOf(v.kms[l])
    BY <1>2, <1>3, <1>22, <1>23 DEF Shaped
  <2>2. v.kms["A"].q \subseteq v.stored["A"]
    BY <1>2, <1>4, <1>6, <1>19, <1>23 DEF Shaped
  <2> QED BY <1>2, <1>6, <1>23, <1>25, <2>1, <2>2 DEF Shaped
<1>31. OneSided(v)
  <2>1. \A i \in 1 .. Len(v.net["B"]) : v.net["B"][i].type # "filled"
    BY <1>2, <1>3, <1>17, <1>26 DEF OneSided
  <2> QED BY <1>2, <1>23, <1>25, <2>1 DEF OneSided
<1>32. ASSUME NEW i \in 1 .. Len(qs), qs[i].type = "fill"
       PROVE  Waits(x, i, gone) /\ KeysIn(qs[i].keys) \subseteq gone
  BY <1>2, <1>4, <1>18, <1>29, <1>32 DEF Waiting, Waits
<1>33. Waiting(v)
  <2>1. ASSUME NEW l \in Node, NEW i \in 1 .. Len(v.net[l]), v.net[l][i].type \in {"fill", "filled"}
        PROVE  KeysIn(v.net[l][i].keys) \subseteq Gone(v)
    <3>1. CASE i \in 1 .. Len(w.net[l]) /\ v.net[l][i] = w.net[l][i]
      BY <1>2, <1>29, <2>1, <3>1 DEF Waiting
    <3>2. CASE v.net[l][i] = f
      BY <1>17, <1>29, <3>2
    <3> QED BY <1>26, <2>1, <3>1, <3>2
  <2>2. ASSUME NEW i \in 1 .. Len(z.query), z.query[i].type = "fill"
        PROVE  Waits(z, i, Gone(v))
    <3>1. CASE i \in 1 .. Len(qs) /\ z.query[i] = qs[i]
      <4>1. PICK r : r = qs[i]
        OBVIOUS
      <4>2. r.ksid \in Ksids
        BY <1>18, <2>2, <3>1, <4>1, MailIs
      <4>3. Waits(x, i, gone) /\ KeysIn(r.keys) \subseteq gone
        BY <1>32, <2>2, <3>1, <4>1
      <4>4. z.assoc[r.ksid].open => KeysIn(r.keys) \subseteq z.assoc[r.ksid].buf.reserved
        <5>1. x.assoc[r.ksid].open => KeysIn(r.keys) \subseteq x.assoc[r.ksid].buf.reserved
          BY <1>18, <4>1, <4>3 DEF Waits
        <5>2. CASE r.ksid = s
          BY <1>9, <1>13, <1>15, <1>21, <5>1, <5>2
        <5>3. CASE r.ksid # s
          BY <1>21, <4>2, <5>1, <5>3
        <5> QED BY <5>2, <5>3
      <4>5. ASSUME NEW j \in 1 .. Len(z.query), j # i, z.query[j].type = "fill"
            PROVE  KeysIn(r.keys) \cap KeysIn(z.query[j].keys) = {}
        <5>1. CASE j \in 1 .. Len(qs) /\ z.query[j] = qs[j]
          BY <1>18, <4>1, <4>3, <4>5, <5>1 DEF Waits
        <5>2. CASE z.query[j] = f
          BY <1>17, <1>29, <4>3, <5>2
        <5> QED BY <1>27, <5>1, <5>2
      <4> QED BY <1>29, <3>1, <4>1, <4>3, <4>4, <4>5 DEF Waits
    <3>2. CASE z.query[i] = f /\ i = Len(qs) + 1
      <4>1. KeysIn(ks) \subseteq z.assoc[s].buf.reserved
        BY <1>13, <1>15, <1>21
      <4>2. ASSUME NEW j \in 1 .. Len(z.query), j # i, z.query[j].type = "fill"
            PROVE  KeysIn(ks) \cap KeysIn(z.query[j].keys) = {}
        <5>1. j \in 1 .. Len(qs) /\ z.query[j] = qs[j]
          BY <1>27, <3>2, <4>2
        <5>2. KeysIn(qs[j].keys) \subseteq gone
          BY <1>32, <4>2, <5>1
        <5> QED BY <1>29, <5>1, <5>2
      <4> QED BY <1>17, <1>29, <3>2, <4>1, <4>2 DEF Waits
    <3> QED BY <1>27, <3>1, <3>2
  <2> QED BY <1>23, <2>1, <2>2 DEF Waiting
<1>34. Creation(v)
  <2>1. ASSUME NEW l \in Node, NEW i \in 1 .. Len(v.net[l]), v.net[l][i].type = "new_app"
        PROVE  OnceNew(v, l, i)
    <3>1. i \in 1 .. Len(w.net[l]) /\ v.net[l][i] = w.net[l][i]
      BY <1>17, <1>26, <2>1
    <3>2. OnceNew(w, l, i)
      BY <1>2, <2>1, <3>1 DEF Creation
    <3>3. ASSUME NEW j \in 1 .. Len(v.net[l]), v.net[l][j] = v.net[l][i]
          PROVE  j = i
      <4>1. j \in 1 .. Len(w.net[l]) /\ w.net[l][j] = w.net[l][i]
        BY <1>17, <1>26, <2>1, <3>1, <3>3
      <4> QED BY <3>2, <4>1 DEF OnceNew, OnceIn
    <3> QED BY <1>6, <3>1, <3>2, <3>3 DEF OnceNew, OnceIn
  <2>2. ASSUME NEW r \in Ksids, Fresh(v, r)
        PROVE  Untouched(v, r)
    <3>1. Untouched(w, r) /\ r # s /\ Replica(r) \in Node
      BY <1>2, <1>28, <2>2, NodeIs DEF Creation
    <3>2. \A i \in 1 .. Len(v.net["B"]) : v.net["B"][i].type = "fill" => v.net["B"][i].ksid # r
      BY <1>3, <1>17, <1>26, <3>1 DEF Untouched, Unheard
    <3>3. \A l \in Node : v.kms[l].assoc[r] = w.kms[l].assoc[r]
      BY <1>3, <1>4, <1>21, <1>23, <3>1
    <3>4. ASSUME NEW i \in 1 .. Len(z.query), z.query[i].type = "fill" PROVE z.query[i].ksid # r
      BY <1>4, <1>17, <1>18, <1>27, <3>1, <3>4 DEF Untouched, Unheard
    <3> QED BY <1>3, <1>23, <1>25, <3>1, <3>2, <3>3, <3>4 DEF Untouched, Unheard
  <2> QED BY <2>1, <2>2 DEF Creation
<1>35. PICK own2 : own2 = [k \in KeyIds |-> IF k \in KeysIn(ks) THEN s ELSE own[k]]
  OBVIOUS
<1>36. /\ own2 = [k \in KeyIds |-> own2[k]] /\ \A k \in KeysIn(ks) : own2[k] = s
       /\ \A k \in KeyIds : k \in gone => own2[k] = own[k]
       /\ KeysIn(ks) \subseteq KeyIds
  <2>1. KeysIn(ks) \subseteq KeyIds
    BY <1>7, UpToIs
  <2> QED BY <1>29, <1>35, <2>1
<1>37. ASSUME NEW e \in Mail, e.type \in {"fill", "filled"}, KeysIn(e.keys) \subseteq gone
       PROVE  \A k \in KeysIn(e.keys) : own2[k] = own[k]
  <2>1. e.keys \in Seq(KeyIds)
    BY <1>37, MailIs DEF Lists
  <2>2. KeysIn(e.keys) \subseteq KeyIds
    BY <2>1, UpToIs
  <2> QED BY <1>36, <1>37, <2>2
<1>38. Tapes(v, own2, tape)
  <2>1. ASSUME NEW l \in Node, NEW r \in Ksids
        PROVE  Told(v.kms[l].assoc[r], tape[l][r], v.given[l][r])
    <3>0. Told(w.kms[l].assoc[r], tape[l][r], w.given[l][r])
      BY <1>1 DEF Tapes
    <3>1. CASE l = "A" /\ r = s
      <4>1. Told(b, t, g)
        BY <1>11, <1>13, <1>15 DEF Told
      <4> QED BY <1>6, <1>10, <1>21, <1>23, <3>1, <4>1
    <3>2. CASE l # "A" \/ r # s
      <4>1. v.kms[l].assoc[r] = w.kms[l].assoc[r]
        BY <1>3, <1>4, <1>21, <1>23, <3>2
      <4> QED BY <1>6, <3>0, <4>1
    <3> QED BY <3>1, <3>2
  <2>2. ASSUME v.kms["A"].failed = "no", NEW r \in Ksids
        PROVE  Linked(own2, r, tape["A"][r], tape["B"][r], v.net["A"])
    <3>1. PICK ns : ns = w.net["A"] /\ ns \in Seq(Mail)
      BY <1>2, <1>3 DEF Shaped
    <3> DEFINE t0 == tape["A"][r]
               u0 == tape["B"][r]
    <3>2. Linked(own, r, t0, u0, ns)
      BY <1>1, <1>4, <1>19, <1>23, <2>2, <3>1 DEF Tapes
    <3>3. ASSUME NEW i \in 1 .. Len(ns)
          PROVE  Share(own2, r, ns[i]) = Share(own, r, ns[i])
      <4>1. PICK e \in Mail : e = ns[i]
        BY <3>1
      <4>2. e.type = "filled" /\ e.keys # <<>> => own2[e.keys[1]] = own[e.keys[1]]
        <5>1. SUFFICES ASSUME e.type = "filled", e.keys # <<>> PROVE own2[e.keys[1]] = own[e.keys[1]]
          OBVIOUS
        <5>2. KeysIn(e.keys) \subseteq gone
          BY <1>2, <1>3, <1>29, <3>1, <4>1, <5>1 DEF Waiting
        <5>3. e.keys \in Seq(KeyIds)
          BY <5>1, MailIs DEF Lists
        <5>4. e.keys[1] \in KeysIn(e.keys)
          BY <5>1, <5>3 DEF KeysIn
        <5> QED BY <1>37, <5>1, <5>2, <5>4
      <4> QED BY <4>1, <4>2 DEF Share
    <3> HIDE DEF t0, u0
    <3>4. Linked(own2, r, t0, u0, ns)
      BY <3>1, <3>2, <3>3, LinkedSame
    <3> QED BY <1>25, <3>1, <3>4 DEF t0, u0
  <2>3. Claimed(own2, z.query)
    <3>1. ASSUME NEW i \in 1 .. Len(z.query), z.query[i].type = "fill", NEW k \in KeysIn(z.query[i].keys)
          PROVE  own2[k] = z.query[i].ksid
      <4>1. CASE i \in 1 .. Len(qs) /\ z.query[i] = qs[i]
        <5>1. PICK e \in Mail : e = qs[i]
          BY <1>18, <4>1
        <5>2. Claimed(own, qs)
          BY <1>1, <1>4, <1>18 DEF Tapes
        <5>3. own[k] = e.ksid /\ e.type = "fill" /\ k \in KeysIn(e.keys) /\ z.query[i] = e
          BY <3>1, <4>1, <5>1, <5>2 DEF Claimed
        <5>4. KeysIn(e.keys) \subseteq gone
          BY <1>32, <4>1, <5>1, <5>3
        <5> QED BY <1>37, <5>3, <5>4
      <4>2. CASE z.query[i] = f
        BY <1>17, <1>36, <3>1, <4>2
      <4> QED BY <1>27, <4>1, <4>2
    <3> QED BY <3>1 DEF Claimed
  <2>4. Claimed(own2, v.net["B"])
    <3>1. ASSUME NEW i \in 1 .. Len(v.net["B"]), v.net["B"][i].type = "fill",
                 NEW k \in KeysIn(v.net["B"][i].keys)
          PROVE  own2[k] = v.net["B"][i].ksid
      <4>1. CASE i \in 1 .. Len(ms) /\ v.net["B"][i] = ms[i]
        <5>1. PICK e \in Mail : e = ms[i]
          BY <1>24, <4>1
        <5>2. Claimed(own, ms)
          BY <1>1, <1>24 DEF Tapes
        <5>3. own[k] = e.ksid /\ e.type = "fill" /\ k \in KeysIn(e.keys) /\ v.net["B"][i] = e
          BY <3>1, <4>1, <5>1, <5>2 DEF Claimed
        <5>4. KeysIn(e.keys) \subseteq gone
          BY <1>2, <1>3, <1>24, <1>29, <4>1, <5>1, <5>3 DEF Waiting
        <5> QED BY <1>37, <5>3, <5>4
      <4>2. CASE v.net["B"][i] = f
        BY <1>17, <1>36, <3>1, <4>2
      <4> QED BY <1>3, <1>24, <1>26, <4>1, <4>2
    <3> QED BY <3>1 DEF Claimed
  <2> QED BY <1>1, <1>23, <1>28, <1>36, <2>1, <2>2, <2>3, <2>4 DEF Tapes
<1> QED BY <1>30, <1>31, <1>33, <1>34, <1>38 DEF Streaming

(* The master's tape is a beginning of the slave's.                        *)
LEMMA LinkedBegins ==
  ASSUME NEW own, NEW s, NEW t \in Seq(Unit), NEW u, NEW ms \in Seq(Mail), Linked(own, s, t, u, ms)
  PROVE  Begins(t, u)
<1>1. PICK st : /\ st \in [0 .. Len(ms) -> Seq(Unit)] /\ st[0] = t /\ st[Len(ms)] = u
                /\ \A i \in 1 .. Len(ms) : Pours(st[i - 1], Share(own, s, ms[i]), st[i])
  BY DEF Linked
<1>2. PICK n \in Nat : n = Len(ms)
  OBVIOUS
<1> DEFINE S == {i \in Nat : i <= n => Begins(t, st[i])}
<1>3. 0 \in S
  BY <1>1, BeginsTrans
<1>4. ASSUME NEW i \in Nat, i \in S
      PROVE  i + 1 \in S
  <2>1. CASE i + 1 <= n
    <3>1. i + 1 \in 1 .. Len(ms) /\ (i + 1) - 1 = i /\ i \in 0 .. Len(ms) /\ i + 1 \in 0 .. Len(ms) /\ i <= n
      BY <1>2, <2>1
    <3>2. PICK t1, t2, ks : t1 = st[i] /\ t2 = st[i + 1] /\ ks = Share(own, s, ms[i + 1])
      OBVIOUS
    <3>3. t1 \in Seq(Unit) /\ t2 \in Seq(Unit) /\ Begins(t, t1) /\ Pours(t1, ks, t2)
      BY <1>1, <1>4, <3>1, <3>2
    <3>4. ks \in Seq(KeyIds)
      <4>1. PICK m \in Mail : m = ms[i + 1]
        BY <3>1
      <4>2. m.type = "filled" => m.keys \in Seq(KeyIds)
        BY MailIs DEF Lists
      <4> QED BY <3>2, <4>1, <4>2 DEF Share
    <3>5. Begins(t1, t2)
      BY <3>3, <3>4, PoursBegins
    <3>6. Begins(t, t2)
      BY <3>3, <3>5, BeginsTrans
    <3> QED BY <3>2, <3>6
  <2>2. CASE ~(i + 1 <= n)
    BY <2>2
  <2> QED BY <2>1, <2>2
<1> HIDE DEF S
<1>5. Nat \subseteq S
  BY <1>3, <1>4, NatInd
<1> QED BY <1>1, <1>2, <1>5 DEF S

(* The first of some places in a list.                                     *)
LEMMA MinIs ==
  ASSUME NEW n \in Nat, NEW S \in SUBSET (1 .. n), S # {}
  PROVE  Min(S) \in S
<1> DEFINE Below == {i \in Nat : \A j \in S : i <= j}
           N   == {i \in Nat : i \in Below}
<1>1. \E i \in S : \A j \in S : i <= j
  <2>1. SUFFICES ASSUME ~\E i \in S : \A j \in S : i <= j PROVE FALSE
    OBVIOUS
  <2>2. 0 \in N
    OBVIOUS
  <2>3. ASSUME NEW i \in Nat, i \in N
        PROVE  i + 1 \in N
    <3>1. i \notin S
      BY <2>1, <2>3
    <3>2. \A j \in S : j \in Nat /\ i <= j /\ i # j
      BY <2>3, <3>1
    <3> QED BY <3>2
  <2> HIDE DEF N
  <2>4. Nat \subseteq N
    BY <2>2, <2>3, NatInd
  <2>5. n + 1 \in Below
    BY <2>4 DEF N
  <2>6. PICK j \in S : TRUE
    OBVIOUS
  <2> QED BY <2>5, <2>6
<1> QED BY <1>1 DEF Min

(* What becomes of the KMS of the master when a fill is answered.          *)
AnsweredIn(x, r, ks, first, z) ==
  /\ z = [x EXCEPT !.assoc = z.assoc, !.query = z.query]
  /\ z.q = x.q /\ z.looks = x.looks /\ z.failed = x.failed
  /\ z.query = SubSeq(x.query, first + 1, Len(x.query))
  /\ z.assoc = [x.assoc EXCEPT ![r.ksid] =
                  [x.assoc[r.ksid] EXCEPT !.buf = Poured(x.assoc[r.ksid].buf, r.keys, ks)]]

AnswerChange(w, first, z, v) ==
  LET x == w.kms["A"]
      r == x.query[first]
      m == Head(w.net["A"])
  IN /\ x.failed = "no" /\ w.net["A"] # <<>> /\ m.type = "filled"
     /\ first \in 1 .. Len(x.query) /\ r.type = "fill" /\ x.assoc[r.ksid].open
     /\ KeysIn(m.keys) \subseteq KeysIn(r.keys)
     /\ AnsweredIn(x, r, m.keys, first, z)
     /\ v.kms = [w.kms EXCEPT !["A"] = z] /\ v.net = [w.net EXCEPT !["A"] = Tail(@)]
     /\ v.app = w.app /\ v.given = w.given /\ v.stored = w.stored

(* The master pours in the keys the slave has, and takes out the fill with *)
(* the queries before it.                                                  *)
LEMMA MasterPours ==
  ASSUME NEW w, Streaming(w), NEW first, NEW z, NEW v, AnswerChange(w, first, z, v)
  PROVE  Streaming(v)
<1>1. PICK own, tape : Tapes(w, own, tape)
  BY DEF Streaming
<1>2. /\ Shaped(w) /\ OneSided(w) /\ Waiting(w) /\ Creation(w)
  BY DEF Streaming
<1>3. "A" \in Node /\ "B" \in Node /\ Node = {"A", "B"}
  BY DEF Node
<1>4. PICK x : x = w.kms["A"] /\ x \in KmsOf(x)
  BY <1>2, <1>3 DEF Shaped
<1>5. PICK qs : qs = x.query /\ qs \in Seq(Mail)
  BY <1>4 DEF KmsOf
<1>6. PICK ms : ms = w.net["A"] /\ ms \in Seq(Mail)
  BY <1>2, <1>3 DEF Shaped
<1>7. PICK r, m : r = qs[first] /\ m = Head(ms)
  OBVIOUS
<1>8. /\ x.failed = "no" /\ ms # <<>> /\ m.type = "filled" /\ first \in 1 .. Len(qs)
      /\ r.type = "fill" /\ x.assoc[r.ksid].open /\ KeysIn(m.keys) \subseteq KeysIn(r.keys)
      /\ AnsweredIn(x, r, m.keys, first, z)
  BY <1>4, <1>5, <1>6, <1>7 DEF AnswerChange
<1>9. v.app = w.app /\ v.given = w.given /\ v.stored = w.stored
  BY DEF AnswerChange
<1>10. PICK s \in Ksids : s = r.ksid /\ r \in Mail /\ r.keys \in Lists
  BY <1>5, <1>7, <1>8, MailIs
<1>11. PICK ks \in Lists : ks = m.keys /\ m \in Mail /\ ks \in Seq(KeyIds)
  <2>1. m \in Mail
    BY <1>6, <1>7, <1>8, TailIs
  <2> QED BY <1>8, <2>1, MailIs DEF Lists
<1>12. PICK a : a = x.assoc[s] /\ a \in Association /\ a.open
  BY <1>4, <1>8, <1>10 DEF KmsOf
<1>13. Waits(x, first, Gone(w)) /\ KeysIn(r.keys) \subseteq a.buf.reserved
  <2>1. Waits(x, first, Gone(w))
    BY <1>2, <1>4, <1>5, <1>7, <1>8 DEF Waiting
  <2> QED BY <1>5, <1>7, <1>10, <1>12, <2>1 DEF Waits
<1>14. ~Fresh(w, s)
  <2>1. Fresh(w, s) => Untouched(w, s)
    BY <1>2 DEF Creation
  <2> QED BY <1>4, <1>5, <1>7, <1>8, <1>10, <2>1 DEF Untouched, Unheard
<1>15. \A k \in KeysIn(r.keys) : own[k] = s
  <2>1. Claimed(own, qs)
    BY <1>1, <1>4, <1>5 DEF Tapes
  <2> QED BY <1>7, <1>8, <1>10, <2>1 DEF Claimed
<1>16. ks # <<>> => own[ks[1]] = s
  <2>1. SUFFICES ASSUME ks # <<>> PROVE own[ks[1]] = s
    OBVIOUS
  <2>2. ks[1] \in KeysIn(ks)
    BY <1>11, <2>1 DEF KeysIn
  <2> QED BY <1>8, <1>11, <1>15, <2>2
<1>17. \A e \in Ksids : Share(own, e, m) = IF e = s THEN ks ELSE <<>>
  BY <1>8, <1>11, <1>16 DEF Share
<1>18. PICK t, g : t = tape["A"][s] /\ g = w.given["A"][s]
  OBVIOUS
<1>19. t \in Seq(Unit) /\ g \in Seq(GivenChunks) /\ Told(a, t, g)
  BY <1>1, <1>2, <1>3, <1>4, <1>12, <1>18 DEF Tapes, Shaped
<1>20. ASSUME NEW e \in Ksids
       PROVE  Linked(own, e, tape["A"][e], tape["B"][e], ms) /\ tape["A"][e] \in Seq(Unit)
  BY <1>1, <1>3, <1>4, <1>6, <1>8 DEF Tapes
<1>21. PICK u \in Seq(Unit) : Pours(t, ks, u) /\ Linked(own, s, u, tape["B"][s], Tail(ms))
  <2>1. PICK t0, u0 : t0 = tape["A"][s] /\ u0 = tape["B"][s]
    OBVIOUS
  <2>2. t0 \in Seq(Unit) /\ Linked(own, s, t0, u0, ms)
    BY <1>20, <2>1
  <2>3. \E t2 \in Seq(Unit) : Pours(t0, Share(own, s, Head(ms)), t2) /\ Linked(own, s, t2, u0, Tail(ms))
    BY <1>6, <1>8, <2>2, LinkedTail
  <2> QED BY <1>7, <1>17, <1>18, <2>1, <2>3
<1>22. ASSUME NEW e \in Ksids, e # s
       PROVE  Linked(own, e, tape["A"][e], tape["B"][e], Tail(ms))
  <2>1. PICK t0, u0 : t0 = tape["A"][e] /\ u0 = tape["B"][e]
    OBVIOUS
  <2>2. t0 \in Seq(Unit) /\ Linked(own, e, t0, u0, ms)
    BY <1>20, <2>1
  <2>3. \E t2 \in Seq(Unit) : Pours(t0, Share(own, e, Head(ms)), t2) /\ Linked(own, e, t2, u0, Tail(ms))
    BY <1>6, <1>8, <2>2, LinkedTail
  <2>4. PICK t2 \in Seq(Unit) : Pours(t0, <<>>, t2) /\ Linked(own, e, t2, u0, Tail(ms))
    BY <1>7, <1>17, <1>22, <2>3
  <2>5. <<>> \in Seq(KeyIds)
    OBVIOUS
  <2>6. t2 = t0
    BY <2>2, <2>4, <2>5, PoursBegins
  <2> QED BY <2>1, <2>4, <2>6
<1>23. PICK d : d = Poured(a.buf, r.keys, ks)
  OBVIOUS
<1>24. /\ d \in StreamType /\ Follows(d, u, Len(g))
       /\ a.buf.reserved \ KeysIn(r.keys) \subseteq d.reserved
  <2>1. PICK c : c = a.buf
    OBVIOUS
  <2>2. PICK l \in Nat : l = Len(g)
    BY <1>19
  <2>3. c \in StreamType /\ Follows(c, t, l)
    BY <1>12, <1>19, <2>1, <2>2 DEF Told, Association
  <2>4. PICK e : e = EachKey(AcceptStreamKey, c, ks)
    OBVIOUS
  <2>5. KeysIn(ks) \subseteq c.reserved
    BY <1>8, <1>11, <1>13, <2>1
  <2>6. e \in StreamType /\ Follows(e, u, l) /\ e.reserved = c.reserved \ KeysIn(ks)
    BY <1>19, <1>21, <2>3, <2>4, <2>5, AcceptAll
  <2>7. PICK rest : rest = Listed(r.keys, KeyIds \ KeysIn(ks))
    OBVIOUS
  <2>8. rest \in Seq(KeyIds) /\ KeysIn(rest) \subseteq KeysIn(r.keys)
    <3>1. rest \in Lists /\ KeysIn(rest) = KeysIn(r.keys) \cap (KeyIds \ KeysIn(ks))
      BY <1>10, <2>7, ListedIs
    <3> QED BY <3>1 DEF Lists
  <2>9. PICK f : f = EachKey(DiscardStreamKey, e, rest)
    OBVIOUS
  <2>10. f \in StreamType /\ Follows(f, u, l) /\ e.reserved \ KeysIn(rest) \subseteq f.reserved
    BY <2>6, <2>8, <2>9, DiscardAll
  <2>11. d = f
    BY <1>23, <2>1, <2>4, <2>7, <2>9 DEF Poured
  <2>12. c.reserved \ KeysIn(r.keys) \subseteq f.reserved
    BY <1>8, <1>11, <2>6, <2>8, <2>10
  <2> QED BY <2>1, <2>2, <2>10, <2>11, <2>12
<1>25. PICK b : b = [a EXCEPT !.buf = d]
  OBVIOUS
<1>26. b \in Association /\ b.open /\ b.peerRegistered = a.peerRegistered /\ b.buf = d
  BY <1>12, <1>24, <1>25 DEF Association
<1>27. /\ z = [x EXCEPT !.assoc = z.assoc, !.query = z.query]
       /\ z.q = x.q /\ z.looks = x.looks /\ z.failed = x.failed
       /\ z.query = SubSeq(qs, first + 1, Len(qs)) /\ z.assoc = [x.assoc EXCEPT ![s] = b]
  BY <1>5, <1>8, <1>10, <1>11, <1>12, <1>23, <1>25 DEF AnsweredIn
<1>28. x.assoc \in [Ksids -> Association]
  BY <1>4 DEF KmsOf
<1>29. z.assoc[s] = b /\ \A e \in Ksids : e # s => z.assoc[e] = x.assoc[e]
  BY <1>27, <1>28
<1>30. /\ z.query \in Seq(Mail) /\ first \in Nat
       /\ \A i \in 1 .. Len(z.query) :
            i + first \in 1 .. Len(qs) /\ i + first # first /\ z.query[i] = qs[i + first]
  <2>1. first + 1 \in 1 .. Len(qs) + 1 /\ Len(qs) \in Nat
    BY <1>5, <1>8
  <2>2. PICK l \in Nat : l = Len(qs)
    BY <2>1
  <2>3. z.query = SubSeq(qs, first + 1, l) /\ first + 1 \in 1 .. l + 1 /\ first \in 1 .. l
    BY <1>8, <1>27, <2>1, <2>2
  <2>4. Len(z.query) = l - first /\ \A i \in 1 .. l - first : z.query[i] = qs[i + first]
    BY <1>5, <2>2, <2>3
  <2>5. z.query \in Seq(Mail)
    BY <1>5, <2>2, <2>3
  <2> QED BY <2>2, <2>3, <2>4, <2>5
<1>31. z \in KmsOf(z)
  <2>1. z.assoc \in [Ksids -> Association]
    BY <1>26, <1>27, <1>28
  <2> QED BY <1>4, <1>27, <1>30, <2>1 DEF KmsOf
<1>32. /\ v.kms["A"] = z /\ v.kms["B"] = w.kms["B"] /\ v.kms = [l \in Node |-> v.kms[l]]
  BY <1>2, <1>3 DEF Shaped, AnswerChange
<1>33. /\ v.net["A"] = Tail(ms) /\ v.net["B"] = w.net["B"] /\ v.net \in [Node -> Seq(Mail)]
  <2>1. Tail(ms) \in Seq(Mail)
    BY <1>6, <1>8, TailIs
  <2>2. w.net \in [Node -> Seq(Mail)]
    BY <1>2 DEF Shaped
  <2>3. v.net = [w.net EXCEPT !["A"] = Tail(ms)]
    BY <1>6 DEF AnswerChange
  <2> QED BY <1>3, <2>1, <2>2, <2>3
<1>34a. PICK D : Shift(w, v, "A", D)
  <2>1. \A l \in Node : w.net[l] \in Seq(Mail)
    BY <1>2 DEF Shaped
  <2>2. w.net["A"] # <<>> /\ v.net["A"] = Tail(w.net["A"])
    BY <1>6, <1>33 DEF AnswerChange
  <2>3. \A l \in Node : l # "A" => v.net[l] = w.net[l]
    BY <1>3, <1>33
  <2>4. Pops(w, v, "A")
    BY <2>1, <2>2, <2>3 DEF Pops
  <2> QED BY <1>3, <2>4, TailShift
<1>34. /\ D \in [Node -> {0, 1}]
       /\ \A l \in Node : \A i \in 1 .. Len(v.net[l]) :
            i + D[l] \in 1 .. Len(w.net[l]) /\ v.net[l][i] = w.net[l][i + D[l]]
  BY <1>34a DEF Shift
<1>35a. Fewer(w, v)
  BY <1>34a, ShiftFewer
<1>35. \A l \in Node : \A i \in 1 .. Len(v.net[l]) : \E k \in 1 .. Len(w.net[l]) : v.net[l][i] = w.net[l][k]
  BY <1>35a DEF Fewer
<1>36. \A e \in Ksids : Fresh(v, e) => Fresh(w, e) /\ e # s
  <2> SUFFICES ASSUME NEW e \in Ksids, Fresh(v, e) PROVE Fresh(w, e)
    BY <1>14
  <2>1. CASE v.app[Primary[e]][e] = "none"
    BY <1>9, <2>1 DEF Fresh
  <2>2. CASE \E i \in 1 .. Len(v.net[Replica(e)]) : v.net[Replica(e)][i] = Ask("new_app", e)
    BY <1>35, <2>2, NodeIs DEF Fresh
  <2> QED BY <2>1, <2>2 DEF Fresh
<1>37. Gone(v) = Gone(w)
  BY <1>4, <1>9, <1>27, <1>32 DEF Gone
<1>38. Shaped(v)
  <2>1. \A l \in Node : v.kms[l] \in KmsOf(v.kms[l])
    BY <1>2, <1>3, <1>31, <1>32 DEF Shaped
  <2>2. v.kms["A"].q \subseteq v.stored["A"]
    BY <1>2, <1>4, <1>9, <1>27, <1>32 DEF Shaped
  <2> QED BY <1>2, <1>9, <1>32, <1>33, <2>1, <2>2 DEF Shaped
<1>39. OneSided(v)
  BY <1>2, <1>32, <1>35a, OneSidedFewer
<1>40. Waiting(v)
  <2>1. ASSUME NEW l \in Node, NEW i \in 1 .. Len(v.net[l]), v.net[l][i].type \in {"fill", "filled"}
        PROVE  KeysIn(v.net[l][i].keys) \subseteq Gone(v)
    BY <1>2, <1>35, <1>37, <2>1 DEF Waiting
  <2>2. ASSUME NEW i \in 1 .. Len(z.query), z.query[i].type = "fill"
        PROVE  Waits(z, i, Gone(v))
    <3>1. PICK k : k = i + first
      OBVIOUS
    <3>2. k \in 1 .. Len(qs) /\ k # first /\ z.query[i] = qs[k]
      BY <1>30, <3>1
    <3>3. PICK p \in Mail : p = qs[k] /\ p.type = "fill" /\ p.ksid \in Ksids /\ z.query[i] = p
      BY <1>5, <2>2, <3>2, MailIs
    <3>4. Waits(x, k, Gone(w))
      BY <1>2, <1>4, <1>5, <3>2, <3>3 DEF Waiting
    <3>5. KeysIn(p.keys) \subseteq Gone(v)
      BY <1>5, <1>37, <3>3, <3>4 DEF Waits
    <3>6. z.assoc[p.ksid].open => KeysIn(p.keys) \subseteq z.assoc[p.ksid].buf.reserved
      <4>1. x.assoc[p.ksid].open => KeysIn(p.keys) \subseteq x.assoc[p.ksid].buf.reserved
        BY <1>5, <3>3, <3>4 DEF Waits
      <4>2. KeysIn(p.keys) \cap KeysIn(r.keys) = {}
        BY <1>5, <1>7, <1>8, <3>2, <3>3, <3>4 DEF Waits
      <4>3. CASE p.ksid = s
        BY <1>12, <1>24, <1>26, <1>29, <4>1, <4>2, <4>3
      <4>4. CASE p.ksid # s
        BY <1>29, <3>3, <4>1, <4>4
      <4> QED BY <4>3, <4>4
    <3>7. ASSUME NEW j \in 1 .. Len(z.query), j # i, z.query[j].type = "fill"
          PROVE  KeysIn(p.keys) \cap KeysIn(z.query[j].keys) = {}
      <4>1. j + first \in 1 .. Len(qs) /\ j + first # k /\ z.query[j] = qs[j + first]
        BY <1>30, <3>1, <3>7
      <4> QED BY <1>5, <3>3, <3>4, <3>7, <4>1 DEF Waits
    <3> QED BY <3>3, <3>5, <3>6, <3>7 DEF Waits
  <2> QED BY <1>32, <2>1, <2>2 DEF Waiting
<1>41. Creation(v)
  <2>1. ASSUME NEW l \in Node, NEW i \in 1 .. Len(v.net[l]), v.net[l][i].type = "new_app"
        PROVE  OnceNew(v, l, i)
    <3>1. PICK k : k = i + D[l]
      OBVIOUS
    <3>2. k \in 1 .. Len(w.net[l]) /\ v.net[l][i] = w.net[l][k] /\ OnceNew(w, l, k)
      BY <1>2, <1>34, <2>1, <3>1 DEF Creation
    <3>3. ASSUME NEW j \in 1 .. Len(v.net[l]), v.net[l][j] = v.net[l][i]
          PROVE  j = i
      <4>1. j + D[l] \in 1 .. Len(w.net[l]) /\ w.net[l][j + D[l]] = w.net[l][k]
        BY <1>34, <3>2, <3>3
      <4>2. j + D[l] = k
        BY <3>2, <4>1 DEF OnceNew, OnceIn
      <4>3. D[l] \in {0, 1} /\ j + D[l] = i + D[l]
        BY <1>34, <3>1, <4>2
      <4> QED BY <4>3
    <3> QED BY <1>9, <3>2, <3>3 DEF OnceNew, OnceIn
  <2>2. ASSUME NEW e \in Ksids, Fresh(v, e)
        PROVE  Untouched(v, e)
    <3>1. Untouched(w, e) /\ e # s /\ Replica(e) \in Node
      BY <1>2, <1>36, <2>2, NodeIs DEF Creation
    <3>2. Unheard(v.net, e)
      <4>1. Unheard(w.net, e)
        BY <3>1 DEF Untouched
      <4> QED BY <1>35a, <4>1, UnheardFewer
    <3>3. \A l \in Node : v.kms[l].assoc[e] = w.kms[l].assoc[e]
      BY <1>3, <1>4, <1>29, <1>32, <3>1
    <3>4. ASSUME NEW i \in 1 .. Len(z.query), z.query[i].type = "fill" PROVE z.query[i].ksid # e
      <4>1. i + first \in 1 .. Len(qs) /\ z.query[i] = qs[i + first]
        BY <1>30
      <4>2. \A j \in 1 .. Len(qs) : qs[j].type = "fill" => qs[j].ksid # e
        BY <1>4, <1>5, <3>1 DEF Untouched, Unheard
      <4> QED BY <3>4, <4>1, <4>2
    <3> QED BY <1>3, <1>32, <3>1, <3>2, <3>3, <3>4 DEF Untouched
  <2> QED BY <2>1, <2>2 DEF Creation
<1>42. PICK tape2 : tape2 = [tape EXCEPT !["A"][s] = u]
  OBVIOUS
<1>43. /\ tape2 \in [Node -> [Ksids -> Seq(Unit)]] /\ tape2["A"][s] = u
       /\ \A l \in Node, e \in Ksids : l # "A" \/ e # s => tape2[l][e] = tape[l][e]
  BY <1>1, <1>3, <1>42 DEF Tapes
<1>44. Tapes(v, own, tape2)
  <2>1. ASSUME NEW l \in Node, NEW e \in Ksids
        PROVE  Told(v.kms[l].assoc[e], tape2[l][e], v.given[l][e])
    <3>1. CASE l = "A" /\ e = s
      <4>1. Begins(t, u)
        BY <1>11, <1>19, <1>21, PoursBegins
      <4>2. Told(b, u, g)
        BY <1>19, <1>24, <1>26, <4>1, ToldMore
      <4> QED BY <1>9, <1>18, <1>29, <1>32, <1>43, <3>1, <4>2
    <3>2. CASE l # "A" \/ e # s
      <4>1. Told(w.kms[l].assoc[e], tape[l][e], w.given[l][e])
        BY <1>1 DEF Tapes
      <4>2. v.kms[l].assoc[e] = w.kms[l].assoc[e] /\ tape2[l][e] = tape[l][e]
        BY <1>3, <1>4, <1>29, <1>32, <1>43, <3>2
      <4> QED BY <1>9, <4>1, <4>2
    <3> QED BY <3>1, <3>2
  <2>2. ASSUME NEW e \in Ksids
        PROVE  Linked(own, e, tape2["A"][e], tape2["B"][e], Tail(ms))
    <3>1. tape2["B"][e] = tape["B"][e]
      BY <1>3, <1>43
    <3>2. CASE e = s
      BY <1>21, <1>43, <3>1, <3>2
    <3>3. CASE e # s
      <4>1. tape2["A"][e] = tape["A"][e]
        BY <1>3, <1>43, <3>3
      <4> QED BY <1>22, <3>1, <3>3, <4>1
    <3> QED BY <3>2, <3>3
  <2>3. ASSUME NEW e \in Ksids
        PROVE  Begins(tape2["A"][e], tape2["B"][e])
    <3>1. PICK t0, u0 : t0 = tape2["A"][e] /\ u0 = tape2["B"][e]
      OBVIOUS
    <3>2. t0 \in Seq(Unit) /\ Linked(own, e, t0, u0, Tail(ms))
      BY <1>3, <1>43, <2>2, <3>1
    <3>3. Tail(ms) \in Seq(Mail)
      BY <1>6, <1>8, TailIs
    <3>4. Begins(t0, u0)
      BY <3>2, <3>3, LinkedBegins
    <3> QED BY <3>1, <3>4
  <2>4. ASSUME NEW e \in Ksids, Fresh(v, e)
        PROVE  tape2["A"][e] = <<>> /\ tape2["B"][e] = <<>>
    <3>1. Fresh(w, e) /\ e # s
      BY <1>36, <2>4
    <3>2. tape["A"][e] = <<>> /\ tape["B"][e] = <<>>
      BY <1>1, <3>1 DEF Tapes
    <3> QED BY <1>3, <1>43, <3>1, <3>2
  <2>5. Claimed(own, z.query)
    <3>1. Claimed(own, qs)
      BY <1>1, <1>4, <1>5 DEF Tapes
    <3>2. ASSUME NEW i \in 1 .. Len(z.query), z.query[i].type = "fill"
          PROVE  \A k \in KeysIn(z.query[i].keys) : own[k] = z.query[i].ksid
      <4>1. i + first \in 1 .. Len(qs) /\ z.query[i] = qs[i + first]
        BY <1>30
      <4> QED BY <3>1, <3>2, <4>1 DEF Claimed
    <3> QED BY <3>2 DEF Claimed
  <2> QED BY <1>1, <1>32, <1>33, <1>43, <2>1, <2>2, <2>3, <2>4, <2>5 DEF Tapes
<1> QED BY <1>38, <1>39, <1>40, <1>41, <1>44 DEF Streaming

(* Fill takes different keys of the QBuffer.                               *)
LEMMA PickIs ==
  ASSUME NEW from \in SUBSET KeyIds, NEW amount, NEW ks \in Picks(amount, from)
  PROVE  ks \in Lists /\ KeysIn(ks) \subseteq from
<1>1. PICK n \in 0 .. Cardinality(from) : ks \in Injection(1 .. n, from)
  BY DEF Picks
<1>2. n \in Nat /\ ks \in [1 .. n -> from] /\ IsInjective(ks)
  BY <1>1 DEF Injection
<1>3. ks \in Seq(KeyIds) /\ Len(ks) = n /\ DOMAIN ks = 1 .. n
  BY <1>2
<1>4. \A i, j \in 1 .. Len(ks) : ks[i] = ks[j] => i = j
  BY <1>2, <1>3 DEF IsInjective
<1>5. KeysIn(ks) \subseteq from
  BY <1>2, <1>3 DEF KeysIn
<1> QED BY <1>3, <1>4, <1>5 DEF Lists

(* What a handler may do to its KMS that leaves the streams alone.         *)
Leaves(qs, rs) ==
  \/ rs = qs
  \/ qs # <<>> /\ rs = Tail(qs)
  \/ \E m \in Mail : m.type # "fill" /\ rs = Append(qs, m)

Keeps(fresh, a, b) ==
  \/ b = a \/ b = NoAssociation
  \/ b.open = a.open /\ b.buf = a.buf /\ (b.peerRegistered => a.peerRegistered \/ ~fresh)

(* What makes a change of a KMS a calm one.                                *)
LEMMA CalmIs ==
  ASSUME NEW w, Streaming(w), NEW n \in Node, NEW x, x = w.kms[n], NEW z,
         z.q = x.q, n = "B" => z.looks = {}, x.failed # "no" => z.failed # "no",
         Leaves(x.query, z.query),
         \A s \in Ksids : Keeps(Barred(w, n, s), x.assoc[s], z.assoc[s])
  PROVE  Calm(w, n, z)
<1>1. x \in KmsOf(x)
  BY DEF Streaming, Shaped
<1>2. PICK qs, rs : qs = x.query /\ rs = z.query
  OBVIOUS
<1>3. qs \in Seq(Mail) /\ Leaves(qs, rs)
  BY <1>1, <1>2 DEF KmsOf
<1>4. \E d \in Nat : \A i \in 1 .. Len(rs) :
         rs[i].type = "fill" => i + d \in 1 .. Len(qs) /\ qs[i + d] = rs[i]
  <2>1. CASE rs = qs
    <3>1. \A i \in 1 .. Len(rs) : i + 0 = i
      OBVIOUS
    <3> QED BY <2>1, <3>1
  <2>2. CASE qs # <<>> /\ rs = Tail(qs)
    <3>1. \A i \in 1 .. Len(rs) : i + 1 \in 1 .. Len(qs) /\ qs[i + 1] = rs[i]
      BY <1>3, <2>2, TailIs
    <3>2. 1 \in Nat
      OBVIOUS
    <3> QED BY <3>1, <3>2
  <2>3. CASE \E m \in Mail : m.type # "fill" /\ rs = Append(qs, m)
    <3>1. PICK m \in Mail : m.type # "fill" /\ rs = Append(qs, m)
      BY <2>3
    <3>2. /\ Len(qs) \in Nat /\ rs[Len(qs) + 1] = m
          /\ \A i \in 1 .. Len(rs) : i \in 1 .. Len(qs) \/ i = Len(qs) + 1
          /\ \A i \in 1 .. Len(qs) : rs[i] = qs[i]
      BY <1>3, <3>1, AppendIs
    <3>3. ASSUME NEW i \in 1 .. Len(rs), rs[i].type = "fill"
          PROVE  i + 0 \in 1 .. Len(qs) /\ qs[i + 0] = rs[i]
      <4>1. i \in 1 .. Len(qs) /\ i + 0 = i
        BY <3>1, <3>2, <3>3
      <4> QED BY <3>2, <4>1
    <3> QED BY <3>3
  <2> QED BY <1>3, <2>1, <2>2, <2>3 DEF Leaves
<1>5. \E own, tape : Tapes(w, own, tape)
  BY DEF Streaming
<1>6. ASSUME NEW s \in Ksids
      PROVE  /\ z.assoc[s].open => x.assoc[s].open /\ z.assoc[s].buf = x.assoc[s].buf
             /\ ~z.assoc[s].open => z.assoc[s].buf = EmptyStream
             /\ z.assoc[s].open /\ z.assoc[s].peerRegistered =>
                  x.assoc[s].peerRegistered \/ ~Barred(w, n, s)
  <2>1. PICK a, b, fresh : a = x.assoc[s] /\ b = z.assoc[s] /\ fresh = Barred(w, n, s)
    OBVIOUS
  <2>2. Keeps(fresh, a, b) /\ (~a.open => a.buf = EmptyStream)
    BY <1>5, <2>1 DEF Tapes, Told
  <2>3. ~NoAssociation.open /\ NoAssociation.buf = EmptyStream
    BY DEF NoAssociation
  <2> QED BY <2>1, <2>2, <2>3 DEF Keeps
<1> QED BY <1>2, <1>4, <1>6 DEF Calm

(* The master looks at a stream, and may ask for a fill.                   *)
LEMMA CheckKeeps ==
  ASSUME NEW w, Streaming(w), NEW s \in Ksids, NEW x, x = w.kms["A"],
         NEW o \in CheckEtsi004Association(x, s), NEW v, Steps(w, "A", o, v)
  PROVE  /\ Streaming(v) /\ o.kms \in KmsOf(o.kms) /\ o.sends \in Seq(Mail)
         /\ (x.query # <<>> => o.kms.query # <<>>)
<1>0. /\ v.kms = [w.kms EXCEPT !["A"] = o.kms] /\ v.net = [w.net EXCEPT !["B"] = @ \o o.sends]
      /\ v.app = w.app /\ v.given = w.given /\ v.stored = w.stored
  BY NodeIs DEF Steps
<1>1. "A" \in Node /\ Peer("A") = "B" /\ "A" # "B" /\ x \in KmsOf(x) /\ <<>> \in Seq(Mail)
  BY NodeIs DEF Streaming, Shaped, Node
<1>2. PICK y : y = [x EXCEPT !.checks = @ \ {s}]
  OBVIOUS
<1>3. y \in KmsOf(y)
  BY <1>1, <1>2 DEF KmsOf
<1>4. /\ y.q = x.q /\ y.assoc = x.assoc /\ y.query = x.query /\ y.failed = x.failed
      /\ y.looks = x.looks
  BY <1>1, <1>2 DEF KmsOf
<1>5. ASSUME NEW z, z \in KmsOf(z), z.q = x.q, z.assoc = x.assoc, z.query = x.query,
             x.failed # "no" => z.failed # "no", o = Quiet(z)
      PROVE  /\ Streaming(v) /\ o.kms \in KmsOf(o.kms) /\ o.sends \in Seq(Mail)
             /\ (x.query # <<>> => o.kms.query # <<>>)
  <2>1. o.kms = z /\ o.sends = <<>>
    BY <1>5 DEF Quiet
  <2>2. Leaves(x.query, z.query) /\ \A r \in Ksids : Keeps(Barred(w, "A", r), x.assoc[r], z.assoc[r])
    BY <1>5 DEF Leaves, Keeps
  <2>3. Calm(w, "A", z)
    BY <1>1, <1>5, <2>2, CalmIs
  <2>4. v.net = w.net
    <3>1. w.net \in [Node -> Seq(Mail)] /\ "B" \in Node
      BY NodeIs DEF Streaming, Shaped
    <3>2. w.net["B"] \o <<>> = w.net["B"]
      BY <3>1
    <3> QED BY <1>0, <2>1, <3>1, <3>2
  <2>5. Streaming(v)
    BY <1>0, <1>1, <1>5, <2>1, <2>3, <2>4, CalmKeeps
  <2> QED BY <1>1, <1>5, <2>1, <2>2, <2>5
<1>6. CASE o = Quiet(y)
  BY <1>3, <1>4, <1>5, <1>6
<1>7. CASE o = Quiet(ScheduleCheck(y, s))
  <2>1. PICK z : z = ScheduleCheck(y, s)
    OBVIOUS
  <2>2. z \in KmsOf(z)
    BY <1>3, <2>1 DEF ScheduleCheck, KmsOf
  <2>3. z.q = y.q /\ z.assoc = y.assoc /\ z.query = y.query /\ z.failed = y.failed
    BY <1>3, <2>1 DEF ScheduleCheck, KmsOf
  <2> QED BY <1>4, <1>5, <1>7, <2>1, <2>2, <2>3
<1>8. CASE o = Quiet(Fails(y))
  <2>1. PICK z : z = Fails(y)
    OBVIOUS
  <2>2. z \in KmsOf(z)
    BY <1>3, <2>1 DEF Fails, KmsOf
  <2>3. z.q = y.q /\ z.assoc = y.assoc /\ z.query = y.query /\ z.failed # "no"
    BY <1>3, <2>1 DEF Fails, KmsOf
  <2> QED BY <1>4, <1>5, <1>8, <2>1, <2>2, <2>3
<1>9. ASSUME y.assoc[s].open, y.assoc[s].peerRegistered, NEW amount, NEW ks \in Picks(amount, y.q),
             o.kms = [y EXCEPT !.q = @ \ KeysIn(ks),
                               !.assoc[s].buf = EachKey(ReserveStreamKey, @, ks),
                               !.query = Append(@, FillOf(s, ks))],
             o.sends = <<FillOf(s, ks)>>
      PROVE  /\ Streaming(v) /\ o.kms \in KmsOf(o.kms) /\ o.sends \in Seq(Mail)
             /\ (x.query # <<>> => o.kms.query # <<>>)
  <2> DEFINE w1 == World([w.kms EXCEPT !["A"] = y], w.net, w.app, w.given, w.stored)
  <2>1. Streaming(w1)
    <3>1. Leaves(x.query, y.query) /\ \A r \in Ksids : Keeps(Barred(w, "A", r), x.assoc[r], y.assoc[r])
      BY <1>4 DEF Leaves, Keeps
    <3>2. Calm(w, "A", y)
      BY <1>1, <1>4, <3>1, CalmIs
    <3>3. /\ w1.kms = [w.kms EXCEPT !["A"] = y] /\ w1.net = w.net /\ w1.app = w.app
          /\ w1.given = w.given /\ w1.stored = w.stored
      BY DEF World
    <3> HIDE DEF w1
    <3> QED BY <1>1, <1>3, <3>2, <3>3, CalmKeeps
  <2>2. ks \in Lists /\ KeysIn(ks) \subseteq y.q
    <3>1. y.q \in SUBSET KeyIds
      BY <1>3 DEF KmsOf
    <3> QED BY <1>9, <3>1, PickIs
  <2>3. w1.kms["A"] = y
    BY <1>1 DEF World, Streaming, Shaped
  <2>4. PICK z : z = o.kms
    OBVIOUS
  <2>5. AskedFor(y, s, ks, z)
    <3>1. y.assoc \in [Ksids -> Association]
      BY <1>3 DEF KmsOf
    <3>2. PICK e : e = EachKey(ReserveStreamKey, y.assoc[s].buf, ks)
      OBVIOUS
    <3>3. z = [y EXCEPT !.q = y.q \ KeysIn(ks), !.assoc = [y.assoc EXCEPT ![s] = [y.assoc[s] EXCEPT !.buf = e]],
                        !.query = Append(y.query, FillOf(s, ks))]
      BY <1>3, <1>9, <2>4, <3>1, <3>2 DEF KmsOf
    <3> QED BY <1>3, <3>2, <3>3 DEF AskedFor, KmsOf
  <2>6. v.kms = [w1.kms EXCEPT !["A"] = z]
    BY <1>0, <1>1, <2>4 DEF World, Streaming, Shaped
  <2>7. FillOf(s, ks) \in Mail
    BY <2>2 DEF FillOf, Mail, Fills
  <2>8. v.net = [w1.net EXCEPT !["B"] = Append(@, FillOf(s, ks))]
    <3>1. w.net \in [Node -> Seq(Mail)] /\ "B" \in Node
      BY NodeIs DEF Streaming, Shaped
    <3>2. w.net["B"] \o <<FillOf(s, ks)>> = Append(w.net["B"], FillOf(s, ks))
      BY <2>7, <3>1, AppendIs
    <3> QED BY <1>0, <1>9, <3>2 DEF World
  <2>9. v.app = w1.app /\ v.given = w1.given /\ v.stored = w1.stored
    BY <1>0 DEF World
  <2>10. FillChange(w1, s, ks, z, v)
    BY <1>9, <2>2, <2>3, <2>5, <2>6, <2>8, <2>9 DEF FillChange
  <2>11. Streaming(v)
    <3> HIDE DEF w1
    <3> QED BY <2>1, <2>10, MasterFills
  <2>12. z \in KmsOf(z)
    <3>1. v.kms["A"] = z /\ v.kms["A"] \in KmsOf(v.kms["A"])
      BY <1>0, <1>1, <2>4, <2>11 DEF Streaming, Shaped
    <3> QED BY <3>1
  <2>13. z.query # <<>> /\ o.sends \in Seq(Mail)
    <3>1. z.query = Append(y.query, FillOf(s, ks)) /\ y.query \in Seq(Mail)
      BY <1>3, <2>5 DEF AskedFor, KmsOf
    <3> QED BY <1>9, <2>7, <3>1
  <2> QED BY <2>4, <2>11, <2>12, <2>13
<1> QED
  <2>1. \/ o = Quiet(y) \/ o = Quiet(ScheduleCheck(y, s))
        \/ /\ y.assoc[s].open /\ y.assoc[s].peerRegistered
           /\ \E amount : o \in Fill(y, s, amount)
    BY <1>2 DEF CheckEtsi004Association, Open, Low
  <2>2. CASE /\ y.assoc[s].open /\ y.assoc[s].peerRegistered
             /\ \E amount : o \in Fill(y, s, amount)
    <3>1. PICK amount : o \in Fill(y, s, amount)
      BY <2>2
    <3>2. \/ o = Quiet(Fails(y))
          \/ \E ks \in Picks(amount, y.q) :
               /\ o.kms = [y EXCEPT !.q = @ \ KeysIn(ks),
                                    !.assoc[s].buf = EachKey(ReserveStreamKey, @, ks),
                                    !.query = Append(@, FillOf(s, ks))]
               /\ o.sends = <<FillOf(s, ks)>>
      <4>1. PICK P : P = Picks(amount, y.q)
        OBVIOUS
      <4>2. CASE P = {}
        BY <3>1, <4>1, <4>2 DEF Fill
      <4>3. CASE P # {}
        <5> DEFINE Out(ks) == [kms |-> [y EXCEPT !.q = @ \ KeysIn(ks),
                                                 !.assoc[s].buf = EachKey(ReserveStreamKey, @, ks),
                                                 !.query = Append(@, FillOf(s, ks))],
                               sends |-> <<FillOf(s, ks)>>]
        <5>1. Fill(y, s, amount) = {Out(ks) : ks \in P}
          BY <4>1, <4>3 DEF Fill, FillOf
        <5> HIDE DEF Out
        <5>2. PICK ks \in P : o = Out(ks)
          BY <3>1, <5>1
        <5> USE DEF Out
        <5>3. /\ o.kms = [y EXCEPT !.q = @ \ KeysIn(ks),
                                   !.assoc[s].buf = EachKey(ReserveStreamKey, @, ks),
                                   !.query = Append(@, FillOf(s, ks))]
              /\ o.sends = <<FillOf(s, ks)>>
          BY <5>2
        <5> QED BY <4>1, <5>3
      <4> QED BY <4>2, <4>3
    <3> QED BY <1>8, <1>9, <2>2, <3>2
  <2> QED BY <1>6, <1>7, <2>1, <2>2

(* A handler takes its message off the connection.                         *)
Handles(w, n, o, v) ==
  /\ v.kms = [w.kms EXCEPT ![n] = o.kms]
  /\ v.net = [w.net EXCEPT ![n] = Tail(@), ![Peer(n)] = @ \o o.sends]
  /\ v.app = w.app /\ v.given = w.given /\ v.stored = w.stored

(* It may as well take it off at the end.                                  *)
Before(w, n, o, v, u) ==
  /\ Steps(w, n, o, u) /\ u.net[n] = w.net[n]
  /\ u.kms[n] = o.kms /\ v.net = [u.net EXCEPT ![n] = Tail(@)]
  /\ v.kms = u.kms /\ v.app = u.app /\ v.given = u.given /\ v.stored = u.stored

(* Handling a message is reading it and then a step.                       *)
LEMMA HandleIs ==
  ASSUME NEW w, Streaming(w), NEW n \in Node, NEW o, NEW v, Handles(w, n, o, v)
  PROVE  \E u : Before(w, n, o, v, u)
<1> DEFINE u == World(v.kms, [w.net EXCEPT ![Peer(n)] = @ \o o.sends], v.app, v.given, v.stored)
<1>1. Peer(n) \in Node /\ Peer(n) # n /\ w.net \in [Node -> Seq(Mail)]
  BY NodeIs DEF Streaming, Shaped
<1>2. w.kms = [m \in Node |-> w.kms[m]]
  BY DEF Streaming, Shaped
<1>3. Steps(w, n, o, u)
  BY DEF World, Steps, Handles
<1>4. PICK t : t = w.net[Peer(n)] \o o.sends
  OBVIOUS
<1>5. u.net = [w.net EXCEPT ![Peer(n)] = t] /\ v.net = [w.net EXCEPT ![n] = Tail(@), ![Peer(n)] = t]
  BY <1>4 DEF World, Handles
<1>6. u.net[n] = w.net[n] /\ v.net = [u.net EXCEPT ![n] = Tail(@)]
  BY <1>1, <1>5
<1>7. u.kms[n] = o.kms /\ v.kms = u.kms /\ v.app = u.app /\ v.given = u.given /\ v.stored = u.stored
  BY <1>2 DEF World, Handles
<1>8. Before(w, n, o, v, u)
  BY <1>3, <1>6, <1>7 DEF Before
<1> HIDE DEF u
<1> QED BY <1>8

(* Handling a message in a harmless way keeps the invariant.               *)
LEMMA HandleKeeps ==
  ASSUME NEW w, Streaming(w), NEW n \in Node, NEW o, Harmless(w, n, o), NEW v, Handles(w, n, o, v),
         w.net[n] # <<>>, n = "A" /\ Head(w.net[n]).type = "filled" => o.kms.failed # "no"
  PROVE  Streaming(v)
<1>1. PICK u : Before(w, n, o, v, u)
  BY HandleIs
<1>2. Streaming(u)
  BY <1>1, StepKeeps DEF Before
<1>3. u.net[n] # <<>> /\ (n = "A" /\ Head(u.net[n]).type = "filled" => u.kms["A"].failed # "no")
  BY <1>1 DEF Before
<1>4. /\ v.net = [u.net EXCEPT ![n] = Tail(@)]
      /\ v.kms = u.kms /\ v.app = u.app /\ v.given = u.given /\ v.stored = u.stored
  BY <1>1 DEF Before
<1> QED BY <1>2, <1>3, <1>4, PopKeeps

(* A KMS is harmless that only changes its lists and ends sessions.        *)
LEMMA HarmlessIs ==
  ASSUME NEW w, Streaming(w), NEW n \in Node, NEW x, x = w.kms[n], NEW o,
         o.kms \in KmsOf(o.kms), o.kms.q = x.q, o.kms.looks = x.looks,
         x.failed # "no" => o.kms.failed # "no", Leaves(x.query, o.kms.query),
         \A s \in Ksids : Keeps(Barred(w, n, s), x.assoc[s], o.kms.assoc[s]),
         o.sends = <<>> \/ \E m : o.sends = <<m>> /\ Plain(w, Peer(n), m)
  PROVE  Harmless(w, n, o)
<1>1. n = "B" => o.kms.looks = {}
  BY DEF Streaming, OneSided
<1>2. Calm(w, n, o.kms)
  BY <1>1, CalmIs
<1> QED BY <1>2 DEF Harmless

-----------------------------------------------------------------------------
(* The steps of the link                                                   *)

Now == World(kms, net, app, given, stored)

(* The types of the variables, from the invariant.                         *)
LEMMA NowIs ==
  ASSUME Streaming(Now)
  PROVE  /\ Now.kms = kms /\ Now.net = net /\ Now.app = app /\ Now.given = given
         /\ Now.stored = stored
         /\ kms = [n \in Node |-> kms[n]] /\ \A n \in Node : kms[n] \in KmsOf(kms[n])
         /\ net \in [Node -> Seq(Mail)]
         /\ app \in [Node -> [Ksids -> {"none", "open", "closed", "ignored"}]]
         /\ kms["B"].looks = {}
<1>1. /\ Now.kms = kms /\ Now.net = net /\ Now.app = app /\ Now.given = given
      /\ Now.stored = stored
  BY DEF Now, World
<1> QED BY <1>1 DEF Streaming, Shaped, OneSided

(* A call at a KMS has one of its outcomes.                                *)
LEMMA EndsStep ==
  ASSUME Streaming(Now), NEW n \in Node, NEW outs, Ends(n, outs, FALSE),
         UNCHANGED <<app, given, stored>>
  PROVE  \E o \in outs : Steps(Now, n, o, World(kms', net', app', given', stored'))
<1>1. PICK o \in outs :
        /\ kms' = [kms EXCEPT ![n] = o.kms]
        /\ net' = [net EXCEPT ![n] = IF FALSE THEN Tail(@) ELSE @, ![Peer(n)] = @ \o o.sends]
  BY DEF Ends
<1>2. Peer(n) \in Node /\ Peer(n) # n
  BY NodeIs
<1>3. net' = [net EXCEPT ![Peer(n)] = @ \o o.sends]
  BY <1>1, <1>2, NowIs
<1> QED BY <1>1, <1>3, NowIs DEF Steps, World

(* A handler has one of its outcomes.                                      *)
LEMMA EndsHandle ==
  ASSUME Streaming(Now), NEW n \in Node, NEW outs, Ends(n, outs, TRUE),
         UNCHANGED <<app, given, stored>>
  PROVE  \E o \in outs : Handles(Now, n, o, World(kms', net', app', given', stored'))
<1>1. PICK o \in outs :
        /\ kms' = [kms EXCEPT ![n] = o.kms]
        /\ net' = [net EXCEPT ![n] = IF TRUE THEN Tail(@) ELSE @, ![Peer(n)] = @ \o o.sends]
  BY DEF Ends
<1>2. net' = [net EXCEPT ![n] = Tail(@), ![Peer(n)] = @ \o o.sends]
  BY <1>1
<1> QED BY <1>1, <1>2, NowIs DEF Handles, World

(* A step that reads and sends nothing leaves the messages.                *)
LEMMA NetSame ==
  ASSUME NEW c \in [Node -> Seq(Mail)], NEW n \in Node
  PROVE  [c EXCEPT ![n] = IF FALSE THEN Tail(@) ELSE @, ![Peer(n)] = @ \o <<>>] = c
<1>1. Peer(n) \in Node /\ Peer(n) # n
  BY NodeIs
<1>2. PICK p \in Node : p = Peer(n)
  BY <1>1
<1>3. c[p] \o <<>> = c[p]
  OBVIOUS
<1>4. PICK t : t = c[p] \o <<>>
  OBVIOUS
<1>5. [c EXCEPT ![n] = IF FALSE THEN Tail(@) ELSE @, ![p] = t] = c
  BY <1>1, <1>2, <1>3, <1>4
<1> QED BY <1>1, <1>2, <1>4, <1>5

(* A step that reads and sends nothing changes its KMS only.               *)
LEMMA EndsQuiet ==
  ASSUME Streaming(Now), NEW n \in Node, NEW z, Ends(n, {Quiet(z)}, FALSE)
  PROVE  kms' = [kms EXCEPT ![n] = z] /\ net' = net
<1>1. PICK o \in {Quiet(z)} :
        /\ kms' = [kms EXCEPT ![n] = o.kms]
        /\ net' = [net EXCEPT ![n] = IF FALSE THEN Tail(@) ELSE @, ![Peer(n)] = @ \o o.sends]
  BY DEF Ends
<1>2. o.kms = z /\ o.sends = <<>>
  BY <1>1 DEF Quiet
<1>3. net' = [net EXCEPT ![n] = IF FALSE THEN Tail(@) ELSE @, ![Peer(n)] = @ \o <<>>]
  BY <1>1, <1>2
<1>4. [net EXCEPT ![n] = IF FALSE THEN Tail(@) ELSE @, ![Peer(n)] = @ \o <<>>] = net
  BY NowIs, NetSame
<1> QED BY <1>1, <1>2, <1>3, <1>4

(* The master looks at a stream, for whatever reason.                      *)
LEMMA CheckSteps ==
  ASSUME NEW w, Streaming(w), NEW s \in Ksids, NEW o \in CheckEtsi004Association(w.kms["A"], s),
         NEW v, Steps(w, "A", o, v)
  PROVE  /\ Streaming(v) /\ o.kms \in KmsOf(o.kms) /\ o.sends \in Seq(Mail)
         /\ (w.kms["A"].query # <<>> => o.kms.query # <<>>)
<1>1. PICK x : x = w.kms["A"]
  OBVIOUS
<1>2. o \in CheckEtsi004Association(x, s)
  BY <1>1
<1> QED BY <1>1, <1>2, CheckKeeps

(* The step CheckEtsi004Association, when its event fires.                 *)
LEMMA ScheduledCheckKeeps ==
  ASSUME Streaming(Now), NEW n \in Node, NEW s \in Ksids, ScheduledCheck(n, s)
  PROVE  Streaming(World(kms', net', app', given', stored'))
<1>1. s \in kms[n].looks /\ Ends(n, CheckEtsi004Association(kms[n], s), FALSE)
      /\ UNCHANGED <<app, given, stored>>
  BY DEF ScheduledCheck
<1>2. n = "A"
  BY <1>1, NowIs DEF Node
<1>3. PICK v : v = World(kms', net', app', given', stored')
  OBVIOUS
<1>4. PICK o \in CheckEtsi004Association(kms["A"], s) : Steps(Now, "A", o, v)
  BY <1>1, <1>2, <1>3, EndsStep
<1> QED BY <1>3, <1>4, NowIs, CheckSteps

(* The step STORE_KEY.                                                     *)
LEMMA StoreKeyRequestKeeps ==
  ASSUME Streaming(Now), NEW n \in Node, NEW k \in KeyIds, StoreKeyRequest(n, k)
  PROVE  Streaming(World(kms', net', app', given', stored'))
<1>1. PICK v : v = World(kms', net', app', given', stored')
  OBVIOUS
<1>2. /\ Ends(n, {Quiet([kms[n] EXCEPT !.q = @ \cup {k}])}, FALSE)
      /\ stored' = [stored EXCEPT ![n] = @ \cup {k}] /\ k \notin stored[n] /\ UNCHANGED <<app, given>>
  BY DEF StoreKeyRequest
<1>3. kms' = [kms EXCEPT ![n] = [kms[n] EXCEPT !.q = @ \cup {k}]] /\ net' = net
  BY <1>2, EndsQuiet
<1>4. /\ v.kms = [Now.kms EXCEPT ![n] = [Now.kms[n] EXCEPT !.q = @ \cup {k}]]
      /\ v.stored = [Now.stored EXCEPT ![n] = @ \cup {k}] /\ k \notin Now.stored[n]
      /\ v.net = Now.net /\ v.app = Now.app /\ v.given = Now.given
  BY <1>1, <1>2, <1>3, NowIs DEF World
<1> QED BY <1>1, <1>4, StoreKeeps

(* The step GET_KEY that is refused.                                       *)
LEMMA GetKey004RefusedKeeps ==
  ASSUME SlaveAsks = FALSE, Streaming(Now), NEW n \in Node, NEW s \in Ksids, GetKey004Refused(n, s)
  PROVE  Streaming(World(kms', net', app', given', stored'))
<1>1. n = "A" /\ Ends(n, CheckEtsi004Association(kms[n], s), FALSE) /\ UNCHANGED <<app, given, stored>>
  BY DEF GetKey004Refused, Master
<1>2. PICK v : v = World(kms', net', app', given', stored')
  OBVIOUS
<1>3. PICK o \in CheckEtsi004Association(kms["A"], s) : Steps(Now, "A", o, v)
  BY <1>1, <1>2, EndsStep
<1> QED BY <1>2, <1>3, NowIs, CheckSteps

(* The step GET_KEY that is served.                                        *)
LEMMA GetKey004Keeps ==
  ASSUME Streaming(Now), NEW n \in Node, NEW s \in Ksids, GetKey004(n, s)
  PROVE  Streaming(World(kms', net', app', given', stored'))
<1>1. PICK v : v = World(kms', net', app', given', stored')
  OBVIOUS
<1>2. PICK x : x = TakenFrom(kms[n], s)
  OBVIOUS
<1>3. /\ HasChunk(kms[n].assoc[s]) /\ UNCHANGED <<stored, app>>
      /\ given' = [given EXCEPT ![n][s] =
           Append(@, [index |-> GetNextIndex(kms[n].assoc[s].buf),
                      key |-> kms[n].assoc[s].buf.chunks[FirstOf(kms[n].assoc[s].buf)]])]
      /\ Ends(n, IF n = "A" THEN CheckEtsi004Association(x, s) ELSE {Quiet(x)}, FALSE)
  BY <1>2 DEF GetKey004, Master
<1> DEFINE u == World([kms EXCEPT ![n] = x], net, app, given', stored)
<1>4. Streaming(u)
  <2>1. /\ HasChunk(Now.kms[n].assoc[s]) /\ u.kms = [Now.kms EXCEPT ![n] = TakenFrom(Now.kms[n], s)]
        /\ u.net = Now.net /\ u.app = Now.app /\ u.stored = Now.stored
    BY <1>2, <1>3, NowIs DEF World
  <2>2. GivesOut(Now, n, s, u)
    BY <1>3, NowIs DEF World, GivesOut
  <2> HIDE DEF u
  <2> QED BY <2>1, <2>2, TakeKeeps
<1>5. /\ u.kms = [kms EXCEPT ![n] = x] /\ u.kms[n] = x /\ u.net = net /\ u.app = app
      /\ u.given = given' /\ u.stored = stored
  BY NowIs DEF World
<1>6. Peer(n) \in Node /\ Peer(n) # n /\ net[Peer(n)] \o <<>> = net[Peer(n)]
  <2>1. Peer(n) \in Node /\ Peer(n) # n
    BY NodeIs
  <2> QED BY <2>1, NowIs
<1>7. CASE n = "A"
  <2>1. PICK o \in CheckEtsi004Association(x, s) :
          /\ kms' = [kms EXCEPT ![n] = o.kms]
          /\ net' = [net EXCEPT ![n] = IF FALSE THEN Tail(@) ELSE @, ![Peer(n)] = @ \o o.sends]
    BY <1>3, <1>7 DEF Ends
  <2>2. /\ v.kms = [u.kms EXCEPT !["A"] = o.kms]
        /\ v.net = [u.net EXCEPT ![Peer("A")] = @ \o o.sends]
    BY <1>1, <1>5, <1>6, <1>7, <2>1, NowIs DEF World
  <2>3. v.app = u.app /\ v.given = u.given /\ v.stored = u.stored
    BY <1>1, <1>3, <1>5 DEF World
  <2> HIDE DEF u
  <2>4. Steps(u, "A", o, v)
    BY <2>2, <2>3 DEF Steps
  <2> QED BY <1>1, <1>4, <1>5, <1>7, <2>1, <2>4, CheckSteps
<1>8. CASE n # "A"
  <2>1. Ends(n, {Quiet(x)}, FALSE)
    BY <1>3, <1>8
  <2>2. kms' = [kms EXCEPT ![n] = x] /\ net' = net
    BY <2>1, EndsQuiet
  <2> QED BY <1>3, <1>4, <2>2
<1> QED BY <1>7, <1>8

(* The index an end tells its peer.                                        *)
LEMMA NextIndexIs ==
  ASSUME NEW w, Streaming(w), NEW n \in Node, NEW s \in Ksids
  PROVE  GetNextIndex(w.kms[n].assoc[s].buf) \in Nat
<1>1. PICK own, tape : Tapes(w, own, tape)
  BY DEF Streaming
<1>2. PICK a, t : a = w.kms[n].assoc[s] /\ t = tape[n][s]
  OBVIOUS
<1>3. t \in Seq(Unit) /\ Told(a, t, w.given[n][s]) /\ Len(w.given[n][s]) \in Nat
  BY <1>1, <1>2 DEF Tapes, Streaming, Shaped
<1>4. PICK c : c = a.buf
  OBVIOUS
<1>7. PICK l \in Nat : l = Len(w.given[n][s])
  BY <1>3
<1>5. CASE a.open
  <2>1. Follows(c, t, l)
    BY <1>3, <1>4, <1>5, <1>7 DEF Told
  <2>2. CASE l < PieceCount(Len(t))
    BY <1>2, <1>3, <1>4, <2>1, <2>2, EndsOf DEF GetNextIndex
  <2>3. CASE ~(l < PieceCount(Len(t)))
    <3>1. Indexes(c) = {} <=> PieceCount(Len(t)) <= l
      BY <1>3, <2>1, ShortIs
    <3>2. PieceCount(Len(t)) \in Nat
      BY <1>3, Pieces
    <3> QED BY <1>2, <1>4, <2>3, <3>1, <3>2 DEF GetNextIndex
  <2> QED BY <2>2, <2>3
<1>6. CASE ~a.open
  <2>1. c = EmptyStream
    BY <1>3, <1>4, <1>6 DEF Told
  <2>2. Indexes(c) = {}
    BY <2>1 DEF EmptyStream, Indexes
  <2> QED BY <1>2, <1>4, <2>2 DEF GetNextIndex
<1> QED BY <1>5, <1>6

(* What a KMS is after changes of its lists and of one session.            *)
LEMMA NoAssociationIs == NoAssociation \in Association
  BY EmptyFollows DEF NoAssociation, Association

(* ReleaseAssociation changes sessions only, and to none.                  *)
LEMMA ReleaseIs ==
  ASSUME NEW x, x \in KmsOf(x), NEW s, NEW surplus, NEW sync, NEW z,
         z = ReleaseAssociation(x, s, surplus, sync) \/ z = Forget(x, s)
  PROVE  /\ z \in KmsOf(z) /\ z.q = x.q /\ z.looks = x.looks /\ z.checks = x.checks
         /\ z.releases = x.releases /\ z.query = x.query /\ z.failed = x.failed
         /\ \A r \in Ksids : z.assoc[r] = x.assoc[r] \/ z.assoc[r] = NoAssociation
<1>1. PICK y : y = Forget(x, s)
  OBVIOUS
<1>2. y = [x EXCEPT !.assoc = [x.assoc EXCEPT ![s] = NoAssociation]]
  BY <1>1 DEF Forget
<1>3. x.assoc \in [Ksids -> Association]
  BY DEF KmsOf
<1>4. PICK f : f = [x.assoc EXCEPT ![s] = NoAssociation]
  OBVIOUS
<1>5. /\ f \in [Ksids -> Association]
      /\ \A r \in Ksids : f[r] = x.assoc[r] \/ f[r] = NoAssociation
  BY <1>3, <1>4, NoAssociationIs
<1>6. /\ y \in KmsOf(y) /\ y.q = x.q /\ y.looks = x.looks /\ y.checks = x.checks
      /\ y.releases = x.releases /\ y.query = x.query /\ y.failed = x.failed /\ y.assoc = f
  BY <1>2, <1>4, <1>5 DEF KmsOf
<1>7. CASE z = x
  BY <1>7
<1>8. CASE z = y
  BY <1>5, <1>6, <1>8
<1>9. ASSUME NEW more, z = [y EXCEPT !.back = more]
      PROVE  /\ z \in KmsOf(z) /\ z.q = y.q /\ z.looks = y.looks /\ z.checks = y.checks
             /\ z.releases = y.releases /\ z.query = y.query /\ z.failed = y.failed
             /\ z.assoc = y.assoc
  BY <1>6, <1>9 DEF KmsOf
<1>10. z = x \/ z = y \/ \E more : z = [y EXCEPT !.back = more]
  <2>1. PICK b : b = Blocks(s, surplus, Preserved(x.assoc[s].buf, sync))
    OBVIOUS
  <2> QED BY <1>1, <2>1 DEF ReleaseAssociation
<1> QED BY <1>5, <1>6, <1>7, <1>8, <1>9, <1>10

(* A session that its replica knows has been announced.                    *)
LEMMA FreshNot ==
  ASSUME NEW w, Streaming(w), NEW s \in Ksids, w.kms[Replica(s)].assoc[s].open
  PROVE  ~Fresh(w, s)
  BY DEF Streaming, Creation, Untouched, Unheard

(* The application moves on, and its KMS does what is harmless.            *)
LEMMA AppSteps ==
  ASSUME Streaming(Now), NEW n \in Node, NEW s \in Ksids, NEW to \in {"open", "closed", "ignored"},
         n # Primary[s] \/ app[n][s] # "none",
         app' = [app EXCEPT ![n][s] = to], UNCHANGED <<stored, given>>,
         UNCHANGED <<kms, net>> \/ \E o : Harmless(Now, n, o) /\ Ends(n, {o}, FALSE)
  PROVE  Streaming(World(kms', net', app', given', stored'))
<1> DEFINE u == World(kms', net', app, given, stored)
<1>1. Streaming(u)
  <2>1. CASE UNCHANGED <<kms, net>>
    BY <2>1 DEF Now
  <2>2. CASE \E o : Harmless(Now, n, o) /\ Ends(n, {o}, FALSE)
    <3>1. PICK o : Harmless(Now, n, o) /\ Ends(n, {o}, FALSE)
      BY <2>2
    <3>2. /\ kms' = [kms EXCEPT ![n] = o.kms]
          /\ net' = [net EXCEPT ![n] = IF FALSE THEN Tail(@) ELSE @, ![Peer(n)] = @ \o o.sends]
      BY <3>1 DEF Ends
    <3>3. Peer(n) \in Node /\ Peer(n) # n
      BY NodeIs
    <3>4. net' = [net EXCEPT ![Peer(n)] = @ \o o.sends]
      BY <3>2, <3>3, NowIs
    <3>5. Steps(Now, n, o, u)
      BY <3>2, <3>4, NowIs DEF Steps, World
    <3> HIDE DEF u
    <3> QED BY <3>1, <3>5, StepKeeps
  <2> QED BY <2>1, <2>2
<1>2. PICK v : v = World(kms', net', app', given', stored')
  OBVIOUS
<1>3. /\ v.app = [app EXCEPT ![n][s] = to] /\ u.app = app
      /\ v.kms = u.kms /\ v.net = u.net /\ v.given = u.given /\ v.stored = u.stored
  BY <1>2 DEF World
<1>3a. SameLink(u, v)
  BY <1>3 DEF SameLink
<1> HIDE DEF u
<1>4. app \in [Node -> [Ksids -> {"none", "open", "closed", "ignored"}]]
  BY NowIs
<1>5. v.app \in [Node -> [Ksids -> {"none", "open", "closed", "ignored"}]]
  BY <1>3, <1>4
<1>6. ASSUME NEW r \in Ksids
      PROVE  v.app[Primary[r]][r] = "none" <=> u.app[Primary[r]][r] = "none"
  <2>1. PICK m \in Node : m = Primary[r]
    BY NodeIs
  <2>2. PICK p, o : p = v.app /\ o = u.app
    OBVIOUS
  <2>3. o = app /\ p = [o EXCEPT ![n][s] = to] /\ o \in [Node -> [Ksids -> {"none", "open", "closed", "ignored"}]]
    BY <1>3, <1>4, <2>2
  <2>4. p[m][r] = IF m = n /\ r = s THEN to ELSE o[m][r]
    BY <2>1, <2>3
  <2>5. m = n /\ r = s => o[m][r] # "none"
    BY <2>1, <2>3
  <2> QED BY <2>1, <2>2, <2>4, <2>5
<1>7. \A r \in Ksids : v.app[Primary[r]][r] = "none" <=> u.app[Primary[r]][r] = "none"
  BY <1>6
<1>8. Streaming(v)
  BY <1>1, <1>3a, <1>5, <1>7, AppKeeps
<1> QED BY <1>2, <1>8

(* The step OPEN_CONNECT at the replica.                                   *)
LEMMA JoinKeeps ==
  ASSUME Streaming(Now), NEW n \in Node, NEW s \in Ksids, Join(n, s)
  PROVE  Streaming(World(kms', net', app', given', stored'))
<1>1. n # Primary[s] /\ n = Replica(s) /\ Peer(n) \in Node /\ UNCHANGED <<stored, given>>
  BY NodeIs DEF Join
<1>2. CASE Open(kms[n], s)
  <2>1. PICK x : x = kms[n] /\ x \in KmsOf(x)
    BY NowIs
  <2>2. PICK z : z = [x EXCEPT !.assoc[s].peerRegistered = TRUE, !.query = Append(@, Ask("register", s))]
    OBVIOUS
  <2>3. PICK o : o = [kms |-> z, sends |-> <<Ask("register", s)>>]
    OBVIOUS
  <2>4. app' = [app EXCEPT ![n][s] = "open"] /\ Ends(n, {o}, FALSE)
    BY <1>2, <2>1, <2>2, <2>3 DEF Join
  <2>5. x.assoc \in [Ksids -> Association] /\ x.query \in Seq(Mail)
    BY <2>1 DEF KmsOf
  <2>6. Ask("register", s) \in Mail /\ Ask("register", s).type = "register"
        /\ Ask("register", s).ksid = s
    BY DEF Ask, Mail, Asks
  <2>7. PICK f : f = [x.assoc EXCEPT ![s] = [x.assoc[s] EXCEPT !.peerRegistered = TRUE]]
    OBVIOUS
  <2>8. f \in [Ksids -> Association] /\ ~Fresh(Now, s)
        /\ \A r \in Ksids : Keeps(Barred(Now, n, r), x.assoc[r], f[r])
    <3>1. f \in [Ksids -> Association]
      BY <2>5, <2>7 DEF Association
    <3>2. ~Fresh(Now, s)
      BY <1>1, <1>2, NowIs, FreshNot DEF Open
    <3>3. ASSUME NEW r \in Ksids
          PROVE  Keeps(Barred(Now, n, r), x.assoc[r], f[r])
      <4>1. CASE r # s
        BY <2>5, <2>7, <4>1 DEF Keeps
      <4>2. CASE r = s
        <5>1. PICK a \in Association : a = x.assoc[s]
          BY <2>5
        <5>2. f[s].open = a.open /\ f[s].buf = a.buf
          BY <2>5, <2>7, <5>1 DEF Association
        <5> QED BY <3>2, <4>2, <5>1, <5>2 DEF Keeps, Barred
      <4> QED BY <4>1, <4>2
    <3> QED BY <3>1, <3>2, <3>3
  <2>9. Append(x.query, Ask("register", s)) \in Seq(Mail)
    BY <2>5, <2>6
  <2>10. /\ z \in KmsOf(z) /\ z.q = x.q /\ z.looks = x.looks /\ z.failed = x.failed
         /\ z.query = Append(x.query, Ask("register", s)) /\ z.assoc = f
    <3>1. z = [x EXCEPT !.assoc = f, !.query = Append(x.query, Ask("register", s))]
      BY <2>1, <2>2, <2>7 DEF KmsOf
    <3> QED BY <2>1, <2>8, <2>9, <3>1 DEF KmsOf
  <2>11. Leaves(x.query, z.query) /\ Plain(Now, Peer(n), Ask("register", s))
    BY <2>6, <2>8, <2>10 DEF Leaves, Plain
  <2>12. o.kms = z /\ o.sends = <<Ask("register", s)>>
    BY <2>3
  <2>13. Harmless(Now, n, o)
    BY <2>1, <2>8, <2>10, <2>11, <2>12, NowIs, HarmlessIs
  <2>14. PICK to \in {"open", "closed", "ignored"} : to = "open"
    OBVIOUS
  <2> QED BY <1>1, <2>4, <2>13, <2>14, AppSteps
<1>3. CASE ~Open(kms[n], s)
  <2>1. app' = [app EXCEPT ![n][s] = "ignored"] /\ UNCHANGED <<kms, net>>
    BY <1>3 DEF Join
  <2>2. PICK to \in {"open", "closed", "ignored"} : to = "ignored"
    OBVIOUS
  <2> QED BY <1>1, <2>1, <2>2, AppSteps
<1> QED BY <1>2, <1>3

(* The step CLOSE.                                                         *)
LEMMA CloseKeeps ==
  ASSUME Streaming(Now), NEW n \in Node, NEW s \in Ksids, Close(n, s)
  PROVE  Streaming(World(kms', net', app', given', stored'))
<1>1. app[n][s] # "none" /\ Peer(n) \in Node /\ UNCHANGED <<stored, given>>
      /\ app' = [app EXCEPT ![n][s] = "closed"]
  BY NodeIs DEF Close
<1>2. PICK to \in {"open", "closed", "ignored"} : to = "closed"
  OBVIOUS
<1>3. CASE ~Open(kms[n], s)
  <2>1. UNCHANGED <<kms, net>>
    BY <1>3 DEF Close
  <2> QED BY <1>1, <1>2, <2>1, AppSteps
<1>4. CASE Open(kms[n], s)
  <2>1. PICK x : x = kms[n] /\ x \in KmsOf(x)
    BY NowIs
  <2>2. PICK m : m = CloseMessage(n, s, kms[n].assoc[s].buf)
    OBVIOUS
  <2>3. PICK z : z = [x EXCEPT !.query = Append(@, m)]
    OBVIOUS
  <2>4. PICK o : o = [kms |-> z, sends |-> <<m>>]
    OBVIOUS
  <2>5. Ends(n, {o}, FALSE)
    BY <1>4, <2>1, <2>2, <2>3, <2>4 DEF Close
  <2>6. m \in Mail /\ m.type = "close"
    <3>1. GetNextIndex(kms[n].assoc[s].buf) \in Nat
      BY NowIs, NextIndexIs
    <3>2. m \in Closes
      BY <2>2, <3>1 DEF CloseMessage, Closes, Sides, Node
    <3> QED BY <3>2 DEF Mail, Closes
  <2>7. /\ z \in KmsOf(z) /\ z.q = x.q /\ z.looks = x.looks /\ z.failed = x.failed
        /\ z.query = Append(x.query, m) /\ z.assoc = x.assoc
    <3>1. x.query \in Seq(Mail)
      BY <2>1 DEF KmsOf
    <3>2. Append(x.query, m) \in Seq(Mail)
      BY <2>6, <3>1
    <3> QED BY <2>1, <2>3, <3>2 DEF KmsOf
  <2>8. Leaves(x.query, z.query) /\ Plain(Now, Peer(n), m)
    BY <2>6, <2>7 DEF Leaves, Plain
  <2>9. \A r \in Ksids : Keeps(Barred(Now, n, r), x.assoc[r], z.assoc[r])
    BY <2>7 DEF Keeps
  <2>10. o.kms = z /\ o.sends = <<m>>
    BY <2>4
  <2>11. Harmless(Now, n, o)
    BY <2>1, <2>7, <2>8, <2>9, <2>10, NowIs, HarmlessIs
  <2> QED BY <1>1, <1>2, <2>5, <2>11, AppSteps
<1> QED BY <1>3, <1>4

(* What handlers make of their KMS.                                        *)
LEMMA CompleteIs ==
  ASSUME NEW x, x \in KmsOf(x), x.query # <<>>, NEW z, z = Complete(x)
  PROVE  /\ z \in KmsOf(z) /\ z.q = x.q /\ z.looks = x.looks /\ z.failed = x.failed
         /\ z.assoc = x.assoc /\ z.query = Tail(x.query)
<1>1. x.query \in Seq(Mail)
  BY DEF KmsOf
<1>2. Tail(x.query) \in Seq(Mail)
  BY <1>1
<1> QED BY <1>2 DEF Complete, KmsOf

(* A KMS that stops keeps what it holds.                                   *)
LEMMA StopsIs ==
  ASSUME NEW x, x \in KmsOf(x), NEW z, z = Fails(x) \/ z = Undefined(x)
  PROVE  /\ z \in KmsOf(z) /\ z.q = x.q /\ z.looks = x.looks /\ z.failed # "no"
         /\ z.assoc = x.assoc /\ z.query = x.query
  BY DEF Fails, Undefined, KmsOf

(* To change nothing or to forget sessions is harmless.                    *)
LEMMA HarmlessQuiet ==
  ASSUME NEW w, Streaming(w), NEW n \in Node, NEW x, x = w.kms[n], NEW z,
         z \in KmsOf(z), z.q = x.q, z.looks = x.looks,
         x.failed # "no" => z.failed # "no", Leaves(x.query, z.query),
         \A s \in Ksids : z.assoc[s] = x.assoc[s] \/ z.assoc[s] = NoAssociation
  PROVE  Harmless(w, n, Quiet(z))
<1>1. PICK o : o = Quiet(z)
  OBVIOUS
<1>2. o.kms = z /\ o.sends = <<>>
  BY <1>1 DEF Quiet
<1>3. \A s \in Ksids : Keeps(Barred(w, n, s), x.assoc[s], o.kms.assoc[s])
  BY <1>2 DEF Keeps
<1>4. Harmless(w, n, o)
  BY <1>2, <1>3, HarmlessIs
<1> QED BY <1>1, <1>4

(* To do nothing or to stop is harmless.                                   *)
LEMMA HarmlessSame ==
  ASSUME NEW w, Streaming(w), NEW n \in Node, NEW x, x = w.kms[n]
  PROVE  /\ Harmless(w, n, Quiet(x)) /\ Harmless(w, n, Quiet(Fails(x)))
         /\ Harmless(w, n, Quiet(Undefined(x)))
<1>1. x \in KmsOf(x)
  BY DEF Streaming, Shaped
<1>2. Leaves(x.query, x.query)
  BY DEF Leaves
<1>3. ASSUME NEW z, z = Fails(x) \/ z = Undefined(x)
      PROVE  Harmless(w, n, Quiet(z))
  <2>1. /\ z \in KmsOf(z) /\ z.q = x.q /\ z.looks = x.looks /\ z.failed # "no"
        /\ z.assoc = x.assoc /\ z.query = x.query
    BY <1>1, <1>3, StopsIs
  <2> QED BY <1>2, <2>1, HarmlessQuiet
<1> QED BY <1>1, <1>2, <1>3, HarmlessQuiet

(* A handler all of whose outcomes are harmless.                           *)
LEMMA HandlerKeeps ==
  ASSUME Streaming(Now), NEW n \in Node, NEW outs, Ends(n, outs, TRUE), net[n] # <<>>,
         UNCHANGED <<app, given, stored>>, \A o \in outs : Harmless(Now, n, o),
         n = "A" /\ Head(net[n]).type = "filled" => \A o \in outs : o.kms.failed # "no"
  PROVE  Streaming(World(kms', net', app', given', stored'))
<1>1. PICK v : v = World(kms', net', app', given', stored')
  OBVIOUS
<1>2. PICK o \in outs : Handles(Now, n, o, v)
  BY <1>1, EndsHandle
<1>3. Now.net[n] # <<>> /\ (n = "A" /\ Head(Now.net[n]).type = "filled" => o.kms.failed # "no")
  BY NowIs
<1>4. Streaming(v)
  BY <1>2, <1>3, HandleKeeps
<1> QED BY <1>1, <1>4

(* A call with one outcome.                                                *)
LEMMA EndsOne ==
  ASSUME Streaming(Now), NEW n \in Node, NEW o, Ends(n, {o}, FALSE)
  PROVE  kms' = [kms EXCEPT ![n] = o.kms] /\ net' = [net EXCEPT ![Peer(n)] = @ \o o.sends]
<1>1. /\ kms' = [kms EXCEPT ![n] = o.kms]
      /\ net' = [net EXCEPT ![n] = IF FALSE THEN Tail(@) ELSE @, ![Peer(n)] = @ \o o.sends]
  BY DEF Ends
<1>2. Peer(n) \in Node /\ Peer(n) # n
  BY NodeIs
<1> QED BY <1>1, <1>2, NowIs

(* The same, where the outcome is given as a record.                       *)
LEMMA EndsThis ==
  ASSUME Streaming(Now), NEW n \in Node, NEW z, NEW ms, Ends(n, {[kms |-> z, sends |-> ms]}, FALSE)
  PROVE  kms' = [kms EXCEPT ![n] = z] /\ net' = [net EXCEPT ![Peer(n)] = @ \o ms]
<1>1. [kms |-> z, sends |-> ms].kms = z /\ [kms |-> z, sends |-> ms].sends = ms
  OBVIOUS
<1> QED BY <1>1, EndsOne

(* A handler with one outcome.                                             *)
LEMMA HandlesOne ==
  ASSUME NEW n \in Node, NEW o, Ends(n, {o}, TRUE)
  PROVE  /\ kms' = [kms EXCEPT ![n] = o.kms]
         /\ net' = [net EXCEPT ![n] = Tail(@), ![Peer(n)] = @ \o o.sends]
<1>1. /\ kms' = [kms EXCEPT ![n] = o.kms]
      /\ net' = [net EXCEPT ![n] = IF TRUE THEN Tail(@) ELSE @, ![Peer(n)] = @ \o o.sends]
  BY DEF Ends
<1> QED BY <1>1

(* The first message on a connection.                                      *)
LEMMA ReceivedIs ==
  ASSUME Streaming(Now), NEW n \in Node, NEW type, Received(n, type)
  PROVE  /\ net[n] # <<>> /\ Head(net[n]).type = type /\ UNCHANGED <<app, given, stored>>
         /\ Head(net[n]) \in Mail /\ 1 \in 1 .. Len(net[n]) /\ Head(net[n]) = net[n][1]
         /\ kms[n].failed = "no" /\ kms[n] \in KmsOf(kms[n]) /\ Now.kms[n] = kms[n]
<1>1. /\ net[n] # <<>> /\ Head(net[n]).type = type /\ UNCHANGED <<app, given, stored>>
      /\ kms[n].failed = "no"
  BY DEF Received, Running
<1>2. net[n] \in Seq(Mail)
  BY NowIs
<1> QED BY <1>1, <1>2, NowIs, TailIs

(* The step ProcessNewAppResponse.                                         *)
LEMMA ProcessNewAppResponseKeeps ==
  ASSUME Streaming(Now), NEW n \in Node, ProcessNewAppResponse(n)
  PROVE  Streaming(World(kms', net', app', given', stored'))
<1>1. PICK x : x = kms[n]
  OBVIOUS
<1>2. PICK outs : outs = IF x.query = <<>> THEN Unmapped(x) ELSE {Quiet(Complete(x))}
  OBVIOUS
<1>3. Received(n, "new_app_ok") /\ Ends(n, outs, TRUE)
  BY <1>1, <1>2 DEF ProcessNewAppResponse
<1>4. ASSUME NEW o \in outs
      PROVE  Harmless(Now, n, o)
  <2>1. CASE x.query = <<>>
    BY <1>1, <1>2, <1>4, <2>1, NowIs, HarmlessSame DEF Unmapped
  <2>2. CASE x.query # <<>>
    <3>1. PICK z : z = Complete(x)
      OBVIOUS
    <3>2. /\ z \in KmsOf(z) /\ z.q = x.q /\ z.looks = x.looks /\ z.failed = x.failed
          /\ z.assoc = x.assoc /\ z.query = Tail(x.query)
      BY <1>1, <2>2, <3>1, NowIs, CompleteIs
    <3>3. Leaves(x.query, z.query)
      BY <2>2, <3>2 DEF Leaves
    <3>4. Harmless(Now, n, Quiet(z))
      BY <1>1, <3>2, <3>3, NowIs, HarmlessQuiet
    <3> QED BY <1>2, <1>4, <2>2, <3>1, <3>4
  <2> QED BY <2>1, <2>2
<1>5. net[n] # <<>> /\ Head(net[n]).type # "filled" /\ UNCHANGED <<app, given, stored>>
  BY <1>3, ReceivedIs
<1> QED BY <1>3, <1>4, <1>5, HandlerKeeps

(* The step ReleaseAssociation, when its event fires.                      *)
LEMMA ScheduledReleaseKeeps ==
  ASSUME Streaming(Now), NEW n \in Node, ScheduledRelease(n)
  PROVE  Streaming(World(kms', net', app', given', stored'))
<1>1. PICK x : x = kms[n] /\ x = Now.kms[n] /\ x \in KmsOf(x)
  BY NowIs
<1>2. PICK r \in x.releases :
        Ends(n, {Quiet([ReleaseAssociation(x, r.ksid, r.surplus, r.sync) EXCEPT !.releases = @ \ {r}])},
             FALSE)
  BY <1>1 DEF ScheduledRelease
<1>3. PICK y : y = ReleaseAssociation(x, r.ksid, r.surplus, r.sync)
  OBVIOUS
<1>4. /\ y \in KmsOf(y) /\ y.q = x.q /\ y.looks = x.looks /\ y.query = x.query /\ y.failed = x.failed
      /\ \A s \in Ksids : y.assoc[s] = x.assoc[s] \/ y.assoc[s] = NoAssociation
  BY <1>1, <1>3, ReleaseIs
<1>5. PICK z : z = [y EXCEPT !.releases = @ \ {r}]
  OBVIOUS
<1>6. /\ z \in KmsOf(z) /\ z.q = y.q /\ z.looks = y.looks /\ z.query = y.query /\ z.failed = y.failed
      /\ z.assoc = y.assoc
  BY <1>4, <1>5 DEF KmsOf
<1>7. Leaves(x.query, z.query)
  BY <1>4, <1>6 DEF Leaves
<1>8. Harmless(Now, n, Quiet(z))
  BY <1>1, <1>4, <1>6, <1>7, HarmlessQuiet
<1>9. Ends(n, {Quiet(z)}, FALSE) /\ UNCHANGED <<app, given, stored>>
  BY <1>2, <1>3, <1>5 DEF ScheduledRelease
<1>10. PICK v : v = World(kms', net', app', given', stored')
  OBVIOUS
<1>11. PICK outs : outs = {Quiet(z)}
  OBVIOUS
<1>12. PICK o \in outs : Steps(Now, n, o, v)
  BY <1>9, <1>10, <1>11, EndsStep
<1>13. Streaming(v)
  BY <1>8, <1>11, <1>12, StepKeeps
<1> QED BY <1>10, <1>13

(* The step ProcessNewAppRequest.                                          *)
LEMMA ProcessNewAppRequestKeeps ==
  ASSUME Streaming(Now), NEW n \in Node, ProcessNewAppRequest(n)
  PROVE  Streaming(World(kms', net', app', given', stored'))
<1>1. Received(n, "new_app")
  BY DEF ProcessNewAppRequest
<1>2. PICK s : s = Head(net[n]).ksid
  OBVIOUS
<1>3. PICK c : c = CreateKeyStreamSession(kms[n], s, TRUE)
  OBVIOUS
<1>4. PICK ok : ok = Ask("new_app_ok", s)
  OBVIOUS
<1>5. /\ kms' = [kms EXCEPT ![n] = c]
      /\ net' = [net EXCEPT ![n] = Tail(@), ![Peer(n)] = @ \o <<ok>>]
  <2>1. PICK o : o = [kms |-> c, sends |-> <<ok>>]
    OBVIOUS
  <2>2. Ends(n, {o}, TRUE)
    BY <1>2, <1>3, <1>4, <2>1 DEF ProcessNewAppRequest
  <2>3. o.kms = c /\ o.sends = <<ok>>
    BY <2>1
  <2> QED BY <2>2, <2>3, HandlesOne
<1>6. /\ net[n] # <<>> /\ Head(net[n]).type = "new_app" /\ UNCHANGED <<app, given, stored>>
      /\ Head(net[n]) \in Mail
  BY <1>1, ReceivedIs
<1>7. Peer(n) \in Node /\ Peer(n) # n
  BY NodeIs
<1> DEFINE u == World([kms EXCEPT ![n] = c], [net EXCEPT ![n] = Tail(@)], app, given, stored)
<1>8. Streaming(u)
  <2>1. Now.net[n] # <<>> /\ Head(Now.net[n]).type = "new_app"
    BY <1>6, NowIs
  <2>2. /\ u.kms = [Now.kms EXCEPT ![n] = CreateKeyStreamSession(Now.kms[n], Head(Now.net[n]).ksid, TRUE)]
        /\ u.net = [Now.net EXCEPT ![n] = Tail(@)]
        /\ u.app = Now.app /\ u.given = Now.given /\ u.stored = Now.stored
    BY <1>2, <1>3, NowIs DEF World
  <2> HIDE DEF u
  <2> QED BY <2>1, <2>2, CreateKeeps
<1>9. ok \in Mail /\ Plain(u, Peer(n), ok)
  <2>1. s \in Ksids
    BY <1>2, <1>6, MailIs
  <2>2. ok \in Asks /\ ok.type = "new_app_ok"
    BY <1>4, <2>1 DEF Ask, Asks
  <2> QED BY <2>2 DEF Plain, Mail
<1>10. PICK v : v = World(kms', net', app', given', stored')
  OBVIOUS
<1>11. v.net = [u.net EXCEPT ![Peer(n)] = Append(@, ok)]
  <2>1. net[Peer(n)] \o <<ok>> = Append(net[Peer(n)], ok)
    BY <1>7, <1>9, NowIs, AppendIs
  <2>2. PICK t1, t2 : t1 = Tail(net[n]) /\ t2 = Append(net[Peer(n)], ok)
    OBVIOUS
  <2>3. /\ u.net = [net EXCEPT ![n] = t1]
        /\ v.net = [net EXCEPT ![n] = t1, ![Peer(n)] = t2]
    BY <1>5, <1>10, <2>1, <2>2 DEF World
  <2>4. u.net[Peer(n)] = net[Peer(n)]
    BY <1>7, <2>3, NowIs
  <2> QED BY <1>7, <2>2, <2>3, <2>4, NowIs
<1>12. v.kms = u.kms /\ v.app = u.app /\ v.given = u.given /\ v.stored = u.stored
  BY <1>5, <1>6, <1>10 DEF World
<1> HIDE DEF u
<1>13. Streaming(v)
  BY <1>7, <1>8, <1>9, <1>11, <1>12, SendKeeps
<1> QED BY <1>10, <1>13

(* The step OPEN_CONNECT at the primary.                                   *)
LEMMA OpenConnectKeeps ==
  ASSUME Streaming(Now), NEW n \in Node, NEW s \in Ksids, OpenConnect(n, s)
  PROVE  Streaming(World(kms', net', app', given', stored'))
<1>1. /\ n = Primary[s] /\ app[n][s] = "none" /\ app' = [app EXCEPT ![n][s] = "open"]
      /\ UNCHANGED <<stored, given>>
  BY DEF OpenConnect
<1>2. PICK m : m = Ask("new_app", s)
  OBVIOUS
<1>3. PICK c : c = CreateKeyStreamSession(kms[n], s, FALSE)
  OBVIOUS
<1>4. PICK z : z = [c EXCEPT !.query = Append(@, m)]
  OBVIOUS
<1>5. /\ kms' = [kms EXCEPT ![n] = z]
      /\ net' = [net EXCEPT ![Peer(n)] = @ \o <<m>>]
  <2>1. Ends(n, {[kms |-> z, sends |-> <<m>>]}, FALSE)
    BY <1>2, <1>3, <1>4 DEF OpenConnect
  <2> QED BY <2>1, EndsThis
<1>6. Peer(n) \in Node /\ Peer(n) # n /\ m \in Mail /\ m.type # "fill"
  <2>1. m \in Asks /\ m.type # "fill"
    BY <1>2 DEF Ask, Asks
  <2> QED BY <2>1, NodeIs DEF Mail
<1> DEFINE u1 == World([kms EXCEPT ![n] = c], net, app, given, stored)
           u2 == World([kms EXCEPT ![n] = z], net, app, given, stored)
<1>7. Streaming(u1)
  <2>1. /\ u1.kms = [Now.kms EXCEPT ![n] = CreateKeyStreamSession(Now.kms[n], s, FALSE)]
        /\ u1.net = Now.net /\ u1.app = Now.app /\ u1.given = Now.given /\ u1.stored = Now.stored
    BY <1>3, NowIs DEF World
  <2>2. Now.app[n][s] = "none"
    BY <1>1, NowIs
  <2> HIDE DEF u1
  <2> QED BY <1>1, <2>1, <2>2, StartKeeps
<1>8. u1.kms[n] = c /\ c \in KmsOf(c)
  <2>1. u1.kms[n] = c
    BY NowIs DEF World
  <2> HIDE DEF u1
  <2> QED BY <1>7, <2>1 DEF Streaming, Shaped
<1>9. Streaming(u2)
  <2>1. /\ z \in KmsOf(z) /\ z.q = c.q /\ z.looks = c.looks /\ z.failed = c.failed
        /\ z.query = Append(c.query, m) /\ z.assoc = c.assoc
    <3>1. c.query \in Seq(Mail)
      BY <1>8 DEF KmsOf
    <3>2. Append(c.query, m) \in Seq(Mail)
      BY <1>6, <3>1
    <3> QED BY <1>4, <1>8, <3>2 DEF KmsOf
  <2>2. Leaves(c.query, z.query) /\ \A r \in Ksids : Keeps(Barred(u1, n, r), c.assoc[r], z.assoc[r])
    BY <1>6, <2>1 DEF Leaves, Keeps
  <2>3. /\ u2.kms = [u1.kms EXCEPT ![n] = z] /\ u2.net = u1.net /\ u2.app = u1.app
        /\ u2.given = u1.given /\ u2.stored = u1.stored
    BY NowIs DEF World
  <2>4. n = "B" => z.looks = {}
    <3> HIDE DEF u1
    <3> QED BY <1>7, <1>8, <2>1 DEF Streaming, OneSided
  <2> HIDE DEF u1, u2
  <2>5. Calm(u1, n, z)
    BY <1>7, <1>8, <2>1, <2>2, <2>4, CalmIs
  <2> QED BY <1>7, <2>1, <2>3, <2>5, CalmKeeps
<1>10. PICK v : v = World(kms', net', app', given', stored')
  OBVIOUS
<1>11. /\ v.app = [u2.app EXCEPT ![n][s] = "open"] /\ u2.app[n][s] = "none"
       /\ v.net = [u2.net EXCEPT ![Peer(n)] = Append(@, Ask("new_app", s))]
       /\ v.kms = u2.kms /\ v.given = u2.given /\ v.stored = u2.stored
  <2>1. net[Peer(n)] \o <<m>> = Append(net[Peer(n)], m)
    BY <1>6, NowIs, AppendIs
  <2>2. net' = [net EXCEPT ![Peer(n)] = Append(@, m)]
    BY <1>5, <1>6, <2>1, NowIs
  <2> QED BY <1>1, <1>2, <1>5, <1>10, <2>2 DEF World
<1> HIDE DEF u1, u2
<1>12. Streaming(v)
  BY <1>1, <1>9, <1>11, NewKeeps
<1> QED BY <1>10, <1>12

(* What a look at a stream may end in.                                     *)
LEMMA CheckOutcome ==
  ASSUME NEW w, Streaming(w), NEW s \in Ksids, NEW o \in CheckEtsi004Association(w.kms["A"], s)
  PROVE  /\ o = [kms |-> o.kms, sends |-> o.sends] /\ o.kms \in KmsOf(o.kms)
         /\ o.sends \in Seq(Mail) /\ (w.kms["A"].query # <<>> => o.kms.query # <<>>)
<1>1. PICK v : v = World([w.kms EXCEPT !["A"] = o.kms], [w.net EXCEPT ![Peer("A")] = @ \o o.sends],
                         w.app, w.given, w.stored)
  OBVIOUS
<1>2. Steps(w, "A", o, v)
  BY <1>1 DEF Steps, World
<1>3. /\ o.kms \in KmsOf(o.kms) /\ o.sends \in Seq(Mail)
      /\ (w.kms["A"].query # <<>> => o.kms.query # <<>>)
  BY <1>2, CheckSteps
<1>4. PICK y : y = [w.kms["A"] EXCEPT !.checks = @ \ {s}]
  OBVIOUS
<1>5. (\E z : o = Quiet(z)) \/ \E amount : o \in Fill(y, s, amount)
  BY <1>4 DEF CheckEtsi004Association
<1>6. CASE \E z : o = Quiet(z)
  <2>1. PICK z : o = Quiet(z)
    BY <1>6
  <2> QED BY <1>3, <2>1 DEF Quiet
<1>7. CASE \E amount : o \in Fill(y, s, amount)
  <2>1. PICK amount : o \in Fill(y, s, amount)
    BY <1>7
  <2>2. PICK P : P = Picks(amount, y.q)
    OBVIOUS
  <2>3. CASE P = {}
    BY <1>3, <2>1, <2>2, <2>3 DEF Fill, Quiet
  <2>4. CASE P # {}
    <3> DEFINE Z(ks) == [y EXCEPT !.q = @ \ KeysIn(ks),
                                  !.assoc[s].buf = EachKey(ReserveStreamKey, @, ks),
                                  !.query = Append(@, FillOf(s, ks))]
               Out(ks) == [kms |-> Z(ks), sends |-> <<FillOf(s, ks)>>]
    <3>1. Fill(y, s, amount) = {Out(ks) : ks \in P}
      BY <2>2, <2>4 DEF Fill, FillOf
    <3> HIDE DEF Z
    <3>2. PICK ks \in P : o = Out(ks)
      BY <2>1, <3>1
    <3> QED BY <1>3, <3>2
  <2> QED BY <2>3, <2>4
<1> QED BY <1>3, <1>5, <1>6, <1>7

(* One outcome in two steps.                                               *)
Between(w, n, o1, o2, u, v) ==
  Steps(w, n, o1, u) /\ u.kms[n] = o1.kms /\ Steps(u, n, o2, v)

(* A step whose messages are sent in two goes.                             *)
LEMMA StepsTwice ==
  ASSUME NEW w, Streaming(w), NEW n \in Node, NEW o1, NEW o2, NEW o, o.kms = o2.kms,
         o1.sends \in Seq(Mail), o2.sends \in Seq(Mail), o.sends = o1.sends \o o2.sends,
         NEW v, Steps(w, n, o, v)
  PROVE  \E u : Between(w, n, o1, o2, u, v)
<1> DEFINE u == World([w.kms EXCEPT ![n] = o1.kms], [w.net EXCEPT ![Peer(n)] = @ \o o1.sends],
                      w.app, w.given, w.stored)
<1>1. /\ Peer(n) \in Node /\ w.net \in [Node -> Seq(Mail)]
      /\ w.kms = [m \in Node |-> w.kms[m]]
  BY NodeIs DEF Streaming, Shaped
<1>2. Steps(w, n, o1, u) /\ u.kms[n] = o1.kms
  BY <1>1 DEF Steps, World
<1>3. PICK p \in Node : p = Peer(n)
  BY <1>1
<1>4. PICK s1, s2 : s1 = o1.sends /\ s2 = o2.sends
  OBVIOUS
<1>5. w.net[p] \in Seq(Mail) /\ s1 \in Seq(Mail) /\ s2 \in Seq(Mail)
  BY <1>1, <1>4
<1>6. PICK c : c = w.net[p]
  OBVIOUS
<1>7. c \o (s1 \o s2) = (c \o s1) \o s2
  <2>1. c \in Seq(Mail)
    BY <1>5, <1>6
  <2> QED BY <1>5, <2>1
<1>8. v.net = [w.net EXCEPT ![p] = c \o (s1 \o s2)]
  BY <1>3, <1>4, <1>6 DEF Steps
<1>9. PICK t, t1 : t1 = c \o s1 /\ t = t1 \o s2
  OBVIOUS
<1>10. u.net = [w.net EXCEPT ![p] = t1]
  BY <1>3, <1>4, <1>6, <1>9 DEF World
<1>11. v.net = [u.net EXCEPT ![p] = @ \o s2]
  <2>1. u.net[p] = t1
    BY <1>1, <1>10
  <2>2. v.net = [w.net EXCEPT ![p] = t]
    BY <1>7, <1>8, <1>9
  <2>3. [u.net EXCEPT ![p] = t] = [w.net EXCEPT ![p] = t]
    BY <1>1, <1>10
  <2> QED BY <1>9, <2>1, <2>2, <2>3
<1>12. v.kms = [u.kms EXCEPT ![n] = o2.kms]
  <2>1. v.kms = [w.kms EXCEPT ![n] = o2.kms] /\ u.kms = [w.kms EXCEPT ![n] = o1.kms]
    BY DEF Steps, World
  <2> QED BY <1>1, <2>1
<1>13. v.app = u.app /\ v.given = u.given /\ v.stored = u.stored
  BY DEF Steps, World
<1>14. Steps(u, n, o2, v)
  BY <1>3, <1>4, <1>11, <1>12, <1>13 DEF Steps
<1>15. Between(w, n, o1, o2, u, v)
  BY <1>2, <1>14 DEF Between
<1> HIDE DEF u
<1> QED BY <1>15

(* The handler of one outcome.                                             *)
LEMMA HandlerBefore ==
  ASSUME Streaming(Now), NEW n \in Node, NEW outs, Ends(n, outs, TRUE), net[n] # <<>>,
         UNCHANGED <<app, given, stored>>,
         \A o \in outs : \A u : Steps(Now, n, o, u) => Streaming(u),
         n = "A" => Head(net[n]).type # "filled"
  PROVE  Streaming(World(kms', net', app', given', stored'))
<1>1. PICK v : v = World(kms', net', app', given', stored')
  OBVIOUS
<1>2. PICK o \in outs : Handles(Now, n, o, v)
  BY <1>1, EndsHandle
<1>3. PICK u : Before(Now, n, o, v, u)
  BY <1>2, HandleIs
<1>4. Streaming(u)
  BY <1>3 DEF Before
<1>5. u.net[n] # <<>> /\ (n = "A" /\ Head(u.net[n]).type = "filled" => u.kms["A"].failed # "no")
  BY <1>3, NowIs DEF Before
<1>6. /\ v.net = [u.net EXCEPT ![n] = Tail(@)]
      /\ v.kms = u.kms /\ v.app = u.app /\ v.given = u.given /\ v.stored = u.stored
  BY <1>3 DEF Before
<1>7. Streaming(v)
  BY <1>4, <1>5, <1>6, PopKeeps
<1> QED BY <1>1, <1>7

Joined(x, s) == [x EXCEPT !.assoc[s].peerRegistered = TRUE]

(* To note that the peer has registered is harmless.                       *)
LEMMA RegisteredIs ==
  ASSUME NEW w, Streaming(w), NEW n \in Node, NEW s \in Ksids, NEW x, x = w.kms[n],
         n = "A" => ~Fresh(w, s), NEW z, z = Joined(x, s),
         NEW o, o.kms = z, o.sends = <<Ask("register_ok", s)>>
  PROVE  Harmless(w, n, o)
<1>1. x \in KmsOf(x)
  BY DEF Streaming, Shaped
<1>2. x.assoc \in [Ksids -> Association]
  BY <1>1 DEF KmsOf
<1>3. PICK f : f = [x.assoc EXCEPT ![s] = [x.assoc[s] EXCEPT !.peerRegistered = TRUE]]
  OBVIOUS
<1>4. f \in [Ksids -> Association]
  BY <1>2, <1>3 DEF Association
<1>5. /\ z \in KmsOf(z) /\ z.q = x.q /\ z.looks = x.looks /\ z.failed = x.failed
      /\ z.query = x.query /\ z.assoc = f
  <2>1. z = [x EXCEPT !.assoc = f]
    BY <1>1, <1>3 DEF KmsOf, Joined
  <2> QED BY <1>1, <1>4, <2>1 DEF KmsOf
<1>6. ASSUME NEW r \in Ksids
      PROVE  Keeps(Barred(w, n, r), x.assoc[r], f[r])
  <2>1. CASE r # s
    BY <1>2, <1>3, <2>1 DEF Keeps
  <2>2. CASE r = s
    <3>1. PICK a \in Association : a = x.assoc[s]
      BY <1>2
    <3>2. f[s].open = a.open /\ f[s].buf = a.buf
      BY <1>2, <1>3, <3>1 DEF Association
    <3> QED BY <2>2, <3>1, <3>2 DEF Keeps, Barred
  <2> QED BY <2>1, <2>2
<1>7. Plain(w, Peer(n), Ask("register_ok", s))
  <2>1. Ask("register_ok", s) \in Asks /\ Ask("register_ok", s).type = "register_ok"
    BY DEF Ask, Asks
  <2> QED BY <2>1 DEF Plain, Mail
<1>8. Leaves(x.query, z.query)
  BY <1>5 DEF Leaves
<1>9. /\ o.kms \in KmsOf(o.kms) /\ o.kms.q = x.q /\ o.kms.looks = x.looks
      /\ o.kms.failed = x.failed /\ Leaves(x.query, o.kms.query)
  BY <1>5, <1>8
<1>10. \A r \in Ksids : Keeps(Barred(w, n, r), x.assoc[r], o.kms.assoc[r])
  BY <1>5, <1>6
<1>11. o.sends = <<>> \/ \E m : o.sends = <<m>> /\ Plain(w, Peer(n), m)
  BY <1>7
<1> QED BY <1>9, <1>10, <1>11, HarmlessIs

(* The step ProcessRegisterRequest.                                        *)
LEMMA ProcessRegisterRequestKeeps ==
  ASSUME Streaming(Now), NEW n \in Node, ProcessRegisterRequest(n)
  PROVE  Streaming(World(kms', net', app', given', stored'))
<1>1. Received(n, "register")
  BY DEF ProcessRegisterRequest
<1>2. PICK x, s : x = kms[n] /\ s = Head(net[n]).ksid
  OBVIOUS
<1>3. /\ net[n] # <<>> /\ Head(net[n]).type = "register" /\ UNCHANGED <<app, given, stored>>
      /\ Head(net[n]) \in Mail /\ 1 \in 1 .. Len(net[n]) /\ Head(net[n]) = net[n][1]
      /\ x \in KmsOf(x) /\ Now.kms[n] = x
  BY <1>1, <1>2, ReceivedIs
<1>4. s \in Ksids
  BY <1>2, <1>3, MailIs
<1>5. CASE ~Open(x, s)
  <2>1. PICK outs : outs = {Quiet(x)}
    OBVIOUS
  <2>2. Ends(n, outs, TRUE)
    BY <1>2, <1>5, <2>1 DEF ProcessRegisterRequest
  <2>3. \A o \in outs : Harmless(Now, n, o)
    BY <1>3, <2>1, HarmlessSame
  <2> QED BY <1>3, <2>2, <2>3, HandlerKeeps
<1>6. CASE Open(x, s)
  <2>1. PICK z : z = Joined(x, s)
    OBVIOUS
  <2>2. PICK ok : ok = <<Ask("register_ok", s)>>
    OBVIOUS
  <2>3. PICK looked : looked = IF n = "A" THEN CheckEtsi004Association(z, s) ELSE {Quiet(z)}
    OBVIOUS
  <2>4. PICK outs : outs = {[o EXCEPT !.sends = ok \o @] : o \in looked}
    OBVIOUS
  <2>5. Ends(n, outs, TRUE)
    BY <1>2, <1>6, <2>1, <2>2, <2>3, <2>4 DEF ProcessRegisterRequest, Master, Joined
  <2>6. n = "A" => ~Fresh(Now, s)
    <3>1. ASSUME n = "A", Fresh(Now, s)
          PROVE  FALSE
      <4>1. Untouched(Now, s)
        BY <1>4, <3>1 DEF Streaming, Creation
      <4>2. \A i \in 1 .. Len(net["A"]) : net["A"][i].type = "register" => net["A"][i].ksid # s
        BY <4>1, NowIs DEF Untouched, Unheard
      <4> QED BY <1>2, <1>3, <3>1, <4>2
    <3> QED BY <3>1
  <2>7. PICK o1 : o1 = [kms |-> z, sends |-> ok]
    OBVIOUS
  <2>8. o1.kms = z /\ o1.sends = ok
    BY <2>7
  <2>9. Harmless(Now, n, o1)
    BY <1>3, <1>4, <2>1, <2>2, <2>6, <2>8, RegisteredIs
  <2>10. ok \in Seq(Mail) /\ <<>> \in Seq(Mail)
    <3>1. Ask("register_ok", s) \in Mail
      BY <1>4 DEF Ask, Asks, Mail
    <3> QED BY <2>2, <3>1
  <2>11. ASSUME NEW o \in outs, NEW u, Steps(Now, n, o, u)
         PROVE  Streaming(u)
    <3>1. PICK p \in looked : o = [p EXCEPT !.sends = ok \o @]
      BY <2>4, <2>11
    <3>2. CASE n # "A"
      <4>1. p = Quiet(z)
        BY <2>3, <3>1, <3>2
      <4>2. o = [kms |-> z, sends |-> ok \o <<>>]
        BY <3>1, <4>1 DEF Quiet
      <4>3. o = o1
        BY <2>7, <2>10, <4>2
      <4> QED BY <2>9, <2>11, <4>3, StepKeeps
    <3>3. CASE n = "A"
      <4> DEFINE u0 == World([kms EXCEPT !["A"] = z], [net EXCEPT ![Peer("A")] = @ \o ok],
                             app, given, stored)
      <4>1. Steps(Now, "A", o1, u0) /\ u0.kms["A"] = z
        BY <2>8, NowIs, NodeIs DEF Steps, World
      <4>2. Streaming(u0)
        <5> HIDE DEF u0
        <5> QED BY <2>9, <3>3, <4>1, StepKeeps
      <4> HIDE DEF u0
      <4>3. p \in CheckEtsi004Association(u0.kms["A"], s)
        BY <2>3, <3>1, <3>3, <4>1
      <4>4. p = [kms |-> p.kms, sends |-> p.sends] /\ p.sends \in Seq(Mail)
        BY <1>4, <4>2, <4>3, CheckOutcome
      <4>5. o.kms = p.kms /\ o.sends = ok \o p.sends
        BY <3>1, <4>4
      <4>6. PICK u1 : Between(Now, n, o1, p, u1, u)
        BY <2>8, <2>10, <2>11, <4>4, <4>5, StepsTwice
      <4>7. Steps(Now, n, o1, u1) /\ u1.kms[n] = z /\ Steps(u1, n, p, u)
        BY <2>8, <4>6 DEF Between
      <4>8. Streaming(u1)
        BY <2>9, <4>7, StepKeeps
      <4>9. p \in CheckEtsi004Association(u1.kms["A"], s)
        BY <2>3, <3>1, <3>3, <4>7
      <4> QED BY <1>4, <3>3, <4>7, <4>8, <4>9, CheckSteps
    <3> QED BY <3>2, <3>3
  <2> QED BY <1>3, <2>5, <2>11, HandlerBefore
<1> QED BY <1>5, <1>6

(* The step ProcessRegisterResponse.                                       *)
LEMMA ProcessRegisterResponseKeeps ==
  ASSUME Streaming(Now), NEW n \in Node, ProcessRegisterResponse(n)
  PROVE  Streaming(World(kms', net', app', given', stored'))
<1>1. Received(n, "register_ok")
  BY DEF ProcessRegisterResponse
<1>2. PICK x, s : x = kms[n] /\ s = Head(net[n]).ksid
  OBVIOUS
<1>3. /\ net[n] # <<>> /\ Head(net[n]).type = "register_ok" /\ UNCHANGED <<app, given, stored>>
      /\ Head(net[n]) \in Mail /\ x \in KmsOf(x) /\ Now.kms[n] = x
  BY <1>1, <1>2, ReceivedIs
<1>4. s \in Ksids
  BY <1>2, <1>3, MailIs
<1>5. CASE ~Open(x, s)
  <2>1. PICK outs : outs = {Quiet(x)}
    OBVIOUS
  <2>2. Ends(n, outs, TRUE)
    BY <1>2, <1>5, <2>1 DEF ProcessRegisterResponse
  <2>3. \A o \in outs : Harmless(Now, n, o)
    BY <1>3, <2>1, HarmlessSame
  <2> QED BY <1>3, <2>2, <2>3, HandlerKeeps
<1>6. CASE Open(x, s) /\ x.query = <<>>
  <2>1. PICK outs : outs = {Quiet(Fails(x))}
    OBVIOUS
  <2>2. Ends(n, outs, TRUE)
    BY <1>2, <1>6, <2>1 DEF ProcessRegisterResponse, Unmapped
  <2>3. \A o \in outs : Harmless(Now, n, o)
    BY <1>3, <2>1, HarmlessSame
  <2> QED BY <1>3, <2>2, <2>3, HandlerKeeps
<1>7. CASE Open(x, s) /\ x.query # <<>>
  <2>1. PICK looked : looked = IF n = "A" THEN CheckEtsi004Association(x, s) ELSE {Quiet(x)}
    OBVIOUS
  <2>2. PICK outs : outs = {[o EXCEPT !.kms = Complete(@)] : o \in looked}
    OBVIOUS
  <2>3. Ends(n, outs, TRUE)
    BY <1>2, <1>7, <2>1, <2>2 DEF ProcessRegisterResponse, Master
  <2>4. ASSUME NEW w, Streaming(w), w.kms[n] \in KmsOf(w.kms[n]), w.kms[n].query # <<>>
        PROVE  Harmless(w, n, Quiet(Complete(w.kms[n])))
    <3>1. PICK y, z : y = w.kms[n] /\ z = Complete(y)
      OBVIOUS
    <3>2. /\ z \in KmsOf(z) /\ z.q = y.q /\ z.looks = y.looks /\ z.failed = y.failed
          /\ z.assoc = y.assoc /\ z.query = Tail(y.query)
      BY <2>4, <3>1, CompleteIs
    <3>3. Leaves(y.query, z.query)
      BY <2>4, <3>1, <3>2 DEF Leaves
    <3>4. Harmless(w, n, Quiet(z))
      BY <2>4, <3>1, <3>2, <3>3, HarmlessQuiet
    <3> QED BY <3>1, <3>4
  <2>5. ASSUME NEW o \in outs, NEW u, Steps(Now, n, o, u)
        PROVE  Streaming(u)
    <3>1. PICK p \in looked : o = [p EXCEPT !.kms = Complete(@)]
      BY <2>2, <2>5
    <3>2. CASE n # "A"
      <4>1. p = Quiet(x)
        BY <2>1, <3>1, <3>2
      <4>2. o = Quiet(Complete(x))
        BY <3>1, <4>1 DEF Quiet
      <4>3. Harmless(Now, n, o)
        BY <1>3, <1>7, <2>4, <4>2
      <4> QED BY <2>5, <4>3, StepKeeps
    <3>3. CASE n = "A"
      <4>1. p \in CheckEtsi004Association(Now.kms["A"], s)
        BY <1>3, <2>1, <3>1, <3>3
      <4>2. /\ p = [kms |-> p.kms, sends |-> p.sends] /\ p.kms \in KmsOf(p.kms)
            /\ p.sends \in Seq(Mail) /\ p.kms.query # <<>>
        BY <1>3, <1>4, <1>7, <3>3, <4>1, CheckOutcome
      <4>3. PICK o2 : o2 = Quiet(Complete(p.kms))
        OBVIOUS
      <4>4. o2.kms = Complete(p.kms) /\ o2.sends = <<>> /\ o2.sends \in Seq(Mail)
        BY <4>3 DEF Quiet
      <4>5. o.kms = o2.kms /\ o.sends = p.sends \o o2.sends
        <5>1. o.kms = Complete(p.kms) /\ o.sends = p.sends
          BY <3>1, <4>2
        <5>2. p.sends \o <<>> = p.sends
          BY <4>2
        <5> QED BY <4>4, <5>1, <5>2
      <4>6. PICK u1 : Between(Now, n, p, o2, u1, u)
        BY <2>5, <4>2, <4>4, <4>5, StepsTwice
      <4>7. Steps(Now, n, p, u1) /\ u1.kms[n] = p.kms /\ Steps(u1, n, o2, u)
        BY <4>6 DEF Between
      <4>8. Streaming(u1)
        BY <1>4, <3>3, <4>1, <4>7, CheckSteps
      <4>9. Harmless(u1, n, o2)
        BY <2>4, <4>2, <4>3, <4>7, <4>8
      <4> QED BY <4>7, <4>8, <4>9, StepKeeps
    <3> QED BY <3>2, <3>3
  <2> QED BY <1>3, <2>3, <2>5, HandlerBefore
<1> QED BY <1>5, <1>6, <1>7

(* The step ProcessFillRequest.                                            *)
LEMMA ProcessFillRequestKeeps ==
  ASSUME Streaming(Now), NEW n \in Node, ProcessFillRequest(n)
  PROVE  Streaming(World(kms', net', app', given', stored'))
<1>1. Received(n, "fill")
  BY DEF ProcessFillRequest
<1>2. PICK x, m : x = kms[n] /\ m = Head(net[n])
  OBVIOUS
<1>3. /\ net[n] # <<>> /\ m.type = "fill" /\ UNCHANGED <<app, given, stored>>
      /\ m \in Mail /\ 1 \in 1 .. Len(net[n]) /\ m = net[n][1]
      /\ x \in KmsOf(x) /\ Now.kms[n] = x
  BY <1>1, <1>2, ReceivedIs
<1>4. n = "B"
  <2>1. \A i \in 1 .. Len(net["A"]) : net["A"][i].type # "fill"
    BY NowIs DEF Streaming, OneSided
  <2> QED BY <1>3, <2>1 DEF Node
<1>5. CASE ~Open(x, m.ksid)
  <2>1. PICK outs : outs = {Quiet(Fails(x))}
    OBVIOUS
  <2>2. Ends(n, outs, TRUE)
    BY <1>2, <1>5, <2>1 DEF ProcessFillRequest
  <2>3. \A o \in outs : Harmless(Now, n, o)
    BY <1>3, <2>1, HarmlessSame
  <2> QED BY <1>2, <1>3, <1>4, <2>2, <2>3, HandlerKeeps
<1>6. CASE Open(x, m.ksid)
  <2>1. PICK found : found = Listed(m.keys, x.q)
    OBVIOUS
  <2>2. PICK z : z = [x EXCEPT !.q = @ \ KeysIn(found),
                       !.assoc[m.ksid].buf = EachKey(InsertKeyToStreamSession, @, found)]
    OBVIOUS
  <2>3. PICK e : e = [kms |-> z, sends |-> <<Filled(found)>>]
    OBVIOUS
  <2>4. PICK outs : outs = {e}
    OBVIOUS
  <2>5. Ends(n, outs, TRUE)
    BY <1>2, <1>6, <2>1, <2>2, <2>3, <2>4 DEF ProcessFillRequest
  <2>6. e.kms = z /\ e.sends = <<Filled(found)>>
    BY <2>3
  <2>7. m.keys \in Lists /\ m.ksid \in Ksids
    BY <1>3, MailIs
  <2>8. Filled(found) \in Mail
    <3>1. found \in Lists
      BY <2>1, <2>7, ListedIs
    <3> QED BY <3>1 DEF Filled, Mail, Founds
  <2>9. PouredIn(x, m.ksid, found, z)
    <3>1. x.assoc \in [Ksids -> Association]
      BY <1>3 DEF KmsOf
    <3>2. PICK d : d = EachKey(InsertKeyToStreamSession, x.assoc[m.ksid].buf, found)
      OBVIOUS
    <3>3. z = [x EXCEPT !.q = x.q \ KeysIn(found),
                        !.assoc = [x.assoc EXCEPT ![m.ksid] = [x.assoc[m.ksid] EXCEPT !.buf = d]]]
      BY <1>3, <2>2, <3>1, <3>2 DEF KmsOf
    <3> QED BY <1>3, <3>2, <3>3 DEF PouredIn, KmsOf
  <2>10. ASSUME NEW o \in outs, NEW u, Steps(Now, n, o, u)
         PROVE  Streaming(u)
    <3>1. Steps(Now, "B", e, u)
      BY <1>4, <2>4, <2>10
    <3>2. u.kms = [Now.kms EXCEPT !["B"] = z] /\ u.net = [Now.net EXCEPT !["A"] = Append(@, Filled(found))]
      <4>1. net["A"] \o <<Filled(found)>> = Append(net["A"], Filled(found))
        BY <2>8, NowIs, AppendIs, NodeIs
      <4> QED BY <2>6, <3>1, <4>1, NowIs, NodeIs DEF Steps
    <3>3. u.app = Now.app /\ u.given = Now.given /\ u.stored = Now.stored
      BY <3>1 DEF Steps
    <3>4. \E i \in 1 .. Len(Now.net["B"]) : m = Now.net["B"][i]
      BY <1>3, <1>4, NowIs
    <3>5. Now.kms["B"] = x /\ x.assoc[m.ksid].open
      BY <1>3, <1>4, <1>6 DEF Open
    <3>6. SlaveChange(Now, m, found, z, u)
      BY <1>3, <2>1, <2>9, <3>2, <3>3, <3>4, <3>5 DEF SlaveChange
    <3> QED BY <3>6, SlavePours
  <2> QED BY <1>2, <1>3, <1>4, <2>5, <2>10, HandlerBefore
<1> QED BY <1>5, <1>6

(* The step ProcessFillResponse.                                           *)
LEMMA ProcessFillResponseKeeps ==
  ASSUME Streaming(Now), NEW n \in Node, ProcessFillResponse(n)
  PROVE  Streaming(World(kms', net', app', given', stored'))
<1>1. Received(n, "filled")
  BY DEF ProcessFillResponse
<1>2. PICK x, a : x = kms[n] /\ a = Head(net[n])
  OBVIOUS
<1>3. /\ net[n] # <<>> /\ a.type = "filled" /\ UNCHANGED <<app, given, stored>>
      /\ a \in Mail /\ 1 \in 1 .. Len(net[n]) /\ a = net[n][1]
      /\ x \in KmsOf(x) /\ Now.kms[n] = x /\ x.failed = "no"
  BY <1>1, <1>2, ReceivedIs
<1>4. n = "A" /\ "A" \in Node
  <2>1. \A i \in 1 .. Len(net["B"]) : net["B"][i].type # "filled"
    BY NowIs DEF Streaming, OneSided
  <2> QED BY <1>3, <2>1 DEF Node
<1>5. PICK fills : fills = {i \in DOMAIN x.query : x.query[i].type = "fill"}
  OBVIOUS
<1>6. PICK first : first = FirstFill(x.query)
  OBVIOUS
<1>7. PICK r : r = x.query[first]
  OBVIOUS
<1>8. x.query \in Seq(Mail)
  BY <1>3 DEF KmsOf
<1>9. ASSUME Ends(n, {Quiet(Fails(x))}, TRUE)
      PROVE  Streaming(World(kms', net', app', given', stored'))
  <2>1. PICK outs : outs = {Quiet(Fails(x))}
    OBVIOUS
  <2>2. \A o \in outs : Harmless(Now, n, o)
    BY <1>3, <2>1, HarmlessSame
  <2>3. \A o \in outs : o.kms.failed # "no"
    <3>1. Fails(x).failed # "no"
      BY <1>3, StopsIs
    <3> QED BY <2>1, <3>1 DEF Quiet
  <2> QED BY <1>3, <1>9, <2>1, <2>2, <2>3, HandlerKeeps
<1>10. CASE fills = {}
  BY <1>2, <1>5, <1>9, <1>10 DEF ProcessFillResponse, Unmapped
<1>11. CASE fills # {} /\ (~Open(x, r.ksid) \/ ~(KeysIn(a.keys) \subseteq KeysIn(r.keys)))
  BY <1>2, <1>5, <1>6, <1>7, <1>9, <1>11 DEF ProcessFillResponse
<1>12. CASE fills # {} /\ Open(x, r.ksid) /\ KeysIn(a.keys) \subseteq KeysIn(r.keys)
  <2>1. PICK z : z = [x EXCEPT !.assoc[r.ksid].buf = Poured(@, r.keys, a.keys),
                               !.query = SubSeq(@, first + 1, Len(@))]
    OBVIOUS
  <2>2. Ends(n, {Quiet(z)}, TRUE)
    BY <1>2, <1>5, <1>6, <1>7, <1>12, <2>1 DEF ProcessFillResponse
  <2>3. first \in 1 .. Len(x.query) /\ r.type = "fill"
    <3>1. PICK l \in Nat : l = Len(x.query)
      BY <1>8
    <3>2. fills \in SUBSET (1 .. l) /\ DOMAIN x.query = 1 .. l
      BY <1>5, <1>8, <3>1
    <3>3. first = Min(fills)
      BY <1>5, <1>6 DEF FirstFill
    <3>4. first \in fills
      BY <1>12, <3>2, <3>3, MinIs
    <3> QED BY <1>5, <1>7, <3>1, <3>2, <3>4
  <2>4. PICK e : e = Quiet(z)
    OBVIOUS
  <2>5. e.kms = z /\ e.sends = <<>>
    BY <2>4 DEF Quiet
  <2>6. PICK v : v = World(kms', net', app', given', stored')
    OBVIOUS
  <2>7. PICK outs : outs = {e}
    OBVIOUS
  <2>8. PICK o \in outs : Handles(Now, n, o, v)
    BY <1>3, <2>2, <2>4, <2>6, <2>7, EndsHandle
  <2>9. Handles(Now, n, e, v)
    BY <2>7, <2>8
  <2>10. v.kms = [Now.kms EXCEPT !["A"] = z] /\ v.net = [Now.net EXCEPT !["A"] = Tail(@)]
    <3>1. /\ v.kms = [Now.kms EXCEPT !["A"] = z]
          /\ v.net = [Now.net EXCEPT !["A"] = Tail(@), !["B"] = @ \o <<>>]
      BY <1>4, <2>5, <2>9, NodeIs DEF Handles
    <3>2. "B" \in Node /\ net["B"] \o <<>> = net["B"]
      BY NowIs, NodeIs
    <3>3. PICK t : t = Tail(net["A"])
      OBVIOUS
    <3>4. v.net = [net EXCEPT !["A"] = t, !["B"] = net["B"]]
      BY <3>1, <3>2, <3>3, NowIs
    <3>5. v.net = [net EXCEPT !["A"] = t]
      BY <1>4, <3>2, <3>4, NowIs
    <3> QED BY <3>1, <3>3, <3>5, NowIs
  <2>11. v.app = Now.app /\ v.given = Now.given /\ v.stored = Now.stored
    BY <2>9 DEF Handles
  <2>12. AnsweredIn(x, r, a.keys, first, z)
    <3>1. x.assoc \in [Ksids -> Association]
      BY <1>3 DEF KmsOf
    <3>2. PICK d, qs : d = Poured(x.assoc[r.ksid].buf, r.keys, a.keys)
                       /\ qs = SubSeq(x.query, first + 1, Len(x.query))
      OBVIOUS
    <3>3. z = [x EXCEPT !.assoc = [x.assoc EXCEPT ![r.ksid] = [x.assoc[r.ksid] EXCEPT !.buf = d]],
                        !.query = qs]
      BY <1>3, <2>1, <3>1, <3>2 DEF KmsOf
    <3> QED BY <1>3, <3>2, <3>3 DEF AnsweredIn, KmsOf
  <2>13. AnswerChange(Now, first, z, v)
    <3>1. /\ Now.kms["A"] = x /\ Now.net["A"] # <<>> /\ Head(Now.net["A"]) = a
          /\ x.assoc[r.ksid].open
      BY <1>2, <1>3, <1>4, <1>12, NowIs DEF Open
    <3> QED BY <1>3, <1>7, <1>12, <2>3, <2>10, <2>11, <2>12, <3>1 DEF AnswerChange
  <2>14. Streaming(v)
    BY <2>13, MasterPours
  <2> QED BY <2>6, <2>14
<1> QED BY <1>10, <1>11, <1>12

(* The master remembers what to release, the slave releases it.            *)
LEMMA ScheduleReleaseIs ==
  ASSUME NEW x, x \in KmsOf(x), NEW r \in [ksid : Ksids, surplus : Sides, sync : Nat], NEW z,
         z = ScheduleRelease(x, r)
  PROVE  /\ z \in KmsOf(z) /\ z.q = x.q /\ z.looks = x.looks /\ z.failed = x.failed
         /\ z.query = x.query /\ z.assoc = x.assoc
  BY DEF ScheduleRelease, KmsOf

Parted(x, s) == [x EXCEPT !.assoc[s].peerRegistered = FALSE]

Apart(a, b) == b.open = a.open /\ b.buf = a.buf /\ b.peerRegistered = FALSE

(* To note that the peer has closed changes nothing else.                  *)
LEMMA PartedIs ==
  ASSUME NEW x, x \in KmsOf(x), NEW s \in Ksids, NEW z, z = Parted(x, s)
  PROVE  /\ z \in KmsOf(z) /\ z.q = x.q /\ z.looks = x.looks /\ z.failed = x.failed
         /\ z.query = x.query /\ z.checks = x.checks /\ z.releases = x.releases
         /\ \A r \in Ksids : z.assoc[r] = x.assoc[r] \/ Apart(x.assoc[r], z.assoc[r])
         /\ z.assoc[s].buf = x.assoc[s].buf
<1>1. x.assoc \in [Ksids -> Association]
  BY DEF KmsOf
<1>2. PICK f : f = [x.assoc EXCEPT ![s] = [x.assoc[s] EXCEPT !.peerRegistered = FALSE]]
  OBVIOUS
<1>3. f \in [Ksids -> Association]
  BY <1>1, <1>2 DEF Association
<1>4. /\ z \in KmsOf(z) /\ z.q = x.q /\ z.looks = x.looks /\ z.failed = x.failed
      /\ z.query = x.query /\ z.checks = x.checks /\ z.releases = x.releases /\ z.assoc = f
  <2>1. z = [x EXCEPT !.assoc = f]
    BY <1>1, <1>2 DEF KmsOf, Parted
  <2> QED BY <1>3, <2>1 DEF KmsOf
<1>5. f[s].buf = x.assoc[s].buf /\ f[s].open = x.assoc[s].open /\ f[s].peerRegistered = FALSE
  <2>1. PICK a \in Association : a = x.assoc[s]
    BY <1>1
  <2> QED BY <1>1, <1>2, <2>1 DEF Association
<1>6. ASSUME NEW r \in Ksids
      PROVE  f[r] = x.assoc[r] \/ Apart(x.assoc[r], f[r])
  <2>1. CASE r # s
    BY <1>1, <1>2, <2>1
  <2>2. CASE r = s
    BY <1>5, <2>2 DEF Apart
  <2> QED BY <2>1, <2>2
<1> QED BY <1>4, <1>5, <1>6

(* The step ProcessKMSCloseRequest.                                        *)
LEMMA ProcessKMSCloseRequestKeeps ==
  ASSUME Streaming(Now), NEW n \in Node, ProcessKMSCloseRequest(n)
  PROVE  Streaming(World(kms', net', app', given', stored'))
<1>1. Received(n, "close")
  BY DEF ProcessKMSCloseRequest
<1>2. PICK y, m : y = kms[n] /\ m = Head(net[n])
  OBVIOUS
<1>3. PICK s : s = m.ksid
  OBVIOUS
<1>4. /\ net[n] # <<>> /\ m.type = "close" /\ UNCHANGED <<app, given, stored>>
      /\ m \in Mail /\ y \in KmsOf(y) /\ Now.kms[n] = y
  BY <1>1, <1>2, ReceivedIs
<1>5. m \in Closes /\ s \in Ksids /\ m.surplus \in Sides /\ m.sync \in Nat
  <2>1. m \in Closes
    BY <1>4, MailIs
  <2> QED BY <1>3, <2>1 DEF Closes
<1>6. ASSUME NEW outs, Ends(n, outs, TRUE), \A o \in outs : Harmless(Now, n, o)
      PROVE  Streaming(World(kms', net', app', given', stored'))
  BY <1>2, <1>4, <1>6, HandlerKeeps
<1>7. CASE ~Open(y, s)
  <2>1. PICK outs : outs = {Quiet(Undefined(y))}
    OBVIOUS
  <2>2. Ends(n, outs, TRUE)
    BY <1>2, <1>3, <1>7, <2>1 DEF ProcessKMSCloseRequest
  <2>3. \A o \in outs : Harmless(Now, n, o)
    BY <1>4, <2>1, HarmlessSame
  <2> QED BY <1>6, <2>2, <2>3
<1>8. CASE Open(y, s)
  <2>1. PICK x : x = Parted(y, s)
    OBVIOUS
  <2>2. PICK buf : buf = x.assoc[s].buf
    OBVIOUS
  <2>3. PICK sync : sync = SyncIndex(m, buf)
    OBVIOUS
  <2>4. PICK answer : answer = Closed(s, m.surplus, sync, buf)
    OBVIOUS
  <2>5. PICK r : r = [ksid |-> s, surplus |-> m.surplus, sync |-> sync]
    OBVIOUS
  <2>6. PICK later, released : later = ScheduleRelease(x, r)
                               /\ released = ReleaseAssociation(x, s, m.surplus, sync)
    OBVIOUS
  <2>7. PICK outs : outs = IF n = "A" THEN {[kms |-> later, sends |-> <<answer>>]}
                           ELSE {[kms |-> released, sends |-> <<answer>>], Quiet(Undefined(released))}
    OBVIOUS
  <2>8. Ends(n, outs, TRUE)
    BY <1>2, <1>3, <1>8, <2>1, <2>2, <2>3, <2>4, <2>5, <2>6, <2>7
       DEF ProcessKMSCloseRequest, Master, Parted
  <2>9. /\ x \in KmsOf(x) /\ x.q = y.q /\ x.looks = y.looks /\ x.failed = y.failed
        /\ x.query = y.query
        /\ \A q \in Ksids : x.assoc[q] = y.assoc[q] \/ Apart(y.assoc[q], x.assoc[q])
        /\ x.assoc[s].buf = y.assoc[s].buf
    BY <1>4, <1>5, <2>1, PartedIs
  <2>10. sync \in Nat
    <3>1. GetNextIndex(Now.kms[n].assoc[s].buf) \in Nat
      BY <1>5, NextIndexIs
    <3>2. GetNextIndex(buf) \in Nat
      BY <1>4, <2>2, <2>9, <3>1
    <3> QED BY <1>5, <2>3, <3>2 DEF SyncIndex
  <2>11. Plain(Now, Peer(n), answer)
    <3>1. answer \in Ended /\ answer.type = "closed"
      BY <1>5, <2>4, <2>10 DEF Closed, Ended
    <3> QED BY <3>1 DEF Plain, Mail
  <2>12. ASSUME NEW z, z \in KmsOf(z), z.q = x.q, z.looks = x.looks, z.query = x.query,
                x.failed # "no" => z.failed # "no",
                \A q \in Ksids : z.assoc[q] = x.assoc[q] \/ z.assoc[q] = NoAssociation,
                NEW o, o.kms = z, o.sends = <<>> \/ o.sends = <<answer>>
         PROVE  Harmless(Now, n, o)
    <3>1. ASSUME NEW q \in Ksids
          PROVE  Keeps(Barred(Now, n, q), y.assoc[q], o.kms.assoc[q])
      <4>1. Keeps(Barred(Now, n, q), y.assoc[q], x.assoc[q])
        BY <2>9 DEF Apart, Keeps
      <4>2. CASE z.assoc[q] = x.assoc[q]
        BY <2>12, <4>1, <4>2
      <4>3. CASE z.assoc[q] = NoAssociation
        BY <2>12, <4>3 DEF Keeps
      <4> QED BY <2>12, <4>2, <4>3
    <3>2. /\ o.kms \in KmsOf(o.kms) /\ o.kms.q = y.q /\ o.kms.looks = y.looks
          /\ (y.failed # "no" => o.kms.failed # "no") /\ Leaves(y.query, o.kms.query)
      BY <2>9, <2>12 DEF Leaves
    <3>3. o.sends = <<>> \/ \E l : o.sends = <<l>> /\ Plain(Now, Peer(n), l)
      BY <2>11, <2>12
    <3> QED BY <1>4, <3>1, <3>2, <3>3, HarmlessIs
  <2>13. ASSUME n = "A", NEW o \in outs
         PROVE  Harmless(Now, n, o)
    <3>1. o.kms = later /\ o.sends = <<answer>>
      BY <2>7, <2>13
    <3>2. r \in [ksid : Ksids, surplus : Sides, sync : Nat]
      BY <1>5, <2>5, <2>10
    <3>3. /\ later \in KmsOf(later) /\ later.q = x.q /\ later.looks = x.looks
          /\ later.failed = x.failed /\ later.query = x.query /\ later.assoc = x.assoc
      BY <2>6, <2>9, <3>2, ScheduleReleaseIs
    <3> QED BY <2>12, <3>1, <3>3
  <2>14. ASSUME n # "A", NEW o \in outs
         PROVE  Harmless(Now, n, o)
    <3>1. /\ released \in KmsOf(released) /\ released.q = x.q /\ released.looks = x.looks
          /\ released.query = x.query /\ released.failed = x.failed
          /\ \A q \in Ksids : released.assoc[q] = x.assoc[q] \/ released.assoc[q] = NoAssociation
      BY <2>6, <2>9, ReleaseIs
    <3>2. CASE o = [kms |-> released, sends |-> <<answer>>]
      <4>1. o.kms = released /\ o.sends = <<answer>>
        BY <3>2
      <4> QED BY <2>12, <3>1, <4>1
    <3>3. CASE o = Quiet(Undefined(released))
      <4>1. PICK z : z = Undefined(released)
        OBVIOUS
      <4>2. /\ z \in KmsOf(z) /\ z.q = x.q /\ z.looks = x.looks /\ z.failed # "no"
            /\ z.assoc = released.assoc /\ z.query = x.query
        BY <3>1, <4>1, StopsIs
      <4>3. o.kms = z /\ o.sends = <<>>
        BY <3>3, <4>1 DEF Quiet
      <4> QED BY <2>12, <3>1, <4>2, <4>3
    <3> QED BY <2>7, <2>14, <3>2, <3>3
  <2> QED BY <1>6, <2>8, <2>13, <2>14
<1> QED BY <1>7, <1>8

(* The step ProcessKMSCloseResponse.                                       *)
LEMMA ProcessKMSCloseResponseKeeps ==
  ASSUME Streaming(Now), NEW n \in Node, ProcessKMSCloseResponse(n)
  PROVE  Streaming(World(kms', net', app', given', stored'))
<1>1. Received(n, "closed")
  BY DEF ProcessKMSCloseResponse
<1>2. PICK x, a : x = kms[n] /\ a = Head(net[n])
  OBVIOUS
<1>3. /\ net[n] # <<>> /\ a.type = "closed" /\ UNCHANGED <<app, given, stored>>
      /\ x \in KmsOf(x) /\ Now.kms[n] = x
  BY <1>1, <1>2, ReceivedIs
<1>4. ASSUME NEW outs, Ends(n, outs, TRUE), \A o \in outs : Harmless(Now, n, o)
      PROVE  Streaming(World(kms', net', app', given', stored'))
  BY <1>2, <1>3, <1>4, HandlerKeeps
<1>5. CASE ~Open(x, a.ksid) \/ x.query = <<>>
  <2>1. PICK outs : outs = IF ~Open(x, a.ksid) THEN {Quiet(x)} ELSE {Quiet(Undefined(x))}
    OBVIOUS
  <2>2. Ends(n, outs, TRUE)
    BY <1>2, <1>5, <2>1 DEF ProcessKMSCloseResponse
  <2>3. \A o \in outs : Harmless(Now, n, o)
    BY <1>3, <2>1, HarmlessSame
  <2> QED BY <1>4, <2>2, <2>3
<1>6. CASE Open(x, a.ksid) /\ x.query # <<>>
  <2>1. PICK y : y = IF a.surplus # "none" /\ ~a.flag THEN Release(x, Head(x.query), a)
                     ELSE Forget(x, a.ksid)
    OBVIOUS
  <2>2. PICK z : z = Complete(y)
    OBVIOUS
  <2>3. PICK outs : outs = {Quiet(z)}
    OBVIOUS
  <2>4. Ends(n, outs, TRUE)
    BY <1>2, <1>6, <2>1, <2>2, <2>3 DEF ProcessKMSCloseResponse
  <2>5. \/ y = x \/ y = Forget(x, a.ksid)
        \/ \E r, surplus, sync : y = ReleaseAssociation(x, r.ksid, surplus, sync)
    BY <2>1 DEF Release
  <2>6. /\ y \in KmsOf(y) /\ y.q = x.q /\ y.looks = x.looks /\ y.query = x.query /\ y.failed = x.failed
        /\ \A s \in Ksids : y.assoc[s] = x.assoc[s] \/ y.assoc[s] = NoAssociation
    BY <1>3, <2>5, ReleaseIs
  <2>7. /\ z \in KmsOf(z) /\ z.q = y.q /\ z.looks = y.looks /\ z.failed = y.failed
        /\ z.assoc = y.assoc /\ z.query = Tail(y.query)
    BY <1>6, <2>2, <2>6, CompleteIs
  <2>8. Leaves(x.query, z.query)
    BY <1>6, <2>6, <2>7 DEF Leaves
  <2>9. Harmless(Now, n, Quiet(z))
    BY <1>3, <2>6, <2>7, <2>8, HarmlessQuiet
  <2>10. \A o \in outs : Harmless(Now, n, o)
    BY <2>3, <2>9
  <2> QED BY <1>4, <2>4, <2>10
<1> QED BY <1>5, <1>6

(* The invariant holds at first.                                           *)
LEMMA InitStreams ==
  ASSUME Init
  PROVE  Streaming(Now)
<1>1. /\ Now.kms = kms /\ Now.net = net /\ Now.app = app /\ Now.given = given
      /\ Now.stored = stored
  BY DEF Now, World
<1>2. /\ kms = [n \in Node |-> kms[n]]
      /\ \A n \in Node : /\ kms[n].q = {} /\ kms[n].checks = {} /\ kms[n].looks = {}
                         /\ kms[n].releases = {} /\ kms[n].query = <<>> /\ kms[n].back = {}
                         /\ kms[n].failed = "no" /\ kms[n].assoc = [s \in Ksids |-> NoAssociation]
  BY DEF Init
<1>3. /\ stored = [n \in Node |-> {}] /\ net = [n \in Node |-> <<>>]
      /\ app = [n \in Node |-> [s \in Ksids |-> "none"]]
      /\ given = [n \in Node |-> [s \in Ksids |-> <<>>]]
  BY DEF Init
<1>4. "A" \in Node /\ "B" \in Node
  BY DEF Node
<1>5. \A n \in Node : kms[n] \in KmsOf(kms[n])
  <2>1. ASSUME NEW n \in Node
        PROVE  kms[n] \in KmsOf(kms[n])
    <3>1. kms[n] = [q |-> {}, assoc |-> [s \in Ksids |-> NoAssociation], checks |-> {}, looks |-> {},
                    releases |-> {}, query |-> <<>>, back |-> {}, failed |-> "no"]
      BY DEF Init
    <3>2. [s \in Ksids |-> NoAssociation] \in [Ksids -> Association]
      BY NoAssociationIs
    <3>3. <<>> \in Seq(Mail)
      OBVIOUS
    <3> QED BY <3>1, <3>2, <3>3 DEF KmsOf
  <2> QED BY <2>1
<1>6. Shaped(Now)
  <2>1. net \in [Node -> Seq(Mail)]
    BY <1>3
  <2>2. app \in [Node -> [Ksids -> {"none", "open", "closed", "ignored"}]]
    BY <1>3
  <2>3. given \in [Node -> [Ksids -> Seq(GivenChunks)]]
    BY <1>3
  <2>4. stored \in [Node -> SUBSET KeyIds] /\ kms["A"].q \subseteq stored["A"]
    BY <1>2, <1>3, <1>4
  <2> QED BY <1>1, <1>2, <1>5, <2>1, <2>2, <2>3, <2>4 DEF Shaped
<1>7. Len(<<>>) = 0 /\ (1 .. 0) = {}
  OBVIOUS
<1>8. \A n \in Node : Len(Now.net[n]) = 0 /\ Len(Now.kms[n].query) = 0
  BY <1>1, <1>2, <1>3
<1>9. \A n \in Node : (1 .. Len(Now.net[n])) = {} /\ (1 .. Len(Now.kms[n].query)) = {}
  BY <1>7, <1>8
<1>10. OneSided(Now)
  BY <1>1, <1>2, <1>4, <1>9 DEF OneSided
<1>11. Waiting(Now)
  BY <1>4, <1>9 DEF Waiting
<1>12. Creation(Now)
  <2>1. \A s \in Ksids : Untouched(Now, s)
    <3>1. ASSUME NEW s \in Ksids
          PROVE  Untouched(Now, s)
      <4>1. Replica(s) \in Node
        BY NodeIs
      <4>2. \A n \in Node : ~Now.kms[n].assoc[s].open
        BY <1>1, <1>2 DEF NoAssociation
      <4> QED BY <1>4, <1>9, <4>1, <4>2 DEF Untouched, Unheard
    <3> QED BY <3>1
  <2> QED BY <1>9, <2>1 DEF Creation
<1>13. PICK own : own = [k \in KeyIds |-> k]
  OBVIOUS
<1>14. PICK tape : tape = [n \in Node |-> [s \in Ksids |-> <<>>]]
  OBVIOUS
<1>15. Tapes(Now, own, tape)
  <2>1. own = [k \in KeyIds |-> own[k]] /\ tape \in [Node -> [Ksids -> Seq(Unit)]]
    BY <1>13, <1>14
  <2>2. ASSUME NEW n \in Node, NEW s \in Ksids
        PROVE  Told(Now.kms[n].assoc[s], tape[n][s], Now.given[n][s])
    <3>1. PICK a : a = Now.kms[n].assoc[s]
      OBVIOUS
    <3>2. a = NoAssociation /\ tape[n][s] = <<>> /\ Now.given[n][s] = <<>>
      BY <1>1, <1>2, <1>3, <1>14, <3>1
    <3>3. ~a.open /\ a.buf = EmptyStream
      BY <3>2 DEF NoAssociation
    <3>4. At(0) = 0
      BY AtNext
    <3> QED BY <1>7, <3>1, <3>2, <3>3, <3>4 DEF Told
  <2>3. ASSUME NEW s \in Ksids
        PROVE  /\ tape["A"][s] = <<>> /\ tape["B"][s] = <<>> /\ Begins(tape["A"][s], tape["B"][s])
               /\ Linked(own, s, tape["A"][s], tape["B"][s], Now.net["A"])
    <3>1. tape["A"][s] = <<>> /\ tape["B"][s] = <<>>
      BY <1>4, <1>14
    <3>2. <<>> \in Seq(Unit)
      OBVIOUS
    <3>3. Begins(<<>>, <<>>)
      BY <3>2, BeginsTrans
    <3>4. PICK st : st = [i \in 0 .. 0 |-> <<>>]
      OBVIOUS
    <3>5. st \in [0 .. Len(Now.net["A"]) -> Seq(Unit)] /\ st[0] = <<>> /\ st[Len(Now.net["A"])] = <<>>
      BY <1>4, <1>8, <3>2, <3>4
    <3>6. Linked(own, s, <<>>, <<>>, Now.net["A"])
      BY <1>4, <1>9, <3>5 DEF Linked
    <3> QED BY <3>1, <3>3, <3>6
  <2>4. Claimed(own, Now.kms["A"].query) /\ Claimed(own, Now.net["B"])
    BY <1>4, <1>9 DEF Claimed
  <2> QED BY <2>1, <2>2, <2>3, <2>4 DEF Tapes
<1> QED BY <1>6, <1>10, <1>11, <1>12, <1>15 DEF Streaming

(* Every step keeps the streams.                                           *)
LEMMA NextStreams ==
  ASSUME SlaveAsks = FALSE, Streaming(Now), [Next]_vars
  PROVE  Streaming(World(kms', net', app', given', stored'))
<1>1. CASE UNCHANGED vars
  BY <1>1 DEF vars, Now
<1>2. ASSUME NEW n \in Node, Deliver(n)
      PROVE  Streaming(World(kms', net', app', given', stored'))
  BY <1>2, ProcessNewAppRequestKeeps, ProcessNewAppResponseKeeps, ProcessRegisterRequestKeeps,
     ProcessRegisterResponseKeeps, ProcessFillRequestKeeps, ProcessFillResponseKeeps,
     ProcessKMSCloseRequestKeeps, ProcessKMSCloseResponseKeeps DEF Deliver
<1>3. CASE Timer
  BY <1>3, ScheduledReleaseKeeps, ScheduledCheckKeeps DEF Timer
<1>4. CASE Call
  BY <1>4, StoreKeyRequestKeeps, OpenConnectKeeps, JoinKeeps, GetKey004Keeps,
     GetKey004RefusedKeeps, CloseKeeps DEF Call
<1> QED BY <1>1, <1>2, <1>3, <1>4 DEF Next

(* The chunks of an end are whole pieces of its tape.                      *)
LEMMA ChunksAre ==
  ASSUME Streaming(Now), NEW own, NEW tape, Tapes(Now, own, tape), NEW n \in Node, NEW s \in Ksids,
         NEW c \in Chunks(n, s)
  PROVE  /\ c.index \in Nat /\ At(c.index) + Chunk <= Len(tape[n][s])
         /\ c.key = PieceAt(tape[n][s], c.index)
<1>1. PICK a, t, g : a = kms[n].assoc[s] /\ t = tape[n][s] /\ g = given[n][s]
  OBVIOUS
<1>2. Told(a, t, g) /\ t \in Seq(Unit) /\ g \in Seq(GivenChunks)
  <2>1. Now.kms = kms /\ Now.given = given
    BY NowIs
  <2>2. Told(Now.kms[n].assoc[s], tape[n][s], Now.given[n][s]) /\ tape[n][s] \in Seq(Unit)
    BY DEF Tapes
  <2>3. Now.given[n][s] \in Seq(GivenChunks)
    BY DEF Streaming, Shaped
  <2> QED BY <1>1, <2>1, <2>2, <2>3
<1>3. PICK l \in Nat : l = Len(g)
  BY <1>2
<1>4. /\ At(l) <= Len(t) /\ Len(t) \in Nat
      /\ \A i \in 1 .. l : g[i] = [index |-> i - 1, key |-> PieceAt(t, i - 1)]
  BY <1>2, <1>3 DEF Told
<1>5. CASE c \in KeysIn(g)
  <2>1. PICK i \in 1 .. l : c = g[i]
    BY <1>2, <1>3, <1>5 DEF KeysIn
  <2>2. c = [index |-> i - 1, key |-> PieceAt(t, i - 1)] /\ i - 1 \in Nat /\ i - 1 < l
    BY <1>4, <2>1
  <2>3. PICK j \in Nat : j = i - 1
    BY <2>2
  <2>4. At(j) + Chunk <= At(l) /\ At(j) \in Int /\ At(l) \in Int
    BY <2>2, <2>3, AtOrder
  <2>5. At(j) + Chunk <= Len(t)
    BY <1>4, <2>4, StreamAssumption
  <2> QED BY <1>1, <2>2, <2>3, <2>5
<1>6. CASE c \notin KeysIn(g)
  <2>1. PICK b : b = a.buf
    OBVIOUS
  <2>2. PICK j \in Indexes(b) : c = [index |-> j, key |-> b.chunks[j]] /\ Len(b.chunks[j]) = Chunk
    BY <1>1, <1>6, <2>1 DEF Chunks
  <2>3. CASE ~a.open
    <3>1. Indexes(b) = {}
      BY <1>2, <2>1, <2>3 DEF Told, EmptyStream, Indexes
    <3> QED BY <2>2, <3>1
  <2>4. CASE a.open
    <3>1. Follows(b, t, l)
      BY <1>2, <1>3, <2>1, <2>4 DEF Told
    <3>2. PieceCount(Len(t)) \in Nat
      BY <1>4, Pieces
    <3>3. j \in l .. PieceCount(Len(t)) - 1 /\ b.chunks[j] = PieceAt(t, j)
      BY <2>2, <3>1 DEF Follows, Holds, Indexes
    <3>4. j \in Nat /\ j < PieceCount(Len(t))
      BY <3>2, <3>3
    <3>5. /\ At(j) \in Nat /\ Len(PieceAt(t, j)) = IF At(j) + Chunk < Len(t) THEN Chunk
                                                   ELSE Len(t) - At(j)
      BY <1>2, <3>4, PieceIs
    <3>6. At(j) + Chunk <= Len(t)
      BY <1>4, <2>2, <3>3, <3>5, StreamAssumption
    <3> QED BY <1>1, <2>2, <3>3, <3>4, <3>6
  <2> QED BY <2>3, <2>4
<1> QED BY <1>5, <1>6

(* The invariant implies IndexAgree: tapes that begin alike.               *)
LEMMA StreamsAgree ==
  ASSUME Streaming(Now)
  PROVE  IndexAgree
<1>1. PICK own, tape : Tapes(Now, own, tape)
  BY DEF Streaming
<1>2. "A" \in Node /\ "B" \in Node
  BY DEF Node
<1>3. ASSUME NEW s \in Ksids, NEW c \in Chunks("A", s), NEW d \in Chunks("B", s),
             c.index = d.index
      PROVE  c.key = d.key
  <2>1. PICK t, u : t = tape["A"][s] /\ u = tape["B"][s]
    OBVIOUS
  <2>2. t \in Seq(Unit) /\ u \in Seq(Unit) /\ Begins(t, u)
    BY <1>1, <1>2, <2>1 DEF Tapes
  <2>3. PICK i : i = c.index
    OBVIOUS
  <2>4. i \in Nat /\ At(i) + Chunk <= Len(t) /\ c.key = PieceAt(t, i)
    BY <1>1, <1>2, <2>1, <2>3, ChunksAre
  <2>5. d.key = PieceAt(u, i)
    BY <1>1, <1>2, <1>3, <2>1, <2>3, ChunksAre
  <2>6. PICK more \in Seq(Unit) : u = t \o more
    BY <2>2 DEF Begins
  <2>7. PieceAt(t \o more, i) = PieceAt(t, i)
    BY <2>2, <2>4, PieceKept
  <2> QED BY <2>4, <2>5, <2>6, <2>7
<1> QED BY <1>3 DEF IndexAgree

(* The two ends of a session hand out the same material under the same     *)
(* index, whatever the length of the keys and the chunks, whoever opens and*)
(* closes, and in whatever order messages and timers come.                 *)
THEOREM IndexAgreeHolds ==
  ASSUME SlaveAsks = FALSE
  PROVE  Spec => []IndexAgree
<1> DEFINE Inv == Streaming(Now)
<1>1. Init => Inv
  BY InitStreams
<1>2. Inv /\ [Next]_vars => Inv'
  <2>1. SUFFICES ASSUME Inv, [Next]_vars PROVE Inv'
    OBVIOUS
  <2>2. Streaming(World(kms', net', app', given', stored'))
    BY <2>1, NextStreams
  <2> QED BY <2>2 DEF Now
<1>3. Inv => IndexAgree
  BY StreamsAgree
<1> HIDE DEF Inv
<1> QED BY <1>1, <1>2, <1>3, PTL DEF Spec
=============================================================================
