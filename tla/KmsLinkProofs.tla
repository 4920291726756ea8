--------------------------- MODULE KmsLinkProofs ---------------------------
(***************************************************************************)
(* Theorems about KmsLink, for any number of keys, any length, capacity,   *)
(* threshold and requests.                                                 *)
(***************************************************************************)
EXTENDS KmsLink, SBufferCoreProofs

-----------------------------------------------------------------------------
(* Folds: the function that a fold over S denotes exists, and what its     *)
(* steps keep holds of each of its values.                                 *)
Folds(f, S, b, R, O) ==
  /\ f = [s \in SUBSET S |-> IF s = {} THEN b ELSE O[<<Pick(s), f[s \ {Pick(s)}]>>]]
  /\ \A s \in SUBSET S : <<s, f[s]>> \in R

(* There is such a function, by induction on the size of the subsets.      *)
LEMMA FoldBuilt ==
  ASSUME NEW S, IsFiniteSet(S), NEW b, NEW R, <<{}, b>> \in R, NEW O,
         \A s \in SUBSET S, k \in S : \A c :
           k \notin s /\ <<s, c>> \in R => <<s \cup {k}, O[<<k, c>>]>> \in R
  PROVE  \E f : Folds(f, S, b, R, O)
<1> DEFINE Step(f, s) == IF s = {} THEN b ELSE O[<<Pick(s), f[s \ {Pick(s)}]>>]
           Small(n) == {s \in SUBSET S : Cardinality(s) <= n}
           N == {n \in Nat : \E f : f = [s \in Small(n) |-> Step(f, s)]}
<1>1. \A s \in SUBSET S : /\ IsFiniteSet(s) /\ Cardinality(s) \in Nat
                          /\ Cardinality(s) = 0 <=> s = {}
  BY FS_Subset, FS_CardinalityType, FS_EmptySet
<1>2. \A s \in SUBSET S : s # {} =>
        /\ Pick(s) \in s /\ s \ {Pick(s)} \in SUBSET S
        /\ Cardinality(s \ {Pick(s)}) = Cardinality(s) - 1
  BY <1>1, FS_RemoveElement DEF Pick
<1>3. 0 \in N
  <2> DEFINE f == [s \in Small(0) |-> b]
  <2>1. \A s \in Small(0) : s = {}
    BY <1>1
  <2>2. f = [s \in Small(0) |-> Step(f, s)]
    <3> HIDE DEF Small
    <3> QED BY <2>1
  <2> HIDE DEF f, Step, Small
  <2> QED BY <2>2
<1>4. ASSUME NEW n \in Nat, n \in N PROVE n + 1 \in N
  <2>1. PICK f : f = [s \in Small(n) |-> Step(f, s)]
    <3> HIDE DEF Step, Small
    <3> QED BY <1>4
  <2> DEFINE g == [s \in Small(n + 1) |-> Step(f, s)]
  <2>2. \A s \in Small(n) : s \in Small(n + 1) /\ g[s] = f[s]
    <3>1. \A s \in Small(n) : s \in Small(n + 1)
      BY <1>1
    <3> HIDE DEF Step, Small
    <3> QED BY <2>1, <3>1
  <2>3. \A s \in Small(n + 1) : s # {} => s \ {Pick(s)} \in Small(n)
    BY <1>1, <1>2
  <2>4. \A s \in Small(n + 1) : Step(g, s) = Step(f, s)
    <3> HIDE DEF g, Small
    <3> QED BY <2>2, <2>3
  <2>5. g = [s \in Small(n + 1) |-> Step(g, s)]
    <3>1. \A s \in Small(n + 1) : g[s] = Step(g, s)
      <4> HIDE DEF Step, Small
      <4> QED BY <2>4
    <3>2. g = [s \in Small(n + 1) |-> g[s]]
      <4> HIDE DEF Step, Small
      <4> QED OBVIOUS
    <3> HIDE DEF g, Step, Small
    <3> QED BY <3>1, <3>2
  <2> HIDE DEF g, Step, Small
  <2> QED BY <2>5
<1>5. Cardinality(S) \in N
  <2> HIDE DEF N
  <2>1. \A n \in Nat : n \in N => n + 1 \in N
    BY <1>4
  <2>2. Nat \subseteq N
    BY <1>3, <2>1, NatInd
  <2> QED BY <2>2, FS_CardinalityType
<1>6. Small(Cardinality(S)) = SUBSET S
  BY <1>1, FS_Subset
<1>7. PICK f : f = [s \in SUBSET S |-> Step(f, s)]
  <2> HIDE DEF Step, Small
  <2> QED BY <1>5, <1>6
<1>8. \A s \in SUBSET S : f[s] = Step(f, s)
  <2> HIDE DEF Step
  <2> QED BY <1>7
<1>9. \A t \in SUBSET S : <<t, f[t]>> \in R
  <2>1. TAKE t \in SUBSET S
  <2>2. IsFiniteSet(t)
    BY <1>1
  <2>3. <<{}, f[{}]>> \in R
    BY <1>8
  <2>4. \A s \in SUBSET t : s # {} /\ <<s \ {Pick(s)}, f[s \ {Pick(s)}]>> \in R
                              => <<s, f[s]>> \in R
    <3>1. SUFFICES ASSUME NEW s \in SUBSET t, s # {},
                          <<s \ {Pick(s)}, f[s \ {Pick(s)}]>> \in R
                   PROVE <<s, f[s]>> \in R
      OBVIOUS
    <3>2. s \in SUBSET S /\ Pick(s) \in S /\ Pick(s) \notin s \ {Pick(s)}
          /\ s \ {Pick(s)} \in SUBSET S /\ s = (s \ {Pick(s)}) \cup {Pick(s)}
      BY <1>2, <3>1
    <3>3. f[s] = O[<<Pick(s), f[s \ {Pick(s)}]>>]
      BY <1>8, <3>1, <3>2
    <3> QED BY <3>1, <3>2, <3>3
  <2> QED BY <2>2, <2>3, <2>4, FoldRule
<1> QED BY <1>7, <1>9 DEF Folds

(* A set of keys through one operation: what holds of the start and is kept *)
(* by the operation on a key that is not done yet holds when all are done. *)
LEMMA EachReserve ==
  ASSUME NEW b, NEW ks \in SUBSET KeyIds, NEW R, <<{}, b>> \in R,
         \A s \in SUBSET ks, k \in ks : \A c :
           k \notin s /\ <<s, c>> \in R => <<s \cup {k}, ReserveKey(c, k)>> \in R
  PROVE  <<ks, Each(ReserveKey, b, ks)>> \in R
<1> DEFINE T == {p[2] : p \in R}
           O == [p \in ks \X T |-> ReserveKey(p[2], p[1])]
           G(f, s) == LET k == Pick(s) IN LET c == f[s \ {k}] IN ReserveKey(c, k)
           F == CHOOSE f : f = [s \in SUBSET ks |-> IF s = {} THEN b ELSE G(f, s)]
<1>1. IsFiniteSet(ks)
  BY KeyIdsFinite, FS_Subset
<1>2. \A s, c, k : <<s, c>> \in R /\ k \in ks => O[<<k, c>>] = ReserveKey(c, k)
  <2>1. TAKE s, c, k
  <2>2. HAVE <<s, c>> \in R /\ k \in ks
  <2>3. c \in T
    BY <2>2
  <2> HIDE DEF T
  <2> QED BY <2>2, <2>3
<1>3. \A s \in SUBSET ks, k \in ks : \A c :
        k \notin s /\ <<s, c>> \in R => <<s \cup {k}, O[<<k, c>>]>> \in R
  <2> HIDE DEF O
  <2> QED BY <1>2
<1>4. PICK f : Folds(f, ks, b, R, O)
  <2> HIDE DEF O
  <2> QED BY <1>1, <1>3, FoldBuilt
<1>4a. /\ f = [s \in SUBSET ks |-> IF s = {} THEN b ELSE O[<<Pick(s), f[s \ {Pick(s)}]>>]]
       /\ \A s \in SUBSET ks : <<s, f[s]>> \in R
  <2> HIDE DEF O
  <2> QED BY <1>4 DEF Folds
<1>5. \A s \in SUBSET ks : s # {} => O[<<Pick(s), f[s \ {Pick(s)}]>>] = G(f, s)
  <2>1. TAKE s \in SUBSET ks
  <2>2. HAVE s # {}
  <2>3. Pick(s) \in ks /\ <<s \ {Pick(s)}, f[s \ {Pick(s)}]>> \in R
    BY <1>4a, <2>2 DEF Pick
  <2> HIDE DEF O
  <2> QED BY <1>2, <2>3
<1> HIDE DEF O
<1>6. f = [s \in SUBSET ks |-> IF s = {} THEN b ELSE G(f, s)]
  <2> HIDE DEF G
  <2> QED BY <1>4a, <1>5
<1>7. F = [s \in SUBSET ks |-> IF s = {} THEN b ELSE G(F, s)]
  <2> HIDE DEF G
  <2> QED BY <1>6
<1>8. Each(ReserveKey, b, ks) = F[ks]
  BY DEF Each, FoldSet, MapThenFoldSet, Pick
<1> HIDE DEF F
<1>9. F[{}] = b /\ \A s \in SUBSET ks : s # {} => F[s] = G(F, s)
  <2> HIDE DEF G
  <2> QED BY <1>7
<1>10. \A s \in SUBSET ks : s # {} /\ <<s \ {Pick(s)}, F[s \ {Pick(s)}]>> \in R
                              => <<s, F[s]>> \in R
  <2>1. TAKE s \in SUBSET ks
  <2>2. HAVE s # {} /\ <<s \ {Pick(s)}, F[s \ {Pick(s)}]>> \in R
  <2>3. Pick(s) \in ks /\ s \ {Pick(s)} \in SUBSET ks /\ Pick(s) \notin s \ {Pick(s)}
        /\ s = (s \ {Pick(s)}) \cup {Pick(s)}
    BY <2>2 DEF Pick
  <2>4. <<s, ReserveKey(F[s \ {Pick(s)}], Pick(s))>> \in R
    BY <2>2, <2>3
  <2> QED BY <1>9, <2>2, <2>4
<1>11. <<{}, F[{}]>> \in R
  BY <1>9
<1>12. <<ks, F[ks]>> \in R
  BY <1>1, <1>10, <1>11, FoldRule
<1> QED BY <1>8, <1>12

(* The keys that a FILL names are accepted one by one.                     *)
LEMMA EachAccept ==
  ASSUME NEW b, NEW ks \in SUBSET KeyIds, NEW R, <<{}, b>> \in R,
         \A s \in SUBSET ks, k \in ks : \A c :
           k \notin s /\ <<s, c>> \in R => <<s \cup {k}, AcceptKey(c, k)>> \in R
  PROVE  <<ks, Each(AcceptKey, b, ks)>> \in R
<1> DEFINE T == {p[2] : p \in R}
           O == [p \in ks \X T |-> AcceptKey(p[2], p[1])]
           G(f, s) == LET k == Pick(s) IN LET c == f[s \ {k}] IN AcceptKey(c, k)
           F == CHOOSE f : f = [s \in SUBSET ks |-> IF s = {} THEN b ELSE G(f, s)]
<1>1. IsFiniteSet(ks)
  BY KeyIdsFinite, FS_Subset
<1>2. \A s, c, k : <<s, c>> \in R /\ k \in ks => O[<<k, c>>] = AcceptKey(c, k)
  <2>1. TAKE s, c, k
  <2>2. HAVE <<s, c>> \in R /\ k \in ks
  <2>3. c \in T
    BY <2>2
  <2> HIDE DEF T
  <2> QED BY <2>2, <2>3
<1>3. \A s \in SUBSET ks, k \in ks : \A c :
        k \notin s /\ <<s, c>> \in R => <<s \cup {k}, O[<<k, c>>]>> \in R
  <2> HIDE DEF O
  <2> QED BY <1>2
<1>4. PICK f : Folds(f, ks, b, R, O)
  <2> HIDE DEF O
  <2> QED BY <1>1, <1>3, FoldBuilt
<1>4a. /\ f = [s \in SUBSET ks |-> IF s = {} THEN b ELSE O[<<Pick(s), f[s \ {Pick(s)}]>>]]
       /\ \A s \in SUBSET ks : <<s, f[s]>> \in R
  <2> HIDE DEF O
  <2> QED BY <1>4 DEF Folds
<1>5. \A s \in SUBSET ks : s # {} => O[<<Pick(s), f[s \ {Pick(s)}]>>] = G(f, s)
  <2>1. TAKE s \in SUBSET ks
  <2>2. HAVE s # {}
  <2>3. Pick(s) \in ks /\ <<s \ {Pick(s)}, f[s \ {Pick(s)}]>> \in R
    BY <1>4a, <2>2 DEF Pick
  <2> HIDE DEF O
  <2> QED BY <1>2, <2>3
<1> HIDE DEF O
<1>6. f = [s \in SUBSET ks |-> IF s = {} THEN b ELSE G(f, s)]
  <2> HIDE DEF G
  <2> QED BY <1>4a, <1>5
<1>7. F = [s \in SUBSET ks |-> IF s = {} THEN b ELSE G(F, s)]
  <2> HIDE DEF G
  <2> QED BY <1>6
<1>8. Each(AcceptKey, b, ks) = F[ks]
  BY DEF Each, FoldSet, MapThenFoldSet, Pick
<1> HIDE DEF F
<1>9. F[{}] = b /\ \A s \in SUBSET ks : s # {} => F[s] = G(F, s)
  <2> HIDE DEF G
  <2> QED BY <1>7
<1>10. \A s \in SUBSET ks : s # {} /\ <<s \ {Pick(s)}, F[s \ {Pick(s)}]>> \in R
                              => <<s, F[s]>> \in R
  <2>1. TAKE s \in SUBSET ks
  <2>2. HAVE s # {} /\ <<s \ {Pick(s)}, F[s \ {Pick(s)}]>> \in R
  <2>3. Pick(s) \in ks /\ s \ {Pick(s)} \in SUBSET ks /\ Pick(s) \notin s \ {Pick(s)}
        /\ s = (s \ {Pick(s)}) \cup {Pick(s)}
    BY <2>2 DEF Pick
  <2>4. <<s, AcceptKey(F[s \ {Pick(s)}], Pick(s))>> \in R
    BY <2>2, <2>3
  <2> QED BY <1>9, <2>2, <2>4
<1>11. <<{}, F[{}]>> \in R
  BY <1>9
<1>12. <<ks, F[ks]>> \in R
  BY <1>1, <1>10, <1>11, FoldRule
<1> QED BY <1>8, <1>12

(* The accepted keys of an answer are confirmed one by one.                *)
LEMMA EachConfirm ==
  ASSUME NEW b, NEW ks \in SUBSET KeyIds, NEW R, <<{}, b>> \in R,
         \A s \in SUBSET ks, k \in ks : \A c :
           k \notin s /\ <<s, c>> \in R => <<s \cup {k}, ConfirmKey(c, k)>> \in R
  PROVE  <<ks, Each(ConfirmKey, b, ks)>> \in R
<1> DEFINE T == {p[2] : p \in R}
           O == [p \in ks \X T |-> ConfirmKey(p[2], p[1])]
           G(f, s) == LET k == Pick(s) IN LET c == f[s \ {k}] IN ConfirmKey(c, k)
           F == CHOOSE f : f = [s \in SUBSET ks |-> IF s = {} THEN b ELSE G(f, s)]
<1>1. IsFiniteSet(ks)
  BY KeyIdsFinite, FS_Subset
<1>2. \A s, c, k : <<s, c>> \in R /\ k \in ks => O[<<k, c>>] = ConfirmKey(c, k)
  <2>1. TAKE s, c, k
  <2>2. HAVE <<s, c>> \in R /\ k \in ks
  <2>3. c \in T
    BY <2>2
  <2> HIDE DEF T
  <2> QED BY <2>2, <2>3
<1>3. \A s \in SUBSET ks, k \in ks : \A c :
        k \notin s /\ <<s, c>> \in R => <<s \cup {k}, O[<<k, c>>]>> \in R
  <2> HIDE DEF O
  <2> QED BY <1>2
<1>4. PICK f : Folds(f, ks, b, R, O)
  <2> HIDE DEF O
  <2> QED BY <1>1, <1>3, FoldBuilt
<1>4a. /\ f = [s \in SUBSET ks |-> IF s = {} THEN b ELSE O[<<Pick(s), f[s \ {Pick(s)}]>>]]
       /\ \A s \in SUBSET ks : <<s, f[s]>> \in R
  <2> HIDE DEF O
  <2> QED BY <1>4 DEF Folds
<1>5. \A s \in SUBSET ks : s # {} => O[<<Pick(s), f[s \ {Pick(s)}]>>] = G(f, s)
  <2>1. TAKE s \in SUBSET ks
  <2>2. HAVE s # {}
  <2>3. Pick(s) \in ks /\ <<s \ {Pick(s)}, f[s \ {Pick(s)}]>> \in R
    BY <1>4a, <2>2 DEF Pick
  <2> HIDE DEF O
  <2> QED BY <1>2, <2>3
<1> HIDE DEF O
<1>6. f = [s \in SUBSET ks |-> IF s = {} THEN b ELSE G(f, s)]
  <2> HIDE DEF G
  <2> QED BY <1>4a, <1>5
<1>7. F = [s \in SUBSET ks |-> IF s = {} THEN b ELSE G(F, s)]
  <2> HIDE DEF G
  <2> QED BY <1>6
<1>8. Each(ConfirmKey, b, ks) = F[ks]
  BY DEF Each, FoldSet, MapThenFoldSet, Pick
<1> HIDE DEF F
<1>9. F[{}] = b /\ \A s \in SUBSET ks : s # {} => F[s] = G(F, s)
  <2> HIDE DEF G
  <2> QED BY <1>7
<1>10. \A s \in SUBSET ks : s # {} /\ <<s \ {Pick(s)}, F[s \ {Pick(s)}]>> \in R
                              => <<s, F[s]>> \in R
  <2>1. TAKE s \in SUBSET ks
  <2>2. HAVE s # {} /\ <<s \ {Pick(s)}, F[s \ {Pick(s)}]>> \in R
  <2>3. Pick(s) \in ks /\ s \ {Pick(s)} \in SUBSET ks /\ Pick(s) \notin s \ {Pick(s)}
        /\ s = (s \ {Pick(s)}) \cup {Pick(s)}
    BY <2>2 DEF Pick
  <2>4. <<s, ConfirmKey(F[s \ {Pick(s)}], Pick(s))>> \in R
    BY <2>2, <2>3
  <2> QED BY <1>9, <2>2, <2>4
<1>11. <<{}, F[{}]>> \in R
  BY <1>9
<1>12. <<ks, F[ks]>> \in R
  BY <1>1, <1>10, <1>11, FoldRule
<1> QED BY <1>8, <1>12

(* The rejected keys of an answer leave the buffer one by one.             *)
LEMMA EachReturn ==
  ASSUME NEW b, NEW ks \in SUBSET KeyIds, NEW R, <<{}, b>> \in R,
         \A s \in SUBSET ks, k \in ks : \A c :
           k \notin s /\ <<s, c>> \in R => <<s \cup {k}, ReturnKey(c, k)>> \in R
  PROVE  <<ks, Each(ReturnKey, b, ks)>> \in R
<1> DEFINE T == {p[2] : p \in R}
           O == [p \in ks \X T |-> ReturnKey(p[2], p[1])]
           G(f, s) == LET k == Pick(s) IN LET c == f[s \ {k}] IN ReturnKey(c, k)
           F == CHOOSE f : f = [s \in SUBSET ks |-> IF s = {} THEN b ELSE G(f, s)]
<1>1. IsFiniteSet(ks)
  BY KeyIdsFinite, FS_Subset
<1>2. \A s, c, k : <<s, c>> \in R /\ k \in ks => O[<<k, c>>] = ReturnKey(c, k)
  <2>1. TAKE s, c, k
  <2>2. HAVE <<s, c>> \in R /\ k \in ks
  <2>3. c \in T
    BY <2>2
  <2> HIDE DEF T
  <2> QED BY <2>2, <2>3
<1>3. \A s \in SUBSET ks, k \in ks : \A c :
        k \notin s /\ <<s, c>> \in R => <<s \cup {k}, O[<<k, c>>]>> \in R
  <2> HIDE DEF O
  <2> QED BY <1>2
<1>4. PICK f : Folds(f, ks, b, R, O)
  <2> HIDE DEF O
  <2> QED BY <1>1, <1>3, FoldBuilt
<1>4a. /\ f = [s \in SUBSET ks |-> IF s = {} THEN b ELSE O[<<Pick(s), f[s \ {Pick(s)}]>>]]
       /\ \A s \in SUBSET ks : <<s, f[s]>> \in R
  <2> HIDE DEF O
  <2> QED BY <1>4 DEF Folds
<1>5. \A s \in SUBSET ks : s # {} => O[<<Pick(s), f[s \ {Pick(s)}]>>] = G(f, s)
  <2>1. TAKE s \in SUBSET ks
  <2>2. HAVE s # {}
  <2>3. Pick(s) \in ks /\ <<s \ {Pick(s)}, f[s \ {Pick(s)}]>> \in R
    BY <1>4a, <2>2 DEF Pick
  <2> HIDE DEF O
  <2> QED BY <1>2, <2>3
<1> HIDE DEF O
<1>6. f = [s \in SUBSET ks |-> IF s = {} THEN b ELSE G(f, s)]
  <2> HIDE DEF G
  <2> QED BY <1>4a, <1>5
<1>7. F = [s \in SUBSET ks |-> IF s = {} THEN b ELSE G(F, s)]
  <2> HIDE DEF G
  <2> QED BY <1>6
<1>8. Each(ReturnKey, b, ks) = F[ks]
  BY DEF Each, FoldSet, MapThenFoldSet, Pick
<1> HIDE DEF F
<1>9. F[{}] = b /\ \A s \in SUBSET ks : s # {} => F[s] = G(F, s)
  <2> HIDE DEF G
  <2> QED BY <1>7
<1>10. \A s \in SUBSET ks : s # {} /\ <<s \ {Pick(s)}, F[s \ {Pick(s)}]>> \in R
                              => <<s, F[s]>> \in R
  <2>1. TAKE s \in SUBSET ks
  <2>2. HAVE s # {} /\ <<s \ {Pick(s)}, F[s \ {Pick(s)}]>> \in R
  <2>3. Pick(s) \in ks /\ s \ {Pick(s)} \in SUBSET ks /\ Pick(s) \notin s \ {Pick(s)}
        /\ s = (s \ {Pick(s)}) \cup {Pick(s)}
    BY <2>2 DEF Pick
  <2>4. <<s, ReturnKey(F[s \ {Pick(s)}], Pick(s))>> \in R
    BY <2>2, <2>3
  <2> QED BY <1>9, <2>2, <2>4
<1>11. <<{}, F[{}]>> \in R
  BY <1>9
<1>12. <<ks, F[ks]>> \in R
  BY <1>1, <1>10, <1>11, FoldRule
<1> QED BY <1>8, <1>12

(* The keys that no list names are discarded one by one.                   *)
LEMMA EachDiscard ==
  ASSUME NEW b, NEW ks \in SUBSET KeyIds, NEW R, <<{}, b>> \in R,
         \A s \in SUBSET ks, k \in ks : \A c :
           k \notin s /\ <<s, c>> \in R => <<s \cup {k}, DiscardKey(c, k)>> \in R
  PROVE  <<ks, Each(DiscardKey, b, ks)>> \in R
<1> DEFINE T == {p[2] : p \in R}
           O == [p \in ks \X T |-> DiscardKey(p[2], p[1])]
           G(f, s) == LET k == Pick(s) IN LET c == f[s \ {k}] IN DiscardKey(c, k)
           F == CHOOSE f : f = [s \in SUBSET ks |-> IF s = {} THEN b ELSE G(f, s)]
<1>1. IsFiniteSet(ks)
  BY KeyIdsFinite, FS_Subset
<1>2. \A s, c, k : <<s, c>> \in R /\ k \in ks => O[<<k, c>>] = DiscardKey(c, k)
  <2>1. TAKE s, c, k
  <2>2. HAVE <<s, c>> \in R /\ k \in ks
  <2>3. c \in T
    BY <2>2
  <2> HIDE DEF T
  <2> QED BY <2>2, <2>3
<1>3. \A s \in SUBSET ks, k \in ks : \A c :
        k \notin s /\ <<s, c>> \in R => <<s \cup {k}, O[<<k, c>>]>> \in R
  <2> HIDE DEF O
  <2> QED BY <1>2
<1>4. PICK f : Folds(f, ks, b, R, O)
  <2> HIDE DEF O
  <2> QED BY <1>1, <1>3, FoldBuilt
<1>4a. /\ f = [s \in SUBSET ks |-> IF s = {} THEN b ELSE O[<<Pick(s), f[s \ {Pick(s)}]>>]]
       /\ \A s \in SUBSET ks : <<s, f[s]>> \in R
  <2> HIDE DEF O
  <2> QED BY <1>4 DEF Folds
<1>5. \A s \in SUBSET ks : s # {} => O[<<Pick(s), f[s \ {Pick(s)}]>>] = G(f, s)
  <2>1. TAKE s \in SUBSET ks
  <2>2. HAVE s # {}
  <2>3. Pick(s) \in ks /\ <<s \ {Pick(s)}, f[s \ {Pick(s)}]>> \in R
    BY <1>4a, <2>2 DEF Pick
  <2> HIDE DEF O
  <2> QED BY <1>2, <2>3
<1> HIDE DEF O
<1>6. f = [s \in SUBSET ks |-> IF s = {} THEN b ELSE G(f, s)]
  <2> HIDE DEF G
  <2> QED BY <1>4a, <1>5
<1>7. F = [s \in SUBSET ks |-> IF s = {} THEN b ELSE G(F, s)]
  <2> HIDE DEF G
  <2> QED BY <1>6
<1>8. Each(DiscardKey, b, ks) = F[ks]
  BY DEF Each, FoldSet, MapThenFoldSet, Pick
<1> HIDE DEF F
<1>9. F[{}] = b /\ \A s \in SUBSET ks : s # {} => F[s] = G(F, s)
  <2> HIDE DEF G
  <2> QED BY <1>7
<1>10. \A s \in SUBSET ks : s # {} /\ <<s \ {Pick(s)}, F[s \ {Pick(s)}]>> \in R
                              => <<s, F[s]>> \in R
  <2>1. TAKE s \in SUBSET ks
  <2>2. HAVE s # {} /\ <<s \ {Pick(s)}, F[s \ {Pick(s)}]>> \in R
  <2>3. Pick(s) \in ks /\ s \ {Pick(s)} \in SUBSET ks /\ Pick(s) \notin s \ {Pick(s)}
        /\ s = (s \ {Pick(s)}) \cup {Pick(s)}
    BY <2>2 DEF Pick
  <2>4. <<s, DiscardKey(F[s \ {Pick(s)}], Pick(s))>> \in R
    BY <2>2, <2>3
  <2> QED BY <1>9, <2>2, <2>4
<1>11. <<{}, F[{}]>> \in R
  BY <1>9
<1>12. <<ks, F[ks]>> \in R
  BY <1>1, <1>10, <1>11, FoldRule
<1> QED BY <1>8, <1>12

(* Supply keys are given out one by one.                                   *)
LEMMA EachTake ==
  ASSUME NEW b, NEW ks \in SUBSET SupplyIds, NEW R, <<{}, b>> \in R,
         \A s \in SUBSET ks, k \in ks : \A c :
           k \notin s /\ <<s, c>> \in R => <<s \cup {k}, GetSupplyKey(c, k)>> \in R
  PROVE  <<ks, Each(GetSupplyKey, b, ks)>> \in R
<1> DEFINE T == {p[2] : p \in R}
           O == [p \in ks \X T |-> GetSupplyKey(p[2], p[1])]
           G(f, s) == LET k == Pick(s) IN LET c == f[s \ {k}] IN GetSupplyKey(c, k)
           F == CHOOSE f : f = [s \in SUBSET ks |-> IF s = {} THEN b ELSE G(f, s)]
<1>1. IsFiniteSet(ks)
  BY SupplyIdsFinite, FS_Subset
<1>2. \A s, c, k : <<s, c>> \in R /\ k \in ks => O[<<k, c>>] = GetSupplyKey(c, k)
  <2>1. TAKE s, c, k
  <2>2. HAVE <<s, c>> \in R /\ k \in ks
  <2>3. c \in T
    BY <2>2
  <2> HIDE DEF T
  <2> QED BY <2>2, <2>3
<1>3. \A s \in SUBSET ks, k \in ks : \A c :
        k \notin s /\ <<s, c>> \in R => <<s \cup {k}, O[<<k, c>>]>> \in R
  <2> HIDE DEF O
  <2> QED BY <1>2
<1>4. PICK f : Folds(f, ks, b, R, O)
  <2> HIDE DEF O
  <2> QED BY <1>1, <1>3, FoldBuilt
<1>4a. /\ f = [s \in SUBSET ks |-> IF s = {} THEN b ELSE O[<<Pick(s), f[s \ {Pick(s)}]>>]]
       /\ \A s \in SUBSET ks : <<s, f[s]>> \in R
  <2> HIDE DEF O
  <2> QED BY <1>4 DEF Folds
<1>5. \A s \in SUBSET ks : s # {} => O[<<Pick(s), f[s \ {Pick(s)}]>>] = G(f, s)
  <2>1. TAKE s \in SUBSET ks
  <2>2. HAVE s # {}
  <2>3. Pick(s) \in ks /\ <<s \ {Pick(s)}, f[s \ {Pick(s)}]>> \in R
    BY <1>4a, <2>2 DEF Pick
  <2> HIDE DEF O
  <2> QED BY <1>2, <2>3
<1> HIDE DEF O
<1>6. f = [s \in SUBSET ks |-> IF s = {} THEN b ELSE G(f, s)]
  <2> HIDE DEF G
  <2> QED BY <1>4a, <1>5
<1>7. F = [s \in SUBSET ks |-> IF s = {} THEN b ELSE G(F, s)]
  <2> HIDE DEF G
  <2> QED BY <1>6
<1>8. Each(GetSupplyKey, b, ks) = F[ks]
  BY DEF Each, FoldSet, MapThenFoldSet, Pick
<1> HIDE DEF F
<1>9. F[{}] = b /\ \A s \in SUBSET ks : s # {} => F[s] = G(F, s)
  <2> HIDE DEF G
  <2> QED BY <1>7
<1>10. \A s \in SUBSET ks : s # {} /\ <<s \ {Pick(s)}, F[s \ {Pick(s)}]>> \in R
                              => <<s, F[s]>> \in R
  <2>1. TAKE s \in SUBSET ks
  <2>2. HAVE s # {} /\ <<s \ {Pick(s)}, F[s \ {Pick(s)}]>> \in R
  <2>3. Pick(s) \in ks /\ s \ {Pick(s)} \in SUBSET ks /\ Pick(s) \notin s \ {Pick(s)}
        /\ s = (s \ {Pick(s)}) \cup {Pick(s)}
    BY <2>2 DEF Pick
  <2>4. <<s, GetSupplyKey(F[s \ {Pick(s)}], Pick(s))>> \in R
    BY <2>2, <2>3
  <2> QED BY <1>9, <2>2, <2>4
<1>11. <<{}, F[{}]>> \in R
  BY <1>9
<1>12. <<ks, F[ks]>> \in R
  BY <1>1, <1>10, <1>11, FoldRule
<1> QED BY <1>8, <1>12

(* The rejected keys return to the QBuffer one by one.                     *)
LEMMA EachPut ==
  ASSUME NEW b, NEW ks \in SUBSET KeyIds, NEW R, <<{}, b>> \in R,
         \A s \in SUBSET ks, k \in ks : \A c :
           k \notin s /\ <<s, c>> \in R => <<s \cup {k}, PutBack(c, k)>> \in R
  PROVE  <<ks, Each(PutBack, b, ks)>> \in R
<1> DEFINE T == {p[2] : p \in R}
           O == [p \in ks \X T |-> PutBack(p[2], p[1])]
           G(f, s) == LET k == Pick(s) IN LET c == f[s \ {k}] IN PutBack(c, k)
           F == CHOOSE f : f = [s \in SUBSET ks |-> IF s = {} THEN b ELSE G(f, s)]
<1>1. IsFiniteSet(ks)
  BY KeyIdsFinite, FS_Subset
<1>2. \A s, c, k : <<s, c>> \in R /\ k \in ks => O[<<k, c>>] = PutBack(c, k)
  <2>1. TAKE s, c, k
  <2>2. HAVE <<s, c>> \in R /\ k \in ks
  <2>3. c \in T
    BY <2>2
  <2> HIDE DEF T
  <2> QED BY <2>2, <2>3
<1>3. \A s \in SUBSET ks, k \in ks : \A c :
        k \notin s /\ <<s, c>> \in R => <<s \cup {k}, O[<<k, c>>]>> \in R
  <2> HIDE DEF O
  <2> QED BY <1>2
<1>4. PICK f : Folds(f, ks, b, R, O)
  <2> HIDE DEF O
  <2> QED BY <1>1, <1>3, FoldBuilt
<1>4a. /\ f = [s \in SUBSET ks |-> IF s = {} THEN b ELSE O[<<Pick(s), f[s \ {Pick(s)}]>>]]
       /\ \A s \in SUBSET ks : <<s, f[s]>> \in R
  <2> HIDE DEF O
  <2> QED BY <1>4 DEF Folds
<1>5. \A s \in SUBSET ks : s # {} => O[<<Pick(s), f[s \ {Pick(s)}]>>] = G(f, s)
  <2>1. TAKE s \in SUBSET ks
  <2>2. HAVE s # {}
  <2>3. Pick(s) \in ks /\ <<s \ {Pick(s)}, f[s \ {Pick(s)}]>> \in R
    BY <1>4a, <2>2 DEF Pick
  <2> HIDE DEF O
  <2> QED BY <1>2, <2>3
<1> HIDE DEF O
<1>6. f = [s \in SUBSET ks |-> IF s = {} THEN b ELSE G(f, s)]
  <2> HIDE DEF G
  <2> QED BY <1>4a, <1>5
<1>7. F = [s \in SUBSET ks |-> IF s = {} THEN b ELSE G(F, s)]
  <2> HIDE DEF G
  <2> QED BY <1>6
<1>8. Each(PutBack, b, ks) = F[ks]
  BY DEF Each, FoldSet, MapThenFoldSet, Pick
<1> HIDE DEF F
<1>9. F[{}] = b /\ \A s \in SUBSET ks : s # {} => F[s] = G(F, s)
  <2> HIDE DEF G
  <2> QED BY <1>7
<1>10. \A s \in SUBSET ks : s # {} /\ <<s \ {Pick(s)}, F[s \ {Pick(s)}]>> \in R
                              => <<s, F[s]>> \in R
  <2>1. TAKE s \in SUBSET ks
  <2>2. HAVE s # {} /\ <<s \ {Pick(s)}, F[s \ {Pick(s)}]>> \in R
  <2>3. Pick(s) \in ks /\ s \ {Pick(s)} \in SUBSET ks /\ Pick(s) \notin s \ {Pick(s)}
        /\ s = (s \ {Pick(s)}) \cup {Pick(s)}
    BY <2>2 DEF Pick
  <2>4. <<s, PutBack(F[s \ {Pick(s)}], Pick(s))>> \in R
    BY <2>2, <2>3
  <2> QED BY <1>9, <2>2, <2>4
<1>11. <<{}, F[{}]>> \in R
  BY <1>9
<1>12. <<ks, F[ks]>> \in R
  BY <1>1, <1>10, <1>11, FoldRule
<1> QED BY <1>8, <1>12

-----------------------------------------------------------------------------
(* What the handlers do to the keys of a buffer.                           *)

(* ReserveKey sets a key that fits to INIT and counts no bits.             *)
LEMMA ReserveKeySound ==
  ASSUME NEW b, NEW k \in KeyIds, Sound(b), b.st[k] = "NONE", Fits(b, MaxLen)
  PROVE  /\ Becomes(b, ReserveKey(b, k), k, "INIT", 0, MaxLen)
         /\ ReserveKey(b, k).bits = b.bits
<1> DEFINE c == StoreKey(b, k, MaxLen)
           d == MarkKey(c, k, "INIT")
<1>1. MaxLen \in 1 .. MaxLen /\ MaxLen \in Nat /\ b.bits \in Nat
  BY BoundsNat, SoundNat
<1>2. /\ c = Upd(b, k, "READY", 0, MaxLen, b.bits + MaxLen, b.nrKeys, b.nrBits)
      /\ Sound(c)
  BY <1>1, StoreSound
<1>3. Becomes(b, c, k, "READY", 0, MaxLen) /\ c.bits = b.bits + MaxLen
  <2>1. c.bits = b.bits + MaxLen
    BY <1>2 DEF Upd
  <2>2. Becomes(b, c, k, "READY", 0, MaxLen)
    <3> HIDE DEF c
    <3> QED BY <1>2, UpdBecomes
  <2> QED BY <2>1, <2>2
<1> HIDE DEF c
<1>4. c.st[k] = "READY" /\ c.lo[k] = 0 /\ c.hi[k] = MaxLen
  BY <1>3 DEF Becomes, Sound, Shaped, Buffer
<1>5. /\ d = Upd(c, k, "INIT", 0, MaxLen, c.bits - MaxLen, c.nrKeys + 1, c.nrBits + MaxLen)
      /\ Sound(d)
  <2>1. KeyLen(c, k) = MaxLen
    BY <1>1, <1>4 DEF KeyLen
  <2> QED BY <1>2, <1>4, <2>1, MarkInitSound
<1>6. d.bits = b.bits
  BY <1>1, <1>3, <1>5 DEF Upd
<1> HIDE DEF d
<1>7. Becomes(c, d, k, "INIT", 0, MaxLen)
  BY <1>5, UpdBecomes
<1>8. Becomes(b, d, k, "INIT", 0, MaxLen)
  <2>1. Shaped(b)
    BY DEF Sound
  <2> QED BY <1>3, <1>7, <2>1, BecomesTwice
<1> QED BY <1>6, <1>8 DEF ReserveKey, c, d

(* Fill reserves the keys it has picked.                                   *)
LEMMA ReserveAll ==
  ASSUME NEW b, NEW ks \in SUBSET KeyIds, Sound(b), \A k \in ks : b.st[k] = "NONE",
         ks = {} \/ Fits(b, MaxLen)
  PROVE  Sets(b, Each(ReserveKey, b, ks), ks, "INIT", 0, MaxLen)
<1> DEFINE R == {p \in (SUBSET ks) \X Buffer :
                   Sets(b, p[2], p[1], "INIT", 0, MaxLen) /\ p[2].bits = b.bits}
<1>1. <<{}, b>> \in R
  BY SoundMaps DEF Sets
<1>2. ASSUME NEW s \in SUBSET ks, NEW k \in ks, NEW c, k \notin s, <<s, c>> \in R
      PROVE  <<s \cup {k}, ReserveKey(c, k)>> \in R
  <2>1. Sets(b, c, s, "INIT", 0, MaxLen) /\ c.bits = b.bits
    BY <1>2
  <2>2. Sound(c) /\ c.st[k] = "NONE" /\ Fits(c, MaxLen)
    BY <1>2, <2>1 DEF Sets, Fits
  <2>3. /\ Becomes(c, ReserveKey(c, k), k, "INIT", 0, MaxLen)
        /\ ReserveKey(c, k).bits = b.bits
    BY <2>1, <2>2, ReserveKeySound
  <2>4. Sets(b, ReserveKey(c, k), s \cup {k}, "INIT", 0, MaxLen)
    BY <2>1, <2>3, SetsStep
  <2>5. ReserveKey(c, k) \in Buffer
    BY <2>4, SoundMaps DEF Sets
  <2> QED BY <2>3, <2>4, <2>5
<1>3. PICK x : x = Each(ReserveKey, b, ks)
  OBVIOUS
<1>4. <<ks, x>> \in R
  <2> HIDE DEF R
  <2> QED BY <1>1, <1>2, <1>3, EachReserve
<1> QED BY <1>3, <1>4

(* ProcessFillRequest stores the keys it accepts, which fit.               *)
LEMMA AcceptAll ==
  ASSUME NEW b, NEW ks \in SUBSET KeyIds, Sound(b), \A k \in ks : b.st[k] = "NONE",
         ks = {} \/ b.bits + MaxLen * Cardinality(ks) <= Mmax
  PROVE  Sets(b, Each(AcceptKey, b, ks), ks, "READY", 0, MaxLen)
<1> DEFINE R == {p \in (SUBSET ks) \X Buffer :
                   /\ Sets(b, p[2], p[1], "READY", 0, MaxLen)
                   /\ p[2].bits = b.bits + MaxLen * Cardinality(p[1])}
<1>0. MaxLen \in Nat /\ MaxLen \in 1 .. MaxLen /\ Mmax \in Nat /\ b.bits \in Nat
      /\ IsFiniteSet(ks) /\ Cardinality(ks) \in Nat
  <2>1. IsFiniteSet(ks) /\ Cardinality(ks) \in Nat
    BY KeyIdsFinite, FS_Subset, FS_CardinalityType
  <2> QED BY <2>1, BoundsNat, SoundNat
<1>1. <<{}, b>> \in R
  <2>1. Cardinality({}) = 0
    BY FS_EmptySet
  <2>2. Sets(b, b, {}, "READY", 0, MaxLen) /\ b \in Buffer
    BY SoundMaps DEF Sets
  <2>3. b.bits = b.bits + MaxLen * Cardinality({})
    BY <1>0, <2>1
  <2> QED BY <2>2, <2>3
<1>2. ASSUME NEW s \in SUBSET ks, NEW k \in ks, NEW c, k \notin s, <<s, c>> \in R
      PROVE  <<s \cup {k}, AcceptKey(c, k)>> \in R
  <2>1. Sets(b, c, s, "READY", 0, MaxLen) /\ c.bits = b.bits + MaxLen * Cardinality(s)
    BY <1>2
  <2>2. /\ Cardinality(s) \in Nat /\ Cardinality(s \cup {k}) = Cardinality(s) + 1
        /\ Cardinality(s \cup {k}) <= Cardinality(ks)
    BY <1>0, <1>2, FS_Subset, FS_CardinalityType, FS_AddElement
  <2>3. MaxLen * Cardinality(s \cup {k}) = MaxLen * Cardinality(s) + MaxLen
        /\ MaxLen * Cardinality(s \cup {k}) <= MaxLen * Cardinality(ks)
        /\ MaxLen * Cardinality(s) \in Nat /\ MaxLen * Cardinality(ks) \in Nat
    BY <1>0, <2>2, Multiples
  <2>4. Sound(c) /\ c.st[k] = "NONE"
    BY <1>2, <2>1 DEF Sets
  <2>5. Fits(c, MaxLen)
    BY <1>0, <2>1, <2>3 DEF Fits
  <2> DEFINE d == StoreKey(c, k, MaxLen)
  <2>6. d = Upd(c, k, "READY", 0, MaxLen, c.bits + MaxLen, c.nrKeys, c.nrBits) /\ Sound(d)
    BY <1>0, <2>4, <2>5, StoreSound
  <2>7. d.bits = b.bits + MaxLen * Cardinality(s \cup {k})
    <3>1. d.bits = c.bits + MaxLen
      BY <2>6 DEF Upd
    <3> HIDE DEF d
    <3> QED BY <1>0, <2>1, <2>3, <3>1
  <2> HIDE DEF d
  <2>8. Becomes(c, d, k, "READY", 0, MaxLen)
    BY <2>6, UpdBecomes
  <2>9. AcceptKey(c, k) = d
    <3>1. d.st[k] = "READY"
      <4>1. PICK f : f = c.st
        OBVIOUS
      <4>2. f = [x \in KeyIds |-> f[x]] /\ k \in KeyIds
        BY <2>4, <4>1, SoundMaps
      <4>3. d.st = [f EXCEPT ![k] = "READY"]
        BY <2>8, <4>1 DEF Becomes
      <4> QED BY <4>2, <4>3
    <3>2. MarkKey(d, k, "READY") = d
      BY <3>1, MarkReadyIdle
    <3> QED BY <3>2 DEF AcceptKey, d
  <2>10. Sets(b, d, s \cup {k}, "READY", 0, MaxLen)
    BY <2>1, <2>8, SetsStep
  <2>11. d \in Buffer
    BY <2>6, SoundMaps
  <2> QED BY <2>7, <2>9, <2>10, <2>11
<1>3. PICK x : x = Each(AcceptKey, b, ks)
  OBVIOUS
<1>4. <<ks, x>> \in R
  <2> HIDE DEF R
  <2> QED BY <1>1, <1>2, <1>3, EachAccept
<1> QED BY <1>3, <1>4

(* ProcessFillResponse makes the accepted keys READY.                      *)
LEMMA ConfirmAll ==
  ASSUME NEW b, NEW ks \in SUBSET KeyIds, Sound(b), \A k \in ks : b.st[k] = "INIT"
  PROVE  Marks(b, Each(ConfirmKey, b, ks), ks, "READY")
<1> DEFINE R == {p \in (SUBSET ks) \X Buffer : Marks(b, p[2], p[1], "READY")}
<1>1. <<{}, b>> \in R
  BY SoundMaps DEF Marks
<1>2. ASSUME NEW s \in SUBSET ks, NEW k \in ks, NEW c, k \notin s, <<s, c>> \in R
      PROVE  <<s \cup {k}, ConfirmKey(c, k)>> \in R
  <2>1. Marks(b, c, s, "READY")
    BY <1>2
  <2>2. Sound(c) /\ c.st[k] = "INIT"
    BY <1>2, <2>1 DEF Marks
  <2> DEFINE d == MarkKey(c, k, "READY")
  <2>3. /\ d = Upd(c, k, "READY", c.lo[k], c.hi[k], c.bits + KeyLen(c, k),
                   c.nrKeys - 1, c.nrBits - KeyLen(c, k))
        /\ Sound(d)
    BY <2>2, MarkReadySound
  <2>4. ConfirmKey(c, k) = d
    BY DEF ConfirmKey
  <2> HIDE DEF d
  <2>5. Becomes(c, d, k, "READY", c.lo[k], c.hi[k])
    BY <2>3, UpdBecomes
  <2>6. d.lo = c.lo /\ d.hi = c.hi
    BY <2>2, <2>5 DEF Becomes, Sound, Shaped, Buffer
  <2>7. d.st = [j \in KeyIds |-> IF j \in s \cup {k} THEN "READY" ELSE b.st[j]]
    BY <2>1, <2>5 DEF Marks, Becomes
  <2>8. Marks(b, d, s \cup {k}, "READY")
    BY <2>1, <2>5, <2>6, <2>7 DEF Marks, Becomes
  <2>9. d \in Buffer
    BY <2>3, SoundNat
  <2> QED BY <2>4, <2>8, <2>9
<1>3. PICK x : x = Each(ConfirmKey, b, ks)
  OBVIOUS
<1>4. <<ks, x>> \in R
  <2> HIDE DEF R
  <2> QED BY <1>1, <1>2, <1>3, EachConfirm
<1> QED BY <1>3, <1>4

(* ProcessFillResponse takes the rejected keys out.                        *)
LEMMA ReturnAll ==
  ASSUME NEW b, NEW ks \in SUBSET KeyIds, Sound(b), \A k \in ks : b.st[k] = "INIT"
  PROVE  Sets(b, Each(ReturnKey, b, ks), ks, "NONE", 0, 0)
<1> DEFINE R == {p \in (SUBSET ks) \X Buffer : Sets(b, p[2], p[1], "NONE", 0, 0)}
<1>1. <<{}, b>> \in R
  BY SoundMaps DEF Sets
<1>2. ASSUME NEW s \in SUBSET ks, NEW k \in ks, NEW c, k \notin s, <<s, c>> \in R
      PROVE  <<s \cup {k}, ReturnKey(c, k)>> \in R
  <2>1. Sets(b, c, s, "NONE", 0, 0)
    BY <1>2
  <2>2. Sound(c) /\ c.st[k] = "INIT"
    BY <1>2, <2>1 DEF Sets
  <2> DEFINE d == GetKey(c, k, FALSE)
  <2>3. d = Upd(c, k, "NONE", 0, 0, c.bits, c.nrKeys, c.nrBits) /\ Sound(d)
    BY <2>2, GetInitSound
  <2>4. ReturnKey(c, k) = d
    BY DEF ReturnKey
  <2> HIDE DEF d
  <2>5. Becomes(c, d, k, "NONE", 0, 0)
    BY <2>3, UpdBecomes
  <2>6. Sets(b, d, s \cup {k}, "NONE", 0, 0)
    BY <2>1, <2>5, SetsStep
  <2>7. d \in Buffer
    BY <2>3, SoundNat
  <2> QED BY <2>4, <2>6, <2>7
<1>3. PICK x : x = Each(ReturnKey, b, ks)
  OBVIOUS
<1>4. <<ks, x>> \in R
  <2> HIDE DEF R
  <2> QED BY <1>1, <1>2, <1>3, EachReturn
<1> QED BY <1>3, <1>4

(* ProcessFillResponse deletes the keys the answer does not name.          *)
LEMMA DiscardAll ==
  ASSUME NEW b, NEW ks \in SUBSET KeyIds, Sound(b), \A k \in ks : b.st[k] = "INIT"
  PROVE  Sets(b, Each(DiscardKey, b, ks), ks, "NONE", 0, 0)
<1> DEFINE R == {p \in (SUBSET ks) \X Buffer : Sets(b, p[2], p[1], "NONE", 0, 0)}
<1>1. <<{}, b>> \in R
  BY SoundMaps DEF Sets
<1>2. ASSUME NEW s \in SUBSET ks, NEW k \in ks, NEW c, k \notin s, <<s, c>> \in R
      PROVE  <<s \cup {k}, DiscardKey(c, k)>> \in R
  <2>1. Sets(b, c, s, "NONE", 0, 0)
    BY <1>2
  <2>2. Sound(c) /\ c.st[k] = "INIT"
    BY <1>2, <2>1 DEF Sets
  <2> DEFINE d == MarkKey(c, k, "OBSOLETE")
  <2>3. /\ d = Upd(c, k, "NONE", 0, 0, c.bits, c.nrKeys - 1, c.nrBits - KeyLen(c, k))
        /\ Sound(d)
    BY <2>2, MarkObsoleteSound
  <2>4. DiscardKey(c, k) = d
    BY DEF DiscardKey
  <2> HIDE DEF d
  <2>5. Becomes(c, d, k, "NONE", 0, 0)
    BY <2>3, UpdBecomes
  <2>6. Sets(b, d, s \cup {k}, "NONE", 0, 0)
    BY <2>1, <2>5, SetsStep
  <2>7. d \in Buffer
    BY <2>3, SoundNat
  <2> QED BY <2>4, <2>6, <2>7
<1>3. PICK x : x = Each(DiscardKey, b, ks)
  OBVIOUS
<1>4. <<ks, x>> \in R
  <2> HIDE DEF R
  <2> QED BY <1>1, <1>2, <1>3, EachDiscard
<1> QED BY <1>3, <1>4

(* After the answer to a FILL no key of it is INIT: those accepted are     *)
(* READY, the others gone.                                                 *)
LEMMA SettledEffect ==
  ASSUME NEW b, NEW r, NEW a, Sound(b), r.keys \in SUBSET KeyIds,
         \A k \in r.keys : b.st[k] = "INIT",
         a.accepted \cup a.rejected \subseteq r.keys, a.accepted \cap a.rejected = {}
  PROVE  SettlesAll(b, Settled(b, r, a), r.keys, a.accepted)
<1> DEFINE rest == r.keys \ (a.accepted \cup a.rejected)
<1>1. PICK c : c = Each(ConfirmKey, b, a.accepted)
  OBVIOUS
<1>2. PICK d : d = Each(ReturnKey, c, a.rejected)
  OBVIOUS
<1>3. PICK x : x = Each(DiscardKey, d, rest)
  OBVIOUS
<1>4. Marks(b, c, a.accepted, "READY")
  BY <1>1, ConfirmAll
<1>5. Sound(c) /\ \A k \in a.rejected : c.st[k] = "INIT"
  BY <1>4 DEF Marks
<1>6. Sets(c, d, a.rejected, "NONE", 0, 0)
  BY <1>2, <1>5, ReturnAll
<1>7. Sound(d) /\ \A k \in rest : d.st[k] = "INIT"
  BY <1>4, <1>6 DEF Marks, Sets
<1>8. Sets(d, x, rest, "NONE", 0, 0)
  <2>1. rest \in SUBSET KeyIds
    OBVIOUS
  <2> HIDE DEF rest
  <2> QED BY <1>3, <1>7, <2>1, DiscardAll
<1>9. x = Settled(b, r, a)
  BY <1>1, <1>2, <1>3 DEF Settled
<1>10. x.st = [k \in KeyIds |-> IF k \in a.accepted THEN "READY"
                                ELSE IF k \in r.keys THEN "NONE" ELSE b.st[k]]
  BY <1>4, <1>6, <1>8 DEF Marks, Sets
<1>11. x.lo = [k \in KeyIds |-> IF k \in r.keys \ a.accepted THEN 0 ELSE b.lo[k]]
  BY <1>4, <1>6, <1>8 DEF Marks, Sets
<1>12. x.hi = [k \in KeyIds |-> IF k \in r.keys \ a.accepted THEN 0 ELSE b.hi[k]]
  BY <1>4, <1>6, <1>8 DEF Marks, Sets
<1>13. Sound(x) /\ x.failed = b.failed /\ x.supply = b.supply
  BY <1>4, <1>6, <1>8 DEF Marks, Sets
<1> QED BY <1>9, <1>10, <1>11, <1>12, <1>13 DEF SettlesAll

(* dec_keys empties the supply keys it gives out.                          *)
LEMMA TakeAll ==
  ASSUME NEW b, NEW ids \in SUBSET SupplyIds, Sound(b)
  PROVE  Empties(b, Each(GetSupplyKey, b, ids), ids)
<1> DEFINE R == {p \in (SUBSET ids) \X Buffer : Empties(b, p[2], p[1])}
<1>1. <<{}, b>> \in R
  BY SoundMaps DEF Empties
<1>2. ASSUME NEW s \in SUBSET ids, NEW k \in ids, NEW c, k \notin s, <<s, c>> \in R
      PROVE  <<s \cup {k}, GetSupplyKey(c, k)>> \in R
  <2>1. Empties(b, c, s)
    BY <1>2
  <2>2. PICK d : d = GetSupplyKey(c, k)
    OBVIOUS
  <2>3. CASE c.supply[k] = {}
    <3>1. d = c
      BY <2>2, <2>3 DEF GetSupplyKey
    <3>2. c.supply = [t \in SupplyIds |-> IF t \in s \cup {k} THEN {} ELSE b.supply[t]]
      BY <2>1, <2>3 DEF Empties
    <3>3. Empties(b, c, s \cup {k})
      BY <2>1, <3>2 DEF Empties
    <3> QED BY <1>2, <2>2, <3>1, <3>3
  <2>4. CASE c.supply[k] # {}
    <3>1. SupplyBecomes(c, d, k, {})
      BY <2>1, <2>2, <2>4, TakeSupplySound DEF Empties
    <3>2. d.supply = [t \in SupplyIds |-> IF t \in s \cup {k} THEN {} ELSE b.supply[t]]
      BY <2>1, <3>1 DEF Empties, SupplyBecomes
    <3>3. Empties(b, d, s \cup {k})
      BY <2>1, <3>1, <3>2 DEF Empties, SupplyBecomes
    <3>4. d \in Buffer
      BY <3>1, SoundNat DEF SupplyBecomes
    <3> QED BY <2>2, <3>3, <3>4
  <2> QED BY <2>3, <2>4
<1>3. PICK x : x = Each(GetSupplyKey, b, ids)
  OBVIOUS
<1>4. <<ids, x>> \in R
  <2> HIDE DEF R
  <2> QED BY <1>1, <1>2, <1>3, EachTake
<1> QED BY <1>3, <1>4

(* Keys that return to the QBuffer are not counted, and may be lost.       *)
LEMMA PutAll ==
  ASSUME NEW s, s \in [keys : SUBSET KeyIds, bits : Nat], NEW ks \in SUBSET KeyIds
  PROVE  LET x == Each(PutBack, s, ks)
         IN x \in [keys : SUBSET KeyIds, bits : Nat] /\ x.bits = s.bits
            /\ s.keys \subseteq x.keys /\ x.keys \subseteq s.keys \cup ks
<1> DEFINE R == {p \in (SUBSET ks) \X [keys : SUBSET KeyIds, bits : Nat] :
                   /\ p[2].bits = s.bits /\ s.keys \subseteq p[2].keys
                   /\ p[2].keys \subseteq s.keys \cup p[1]}
<1>1. <<{}, s>> \in R
  OBVIOUS
<1>2. ASSUME NEW t \in SUBSET ks, NEW k \in ks, NEW c, k \notin t, <<t, c>> \in R
      PROVE  <<t \cup {k}, PutBack(c, k)>> \in R
  BY <1>2 DEF PutBack, QStore
<1>3. PICK x : x = Each(PutBack, s, ks)
  OBVIOUS
<1>4. <<ks, x>> \in R
  <2> HIDE DEF R
  <2> QED BY <1>1, <1>2, <1>3, EachPut
<1> QED BY <1>3, <1>4

-----------------------------------------------------------------------------
(* Places in a list of messages and their ranks.                           *)

(* Shifting places by one keeps their number.                              *)
LEMMA ShiftSize ==
  ASSUME NEW S, IsFiniteSet(S), S \subseteq Nat \ {0, 1}, NEW T,
         T = {i \in Nat \ {0} : i + 1 \in S}
  PROVE  IsFiniteSet(T) /\ Cardinality(T) = Cardinality(S)
<1> DEFINE f == [i \in S |-> i - 1]
<1>1. f \in [S -> T]
  OBVIOUS
<1>2. \A i, j \in S : f[i] = f[j] => i = j
  OBVIOUS
<1>3. \A t \in T : \E i \in S : f[i] = t
  <2>1. TAKE t \in T
  <2>2. t + 1 \in S /\ f[t + 1] = t
    OBVIOUS
  <2> QED BY <2>2
<1> HIDE DEF f
<1>4. f \in Bijection(S, T)
  BY <1>1, <1>2, <1>3 DEF Bijection, Injection, Surjection, IsInjective
<1>5. ExistsBijection(S, T)
  BY <1>4 DEF ExistsBijection
<1> QED BY <1>5, FS_Bijection

(* Ranks run from 1 to the number of places and follow their order.        *)
LEMMA RankRange ==
  ASSUME NEW S, IsFiniteSet(S), S \subseteq Nat, NEW i \in S
  PROVE  /\ Cardinality(S) \in Nat
         /\ Rank(S, i) \in 1 .. Cardinality(S)
         /\ \A j \in S : i < j => Rank(S, i) < Rank(S, j)
<1> DEFINE U(j) == {k \in S : k <= j}
<1>1. \A j \in S : IsFiniteSet(U(j)) /\ Cardinality(U(j)) \in Nat
                    /\ Cardinality(U(j)) <= Cardinality(S)
  BY FS_Subset, FS_CardinalityType
<1>2. U(i) # {}
  OBVIOUS
<1>3. \A j \in S : i < j => Cardinality(U(i)) < Cardinality(U(j))
  <2>1. TAKE j \in S
  <2>2. HAVE i < j
  <2>3. i \in Nat /\ j \in Nat /\ \A k \in S : k \in Nat
    OBVIOUS
  <2>4. j \in U(j) /\ j \notin U(i)
    BY <2>2, <2>3
  <2>5. U(i) \subseteq U(j)
    <3>1. \A k \in S : k <= i => k <= j
      BY <2>2, <2>3
    <3> QED BY <3>1
  <2> HIDE DEF U
  <2> QED BY <1>1, <2>4, <2>5, FS_Subset
<1>4. Cardinality(S) \in Nat
  BY FS_CardinalityType
<1>5. Cardinality(U(i)) # 0
  BY <1>1, <1>2, FS_EmptySet
<1> QED BY <1>1, <1>3, <1>4, <1>5 DEF Rank

(* The places S of a list of n messages and the one after them.            *)
Later(S, n) == S \cup {n + 1}

(* A message at the end leaves the ranks of the others alone.              *)
LEMMA RankAppend ==
  ASSUME NEW S, IsFiniteSet(S), NEW n \in Nat, S \subseteq 1 .. n,
         NEW T, T = Later(S, n)
  PROVE  /\ Cardinality(T) = Cardinality(S) + 1
         /\ Rank(T, n + 1) = Cardinality(S) + 1
         /\ \A i \in S : Rank(T, i) = Rank(S, i)
<1> USE DEF Later
<1> DEFINE m == n + 1
<1>1. m \notin S
  OBVIOUS
<1>2. {j \in S \cup {m} : j <= m} = S \cup {m}
  <2>1. \A j \in S \cup {m} : j <= m
    OBVIOUS
  <2> QED BY <2>1
<1>3. \A i \in S : {j \in S \cup {m} : j <= i} = {j \in S : j <= i}
  <2>1. TAKE i \in S
  <2>2. i \in Nat /\ ~(m <= i)
    OBVIOUS
  <2> QED BY <2>2
<1>4. IsFiniteSet(S \cup {m}) /\ Cardinality(S \cup {m}) = Cardinality(S) + 1
  BY <1>1, FS_AddElement
<1> QED BY <1>2, <1>3, <1>4 DEF Rank

(* What is left of the places S when the first of n messages is read.      *)
Earlier(S) == {i \in Nat \ {0} : i + 1 \in S}

(* Reading the first message lowers the ranks if it was one of them.       *)
LEMMA RankTail ==
  ASSUME NEW S, IsFiniteSet(S), S \subseteq Nat \ {0}, NEW T, T = Earlier(S)
  PROVE  /\ IsFiniteSet(T) /\ \A i \in T : i + 1 \in S
         /\ 1 \in S => /\ Cardinality(S) = Cardinality(T) + 1
                        /\ \A i \in T : Rank(S, i + 1) = Rank(T, i) + 1
         /\ 1 \notin S => /\ Cardinality(S) = Cardinality(T)
                           /\ \A i \in T : Rank(S, i + 1) = Rank(T, i)
<1> USE DEF Earlier
<1>1. \A U \in SUBSET S : IsFiniteSet(U \ {1})
          /\ Cardinality(U \ {1}) \in Nat
          /\ Cardinality(U) = Cardinality(U \ {1}) + (IF 1 \in U THEN 1 ELSE 0)
  <2>1. TAKE U \in SUBSET S
  <2>2. IsFiniteSet(U) /\ IsFiniteSet(U \ {1})
    BY FS_Subset
  <2>3. Cardinality(U \ {1}) \in Nat /\ Cardinality(U) \in Nat
    BY <2>2, FS_CardinalityType
  <2> QED BY <2>2, <2>3, FS_RemoveElement
<1>2. IsFiniteSet(T) /\ Cardinality(T) = Cardinality(S \ {1})
  <2> DEFINE U == S \ {1}
  <2>1. U \subseteq Nat \ {0, 1} /\ T = {i \in Nat \ {0} : i + 1 \in U}
    OBVIOUS
  <2>2. IsFiniteSet(U)
    BY <1>1
  <2> HIDE DEF U
  <2>3. IsFiniteSet(T) /\ Cardinality(T) = Cardinality(U)
    BY <2>1, <2>2, ShiftSize
  <2> QED BY <2>3 DEF U
<1>3. \A i \in T : /\ Rank(T, i) \in Nat
                   /\ Rank(S, i + 1) = Rank(T, i) + (IF 1 \in S THEN 1 ELSE 0)
  <2>1. TAKE i \in T
  <2> DEFINE U == {j \in S : j <= i + 1}
             V == {j \in T : j <= i}
  <2>2. U \subseteq S /\ (1 \in U <=> 1 \in S) /\ U \ {1} \subseteq Nat \ {0, 1}
    <3>1. i \in Nat /\ 1 <= i + 1
      OBVIOUS
    <3> QED BY <3>1
  <2>5. V = {j \in Nat \ {0} : j + 1 \in U \ {1}}
    <3>1. \A j \in Nat : j <= i <=> j + 1 <= i + 1
      OBVIOUS
    <3>2. \A j \in Nat \ {0} : j + 1 # 1
      OBVIOUS
    <3> QED BY <3>1, <3>2
  <2>3. Rank(S, i + 1) = Cardinality(U) /\ Rank(T, i) = Cardinality(V)
    BY DEF Rank
  <2> HIDE DEF U, V
  <2>4. Cardinality(V) = Cardinality(U \ {1})
    <3>1. PICK W, X : W = U \ {1} /\ X = V
      OBVIOUS
    <3>2. IsFiniteSet(W) /\ W \subseteq Nat \ {0, 1} /\ X = {j \in Nat \ {0} : j + 1 \in W}
      BY <1>1, <2>2, <2>5, <3>1
    <3>3. Cardinality(X) = Cardinality(W)
      BY <3>2, ShiftSize, Zenon
    <3> QED BY <3>1, <3>3
  <2> QED BY <1>1, <2>2, <2>3, <2>4
<1>4. Cardinality(S \ {1}) \in Nat
      /\ Cardinality(S) = Cardinality(S \ {1}) + (IF 1 \in S THEN 1 ELSE 0)
  BY <1>1
<1>5. \A i \in T : i + 1 \in S
  OBVIOUS
<1> HIDE DEF Earlier
<1> QED BY <1>2, <1>3, <1>4, <1>5

(* The requests and the answers of a list that grows or is read.           *)
LEMMA PlacesFinite ==
  ASSUME NEW S, NEW s \in Seq(S)
  PROVE  /\ Asks(s) \subseteq 1 .. Len(s) /\ Replies(s) \subseteq 1 .. Len(s)
         /\ Asks(s) \subseteq Nat \ {0} /\ Replies(s) \subseteq Nat \ {0}
         /\ IsFiniteSet(Asks(s)) /\ IsFiniteSet(Replies(s))
         /\ Cardinality(Asks(s)) \in Nat /\ Cardinality(Replies(s)) \in Nat
         /\ Len(s) \in Nat
<1>1. DOMAIN s = 1 .. Len(s) /\ Len(s) \in Nat
  OBVIOUS
<1>2. Asks(s) \in SUBSET (1 .. Len(s)) /\ Replies(s) \in SUBSET (1 .. Len(s))
  BY <1>1 DEF Asks, Replies
<1>3. IsFiniteSet(1 .. Len(s))
  BY <1>1, FS_Interval
<1>4. IsFiniteSet(Asks(s)) /\ IsFiniteSet(Replies(s))
  BY <1>2, <1>3, FS_Subset
<1> QED BY <1>1, <1>2, <1>4, FS_CardinalityType

(* The places of requests and answers after one more message.              *)
LEMMA PlacesAppend ==
  ASSUME NEW S, NEW s \in Seq(S), NEW m \in S
  PROVE  /\ Asks(Append(s, m)) = IF Request(m) THEN Later(Asks(s), Len(s)) ELSE Asks(s)
         /\ Replies(Append(s, m)) = IF Request(m) THEN Replies(s)
                                                 ELSE Later(Replies(s), Len(s))
<1>1. Append(s, m) \in Seq(S) /\ Len(Append(s, m)) = Len(s) + 1 /\ Len(s) \in Nat
      /\ DOMAIN s = 1 .. Len(s) /\ DOMAIN Append(s, m) = 1 .. Len(s) + 1
  OBVIOUS
<1>2. (\A i \in 1 .. Len(s) : Append(s, m)[i] = s[i]) /\ Append(s, m)[Len(s) + 1] = m
  OBVIOUS
<1> QED BY <1>1, <1>2 DEF Asks, Replies, Later

(* The places of requests and answers after the first was read.            *)
LEMMA PlacesTail ==
  ASSUME NEW S, NEW s \in Seq(S), s # <<>>
  PROVE  /\ Asks(Tail(s)) = Earlier(Asks(s))
         /\ Replies(Tail(s)) = Earlier(Replies(s))
         /\ 1 \in Asks(s) <=> Request(Head(s))
         /\ 1 \in Replies(s) <=> ~Request(Head(s))
         /\ Head(s) = s[1]
<1>1. Tail(s) \in Seq(S) /\ Len(Tail(s)) = Len(s) - 1 /\ Len(s) \in Nat \ {0}
      /\ DOMAIN s = 1 .. Len(s) /\ DOMAIN Tail(s) = 1 .. Len(s) - 1
      /\ Head(s) = s[1]
  OBVIOUS
<1>2. \A i \in 1 .. Len(s) - 1 : Tail(s)[i] = s[i + 1]
  OBVIOUS
<1> QED BY <1>1, <1>2 DEF Asks, Replies, Earlier

-----------------------------------------------------------------------------
(* The queries qs of a node, with the messages x on the way to it and the  *)
(* messages y on the way to its peer: what AnswersMatch says of them, and  *)
(* how it follows each message.                                            *)
Matched(x, y, qs) ==
  /\ Len(qs) = Cardinality(Replies(x)) + Cardinality(Asks(y))
  /\ \A i \in Replies(x) : Answers(x[i], qs[Rank(Replies(x), i)])
  /\ \A i \in Asks(y) : qs[Cardinality(Replies(x)) + Rank(Asks(y), i)] = y[i]

(* A request is sent and noted in the list of queries.                     *)
LEMMA AskSent ==
  ASSUME NEW S, NEW x \in Seq(S), NEW y \in Seq(S), NEW qs \in Seq(S), NEW m \in S,
         Request(m), Matched(x, y, qs)
  PROVE  Matched(x, Append(y, m), Append(qs, m))
<1> DEFINE z == Append(y, m)  ps == Append(qs, m)  c == Cardinality(Replies(x))
<1>1. Asks(z) = Later(Asks(y), Len(y))
  BY PlacesAppend
<1>2. /\ Cardinality(Asks(z)) = Cardinality(Asks(y)) + 1
      /\ Rank(Asks(z), Len(y) + 1) = Cardinality(Asks(y)) + 1
      /\ \A i \in Asks(y) : Rank(Asks(z), i) = Rank(Asks(y), i)
  <2>1. IsFiniteSet(Asks(y)) /\ Asks(y) \subseteq 1 .. Len(y) /\ Len(y) \in Nat
    BY PlacesFinite
  <2>2. PICK k \in Nat : k = Len(y)
    BY <2>1
  <2>3. PICK a : a = Asks(y)
    OBVIOUS
  <2>4. PICK t : t = Asks(z)
    OBVIOUS
  <2> HIDE DEF z
  <2>5. IsFiniteSet(a) /\ a \subseteq 1 .. k /\ t = Later(a, k)
    BY <1>1, <2>1, <2>2, <2>3, <2>4
  <2>6. /\ Cardinality(t) = Cardinality(a) + 1 /\ Rank(t, k + 1) = Cardinality(a) + 1
        /\ \A i \in a : Rank(t, i) = Rank(a, i)
    BY <2>5, RankAppend
  <2> QED BY <2>2, <2>3, <2>4, <2>6
<1>3. /\ Len(ps) = Len(qs) + 1 /\ \A i \in 1 .. Len(qs) : ps[i] = qs[i]
      /\ ps[Len(qs) + 1] = m
  OBVIOUS
<1>4. z[Len(y) + 1] = m /\ \A i \in Asks(y) : z[i] = y[i]
  BY PlacesFinite
<1>5. \A i \in Replies(x) : Rank(Replies(x), i) \in 1 .. c
  BY PlacesFinite, RankRange
<1>6. \A i \in Asks(y) : Rank(Asks(y), i) \in 1 .. Cardinality(Asks(y))
  BY PlacesFinite, RankRange
<1>7. c \in Nat /\ Cardinality(Asks(y)) \in Nat /\ Len(qs) = c + Cardinality(Asks(y))
  BY PlacesFinite DEF Matched
<1> HIDE DEF z, ps, c
<1>8. \A i \in Replies(x) : Answers(x[i], ps[Rank(Replies(x), i)])
  <2>1. \A i \in Replies(x) : Rank(Replies(x), i) \in 1 .. Len(qs)
    BY <1>5, <1>7
  <2> QED BY <1>3, <2>1 DEF Matched
<1>9. \A i \in Asks(z) : ps[c + Rank(Asks(z), i)] = z[i]
  <2>1. TAKE i \in Asks(z)
  <2>2. CASE i \in Asks(y)
    <3>1. Rank(Asks(z), i) = Rank(Asks(y), i) /\ c + Rank(Asks(y), i) \in 1 .. Len(qs)
      BY <1>2, <1>6, <1>7, <2>2
    <3>2. qs[c + Rank(Asks(y), i)] = y[i]
      BY <2>2 DEF Matched, c
    <3> QED BY <1>3, <1>4, <2>2, <3>1, <3>2
  <2>3. CASE i = Len(y) + 1
    <3>1. c + Rank(Asks(z), i) = Len(qs) + 1
      BY <1>2, <1>7, <2>3
    <3> QED BY <1>3, <1>4, <2>3, <3>1
  <2> QED BY <1>1, <2>2, <2>3 DEF Later
<1>10. Len(ps) = c + Cardinality(Asks(z))
  BY <1>2, <1>3, <1>7
<1> QED BY <1>8, <1>9, <1>10 DEF Matched, z, ps, c

(* A request on the way to a node is none of its answers.                  *)
LEMMA AskArrives ==
  ASSUME NEW S, NEW x \in Seq(S), NEW y \in Seq(S), NEW qs \in Seq(S), NEW m \in S,
         Request(m), Matched(x, y, qs)
  PROVE  Matched(Append(x, m), y, qs)
<1>1. Replies(Append(x, m)) = Replies(x)
  BY PlacesAppend
<1>2. \A i \in Replies(x) : Append(x, m)[i] = x[i]
  BY PlacesFinite
<1> QED BY <1>1, <1>2 DEF Matched

(* The peer reads a request and sends its answer.                          *)
LEMMA AskAnswered ==
  ASSUME NEW S, NEW x \in Seq(S), NEW y \in Seq(S), NEW qs \in Seq(S), NEW m \in S,
         y # <<>>, Request(Head(y)), ~Request(m), Answers(m, Head(y)), Matched(x, y, qs)
  PROVE  Matched(Append(x, m), Tail(y), qs)
<1> DEFINE w == Append(x, m)  z == Tail(y)  c == Cardinality(Replies(x))
<1>1. Replies(w) = Later(Replies(x), Len(x))
  BY PlacesAppend
<1>2. /\ Cardinality(Replies(w)) = c + 1 /\ Rank(Replies(w), Len(x) + 1) = c + 1
      /\ \A i \in Replies(x) : Rank(Replies(w), i) = Rank(Replies(x), i)
  <2>1. IsFiniteSet(Replies(x)) /\ Replies(x) \subseteq 1 .. Len(x) /\ Len(x) \in Nat
    BY PlacesFinite
  <2>2. PICK k \in Nat : k = Len(x)
    BY <2>1
  <2>3. PICK a : a = Replies(x)
    OBVIOUS
  <2>4. PICK t : t = Replies(w)
    OBVIOUS
  <2>5. c = Cardinality(a)
    BY <2>3
  <2> HIDE DEF w, c
  <2>6. IsFiniteSet(a) /\ a \subseteq 1 .. k /\ t = Later(a, k)
    BY <1>1, <2>1, <2>2, <2>3, <2>4
  <2>7. /\ Cardinality(t) = Cardinality(a) + 1 /\ Rank(t, k + 1) = Cardinality(a) + 1
        /\ \A i \in a : Rank(t, i) = Rank(a, i)
    BY <2>6, RankAppend
  <2> QED BY <2>2, <2>3, <2>4, <2>5, <2>7
<1>3. /\ Asks(z) = Earlier(Asks(y)) /\ 1 \in Asks(y) /\ Head(y) = y[1]
      /\ z \in Seq(S)
  BY PlacesTail
<1>4. /\ Cardinality(Asks(y)) = Cardinality(Asks(z)) + 1
      /\ \A i \in Asks(z) : i + 1 \in Asks(y) /\ Rank(Asks(y), i + 1) = Rank(Asks(z), i) + 1
  <2>1. IsFiniteSet(Asks(y)) /\ Asks(y) \subseteq Nat \ {0}
    BY PlacesFinite
  <2> HIDE DEF z
  <2> QED BY <1>3, <2>1, RankTail
<1>5. w[Len(x) + 1] = m /\ \A i \in Replies(x) : w[i] = x[i]
  BY PlacesFinite
<1>6. \A i \in Asks(z) : z[i] = y[i + 1]
  <2>1. Len(z) = Len(y) - 1 /\ Len(y) \in Nat /\ \A i \in 1 .. Len(y) - 1 : z[i] = y[i + 1]
    OBVIOUS
  <2>2. Asks(z) \subseteq 1 .. Len(z)
    BY <1>3, PlacesFinite
  <2> HIDE DEF z
  <2> QED BY <2>1, <2>2
<1>7. \A i \in Asks(z) : Rank(Asks(z), i) \in Nat
  <2>1. IsFiniteSet(Asks(z)) /\ Asks(z) \subseteq Nat
    BY <1>3, PlacesFinite
  <2> HIDE DEF z
  <2>2. \A i \in Asks(z) : Rank(Asks(z), i) \in 1 .. Cardinality(Asks(z)) /\ Cardinality(Asks(z)) \in Nat
    BY <2>1, RankRange
  <2> QED BY <2>2
<1>8. c \in Nat /\ Cardinality(Asks(z)) \in Nat
  BY <1>3, PlacesFinite
<1>9. Rank(Asks(y), 1) = 1
  <2>1. {j \in Asks(y) : j <= 1} = {1}
    BY <1>3, PlacesFinite
  <2> QED BY <2>1, FS_Singleton DEF Rank
<1> HIDE DEF w, z, c
<1>10. Len(qs) = Cardinality(Replies(w)) + Cardinality(Asks(z))
  BY <1>2, <1>4, <1>8 DEF Matched, c
<1>11. \A i \in Replies(w) : Answers(w[i], qs[Rank(Replies(w), i)])
  <2>1. TAKE i \in Replies(w)
  <2>2. CASE i \in Replies(x)
    BY <1>2, <1>5, <2>2 DEF Matched
  <2>3. CASE i = Len(x) + 1
    <3>1. qs[c + 1] = Head(y)
      BY <1>3, <1>9 DEF Matched, c
    <3> QED BY <1>2, <1>5, <2>3, <3>1
  <2> QED BY <1>1, <2>2, <2>3 DEF Later
<1>12. \A i \in Asks(z) : qs[Cardinality(Replies(w)) + Rank(Asks(z), i)] = z[i]
  <2>1. TAKE i \in Asks(z)
  <2>2. qs[c + Rank(Asks(y), i + 1)] = y[i + 1]
    BY <1>4 DEF Matched, c
  <2>3. c + Rank(Asks(y), i + 1) = c + 1 + Rank(Asks(z), i)
    BY <1>4, <1>7, <1>8
  <2> QED BY <1>2, <1>6, <2>2, <2>3
<1> QED BY <1>10, <1>11, <1>12 DEF Matched, w, z

(* A node reads a request of the peer and sends an answer: its own queries *)
(* stay matched.                                                           *)
LEMMA AskRead ==
  ASSUME NEW S, NEW x \in Seq(S), NEW y \in Seq(S), NEW qs \in Seq(S), NEW m \in S,
         x # <<>>, Request(Head(x)), ~Request(m), Matched(x, y, qs)
  PROVE  Matched(Tail(x), Append(y, m), qs)
<1> DEFINE w == Tail(x)  z == Append(y, m)
<1>1. Asks(z) = Asks(y)
  BY PlacesAppend
<1>2. \A i \in Asks(y) : z[i] = y[i]
  BY PlacesFinite
<1>3. Replies(w) = Earlier(Replies(x)) /\ 1 \notin Replies(x)
      /\ w \in Seq(S)
  BY PlacesTail
<1>4. /\ Cardinality(Replies(x)) = Cardinality(Replies(w))
      /\ \A i \in Replies(w) :
           i + 1 \in Replies(x) /\ Rank(Replies(x), i + 1) = Rank(Replies(w), i)
  <2>1. IsFiniteSet(Replies(x)) /\ Replies(x) \subseteq Nat \ {0}
    BY PlacesFinite
  <2> HIDE DEF w
  <2> QED BY <1>3, <2>1, RankTail
<1>5. \A i \in Replies(w) : w[i] = x[i + 1]
  <2>1. Len(w) = Len(x) - 1 /\ Len(x) \in Nat /\ \A i \in 1 .. Len(x) - 1 : w[i] = x[i + 1]
    OBVIOUS
  <2>2. Replies(w) \subseteq 1 .. Len(w)
    BY <1>3, PlacesFinite
  <2> HIDE DEF w
  <2> QED BY <2>1, <2>2
<1> HIDE DEF w, z
<1> QED BY <1>1, <1>2, <1>4, <1>5 DEF Matched, w, z

(* The first answer on the way to a node answers its first query.          *)
LEMMA AnswerRead ==
  ASSUME NEW S, NEW x \in Seq(S), NEW y \in Seq(S), NEW qs \in Seq(S),
         x # <<>>, ~Request(Head(x)), Matched(x, y, qs)
  PROVE  qs # <<>> /\ Answers(Head(x), qs[1]) /\ Matched(Tail(x), y, Tail(qs))
<1> DEFINE w == Tail(x)  ps == Tail(qs)  c == Cardinality(Replies(w))
<1>1. Replies(w) = Earlier(Replies(x)) /\ 1 \in Replies(x)
      /\ Head(x) = x[1] /\ w \in Seq(S)
  BY PlacesTail
<1>2. /\ Cardinality(Replies(x)) = c + 1
      /\ \A i \in Replies(w) :
           i + 1 \in Replies(x) /\ Rank(Replies(x), i + 1) = Rank(Replies(w), i) + 1
  <2>1. IsFiniteSet(Replies(x)) /\ Replies(x) \subseteq Nat \ {0}
    BY PlacesFinite
  <2> HIDE DEF w
  <2> QED BY <1>1, <2>1, RankTail
<1>3. \A i \in Replies(w) : w[i] = x[i + 1]
  <2>1. Len(w) = Len(x) - 1 /\ Len(x) \in Nat /\ \A i \in 1 .. Len(x) - 1 : w[i] = x[i + 1]
    OBVIOUS
  <2>2. Replies(w) \subseteq 1 .. Len(w)
    BY <1>1, PlacesFinite
  <2> HIDE DEF w
  <2> QED BY <2>1, <2>2
<1>4. c \in Nat /\ \A i \in Replies(w) : Rank(Replies(w), i) \in 1 .. c
  BY <1>1, PlacesFinite, RankRange
<1>5. /\ Cardinality(Asks(y)) \in Nat
      /\ \A i \in Asks(y) : Rank(Asks(y), i) \in 1 .. Cardinality(Asks(y))
  BY PlacesFinite, RankRange
<1>6. Rank(Replies(x), 1) = 1
  <2>1. {j \in Replies(x) : j <= 1} = {1}
    BY <1>1, PlacesFinite
  <2> QED BY <2>1, FS_Singleton DEF Rank
<1>7. Len(qs) = c + 1 + Cardinality(Asks(y))
  BY <1>2 DEF Matched
<1>8. qs # <<>>
  BY <1>4, <1>5, <1>7
<1>9. Len(ps) = Len(qs) - 1 /\ Len(qs) \in Nat /\ \A i \in 1 .. Len(qs) - 1 : ps[i] = qs[i + 1]
  BY <1>8
<1> HIDE DEF w, ps, c
<1>10. Answers(Head(x), qs[1])
  BY <1>1, <1>6 DEF Matched
<1>11. Len(ps) = c + Cardinality(Asks(y))
  BY <1>4, <1>5, <1>7, <1>9
<1>12. \A i \in Replies(w) : Answers(w[i], ps[Rank(Replies(w), i)])
  <2>1. TAKE i \in Replies(w)
  <2>2. Rank(Replies(w), i) \in 1 .. Len(qs) - 1
    BY <1>4, <1>5, <1>7
  <2>3. ps[Rank(Replies(w), i)] = qs[Rank(Replies(x), i + 1)]
    BY <1>2, <1>9, <2>2
  <2> QED BY <1>2, <1>3, <2>3 DEF Matched
<1>13. \A i \in Asks(y) : ps[c + Rank(Asks(y), i)] = y[i]
  <2>1. TAKE i \in Asks(y)
  <2>2. c + Rank(Asks(y), i) \in 1 .. Len(qs) - 1
    BY <1>4, <1>5, <1>7
  <2>3. c + Rank(Asks(y), i) + 1 = Cardinality(Replies(x)) + Rank(Asks(y), i)
    BY <1>2, <1>4, <1>5
  <2> QED BY <1>9, <2>2, <2>3 DEF Matched
<1> QED BY <1>8, <1>10, <1>11, <1>12, <1>13 DEF Matched, w, ps, c

(* An answer on the way to the peer is none of the requests sent to it.    *)
LEMMA AnswerLeft ==
  ASSUME NEW S, NEW x \in Seq(S), NEW y \in Seq(S), NEW qs \in Seq(S),
         y # <<>>, ~Request(Head(y)), Matched(x, y, qs)
  PROVE  Matched(x, Tail(y), qs)
<1> DEFINE z == Tail(y)
<1>1. Asks(z) = Earlier(Asks(y)) /\ 1 \notin Asks(y) /\ z \in Seq(S)
  BY PlacesTail
<1>2. /\ Cardinality(Asks(y)) = Cardinality(Asks(z))
      /\ \A i \in Asks(z) : i + 1 \in Asks(y) /\ Rank(Asks(y), i + 1) = Rank(Asks(z), i)
  <2>1. IsFiniteSet(Asks(y)) /\ Asks(y) \subseteq Nat \ {0}
    BY PlacesFinite
  <2> HIDE DEF z
  <2> QED BY <1>1, <2>1, RankTail
<1>3. \A i \in Asks(z) : z[i] = y[i + 1]
  <2>1. Len(z) = Len(y) - 1 /\ Len(y) \in Nat /\ \A i \in 1 .. Len(y) - 1 : z[i] = y[i + 1]
    OBVIOUS
  <2>2. Asks(z) \subseteq 1 .. Len(z)
    BY <1>1, PlacesFinite
  <2> HIDE DEF z
  <2> QED BY <2>1, <2>2
<1> HIDE DEF z
<1> QED BY <1>1, <1>2, <1>3 DEF Matched, z

-----------------------------------------------------------------------------
(* Both demands shrink until they fit, and what is left fits.              *)
Less(w) == [enc |-> (19 * w.enc) \div 20, dec |-> (19 * w.dec) \div 20, avail |-> w.avail]

(* SBufferClientCheck lowers the demands in each round of its loop.        *)
LEMMA LessSmaller ==
  ASSUME NEW w \in Wants, ~(w.enc + w.dec <= w.avail)
  PROVE  /\ Less(w) \in Wants
         /\ Less(w).enc + Less(w).dec < w.enc + w.dec
         /\ Less(w).avail = w.avail
<1>1. \A n \in Nat : (19 * n) \div 20 \in Nat /\ (19 * n) \div 20 <= n
                     /\ (n # 0 => (19 * n) \div 20 < n)
  OBVIOUS
<1>2. w.enc \in Nat /\ w.dec \in Nat /\ w.avail \in Nat
  BY DEF Wants
<1>3. w.enc # 0 \/ w.dec # 0
  BY <1>2
<1>4. PICK e \in Nat, d \in Nat : e = (19 * w.enc) \div 20 /\ d = (19 * w.dec) \div 20
  BY <1>1, <1>2
<1>5. e + d < w.enc + w.dec
  BY <1>1, <1>2, <1>3, <1>4
<1>6. Less(w) = [enc |-> e, dec |-> d, avail |-> w.avail]
  BY <1>4 DEF Less
<1> QED BY <1>2, <1>5, <1>6 DEF Wants

(* The recursion of Shrunk is well founded: the loop ends.                 *)
LEMMA ShrunkRule ==
  /\ Shrunk \in [Wants -> Wants]
  /\ \A w \in Wants : Shrunk[w] = IF w.enc + w.dec <= w.avail THEN w ELSE Shrunk[Less(w)]
<1> DEFINE size == [w \in Wants |-> w.enc + w.dec]
           K == [w \in Wants |-> IF w.enc + w.dec <= w.avail THEN {} ELSE {Less(w)}]
           Tables == UNION {[X -> Wants] : X \in SUBSET Wants}
           O == [p \in Wants \X Tables |->
                   IF p[1].enc + p[1].dec <= p[1].avail THEN p[1] ELSE p[2][Less(p[1])]]
           F == CHOOSE f : f = [w \in Wants |-> IF w.enc + w.dec <= w.avail THEN w
                                                ELSE f[Less(w)]]
<1>1. size \in [Wants -> Nat]
  BY DEF Wants
<1>2. K \in [Wants -> SUBSET Wants]
  BY LessSmaller
<1>3. \A w \in Wants : \A v \in K[w] : size[v] < size[w]
  BY LessSmaller
<1>4. \A w \in Wants : \A h \in [K[w] -> Wants] :
        O[<<w, h>>] = (IF w.enc + w.dec <= w.avail THEN w ELSE h[Less(w)])
  <2>1. TAKE w \in Wants
  <2>2. TAKE h \in [K[w] -> Wants]
  <2>3. K[w] \in SUBSET Wants
    BY <1>2
  <2> HIDE DEF K
  <2>4. h \in Tables
    BY <2>3
  <2> HIDE DEF Tables
  <2> QED BY <2>4
<1>5. \A w \in Wants : \A h \in [K[w] -> Wants] : O[<<w, h>>] \in Wants
  <2>1. TAKE w \in Wants
  <2>2. TAKE h \in [K[w] -> Wants]
  <2>3. ~(w.enc + w.dec <= w.avail) => h[Less(w)] \in Wants
    <3>1. ~(w.enc + w.dec <= w.avail) => Less(w) \in K[w]
      OBVIOUS
    <3> HIDE DEF K
    <3> QED BY <3>1
  <2> HIDE DEF O
  <2> QED BY <1>4, <2>3
<1> HIDE DEF O
<1>6. PICK f : f \in [Wants -> Wants] /\ Recurs(f, Wants, K, O)
  <2> HIDE DEF size, K
  <2> QED BY <1>1, <1>2, <1>3, <1>5, RecursBuilt
<1>7. \A w \in Wants : f[w] = IF w.enc + w.dec <= w.avail THEN w ELSE f[Less(w)]
  <2>1. TAKE w \in Wants
  <2>2. f[w] = O[<<w, [v \in K[w] |-> f[v]]>>]
    BY <1>6 DEF Recurs
  <2>3. [v \in K[w] |-> f[v]] \in [K[w] -> Wants]
    <3>1. K[w] \subseteq Wants
      BY <1>2
    <3> HIDE DEF K
    <3> QED BY <1>6, <3>1
  <2>4. f[w] = IF w.enc + w.dec <= w.avail THEN w ELSE [v \in K[w] |-> f[v]][Less(w)]
    BY <1>4, <2>2, <2>3
  <2>5. ~(w.enc + w.dec <= w.avail) => Less(w) \in K[w]
    OBVIOUS
  <2> HIDE DEF K
  <2> QED BY <2>4, <2>5
<1>8. f = [w \in Wants |-> IF w.enc + w.dec <= w.avail THEN w ELSE f[Less(w)]]
  BY <1>6, <1>7
<1>9. F = [w \in Wants |-> IF w.enc + w.dec <= w.avail THEN w ELSE F[Less(w)]]
  BY <1>8
<1>10. Shrunk = F
  BY DEF Shrunk, Wants, Less
<1> HIDE DEF F
<1>11. Shrunk = [w \in Wants |-> IF w.enc + w.dec <= w.avail THEN w ELSE Shrunk[Less(w)]]
  BY <1>9, <1>10
<1>12. \A w \in Wants : Shrunk[w] = IF w.enc + w.dec <= w.avail THEN w ELSE Shrunk[Less(w)]
  BY <1>11
<1>13. Shrunk = [w \in Wants |-> Shrunk[w]]
  BY <1>11
<1> DEFINE N == {n \in Nat : \A w \in Wants : w.enc + w.dec < n => Shrunk[w] \in Wants}
<1>14. 0 \in N
  <2>1. \A w \in Wants : ~(w.enc + w.dec < 0)
    BY DEF Wants
  <2> QED BY <2>1
<1>15. ASSUME NEW n \in Nat, n \in N
       PROVE  n + 1 \in N
  <2>1. ASSUME NEW w \in Wants, w.enc + w.dec < n + 1
        PROVE  Shrunk[w] \in Wants
    <3>1. CASE w.enc + w.dec <= w.avail
      BY <1>12, <3>1
    <3>2. CASE ~(w.enc + w.dec <= w.avail)
      <4>1. Less(w) \in Wants /\ Less(w).enc + Less(w).dec < w.enc + w.dec
        BY <3>2, LessSmaller
      <4>2. Less(w).enc + Less(w).dec < n
        BY <2>1, <4>1 DEF Wants
      <4> QED BY <1>12, <1>15, <3>2, <4>1, <4>2
    <3> QED BY <3>1, <3>2
  <2> QED BY <2>1
<1>16. Nat \subseteq N
  <2> HIDE DEF N
  <2> QED BY <1>14, <1>15, NatInd
<1>17. \A w \in Wants : Shrunk[w] \in Wants
  <2>1. \A w \in Wants : w.enc + w.dec + 1 \in Nat /\ w.enc + w.dec < w.enc + w.dec + 1
    BY DEF Wants
  <2> QED BY <1>16, <2>1
<1>18. Shrunk \in [Wants -> Wants]
  BY <1>13, <1>17
<1> QED BY <1>12, <1>18

(* What the loop ends with is available.                                   *)
LEMMA ShrunkFits ==
  ASSUME NEW w \in Wants
  PROVE  /\ Shrunk[w] \in Wants
         /\ Shrunk[w].enc + Shrunk[w].dec <= w.avail
<1> DEFINE N == {n \in Nat : \A v \in Wants : v.enc + v.dec < n
                                 => Shrunk[v].enc + Shrunk[v].dec <= v.avail}
<1>1. 0 \in N
  <2>1. \A v \in Wants : ~(v.enc + v.dec < 0)
    BY DEF Wants
  <2> QED BY <2>1
<1>2. ASSUME NEW n \in Nat, n \in N
      PROVE  n + 1 \in N
  <2>1. ASSUME NEW v \in Wants, v.enc + v.dec < n + 1
        PROVE  Shrunk[v].enc + Shrunk[v].dec <= v.avail
    <3>1. CASE v.enc + v.dec <= v.avail
      BY <3>1, ShrunkRule
    <3>2. CASE ~(v.enc + v.dec <= v.avail)
      <4>1. Less(v) \in Wants /\ Less(v).enc + Less(v).dec < v.enc + v.dec
            /\ Less(v).avail = v.avail
        BY <3>2, LessSmaller
      <4>2. Less(v).enc + Less(v).dec < n
        BY <2>1, <4>1 DEF Wants
      <4>3. Shrunk[v] = Shrunk[Less(v)]
        BY <3>2, ShrunkRule
      <4> QED BY <1>2, <4>1, <4>2, <4>3
    <3> QED BY <3>1, <3>2
  <2> QED BY <2>1
<1>3. Nat \subseteq N
  <2> HIDE DEF N
  <2> QED BY <1>1, <1>2, NatInd
<1>4. w.enc + w.dec + 1 \in Nat /\ w.enc + w.dec < w.enc + w.dec + 1
  BY DEF Wants
<1>5. Shrunk[w].enc + Shrunk[w].dec <= w.avail
  BY <1>3, <1>4
<1> QED BY <1>5, ShrunkRule

-----------------------------------------------------------------------------
(* What SBufferClientCheck asks for is there: keys of the QBuffer can be   *)
(* picked for both directions.                                             *)

(* The demands never exceed what is available.                             *)
LEMMA DemandsFit ==
  ASSUME NEW e, NEW d, e.bits \in Nat, d.bits \in Nat, NEW avail \in Nat
  PROVE  LET w == Demands(e, d, avail)
         IN w.enc \in Nat /\ w.dec \in Nat /\ w.enc + w.dec <= avail
<1>1. e.bits < Mthr => Demand(e) \in Nat
  BY LinkAssumption, BoundsNat DEF Demand
<1>2. d.bits < Mthr => Demand(d) \in Nat
  BY LinkAssumption, BoundsNat DEF Demand
<1>3. PICK w : w = Demands(e, d, avail)
  OBVIOUS
<1>4. CASE e.bits < Mthr /\ d.bits < Mthr
  <2>1. PICK v : v = [enc |-> Demand(e), dec |-> Demand(d), avail |-> avail]
    OBVIOUS
  <2>2. v \in Wants /\ v.avail = avail
    BY <1>1, <1>2, <1>4, <2>1 DEF Wants
  <2>3. w = Shrunk[v]
    BY <1>3, <1>4, <2>1 DEF Demands
  <2>4. w \in Wants /\ w.enc + w.dec <= avail
    BY <2>2, <2>3, ShrunkFits
  <2> QED BY <1>3, <2>4 DEF Wants
<1>5. CASE ~(e.bits < Mthr /\ d.bits < Mthr)
  <2>1. w = [enc |-> IF e.bits < Mthr THEN Few(Demand(e), avail) ELSE 0,
             dec |-> IF d.bits < Mthr THEN Few(Demand(d), avail) ELSE 0]
    BY <1>3, <1>5 DEF Demands
  <2>2. \A n \in Nat : Few(n, avail) \in Nat /\ Few(n, avail) <= avail
    BY DEF Few
  <2> QED BY <1>1, <1>2, <1>3, <1>5, <2>1, <2>2
<1> QED BY <1>4, <1>5

(* The loop of Fill takes no more than its amount, and nothing where no    *)
(* key fits.                                                               *)
LEMMA FillCountFits ==
  ASSUME NEW b, NEW amount \in Nat
  PROVE  /\ FillCount(b, amount) \in Nat /\ MaxLen * FillCount(b, amount) <= amount
         /\ FillCount(b, amount) # 0 => Fits(b, MaxLen)
<1>1. PICK n \in Nat : n = amount \div MaxLen /\ MaxLen * n <= amount
  <2>1. amount \div MaxLen \in Nat
    BY BoundsNat
  <2>2. MaxLen * (amount \div MaxLen) <= amount
    BY BoundsNat
  <2> QED BY <2>1, <2>2
<1>2. MaxLen * 0 = 0
  BY BoundsNat
<1> QED BY <1>1, <1>2 DEF FillCount

(* The keys SBufferClientCheck may take for the two directions.            *)
Picks(bufs, s) ==
  LET want == Demands(bufs["enc"], bufs["dec"], s.bits - QMin)
  IN {p \in [Dir -> SUBSET s.keys] :
        /\ p["enc"] \cap p["dec"] = {}
        /\ \A d \in Dir : Cardinality(p[d]) = FillCount(bufs[d], want[d])}

(* Fill finds the keys it counts on, and they are in the QBuffer.          *)
LEMMA PicksThere ==
  ASSUME NEW bufs, NEW s, bufs["enc"].bits \in Nat, bufs["dec"].bits \in Nat,
         s.keys \in SUBSET KeyIds, s.bits \in Nat, s.bits > QMin,
         s.bits <= MaxLen * Cardinality(s.keys)
  PROVE  /\ Picks(bufs, s) # {}
         /\ \A p \in Picks(bufs, s) :
              /\ p["enc"] \in SUBSET s.keys /\ p["dec"] \in SUBSET s.keys
              /\ p["enc"] \cap p["dec"] = {}
              /\ p["enc"] = {} \/ Fits(bufs["enc"], MaxLen)
              /\ p["dec"] = {} \/ Fits(bufs["dec"], MaxLen)
              /\ MaxLen * (Cardinality(p["enc"]) + Cardinality(p["dec"])) <= s.bits
<1>1. s.bits - QMin \in Nat /\ s.bits - QMin <= s.bits
  BY LinkAssumption
<1>2. PICK w : w = Demands(bufs["enc"], bufs["dec"], s.bits - QMin)
  OBVIOUS
<1>3. w.enc \in Nat /\ w.dec \in Nat /\ w.enc + w.dec <= s.bits - QMin
  BY <1>1, <1>2, DemandsFit
<1>4. PICK m \in Nat, n \in Nat :
        /\ m = FillCount(bufs["enc"], w.enc) /\ MaxLen * m <= w.enc
        /\ n = FillCount(bufs["dec"], w.dec) /\ MaxLen * n <= w.dec
        /\ m # 0 => Fits(bufs["enc"], MaxLen)
        /\ n # 0 => Fits(bufs["dec"], MaxLen)
  BY <1>3, FillCountFits
<1>5. MaxLen * (m + n) <= s.bits
  <2>1. MaxLen * (m + n) = MaxLen * m + MaxLen * n /\ MaxLen * m \in Nat /\ MaxLen * n \in Nat
    BY Multiples
  <2> QED BY <1>1, <1>3, <1>4, <2>1
<1>6. IsFiniteSet(s.keys) /\ Cardinality(s.keys) \in Nat
  BY KeyIdsFinite, FS_Subset, FS_CardinalityType
<1>7. m + n <= Cardinality(s.keys)
  <2>1. PICK c \in Nat : c = Cardinality(s.keys)
    BY <1>6
  <2>2. CASE ~(m + n <= c)
    <3>1. c + 1 <= m + n /\ m + n \in Nat /\ c + 1 \in Nat
      BY <2>2
    <3>2. MaxLen * (c + 1) <= MaxLen * (m + n) /\ MaxLen * (c + 1) = MaxLen * c + MaxLen
          /\ MaxLen * c \in Nat /\ MaxLen * (m + n) \in Nat
      BY <3>1, Multiples
    <3> QED BY <1>5, <2>1, <3>2, BoundsNat
  <2> QED BY <2>1, <2>2
<1>8. \A p \in [Dir -> SUBSET s.keys] :
        p \in Picks(bufs, s) <=> /\ p["enc"] \cap p["dec"] = {}
                                 /\ Cardinality(p["enc"]) = m /\ Cardinality(p["dec"]) = n
  BY <1>2, <1>4 DEF Picks, Dir
<1>9. Picks(bufs, s) # {}
  <2>1. PICK T \in SUBSET s.keys : Cardinality(T) = m
    BY <1>6, <1>7, SubsetOfSize
  <2>2. IsFiniteSet(s.keys \ T) /\ Cardinality(s.keys \ T) = Cardinality(s.keys) - m
    <3>1. PICK K : K = s.keys
      OBVIOUS
    <3>2. IsFiniteSet(K) /\ K \cap T = T
      BY <1>6, <3>1
    <3>3. IsFiniteSet(K \ T) /\ Cardinality(K \ T) = Cardinality(K) - Cardinality(K \cap T)
      BY <3>2, FS_Difference
    <3> QED BY <2>1, <3>1, <3>2, <3>3
  <2>3. PICK U \in SUBSET (s.keys \ T) : Cardinality(U) = n
    <3>1. n <= Cardinality(s.keys \ T)
      BY <1>6, <1>7, <2>2
    <3> QED BY <2>2, <3>1, SubsetOfSize
  <2>4. PICK p : p = [d \in Dir |-> IF d = "enc" THEN T ELSE U]
    OBVIOUS
  <2>5. p \in [Dir -> SUBSET s.keys] /\ p["enc"] = T /\ p["dec"] = U /\ T \cap U = {}
    BY <2>3, <2>4 DEF Dir
  <2> QED BY <1>8, <2>1, <2>3, <2>5
<1>10. ASSUME NEW p \in Picks(bufs, s)
       PROVE  /\ p["enc"] \in SUBSET s.keys /\ p["dec"] \in SUBSET s.keys
              /\ p["enc"] \cap p["dec"] = {}
              /\ p["enc"] = {} \/ Fits(bufs["enc"], MaxLen)
              /\ p["dec"] = {} \/ Fits(bufs["dec"], MaxLen)
              /\ MaxLen * (Cardinality(p["enc"]) + Cardinality(p["dec"])) <= s.bits
  <2>1. p \in [Dir -> SUBSET s.keys]
    BY DEF Picks
  <2>2. p["enc"] \in SUBSET s.keys /\ p["dec"] \in SUBSET s.keys
    BY <2>1 DEF Dir
  <2>3. IsFiniteSet(p["enc"]) /\ IsFiniteSet(p["dec"])
    BY <1>6, <2>2, FS_Subset
  <2>4. Cardinality(p["enc"]) = m /\ Cardinality(p["dec"]) = n /\ p["enc"] \cap p["dec"] = {}
    BY <1>8, <2>1
  <2> QED BY <1>4, <1>5, <2>2, <2>3, <2>4, FS_EmptySet
<1> QED BY <1>9, <1>10

-----------------------------------------------------------------------------
(* Merging is well defined: the candidates that are left get fewer.        *)
Given(w, k) == Cardinality(CandidateCells(w.buf, k, Ask(w.need)))

Next1(w, k) == TransformCandidate(w.buf, k, Ask(w.need))

(* What is still to merge when the candidate k does not suffice.           *)
Rest(w, k) == [need |-> w.need - Given(w, k), buf |-> Next1(w, k)]

Short(w) == {k \in Candidates(w.buf, Ask(w.need)) : ~(Given(w, k) >= w.need)}

(* What a candidate gives is a number of units, all that is needed if it   *)
(* is split.                                                               *)
LEMMA GivenNat ==
  ASSUME NEW w \in Amounts, NEW k \in Candidates(w.buf, Ask(w.need))
  PROVE  /\ Ask(w.need) \in Nat /\ Given(w, k) \in Nat
         /\ Splits(w.buf, k, Ask(w.need)) => Given(w, k) = w.need
<1>1. k \in KeyIds /\ w.need \in Nat /\ w.buf \in Buffer
  BY CandidatesReady DEF ReadyKeys, Amounts
<1>2. PICK t \in Nat : t = Ask(w.need) /\ (t # 0 => t = w.need)
  BY <1>1 DEF Ask
<1>3. PICK l \in Nat, h \in Nat : l = w.buf.lo[k] /\ h = w.buf.hi[k]
  BY <1>1, BoundsNat DEF Buffer
<1>4. CASE Splits(w.buf, k, t)
  <2>1. CandidateCells(w.buf, k, t) = {k} \X (l + 1 .. l + t) /\ t # 0
    BY <1>3, <1>4 DEF CandidateCells, Prefix, Splits
  <2>2. Cardinality({k} \X (l + 1 .. l + t)) = t
    <3>1. PICK n \in Nat : n = l + t
      OBVIOUS
    <3>2. l <= n /\ n - l = t
      BY <3>1
    <3>3. Cardinality({k} \X (l + 1 .. n)) = n - l
      BY <3>2, IntervalSize
    <3> QED BY <3>1, <3>2, <3>3
  <2> QED BY <1>2, <2>1, <2>2 DEF Given
<1>5. CASE ~Splits(w.buf, k, t)
  <2>1. CandidateCells(w.buf, k, t) = {k} \X (l + 1 .. h)
    BY <1>3, <1>5 DEF CandidateCells, KeyCells
  <2>2. IsFiniteSet({k} \X (l + 1 .. h))
    <3>1. IsFiniteSet({k})
      BY FS_Singleton
    <3>2. l + 1 \in Int /\ h \in Int
      OBVIOUS
    <3>3. IsFiniteSet(l + 1 .. h)
      BY <3>2, FS_Interval
    <3> QED BY <3>1, <3>3, FS_Product
  <2> QED BY <1>2, <1>5, <2>1, <2>2, FS_CardinalityType DEF Given
<1> QED BY <1>2, <1>4, <1>5

(* After a candidate that was not enough, fewer are left.                  *)
LEMMA RestSmaller ==
  ASSUME NEW w \in Amounts, NEW k \in Short(w)
  PROVE  /\ Rest(w, k) \in Amounts
         /\ Cardinality(ReadyKeys(Rest(w, k).buf)) < Cardinality(ReadyKeys(w.buf))
<1>1. k \in Candidates(w.buf, Ask(w.need)) /\ ~(Given(w, k) >= w.need)
  BY DEF Short
<1>2. Given(w, k) \in Nat /\ w.need \in Nat /\ Ask(w.need) \in Nat /\ w.buf \in Buffer
  BY <1>1, GivenNat DEF Amounts
<1>3. ~Splits(w.buf, k, Ask(w.need))
  BY <1>1, <1>2, GivenNat
<1>4. k \in ReadyKeys(w.buf)
  BY <1>1, CandidatesReady
<1>5. Next1(w, k) \in Buffer /\ ReadyKeys(Next1(w, k)) = ReadyKeys(w.buf) \ {k}
  BY <1>2, <1>3, <1>4, TakenWhole DEF Next1
<1>6. Cardinality(ReadyKeys(w.buf) \ {k}) = Cardinality(ReadyKeys(w.buf)) - 1
  <2>1. PICK S : S = ReadyKeys(w.buf)
    OBVIOUS
  <2>2. IsFiniteSet(S) /\ k \in S
    BY <1>4, <2>1, ReadyKeysFinite
  <2>3. Cardinality(S \ {k}) = Cardinality(S) - 1
    BY <2>2, FS_RemoveElement
  <2> QED BY <2>1, <2>3
<1>7. Rest(w, k) \in Amounts /\ Rest(w, k).buf = Next1(w, k)
  BY <1>1, <1>2, <1>5 DEF Rest, Amounts
<1> QED BY <1>5, <1>6, <1>7, ReadyKeysFinite

(* One step of Merge, the ways to merge the rest being given by h.         *)
Merged(w, k) ==
  [buf |-> Next1(w, k), ids |-> <<k>>, cells |-> Bytes(w.buf, k, Given(w, k)),
   surplus |-> IF Splits(w.buf, k, Ask(w.need)) THEN {k} ELSE {}]

MergeStep(w, h) ==
  IF Candidates(w.buf, Ask(w.need)) = {}
    THEN {[buf |-> Stop(w.buf), ids |-> <<>>, cells |-> <<>>, surplus |-> {}]}
    ELSE UNION {IF Given(w, k) >= w.need THEN {Merged(w, k)}
                ELSE {With(k, Bytes(w.buf, k, Given(w, k)), m) : m \in h[Rest(w, k)]}
                : k \in Candidates(w.buf, Ask(w.need))}

Outcomes ==
  Buffer \cup {Stop(w.buf) : w \in Amounts} \cup {Next1(w, k) : w \in Amounts, k \in KeyIds}

Ways == [buf : Outcomes, ids : Seq(KeyIds), cells : Seq(KeyIds \X Nat), surplus : SUBSET KeyIds]

(* A step of the recursion keeps its type.                                 *)
LEMMA MergeStepWays ==
  ASSUME NEW w \in Amounts, NEW h, \A k \in Short(w) : h[Rest(w, k)] \in SUBSET Ways
  PROVE  MergeStep(w, h) \in SUBSET Ways
<1>1. ASSUME NEW k \in Candidates(w.buf, Ask(w.need))
      PROVE  k \in KeyIds /\ Bytes(w.buf, k, Given(w, k)) \in Seq(KeyIds \X Nat)
  <2>1. k \in KeyIds
    BY CandidatesReady DEF ReadyKeys
  <2>2. w.buf.lo[k] \in Nat
    BY <2>1, BoundsNat DEF Amounts, Buffer
  <2>3. PICK n \in Nat : n = Given(w, k)
    BY GivenNat
  <2>4. [i \in 1 .. n |-> <<k, w.buf.lo[k] + i>>] \in [1 .. n -> KeyIds \X Nat]
    BY <2>1, <2>2
  <2>5. Bytes(w.buf, k, n) \in Seq(KeyIds \X Nat)
    BY <2>4 DEF Bytes
  <2> QED BY <2>1, <2>3, <2>5
<1>2. CASE Candidates(w.buf, Ask(w.need)) = {}
  <2>1. [buf |-> Stop(w.buf), ids |-> <<>>, cells |-> <<>>, surplus |-> {}] \in Ways
    BY DEF Ways, Outcomes
  <2> QED BY <1>2, <2>1 DEF MergeStep
<1>3. CASE Candidates(w.buf, Ask(w.need)) # {}
  <2>1. ASSUME NEW k \in Candidates(w.buf, Ask(w.need))
        PROVE  Merged(w, k) \in Ways
    <3>1. <<k>> \in Seq(KeyIds) /\ Next1(w, k) \in Outcomes
      BY <1>1 DEF Outcomes
    <3> QED BY <1>1, <3>1 DEF Merged, Ways
  <2>2. ASSUME NEW k \in Candidates(w.buf, Ask(w.need)), ~(Given(w, k) >= w.need),
               NEW m \in h[Rest(w, k)]
        PROVE  With(k, Bytes(w.buf, k, Given(w, k)), m) \in Ways
    <3>1. m \in Ways
      BY <2>2 DEF Short
    <3>2. <<k>> \o m.ids \in Seq(KeyIds)
      BY <1>1, <3>1 DEF Ways
    <3>3. Bytes(w.buf, k, Given(w, k)) \o m.cells \in Seq(KeyIds \X Nat)
      BY <1>1, <3>1 DEF Ways
    <3> QED BY <3>1, <3>2, <3>3 DEF With, Ways
  <2>3. ASSUME NEW k \in Candidates(w.buf, Ask(w.need))
        PROVE  (IF Given(w, k) >= w.need THEN {Merged(w, k)}
                ELSE {With(k, Bytes(w.buf, k, Given(w, k)), m) : m \in h[Rest(w, k)]})
                 \subseteq Ways
    BY <2>1, <2>2
  <2> QED BY <1>3, <2>3 DEF MergeStep
<1> QED BY <1>2, <1>3

(* The recursion of Merge is well founded: the loop ends.                  *)
LEMMA MergeRule ==
  \A w \in Amounts : Merge[w] = MergeStep(w, Merge)
<1> DEFINE size == [w \in Amounts |-> Cardinality(ReadyKeys(w.buf))]
           K == [w \in Amounts |-> {Rest(w, k) : k \in Short(w)}]
           T == SUBSET Ways
           Tables == UNION {[X -> T] : X \in SUBSET Amounts}
           O == [p \in Amounts \X Tables |-> MergeStep(p[1], p[2])]
           F == CHOOSE f : f = [w \in Amounts |-> MergeStep(w, f)]
<1>1. size \in [Amounts -> Nat]
  BY ReadyKeysFinite
<1>2. K \in [Amounts -> SUBSET Amounts]
  BY RestSmaller
<1>3. \A w \in Amounts : \A v \in K[w] : size[v] < size[w]
  BY RestSmaller
<1>4. \A w \in Amounts : \A k \in Short(w) : Rest(w, k) \in K[w]
  OBVIOUS
<1>5. \A w \in Amounts : \A h \in [K[w] -> T] :
        O[<<w, h>>] = MergeStep(w, h) /\ MergeStep(w, h) \in T
  <2>1. TAKE w \in Amounts
  <2>2. TAKE h \in [K[w] -> T]
  <2>3. K[w] \in SUBSET Amounts
    BY <1>2
  <2>4. \A k \in Short(w) : h[Rest(w, k)] \in T
    <3> HIDE DEF K, T
    <3> QED BY <1>4
  <2>5. MergeStep(w, h) \in T
    BY <2>4, MergeStepWays
  <2> HIDE DEF K, T
  <2>6. h \in Tables
    BY <2>3
  <2> HIDE DEF Tables
  <2> QED BY <2>5, <2>6
<1> HIDE DEF O
<1>6. PICK f : f \in [Amounts -> T] /\ Recurs(f, Amounts, K, O)
  <2> HIDE DEF size, K, T
  <2>1. \A w \in Amounts : \A h \in [K[w] -> T] : O[<<w, h>>] \in T
    BY <1>5
  <2> QED BY <1>1, <1>2, <1>3, <2>1, RecursBuilt
<1>7. \A w \in Amounts : f[w] = MergeStep(w, f)
  <2>1. TAKE w \in Amounts
  <2>2. PICK h : h = [v \in K[w] |-> f[v]]
    OBVIOUS
  <2>3. f[w] = O[<<w, h>>]
    BY <1>6, <2>2 DEF Recurs
  <2>4. K[w] \subseteq Amounts
    BY <1>2
  <2>5. h \in [K[w] -> T]
    <3> HIDE DEF K, T
    <3> QED BY <1>6, <2>2, <2>4
  <2>6. f[w] = MergeStep(w, h)
    <3> HIDE DEF K, T
    <3> QED BY <1>5, <2>3, <2>5
  <2>7. \A k \in Short(w) : h[Rest(w, k)] = f[Rest(w, k)]
    <3> HIDE DEF K
    <3> QED BY <1>4, <2>2
  <2>8. MergeStep(w, h) = MergeStep(w, f)
    <3>1. \A k \in Candidates(w.buf, Ask(w.need)) :
            ~(Given(w, k) >= w.need) => h[Rest(w, k)] = f[Rest(w, k)]
      BY <2>7 DEF Short
    <3> QED BY <3>1 DEF MergeStep
  <2> QED BY <2>6, <2>8
<1>8. f = [w \in Amounts |-> MergeStep(w, f)]
  BY <1>6, <1>7
<1>9. F = [w \in Amounts |-> MergeStep(w, F)]
  BY <1>8
<1>10. Merge = F
  BY DEF Merge, MergeStep, Given, Next1, Rest, Merged, Amounts
<1> HIDE DEF F
<1>11. Merge = [w \in Amounts |-> MergeStep(w, Merge)]
  BY <1>9, <1>10
<1> QED BY <1>11

(* What one candidate gives, and what it leaves of the store.              *)
LEMMA CandidateGives ==
  ASSUME NEW b, Full(b), NEW n \in Nat \ {0}, NEW k \in KeyIds, b.st[k] = "READY",
         NEW w, w = [need |-> n, buf |-> b], k \in Candidates(b, Ask(n))
  PROVE  /\ Given(w, k) \in Nat \ {0} /\ Given(w, k) <= n
         /\ IF Splits(b, k, Ask(n))
              THEN /\ Given(w, k) = n /\ n < KeyLen(b, k)
                   /\ Becomes(b, Next1(w, k), k, "INIT", b.lo[k] + n, b.hi[k])
              ELSE /\ Given(w, k) = KeyLen(b, k)
                   /\ Becomes(b, Next1(w, k), k, "NONE", 0, 0)
                   /\ Next1(w, k).bits = b.bits - KeyLen(b, k)
<1>1. w \in Amounts /\ w.need = n /\ w.buf = b
  BY FullFacts DEF Amounts
<1>2. PICK t \in Nat : t = Ask(n) /\ (t # 0 => t = n) /\ (t = 0 => n > MaxLen)
  BY BoundsNat DEF Ask
<1>3. PICK l \in Nat, h \in Nat : l = b.lo[k] /\ h = b.hi[k] /\ l < h /\ h <= MaxLen
                                  /\ KeyLen(b, k) = h - l
  BY FullFacts DEF Full
<1>4. CandidateChecked(b) = b
  BY CandidateCheckedSound DEF Full
<1>5. PICK c : c = Next1(w, k)
  OBVIOUS
<1>6. c = TransformCandidate(b, k, t)
  BY <1>1, <1>2, <1>5 DEF Next1
<1>7. IF Splits(b, k, t) THEN Becomes(b, c, k, "INIT", b.lo[k] + t, b.hi[k])
                         ELSE Becomes(b, c, k, "NONE", 0, 0)
  BY <1>4, <1>6, TransformSound DEF Full
<1>8. CASE Splits(b, k, t)
  <2>1. Given(w, k) = n /\ t = n /\ n < KeyLen(b, k)
    <3>1. t # 0 /\ KeyLen(b, k) > t
      BY <1>8 DEF Splits
    <3>2. Given(w, k) = n
      BY <1>1, <1>2, <1>8, GivenNat
    <3> QED BY <1>2, <1>3, <3>1, <3>2
  <2> QED BY <1>2, <1>5, <1>7, <1>8, <2>1
<1>9. CASE ~Splits(b, k, t)
  <2>1. Given(w, k) = h - l
    <3>1. CandidateCells(b, k, t) = {k} \X (l + 1 .. h)
      BY <1>3, <1>9 DEF CandidateCells, KeyCells
    <3>2. Cardinality({k} \X (l + 1 .. h)) = h - l
      <4>1. l <= h
        BY <1>3
      <4> QED BY <4>1, IntervalSize
    <3> QED BY <1>1, <1>2, <3>1, <3>2 DEF Given
  <2>2. h - l \in Nat \ {0} /\ h - l <= n
    <3>1. t # 0 => ~(h - l > t)
      BY <1>3, <1>9 DEF Splits
    <3> QED BY <1>2, <1>3, <3>1, BoundsNat
  <2>3. Becomes(b, c, k, "NONE", 0, 0)
    BY <1>7, <1>9
  <2>4. c.bits = b.bits - (h - l)
    <3>1. Shaped(b) /\ Shaped(c) /\ SameBut(b, c, k) /\ Sound(c)
      BY <2>3 DEF Full, Sound, Becomes, SameBut
    <3>2. Cardinality(ReadyCells(c)) + ReadyLen(b, k) = Cardinality(ReadyCells(b)) + ReadyLen(c, k)
      BY <3>1, ReadyDelta
    <3>3. c.st[k] = "NONE"
      BY <2>3 DEF Becomes, Full, Sound, Shaped, Buffer
    <3>4. ReadyLen(b, k) = h - l /\ ReadyLen(c, k) = 0
      BY <1>3, <3>3 DEF ReadyLen
    <3>5. SupplyCells(c) = {}
      BY <2>3 DEF Becomes, Full, SupplyCells
    <3>6. c.bits = Cardinality(ReadyCells(c)) + 0
      BY <3>1, <3>5, FS_EmptySet DEF Sound, ReadyAmount
    <3>7. b.bits = Cardinality(ReadyCells(b)) /\ Cardinality(ReadyCells(c)) \in Nat
          /\ Cardinality(ReadyCells(b)) \in Nat
      BY FullFacts, CountsFinite
    <3> QED BY <1>3, <3>2, <3>4, <3>6, <3>7
  <2> QED BY <1>2, <1>3, <1>5, <1>9, <2>1, <2>2, <2>3, <2>4
<1> QED BY <1>8, <1>9

-----------------------------------------------------------------------------
(* What a merge takes.  One that the first candidate completes.            *)
LEMMA DrawsOne ==
  ASSUME NEW b, Full(b), NEW n \in Nat \ {0}, NEW k \in KeyIds, b.st[k] = "READY",
         NEW w, w = [need |-> n, buf |-> b], k \in Candidates(b, Ask(n)), Given(w, k) = n
  PROVE  \E off : Draws(b, Merged(w, k), off, n)
<1> DEFINE sp == IF Splits(b, k, Ask(n)) THEN {k} ELSE {}
<1>1. PICK m : m = Merged(w, k)
  OBVIOUS
<1>2. m.buf = Next1(w, k) /\ m.ids = <<k>> /\ m.cells = Bytes(b, k, n) /\ m.surplus = sp
  BY <1>1 DEF Merged
<1>3. IF k \in sp THEN n < KeyLen(b, k) /\ Becomes(b, m.buf, k, "INIT", b.lo[k] + n, b.hi[k])
                  ELSE n = KeyLen(b, k) /\ Becomes(b, m.buf, k, "NONE", 0, 0)
  BY <1>2, CandidateGives
<1>4. PICK off : off = [i \in 0 .. 1 |-> IF i = 0 THEN 0 ELSE n]
  OBVIOUS
<1>5. off \in [0 .. 1 -> Nat] /\ off[0] = 0 /\ off[1] = n
  BY <1>4
<1>6. m.ids \in Seq(KeyIds) /\ Len(m.ids) = 1 /\ m.ids[1] = k /\ 1 .. 1 = {1}
  BY <1>2
<1>7. b.lo[k] \in Nat /\ b.st \in [KeyIds -> KeyState] /\ DOMAIN b.lo = KeyIds /\ DOMAIN b.hi = KeyIds
  BY FullFacts DEF Buffer
<1>8. Cuts(b, m.ids, m.surplus, off, n)
  BY <1>2, <1>3, <1>5, <1>6 DEF Cuts
<1>9. Fills(b, m.ids, off, m.cells, n)
  <2>1. Bytes(b, k, n) = [i \in 1 .. n |-> <<k, b.lo[k] + i>>]
    BY DEF Bytes
  <2>2. [i \in 1 .. n |-> <<k, b.lo[k] + i>>] \in [1 .. n -> KeyIds \X Nat]
    BY <1>7
  <2>3. m.cells \in Seq(KeyIds \X Nat) /\ Len(m.cells) = n
    BY <1>2, <2>1, <2>2
  <2>4. \A j \in 1 .. n : m.cells[j] = <<k, b.lo[k] + j>>
    BY <1>2, <2>1
  <2>5. \A j \in 1 .. n : off[1 - 1] + j = j
    BY <1>5
  <2>6. off[1] - off[1 - 1] = n
    BY <1>5
  <2> QED BY <1>6, <2>3, <2>4, <2>5, <2>6 DEF Fills
<1>10. Drains(b, m.buf, m.ids, m.surplus, off, "INIT")
  <2>1. off[1] - off[1 - 1] = n
    BY <1>5
  <2>2. \A j \in KeyIds : j # k => m.buf.st[j] = b.st[j] /\ m.buf.lo[j] = b.lo[j] /\ m.buf.hi[j] = b.hi[j]
    BY <1>3, <1>7 DEF Becomes
  <2>3. IF k \in sp THEN m.buf.st[k] = "INIT" /\ m.buf.hi[k] = b.hi[k] /\ m.buf.lo[k] = b.lo[k] + n
                    ELSE m.buf.st[k] = "NONE"
    BY <1>3, <1>7 DEF Becomes
  <2>4. Sound(m.buf) /\ m.buf.failed = b.failed /\ m.buf.supply = b.supply
    BY <1>3 DEF Becomes
  <2> HIDE DEF sp
  <2> QED BY <1>2, <1>6, <2>1, <2>2, <2>3, <2>4 DEF Drains
<1>11. Draws(b, m, off, n)
  BY <1>6, <1>8, <1>9, <1>10 DEF Draws
<1> QED BY <1>1, <1>11

(* Every merge draws just what was asked, from READY keys of the store.    *)
LEMMA MergeDraws ==
  ASSUME NEW b, Full(b), NEW n \in Nat \ {0}, n <= b.bits,
         NEW m \in Merge[[need |-> n, buf |-> b]]
  PROVE  \E off : Draws(b, m, off, n)
<1> DEFINE Drawn(w) == \A x \in Merge[w] : \E off : Draws(w.buf, x, off, w.need)
           N == {i \in Nat : \A w \in Amounts :
                   w.need # 0 /\ w.need < i /\ Full(w.buf) /\ w.need <= w.buf.bits => Drawn(w)}
<1>1. 0 \in N
  <2>1. \A w \in Amounts : w.need \in Nat /\ ~(w.need < 0)
    BY DEF Amounts
  <2> HIDE DEF Drawn
  <2> QED BY <2>1
<1>2. ASSUME NEW i \in Nat, i \in N
      PROVE  i + 1 \in N
  <2>1. ASSUME NEW w \in Amounts, w.need # 0, w.need < i + 1, Full(w.buf),
               w.need <= w.buf.bits
        PROVE  Drawn(w)
    <3>0. PICK c : c = w.buf
      OBVIOUS
    <3>1. PICK p \in Nat \ {0} : c = w.buf /\ p = w.need /\ w = [need |-> p, buf |-> c]
          /\ Full(c) /\ p <= c.bits /\ c.bits \in Nat
      <4>1. w = [need |-> w.need, buf |-> w.buf] /\ w.need \in Nat \ {0}
        BY <2>1 DEF Amounts
      <4>2. w.buf.bits \in Nat
        BY <2>1, FullFacts
      <4> QED BY <2>1, <3>0, <4>1, <4>2
    <3>2. c.bits # 0
      BY <3>1
    <3>3. PICK t \in Nat : t = Ask(p)
      BY DEF Ask
    <3>4. Candidates(c, t) # {} /\ \A k \in Candidates(c, t) : k \in KeyIds /\ c.st[k] = "READY"
      BY <3>1, <3>2, CandidatesThere
    <3>5. ASSUME NEW x \in Merge[w]
          PROVE  \E off : Draws(c, x, off, p)
      <4>1. x \in MergeStep(w, Merge)
        BY <3>5, MergeRule
      <4>2. PICK k \in Candidates(c, t) :
              x \in IF Given(w, k) >= p THEN {Merged(w, k)}
                    ELSE {With(k, Bytes(c, k, Given(w, k)), y) : y \in Merge[Rest(w, k)]}
        BY <3>1, <3>3, <3>4, <4>1 DEF MergeStep
      <4>3. k \in KeyIds /\ c.st[k] = "READY"
        BY <3>4
      <4>4. PICK g \in Nat \ {0} : g = Given(w, k) /\ g <= p
        BY <3>1, <3>3, <4>3, CandidateGives
      <4>5. CASE g >= p
        <5>1. Given(w, k) = p /\ x = Merged(w, k)
          BY <4>2, <4>4, <4>5
        <5> QED BY <3>1, <3>3, <4>3, <5>1, DrawsOne
      <4>6. CASE ~(g >= p)
        <5>1. PICK y \in Merge[Rest(w, k)] : x = With(k, Bytes(c, k, g), y)
          BY <4>2, <4>4, <4>6
        <5>2. PICK d : d = Next1(w, k)
          OBVIOUS
        <5>3. Becomes(c, d, k, "NONE", 0, 0) /\ g = KeyLen(c, k) /\ d.bits = c.bits - g
          BY <3>1, <3>3, <4>3, <4>4, <4>6, <5>2, CandidateGives
        <5>4. Full(d)
          BY <3>1, <4>3, <5>3, BecomesFull
        <5>5. Rest(w, k) = [need |-> p - g, buf |-> d] /\ p - g \in Nat \ {0} /\ p - g < i
              /\ p - g <= d.bits
          BY <2>1, <3>1, <4>4, <4>6, <5>2, <5>3 DEF Rest
        <5>6. PICK v : v = Rest(w, k)
          OBVIOUS
        <5>7. v \in Amounts /\ v.need = p - g /\ v.buf = d
          BY <5>4, <5>5, <5>6, FullFacts DEF Amounts
        <5>8. Drawn(v)
          <6> HIDE DEF Drawn
          <6> QED BY <1>2, <5>4, <5>5, <5>7
        <5>9. PICK off : Draws(d, y, off, p - g)
          BY <5>1, <5>6, <5>7, <5>8
        <5>10. PICK q0 \in Nat \ {0} : q0 = p - g /\ g + q0 = p
          BY <5>5
        <5>11. PICK z : z = With(k, Bytes(c, k, g), y)
          OBVIOUS
        <5>12. Joins(c, k, g, y, z)
          BY <5>11 DEF Joins, With, Bytes
        <5>13. \E f : Draws(c, z, f, g + q0)
          BY <3>1, <4>3, <5>3, <5>9, <5>10, <5>12, DrawsMore
        <5> QED BY <5>1, <5>10, <5>11, <5>13
      <4> QED BY <4>5, <4>6
    <3> QED BY <3>1, <3>5
  <2> HIDE DEF Drawn
  <2> QED BY <2>1
<1>3. Nat \subseteq N
  <2> HIDE DEF N
  <2> QED BY <1>1, <1>2, NatInd
<1>4. PICK w : w = [need |-> n, buf |-> b]
  OBVIOUS
<1>5. w \in Amounts /\ w.need = n /\ w.buf = b
  BY <1>4, FullFacts DEF Amounts
<1>6. n + 1 \in N /\ n < n + 1
  <2> HIDE DEF N
  <2> QED BY <1>3
<1>7. Drawn(w)
  <2> HIDE DEF Drawn
  <2> QED BY <1>5, <1>6
<1> QED BY <1>4, <1>5, <1>7

(* The keys that ProcessSKeyCreateRequest takes, and the supply keys that  *)
(* it stores, one after the other.                                         *)
TakeNext(p, ids, total, i) ==
  IF i < Len(ids) THEN TakeWhole(p, ids[i]) ELSE TakeHalf(p, ids[i], total - Len(p.cells))

(* ProcessSKeyCreateRequest takes the candidates one by one.               *)
LEMMA TakenBy ==
  ASSUME NEW b, NEW ids, Len(ids) \in Nat, NEW total, NEW R,
         <<0, [buf |-> b, cells |-> <<>>]>> \in R,
         \A i \in 1 .. Len(ids) : \A p :
           <<i - 1, p>> \in R => <<i, TakeNext(p, ids, total, i)>> \in R
  PROVE  <<Len(ids), Taken(b, ids, total)>> \in R
<1>0. PICK n \in Nat : n = Len(ids)
  OBVIOUS
<1>0a. PICK e : e = [buf |-> b, cells |-> <<>>]
  OBVIOUS
<1> DEFINE T == {x[2] : x \in R}
           O == [x \in (1 .. n) \X T |-> TakeNext(x[2], ids, total, x[1])]
           G(f, i) == IF i < Len(ids) THEN TakeWhole(f[i - 1], ids[i])
                      ELSE TakeHalf(f[i - 1], ids[i], total - Len(f[i - 1].cells))
           F == CHOOSE f : f = [i \in 0 .. n |-> IF i = 0 THEN e ELSE G(f, i)]
<1>1. \A i \in 1 .. n : \A p : <<i - 1, p>> \in R => O[<<i, p>>] = TakeNext(p, ids, total, i)
  <2>1. TAKE i \in 1 .. n
  <2>2. TAKE p
  <2>3. HAVE <<i - 1, p>> \in R
  <2>4. p \in T
    BY <2>3
  <2> HIDE DEF T
  <2> QED BY <2>4
<1>2. \A i \in 1 .. n : \A p : <<i - 1, p>> \in R => <<i, O[<<i, p>>]>> \in R
  <2> HIDE DEF O
  <2> QED BY <1>0, <1>1
<1>3a. PICK f : Steps(f, n, e, O, R)
  <2> HIDE DEF O
  <2>1. <<0, e>> \in R
    BY <1>0a
  <2> QED BY <1>2, <2>1, StepsBuilt
<1>3. /\ f = [i \in 0 .. n |-> IF i = 0 THEN e ELSE O[<<i, f[i - 1]>>]]
      /\ \A i \in 0 .. n : <<i, f[i]>> \in R
  <2> HIDE DEF O
  <2> QED BY <1>3a DEF Steps
<1>4. \A i \in 0 .. n : i # 0 => O[<<i, f[i - 1]>>] = G(f, i)
  <2>1. TAKE i \in 0 .. n
  <2>2. HAVE i # 0
  <2>3. i \in 1 .. n /\ <<i - 1, f[i - 1]>> \in R
    <3>1. i \in 1 .. n /\ i - 1 \in 0 .. n
      BY <2>2
    <3> QED BY <1>3, <3>1
  <2>4. O[<<i, f[i - 1]>>] = TakeNext(f[i - 1], ids, total, i)
    <3> HIDE DEF O
    <3> QED BY <1>1, <2>3
  <2> HIDE DEF O
  <2> QED BY <1>0, <2>4 DEF TakeNext
<1> HIDE DEF O
<1>5. f = [i \in 0 .. n |-> IF i = 0 THEN e ELSE G(f, i)]
  <2> HIDE DEF G
  <2> QED BY <1>3, <1>4
<1>6. F = [i \in 0 .. n |-> IF i = 0 THEN e ELSE G(F, i)]
  <2> HIDE DEF G
  <2> QED BY <1>5
<1>7. Taken(b, ids, total) = F[n]
  BY <1>0, <1>0a DEF Taken
<1> HIDE DEF F
<1>8. F[0] = e /\ \A i \in 1 .. n : F[i] = TakeNext(F[i - 1], ids, total, i)
  <2>1. F[0] = e /\ \A i \in 1 .. n : F[i] = G(F, i)
    <3> HIDE DEF G
    <3>1. 0 \in 0 .. n /\ \A i \in 1 .. n : i \in 0 .. n /\ i # 0
      OBVIOUS
    <3> QED BY <1>6, <3>1
  <2> QED BY <1>0, <2>1 DEF TakeNext
<1> HIDE DEF G
<1> DEFINE N == {i \in Nat : i <= n => <<i, F[i]>> \in R}
<1>9. 0 \in N
  BY <1>0a, <1>8
<1>10. ASSUME NEW i \in Nat, i \in N
       PROVE  i + 1 \in N
  <2>1. ASSUME i + 1 <= n
        PROVE  <<i + 1, F[i + 1]>> \in R
    <3>1. PICK j \in 1 .. n : j = i + 1 /\ j - 1 = i
      BY <2>1
    <3>2. PICK p : p = F[i]
      OBVIOUS
    <3>3. <<j - 1, p>> \in R
      BY <1>10, <2>1, <3>1, <3>2
    <3>4. <<j, TakeNext(p, ids, total, j)>> \in R
      BY <1>0, <3>3
    <3> QED BY <1>8, <3>1, <3>2, <3>4
  <2> QED BY <2>1
<1>11. Nat \subseteq N
  <2> HIDE DEF N
  <2> QED BY <1>9, <1>10, NatInd
<1>12. <<n, F[n]>> \in R
  BY <1>11
<1> QED BY <1>0, <1>7, <1>12

StoreNext(c, p, ids, size, i) == StoreSupplyKey(c, ids[i], Piece(p.cells, size, i))

(* ProcessSKeyCreateRequest stores the supply keys one by one.             *)
LEMMA StoredBy ==
  ASSUME NEW p, NEW ids, Len(ids) \in Nat, NEW size, NEW R, <<0, p.buf>> \in R,
         \A i \in 1 .. Len(ids) : \A c :
           <<i - 1, c>> \in R => <<i, StoreNext(c, p, ids, size, i)>> \in R
  PROVE  <<Len(ids), WithSupply(p, ids, size)>> \in R
<1>0. PICK n \in Nat : n = Len(ids)
  OBVIOUS
<1>0a. PICK e : e = p.buf
  OBVIOUS
<1> DEFINE T == {x[2] : x \in R}
           O == [x \in (1 .. n) \X T |-> StoreNext(x[2], p, ids, size, x[1])]
           G(f, i) == StoreSupplyKey(f[i - 1], ids[i], Piece(p.cells, size, i))
           F == CHOOSE f : f = [i \in 0 .. n |-> IF i = 0 THEN e ELSE G(f, i)]
<1>1. \A i \in 1 .. n : \A c : <<i - 1, c>> \in R => O[<<i, c>>] = StoreNext(c, p, ids, size, i)
  <2>1. TAKE i \in 1 .. n
  <2>2. TAKE c
  <2>3. HAVE <<i - 1, c>> \in R
  <2>4. c \in T
    BY <2>3
  <2> HIDE DEF T
  <2> QED BY <2>4
<1>2. \A i \in 1 .. n : \A c : <<i - 1, c>> \in R => <<i, O[<<i, c>>]>> \in R
  <2> HIDE DEF O
  <2> QED BY <1>0, <1>1
<1>3a. PICK f : Steps(f, n, e, O, R)
  <2> HIDE DEF O
  <2>1. <<0, e>> \in R
    BY <1>0a
  <2> QED BY <1>2, <2>1, StepsBuilt
<1>3. /\ f = [i \in 0 .. n |-> IF i = 0 THEN e ELSE O[<<i, f[i - 1]>>]]
      /\ \A i \in 0 .. n : <<i, f[i]>> \in R
  <2> HIDE DEF O
  <2> QED BY <1>3a DEF Steps
<1>4. \A i \in 0 .. n : i # 0 => O[<<i, f[i - 1]>>] = G(f, i)
  <2>1. TAKE i \in 0 .. n
  <2>2. HAVE i # 0
  <2>3. i \in 1 .. n /\ <<i - 1, f[i - 1]>> \in R
    <3>1. i \in 1 .. n /\ i - 1 \in 0 .. n
      BY <2>2
    <3> QED BY <1>3, <3>1
  <2>4. O[<<i, f[i - 1]>>] = StoreNext(f[i - 1], p, ids, size, i)
    <3> HIDE DEF O
    <3> QED BY <1>1, <2>3
  <2> HIDE DEF O
  <2> QED BY <2>4 DEF StoreNext
<1> HIDE DEF O
<1>5. f = [i \in 0 .. n |-> IF i = 0 THEN e ELSE G(f, i)]
  <2> HIDE DEF G
  <2> QED BY <1>3, <1>4
<1>6. F = [i \in 0 .. n |-> IF i = 0 THEN e ELSE G(F, i)]
  <2> HIDE DEF G
  <2> QED BY <1>5
<1>7. WithSupply(p, ids, size) = F[n]
  BY <1>0, <1>0a DEF WithSupply
<1> HIDE DEF F
<1>8. F[0] = e /\ \A i \in 1 .. n : F[i] = StoreNext(F[i - 1], p, ids, size, i)
  <2>1. F[0] = e /\ \A i \in 1 .. n : F[i] = G(F, i)
    <3> HIDE DEF G
    <3>1. 0 \in 0 .. n /\ \A i \in 1 .. n : i \in 0 .. n /\ i # 0
      OBVIOUS
    <3> QED BY <1>6, <3>1
  <2> QED BY <2>1 DEF StoreNext
<1> HIDE DEF G
<1> DEFINE N == {i \in Nat : i <= n => <<i, F[i]>> \in R}
<1>9. 0 \in N
  BY <1>0a, <1>8
<1>10. ASSUME NEW i \in Nat, i \in N
       PROVE  i + 1 \in N
  <2>1. ASSUME i + 1 <= n
        PROVE  <<i + 1, F[i + 1]>> \in R
    <3>1. PICK j \in 1 .. n : j = i + 1 /\ j - 1 = i
      BY <2>1
    <3>2. PICK c : c = F[i]
      OBVIOUS
    <3>3. <<j - 1, c>> \in R
      BY <1>10, <2>1, <3>1, <3>2
    <3>4. <<j, StoreNext(c, p, ids, size, j)>> \in R
      BY <1>0, <3>3
    <3> QED BY <1>8, <3>1, <3>2, <3>4
  <2> QED BY <2>1
<1>11. Nat \subseteq N
  <2> HIDE DEF N
  <2> QED BY <1>9, <1>10, NatInd
<1>12. <<n, F[n]>> \in R
  BY <1>11
<1> QED BY <1>0, <1>7, <1>12

(* The buffer and the units when i of the keys ids are taken.              *)
TakenTo(b, p, ids, surplus, off, cells, i) ==
  /\ Sound(p.buf) /\ p.buf.failed = b.failed /\ p.buf.supply = b.supply
  /\ p.cells \in Seq(KeyIds \X Nat) /\ Len(p.cells) = off[i]
  /\ \A j \in 1 .. off[i] : p.cells[j] = cells[j]
  /\ \A k \in KeyIds : (\A j \in 1 .. i : ids[j] # k) =>
       p.buf.st[k] = b.st[k] /\ p.buf.lo[k] = b.lo[k] /\ p.buf.hi[k] = b.hi[k]
  /\ \A j \in 1 .. i :
       IF ids[j] \in surplus
         THEN /\ p.buf.st[ids[j]] = "READY" /\ p.buf.hi[ids[j]] = b.hi[ids[j]]
              /\ p.buf.lo[ids[j]] = b.lo[ids[j]] + (off[j] - off[j - 1])
         ELSE p.buf.st[ids[j]] = "NONE"

(* One more key is taken.                                                  *)
LEMMA TakenStep ==
  ASSUME NEW b, Sound(b), NEW ids, NEW surplus, NEW off, NEW cells, NEW n,
         Cuts(b, ids, surplus, off, n), Fills(b, ids, off, cells, n),
         NEW i \in 1 .. Len(ids),
         NEW p, TakenTo(b, p, ids, surplus, off, cells, i - 1),
         NEW k \in KeyIds, k = ids[i], NEW m \in Nat, m = off[i] - off[i - 1],
         NEW c, IF k \in surplus
                  THEN Becomes(p.buf, c, k, "READY", p.buf.lo[k] + m, p.buf.hi[k])
                  ELSE Becomes(p.buf, c, k, "NONE", 0, 0),
         NEW z, z = [buf |-> c, cells |-> p.cells \o Bytes(p.buf, k, m)]
  PROVE  TakenTo(b, z, ids, surplus, off, cells, i)
<1>1. /\ off[i] \in Nat /\ off[i - 1] \in Nat /\ off[i] = off[i - 1] + m
      /\ i \in Nat /\ i - 1 \in Nat
      /\ \A j \in 1 .. i : j \in 1 .. Len(ids) /\ (j = i \/ j \in 1 .. i - 1)
      /\ \A j \in 1 .. i - 1 : j \in 1 .. i /\ j # i /\ j \in 1 .. Len(ids)
  BY CutsFacts, SMTT(30)
<1>2. \A j \in 1 .. i - 1 : ids[j] # k /\ ids[j] \in KeyIds
  <2>1. \A j \in 1 .. Len(ids) : ids[j] = ids[i] => j = i
    BY DEF Cuts
  <2> QED BY <1>1, <2>1, CutsFacts
<1>3. p.buf.st[k] = b.st[k] /\ p.buf.lo[k] = b.lo[k] /\ p.buf.hi[k] = b.hi[k]
  BY <1>2 DEF TakenTo
<1>4. z.buf = c /\ z.cells = p.cells \o Bytes(p.buf, k, m)
  OBVIOUS
<1>5. /\ DOMAIN p.buf.st = KeyIds /\ DOMAIN p.buf.lo = KeyIds /\ DOMAIN p.buf.hi = KeyIds
  BY DEF TakenTo, Sound, Shaped, Buffer
<1>6. /\ Sound(c) /\ c.failed = b.failed /\ c.supply = b.supply
      /\ \A j \in KeyIds : j # k => /\ c.st[j] = p.buf.st[j] /\ c.lo[j] = p.buf.lo[j]
                                    /\ c.hi[j] = p.buf.hi[j]
      /\ IF k \in surplus THEN c.st[k] = "READY" /\ c.hi[k] = b.hi[k] /\ c.lo[k] = b.lo[k] + m
                          ELSE c.st[k] = "NONE"
  BY <1>3, <1>5 DEF TakenTo, Becomes
<1>7. ASSUME NEW j \in KeyIds, \A h \in 1 .. i : ids[h] # j
      PROVE  c.st[j] = b.st[j] /\ c.lo[j] = b.lo[j] /\ c.hi[j] = b.hi[j]
  <2>1. j # k /\ \A h \in 1 .. i - 1 : ids[h] # j
    <3>1. i \in 1 .. i
      BY <1>1
    <3> QED BY <1>1, <1>7, <3>1
  <2> QED BY <1>6, <2>1 DEF TakenTo
<1>8. ASSUME NEW j \in 1 .. i
      PROVE  IF ids[j] \in surplus
               THEN /\ c.st[ids[j]] = "READY" /\ c.hi[ids[j]] = b.hi[ids[j]]
                    /\ c.lo[ids[j]] = b.lo[ids[j]] + (off[j] - off[j - 1])
               ELSE c.st[ids[j]] = "NONE"
  <2>1. CASE j = i
    BY <1>6, <2>1
  <2>2. CASE j \in 1 .. i - 1
    <3>1. ids[j] # k /\ ids[j] \in KeyIds
      BY <1>2, <2>2
    <3>2. IF ids[j] \in surplus
            THEN /\ p.buf.st[ids[j]] = "READY" /\ p.buf.hi[ids[j]] = b.hi[ids[j]]
                 /\ p.buf.lo[ids[j]] = b.lo[ids[j]] + (off[j] - off[j - 1])
            ELSE p.buf.st[ids[j]] = "NONE"
      BY <2>2 DEF TakenTo
    <3> QED BY <1>6, <3>1, <3>2
  <2> QED BY <1>1, <2>1, <2>2
<1>9. /\ z.cells \in Seq(KeyIds \X Nat) /\ Len(z.cells) = off[i]
      /\ \A j \in 1 .. off[i] : z.cells[j] = cells[j]
  <2>1. PICK y : y = Bytes(p.buf, k, m)
    OBVIOUS
  <2>2. b.lo[k] \in Nat
    BY KeyFacts DEF Sound
  <2>3. y = [j \in 1 .. m |-> <<k, b.lo[k] + j>>]
    BY <1>3, <2>1 DEF Bytes
  <2>4. [j \in 1 .. m |-> <<k, b.lo[k] + j>>] \in [1 .. m -> KeyIds \X Nat]
    BY <2>2
  <2>5. y \in [1 .. m -> KeyIds \X Nat]
    BY <2>3, <2>4
  <2>6. y \in Seq(KeyIds \X Nat) /\ Len(y) = m /\ \A j \in 1 .. m : y[j] = <<k, b.lo[k] + j>>
    <3>1. y \in Seq(KeyIds \X Nat) /\ Len(y) = m
      BY <2>5
    <3> QED BY <2>3, <3>1
  <2>7. PICK X : X = KeyIds \X Nat
    OBVIOUS
  <2>8. p.cells \in Seq(X) /\ y \in Seq(X) /\ Len(p.cells) = off[i - 1]
    BY <2>6, <2>7 DEF TakenTo
  <2>9. /\ p.cells \o y \in Seq(X) /\ Len(p.cells \o y) = Len(p.cells) + Len(y)
        /\ \A j \in 1 .. Len(p.cells) + Len(y) :
             (p.cells \o y)[j] = IF j <= Len(p.cells) THEN p.cells[j] ELSE y[j - Len(p.cells)]
    BY <2>8, ConcatProperties
  <2>10. ASSUME NEW j \in 1 .. off[i]
         PROVE  z.cells[j] = cells[j]
    <3>1. z.cells[j] = IF j <= off[i - 1] THEN p.cells[j] ELSE y[j - off[i - 1]]
      BY <1>1, <1>4, <2>1, <2>6, <2>8, <2>9
    <3>2. CASE j <= off[i - 1]
      <4>1. j \in 1 .. off[i - 1]
        BY <1>1, <3>2
      <4> QED BY <3>1, <3>2, <4>1 DEF TakenTo
    <3>3. CASE ~(j <= off[i - 1])
      <4>0. PICK x \in Nat, y0 \in Nat : x = off[i - 1] /\ y0 = off[i] /\ y0 = x + m
        BY <1>1
      <4>0a. j \in 1 .. y0 /\ ~(j <= x) /\ m \in Nat /\ y0 = x + m
        BY <3>3, <4>0
      <4>0b. j - x \in 1 .. m /\ j = x + (j - x)
        <5>1. j \in Int /\ x < j /\ j <= x + m
          BY <4>0, <4>0a
        <5> QED BY <4>0a, <5>1
      <4>1. PICK h \in 1 .. m : h = j - off[i - 1] /\ j = off[i - 1] + h
        BY <4>0, <4>0b
      <4>2. \A g \in 1 .. off[i] - off[i - 1] :
              cells[off[i - 1] + g] = <<ids[i], b.lo[ids[i]] + g>>
        BY DEF Fills
      <4>3. h \in 1 .. off[i] - off[i - 1]
        BY <4>1
      <4>4. cells[j] = <<k, b.lo[k] + h>>
        BY <4>1, <4>2, <4>3
      <4> QED BY <2>6, <3>1, <3>3, <4>1, <4>4
    <3> QED BY <3>2, <3>3
  <2>11. Len(z.cells) = off[i] /\ z.cells \in Seq(KeyIds \X Nat)
    BY <1>1, <1>4, <2>1, <2>6, <2>7, <2>8, <2>9
  <2> QED BY <2>10, <2>11
<1> QED BY <1>4, <1>6, <1>7, <1>8, <1>9 DEF TakenTo

(* ProcessSKeyCreateRequest takes what the peer has cut, from keys that are*)
(* READY and cut at the same place.                                        *)
LEMMA TakenEffect ==
  ASSUME NEW b, Sound(b), NEW ids, NEW surplus, NEW off, NEW cells, NEW n,
         Cuts(b, ids, surplus, off, n), Fills(b, ids, off, cells, n),
         \A i \in 1 .. Len(ids) : b.st[ids[i]] = "READY"
  PROVE  /\ Drains(b, Taken(b, ids, n).buf, ids, surplus, off, "READY")
         /\ Taken(b, ids, n).cells = cells
<1>1. PICK L \in Nat \ {0} : L = Len(ids)
  BY CutsFacts
<1>2. /\ n \in Nat /\ \A i \in 1 .. L : /\ ids[i] \in KeyIds /\ i - 1 \in 0 .. L /\ i \in 0 .. L
                                        /\ off[i] \in Nat /\ off[i - 1] \in Nat
                                        /\ off[i] - off[i - 1] \in Nat \ {0}
  BY <1>1, CutsFacts
<1>3. off[0] = 0 /\ off[L] = n
  BY <1>1 DEF Cuts
<1> DEFINE Stage == [buf : Buffer, cells : Seq(KeyIds \X Nat)]
           R == {x \in (0 .. L) \X Stage : TakenTo(b, x[2], ids, surplus, off, cells, x[1])}
<1>4. <<0, [buf |-> b, cells |-> <<>>]>> \in R
  <2>1. PICK p : p = [buf |-> b, cells |-> <<>>]
    OBVIOUS
  <2>2. p.buf = b /\ p.cells = <<>> /\ b \in Buffer
    BY <2>1 DEF Sound, Shaped
  <2>3. <<>> \in Seq(KeyIds \X Nat) /\ Len(<<>>) = 0
    OBVIOUS
  <2>4. \A j \in 1 .. 0 : FALSE
    OBVIOUS
  <2>5. TakenTo(b, p, ids, surplus, off, cells, 0)
    BY <1>3, <2>2, <2>3, <2>4 DEF TakenTo
  <2>6. p \in Stage /\ 0 \in 0 .. L
    BY <2>1, <2>2, <2>3
  <2> QED BY <2>1, <2>5, <2>6
<1>5. ASSUME NEW i \in 1 .. L, NEW p, <<i - 1, p>> \in R
      PROVE  <<i, TakeNext(p, ids, n, i)>> \in R
  <2>1. TakenTo(b, p, ids, surplus, off, cells, i - 1)
    BY <1>5
  <2>2. PICK k \in KeyIds : k = ids[i]
    BY <1>2
  <2>3. PICK m \in Nat \ {0} : m = off[i] - off[i - 1]
    BY <1>2
  <2>4. \A j \in 1 .. i - 1 : ids[j] # k
    <3>1. \A j \in 1 .. L : ids[j] = ids[i] => j = i
      BY <1>1 DEF Cuts
    <3>2. \A j \in 1 .. i - 1 : j \in 1 .. L /\ j # i
      OBVIOUS
    <3> QED BY <2>2, <3>1, <3>2
  <2>5. /\ p.buf.st[k] = "READY" /\ p.buf.lo[k] = b.lo[k] /\ p.buf.hi[k] = b.hi[k]
        /\ Sound(p.buf) /\ Len(p.cells) = off[i - 1]
    BY <1>1, <2>1, <2>2, <2>4 DEF TakenTo
  <2>6. KeyLen(p.buf, k) = KeyLen(b, k) /\ KeyLen(p.buf, k) \in Nat
    BY <2>5, KeyFacts DEF KeyLen, Sound
  <2>7. IF k \in surplus THEN i = L /\ m < KeyLen(p.buf, k) ELSE m = KeyLen(p.buf, k)
    BY <1>1, <2>2, <2>3, <2>6 DEF Cuts
  <2>8. PICK c : c = IF i < L THEN GetKey(p.buf, k, TRUE) ELSE HalfKey(p.buf, k, m)
    OBVIOUS
  <2>9. PICK z : z = [buf |-> c, cells |-> p.cells \o Bytes(p.buf, k, m)]
    OBVIOUS
  <2>10. TakeNext(p, ids, n, i) = z
    <3>1. CASE i < L
      <4>1. k \notin surplus /\ m = KeyLen(p.buf, k)
        BY <2>7, <3>1
      <4>2. Held(p.buf, k)
        BY <2>5 DEF Held
      <4> QED BY <1>1, <2>2, <2>8, <2>9, <3>1, <4>1, <4>2 DEF TakeNext, TakeWhole
    <3>2. CASE ~(i < L)
      <4>1. i = L
        BY <3>2
      <4>2. n - Len(p.cells) = m
        BY <1>3, <2>3, <2>5, <4>1
      <4>3. m <= KeyLen(p.buf, k)
        BY <2>6, <2>7
      <4>4. TakeNext(p, ids, n, i) = TakeHalf(p, k, m)
        BY <1>1, <2>2, <3>2, <4>2 DEF TakeNext
      <4> QED BY <2>8, <2>9, <3>2, <4>3, <4>4 DEF TakeHalf
    <3> QED BY <3>1, <3>2
  <2>11. IF k \in surplus
           THEN Becomes(p.buf, c, k, "READY", p.buf.lo[k] + m, p.buf.hi[k])
           ELSE Becomes(p.buf, c, k, "NONE", 0, 0)
    <3>1. CASE i < L
      <4>1. k \notin surplus
        BY <2>7, <3>1
      <4>2. Becomes(p.buf, GetKey(p.buf, k, TRUE), k, "NONE", 0, 0)
        <5>1. /\ GetKey(p.buf, k, TRUE) = Upd(p.buf, k, "NONE", 0, 0,
                    p.buf.bits - KeyLen(p.buf, k), p.buf.nrKeys, p.buf.nrBits)
              /\ Sound(GetKey(p.buf, k, TRUE))
          BY <2>5, GetReadySound
        <5> QED BY <5>1, UpdBecomes
      <4> QED BY <2>8, <3>1, <4>1, <4>2
    <3>2. CASE ~(i < L)
      <4>1. m <= KeyLen(p.buf, k)
        BY <2>6, <2>7
      <4>2. IF KeyLen(p.buf, k) > m
              THEN Becomes(p.buf, HalfKey(p.buf, k, m), k, "READY", p.buf.lo[k] + m, p.buf.hi[k])
              ELSE Becomes(p.buf, HalfKey(p.buf, k, m), k, "NONE", 0, 0)
        BY <2>5, <4>1, HalfKeySound
      <4>3. KeyLen(p.buf, k) > m <=> k \in surplus
        BY <2>6, <2>7
      <4> QED BY <2>8, <3>2, <4>2, <4>3
    <3> QED BY <3>1, <3>2
  <2>12. TakenTo(b, z, ids, surplus, off, cells, i)
    BY <1>1, <2>1, <2>2, <2>3, <2>9, <2>11, TakenStep
  <2>13. z \in Stage
    <3>1. z.buf \in Buffer /\ z.cells \in Seq(KeyIds \X Nat)
      BY <2>12 DEF TakenTo, Sound, Shaped
    <3> QED BY <2>9, <3>1
  <2>14. <<i, z>> \in (0 .. L) \X Stage
    BY <2>13
  <2> QED BY <2>10, <2>12, <2>14
<1>6. <<L, Taken(b, ids, n)>> \in R
  <2> HIDE DEF R
  <2> QED BY <1>1, <1>4, <1>5, TakenBy
<1>7. PICK p : p = Taken(b, ids, n)
  OBVIOUS
<1>8. TakenTo(b, p, ids, surplus, off, cells, L)
  BY <1>6, <1>7
<1>9. Drains(b, p.buf, ids, surplus, off, "READY")
  BY <1>1, <1>8 DEF Drains, TakenTo
<1>10. p.cells = cells
  <2>1. PICK X : X = KeyIds \X Nat
    OBVIOUS
  <2>2. p.cells \in Seq(X) /\ cells \in Seq(X) /\ Len(p.cells) = n /\ Len(cells) = n
        /\ \A j \in 1 .. n : p.cells[j] = cells[j]
    BY <1>3, <1>8, <2>1 DEF TakenTo, Fills
  <2> QED BY <2>2
<1> QED BY <1>7, <1>9, <1>10

(* Each identifier of a request is given material of the link.             *)
LEMMA PieceCells ==
  ASSUME NEW number \in Nat, NEW size \in Nat \ {0}, NEW cells,
         \A j \in 1 .. number * size : cells[j] \in Cell,
         NEW i \in 1 .. number
  PROVE  Piece(cells, size, i) \in SUBSET Cell /\ Piece(cells, size, i) # {}
<1>1. \A j \in (i - 1) * size + 1 .. i * size : j \in 1 .. number * size
  BY PieceBounds
<1>2. i * size \in (i - 1) * size + 1 .. i * size
  BY PieceThere
<1> QED BY <1>1, <1>2 DEF Piece

(* What ProcessSKeyCreateRequest has stored for the identifiers ids.       *)
Stores(b, c, ids, cells, size, n) ==
  /\ Sound(c) /\ c.failed = b.failed /\ c.st = b.st /\ c.lo = b.lo /\ c.hi = b.hi
  /\ \A s \in SupplyIds : (\A j \in 1 .. n : ids[j] # s) => c.supply[s] = b.supply[s]
  /\ \A j \in 1 .. n : c.supply[ids[j]] = Piece(cells, size, j)

(* Each supply key stored holds its piece.                                 *)
LEMMA StoreAll ==
  ASSUME NEW p, Sound(p.buf), NEW ids \in Seq(SupplyIds), NEW size \in Nat \ {0},
         \A i \in 1 .. Len(ids) : \A j \in 1 .. Len(ids) : ids[i] = ids[j] => i = j,
         \A i \in 1 .. Len(ids) : p.buf.supply[ids[i]] = {},
         \A j \in 1 .. Len(ids) * size : p.cells[j] \in Cell
  PROVE  Stores(p.buf, WithSupply(p, ids, size), ids, p.cells, size, Len(ids))
<1>1. PICK L \in Nat : L = Len(ids)
  OBVIOUS
<1>2. PICK b : b = p.buf /\ Sound(b) /\ b \in Buffer
  BY DEF Sound, Shaped
<1> DEFINE R == {x \in (0 .. L) \X Buffer : Stores(b, x[2], ids, p.cells, size, x[1])}
<1>3. <<0, b>> \in R
  <2>1. \A j \in 1 .. 0 : FALSE
    OBVIOUS
  <2>2. Stores(b, b, ids, p.cells, size, 0)
    BY <1>2, <2>1 DEF Stores
  <2> QED BY <1>2, <2>2
<1>4. ASSUME NEW i \in 1 .. L, NEW c, <<i - 1, c>> \in R
      PROVE  <<i, StoreNext(c, p, ids, size, i)>> \in R
  <2>1. Stores(b, c, ids, p.cells, size, i - 1)
    BY <1>4
  <2>2. PICK s \in SupplyIds : s = ids[i]
    BY <1>1
  <2>3. PICK x \in SUBSET Cell : x = Piece(p.cells, size, i)
    BY <1>1, PieceCells
  <2>4. /\ \A j \in 1 .. i - 1 : j \in 1 .. L /\ j # i /\ j \in 1 .. i
        /\ \A j \in 1 .. i : j = i \/ j \in 1 .. i - 1
        /\ i \in 1 .. i
    OBVIOUS
  <2>5. \A j \in 1 .. i - 1 : ids[j] # s /\ ids[j] \in SupplyIds
    BY <1>1, <2>2, <2>4
  <2>6. c.supply[s] = {}
    BY <1>1, <1>2, <2>1, <2>2, <2>5 DEF Stores
  <2>7. PICK d : d = StoreSupplyKey(c, s, x)
    OBVIOUS
  <2>8. SupplyBecomes(c, d, s, x)
    BY <2>1, <2>6, <2>7, StoreSupplySound DEF Stores
  <2>9. StoreNext(c, p, ids, size, i) = d
    BY <2>2, <2>3, <2>7 DEF StoreNext
  <2>10. DOMAIN c.supply = SupplyIds
    BY <2>1 DEF Stores, Sound, Shaped, Buffer
  <2>11. d.supply[s] = x /\ \A t \in SupplyIds : t # s => d.supply[t] = c.supply[t]
    BY <2>8, <2>10 DEF SupplyBecomes
  <2>12. \A t \in SupplyIds : (\A j \in 1 .. i : ids[j] # t) => d.supply[t] = b.supply[t]
    BY <2>1, <2>2, <2>4, <2>11 DEF Stores
  <2>13. \A j \in 1 .. i : d.supply[ids[j]] = Piece(p.cells, size, j)
    BY <2>1, <2>2, <2>3, <2>4, <2>5, <2>11 DEF Stores
  <2>14. /\ Sound(d) /\ d.failed = b.failed /\ d.st = b.st /\ d.lo = b.lo /\ d.hi = b.hi
    BY <2>1, <2>8 DEF Stores, SupplyBecomes
  <2>15. Stores(b, d, ids, p.cells, size, i)
    BY <2>12, <2>13, <2>14 DEF Stores
  <2>16. d \in Buffer
    BY <2>14 DEF Sound, Shaped
  <2> QED BY <2>9, <2>15, <2>16
<1>5. <<L, WithSupply(p, ids, size)>> \in R
  <2>1. <<0, p.buf>> \in R
    <3> HIDE DEF R
    <3> QED BY <1>2, <1>3
  <2> HIDE DEF R
  <2> QED BY <1>1, <1>4, <2>1, StoredBy
<1> QED BY <1>1, <1>2, <1>5

-----------------------------------------------------------------------------
(* The inductive invariant, part by part.  The parts are stated of the     *)
(* values of the variables, because a step at the master changes them more *)
(* than once: what it does first, then FILL for "enc", then for "dec".     *)
(* Direction n is the path of keys from the "enc" of node n, e, to the     *)
(* "dec" of its peer, d, with the messages out to the peer and the queries *)
(* qs of n.                                                                *)

(* Messages are well formed, and are where AnswersMatch wants them; only   *)
(* the master sends FILL.                                                  *)
Messages == {m \in Message : m.type = "filled" => m.accepted \cap m.rejected = {}}

Listed(nt, qy) ==
  /\ \A n \in Node : /\ nt[n] \in Seq(Messages) /\ qy[n] \in Seq(Messages)
                     /\ Matched(nt[n], nt[Peer(n)], qy[n])
                     /\ \A i \in 1 .. Len(qy[n]) : Request(qy[n][i])
  /\ \A i \in 1 .. Len(qy["B"]) : qy["B"][i].type = "skey"

Stocked(bs) ==
  \A n \in Node : /\ Kept(bs[n]["enc"]) /\ Kept(bs[n]["dec"])
                  /\ \A s \in SupplyIds : bs[n]["enc"].supply[s] = {}

(* The QBuffers hold what they count, the master's at least that.          *)
Banked(st, qb) ==
  /\ \A n \in Node : /\ st[n] \in SUBSET KeyIds /\ qb[n].keys \in SUBSET KeyIds
                     /\ qb[n].keys \subseteq st[n]
                     /\ qb[n] = [keys |-> qb[n].keys, bits |-> qb[n].bits]
                     /\ qb[n].bits \in Nat /\ qb[n].bits <= QMax
  /\ qb["A"].bits <= MaxLen * Cardinality(qb["A"].keys)
  /\ qb["B"].bits = MaxLen * Cardinality(qb["B"].keys)

(* A key is INIT if and only if one query claims it.                       *)
Claims(r, d) ==
  IF r.type = "fill" THEN IF r.dir = d THEN r.keys ELSE {}
                     ELSE IF d = "enc" THEN r.surplus ELSE {}

Claimed(bs, qy) ==
  /\ \A n \in Node, d \in Dir, k \in KeyIds :
       bs[n][d].st[k] = "INIT" <=> \E i \in 1 .. Len(qy[n]) : k \in Claims(qy[n][i], d)
  /\ \A n \in Node, d \in Dir, k \in KeyIds : \A i, j \in 1 .. Len(qy[n]) :
       k \in Claims(qy[n][i], d) /\ k \in Claims(qy[n][j], d) => i = j

(* A key in a QBuffer, or not yet stored, is in no buffer, and a key is in *)
(* one buffer of a node at most.                                           *)
Absent(bs, n, k) == bs[n]["enc"].st[k] = "NONE" /\ bs[n]["dec"].st[k] = "NONE"

Located(st, qb, bs) ==
  /\ \A k \in KeyIds : k \in qb["A"].keys \/ k \notin st["A"] => Absent(bs, "A", k) /\ Absent(bs, "B", k)
  /\ \A k \in KeyIds : k \in qb["B"].keys \/ k \notin st["B"] => Absent(bs, "B", k)
  /\ \A n \in Node, k \in KeyIds : bs[n]["enc"].st[k] = "NONE" \/ bs[n]["dec"].st[k] = "NONE"

(* A key of a FILL is whole at the master, and not at the peer until the   *)
(* answer that accepts it is on its way, when the peer has it whole.       *)
AcceptedAt(s, i, k) == i \in 1 .. Len(s) /\ s[i].type = "filled" /\ k \in s[i].accepted

Filling(bs, nt, qy) ==
  /\ \A i \in 1 .. Len(qy["A"]) : qy["A"][i].type = "fill" =>
       \A k \in qy["A"][i].keys :
         /\ bs["A"][qy["A"][i].dir].lo[k] = 0 /\ bs["A"][qy["A"][i].dir].hi[k] = MaxLen
         /\ Absent(bs, "B", k) \/ \E j \in 1 .. Len(nt["A"]) : AcceptedAt(nt["A"], j, k)
  /\ \A i \in 1 .. Len(nt["A"]), k \in KeyIds :
       AcceptedAt(nt["A"], i, k) /\ bs["A"]["enc"].st[k] = "INIT" =>
         /\ bs["B"]["dec"].st[k] = "READY"
         /\ bs["B"]["dec"].lo[k] = 0 /\ bs["B"]["dec"].hi[k] = MaxLen

(* A READY key of e is in d, cut at the same place, and is READY there     *)
(* unless the answer that makes it so is on its way.                       *)
Mirrored(e, d) ==
  \A k \in KeyIds : e.st[k] = "READY" => d.st[k] # "NONE" /\ d.lo[k] = e.lo[k] /\ d.hi[k] = e.hi[k]

Announced(e, d, out) ==
  \A k \in KeyIds : e.st[k] = "READY" /\ d.st[k] = "INIT" =>
    \E i \in 1 .. Len(out) : AcceptedAt(out, i, k)

(* A SKEY_CREATE on its way names what d has and e has no more, and the    *)
(* units of d that it stands for are those that were served.               *)
Names(x, k) == \E i \in 1 .. Len(x.ids) : x.ids[i] = k
Gives(x, s) == \E i \in 1 .. Len(x.supply) : x.supply[i] = s

Left(x, e, d, off) ==
  \A i \in 1 .. Len(x.ids) :
    /\ d.st[x.ids[i]] # "NONE"
    /\ IF x.ids[i] \in x.surplus
         THEN /\ e.st[x.ids[i]] = "INIT" /\ e.hi[x.ids[i]] = d.hi[x.ids[i]]
              /\ e.lo[x.ids[i]] = d.lo[x.ids[i]] + (off[i] - off[i - 1])
         ELSE e.st[x.ids[i]] = "NONE"

Served(x, cells, sv) == \A i \in 1 .. Len(x.supply) : sv[x.supply[i]] = Piece(cells, x.size, i)

Total(x) == Len(x.supply) * x.size

Cut(x, e, d, sv) ==
  \E off, cells : /\ Cuts(d, x.ids, x.surplus, off, Total(x))
                  /\ Fills(d, x.ids, off, cells, Total(x))
                  /\ Left(x, e, d, off) /\ Served(x, cells, sv)

Fresh(x, d) ==
  /\ x.size \in Nat \ {0} /\ x.supply \in Seq(SupplyIds)
  /\ \A i, j \in 1 .. Len(x.supply) : x.supply[i] = x.supply[j] => i = j
  /\ \A i \in 1 .. Len(x.supply) : d.supply[x.supply[i]] = {}

IsCut(out, i) == i \in 1 .. Len(out) /\ out[i].type = "skey"

Sending(e, d, out, sv) ==
  \A i \in 1 .. Len(out) : IsCut(out, i) => Cut(out[i], e, d, sv) /\ Fresh(out[i], d)

Waiting(d, out) ==
  \A i \in 1 .. Len(out), k \in KeyIds :
    IsCut(out, i) /\ Names(out[i], k) /\ d.st[k] = "INIT" =>
      \E j \in 1 .. Len(out) : j < i /\ AcceptedAt(out, j, k)

Apart(out) ==
  \A i, j \in 1 .. Len(out) : IsCut(out, i) /\ IsCut(out, j) /\ i # j =>
    /\ \A k \in KeyIds : ~(Names(out[i], k) /\ Names(out[j], k))
    /\ \A s \in SupplyIds : ~(Gives(out[i], s) /\ Gives(out[j], s))

(* The rest of a split key is cut off at the peer when it is READY again.  *)
Cutting(e, d, out, qs) ==
  \A i \in 1 .. Len(qs), k \in KeyIds : qs[i].type = "skey" /\ k \in qs[i].surplus =>
    \/ \E j \in 1 .. Len(out) : IsCut(out, j) /\ k \in out[j].surplus
    \/ d.st[k] = "READY" /\ d.lo[k] = e.lo[k] /\ d.hi[k] = e.hi[k]

(* What the peer has stored and given is what was served.                  *)
Supplied(d, sv, fd) ==
  \A s \in SupplyIds : d.supply[s] \in {{}, sv[s]} /\ fd[s] \in {{}, sv[s]}

Direction(e, d, out, qs, sv, fd) ==
  /\ Mirrored(e, d) /\ Announced(e, d, out) /\ Sending(e, d, out, sv) /\ Waiting(d, out)
  /\ Apart(out) /\ Cutting(e, d, out, qs) /\ Supplied(d, sv, fd)

Typed(sv, fd) == \A n \in Node, s \in SupplyIds : sv[n][s] \in SUBSET Cell /\ fd[n][s] \in SUBSET Cell

Invariant(st, qb, bs, nt, qy, sv, fd) ==
  /\ Listed(nt, qy) /\ Stocked(bs) /\ Banked(st, qb) /\ Claimed(bs, qy)
  /\ Located(st, qb, bs) /\ Filling(bs, nt, qy) /\ Typed(sv, fd)
  /\ \A n \in Node : Direction(bs[n]["enc"], bs[Peer(n)]["dec"], nt[Peer(n)], qy[n], sv[n], fd[Peer(n)])

-----------------------------------------------------------------------------
(* A direction under each of the changes that a step makes to it.          *)

(* A message that is no SKEY_CREATE is sent.                               *)
LEMMA OutSent ==
  ASSUME NEW e, NEW d, NEW out \in Seq(Messages), NEW qs, NEW sv, NEW fd,
         Direction(e, d, out, qs, sv, fd),
         NEW m \in Messages, m.type # "skey"
  PROVE  Direction(e, d, Append(out, m), qs, sv, fd)
<1>1. PICK z : z = Append(out, m)
  OBVIOUS
<1>2. PICK L \in Nat : L = Len(out)
  OBVIOUS
<1>3. /\ Len(z) = L + 1 /\ \A i \in 1 .. L : i \in 1 .. L + 1 /\ z[i] = out[i]
      /\ z[L + 1] = m /\ \A i \in 1 .. L + 1 : i \in 1 .. L \/ i = L + 1
  BY <1>1, <1>2, AppendFacts
<1>4. \A i, k : AcceptedAt(out, i, k) => AcceptedAt(z, i, k)
  BY <1>2, <1>3 DEF AcceptedAt
<1>5. \A i : IsCut(z, i) => i \in 1 .. L /\ IsCut(out, i) /\ z[i] = out[i]
  BY <1>2, <1>3 DEF IsCut
<1>6. \A i : IsCut(out, i) => IsCut(z, i) /\ z[i] = out[i]
  BY <1>2, <1>3 DEF IsCut
<1>7. Announced(e, d, z)
  BY <1>2, <1>3, <1>4 DEF Announced, Direction
<1>8. Sending(e, d, z, sv)
  BY <1>2, <1>5 DEF Sending, Direction
<1>9. Waiting(d, z)
  <2>1. ASSUME NEW i \in 1 .. Len(z), NEW k \in KeyIds, IsCut(z, i), Names(z[i], k), d.st[k] = "INIT"
        PROVE  \E j \in 1 .. Len(z) : j < i /\ AcceptedAt(z, j, k)
    <3>1. i \in 1 .. Len(out) /\ IsCut(out, i) /\ Names(out[i], k)
      BY <1>2, <1>5, <2>1
    <3>2. PICK j \in 1 .. Len(out) : j < i /\ AcceptedAt(out, j, k)
      BY <2>1, <3>1 DEF Waiting, Direction
    <3> QED BY <1>2, <1>3, <1>4, <3>2
  <2> QED BY <2>1 DEF Waiting
<1>10. Apart(z)
  <2>1. ASSUME NEW i \in 1 .. Len(z), NEW j \in 1 .. Len(z), IsCut(z, i), IsCut(z, j), i # j
        PROVE  /\ \A k \in KeyIds : ~(Names(z[i], k) /\ Names(z[j], k))
               /\ \A s \in SupplyIds : ~(Gives(z[i], s) /\ Gives(z[j], s))
    <3>1. /\ i \in 1 .. Len(out) /\ j \in 1 .. Len(out) /\ IsCut(out, i) /\ IsCut(out, j)
          /\ z[i] = out[i] /\ z[j] = out[j]
      BY <1>2, <1>5, <2>1
    <3> QED BY <2>1, <3>1 DEF Apart, Direction
  <2> QED BY <2>1 DEF Apart
<1>11. Cutting(e, d, z, qs)
  <2>1. ASSUME NEW i \in 1 .. Len(qs), NEW k \in KeyIds, qs[i].type = "skey", k \in qs[i].surplus
        PROVE  \/ \E j \in 1 .. Len(z) : IsCut(z, j) /\ k \in z[j].surplus
               \/ d.st[k] = "READY" /\ d.lo[k] = e.lo[k] /\ d.hi[k] = e.hi[k]
    <3>1. \/ \E j \in 1 .. Len(out) : IsCut(out, j) /\ k \in out[j].surplus
          \/ d.st[k] = "READY" /\ d.lo[k] = e.lo[k] /\ d.hi[k] = e.hi[k]
      BY <2>1 DEF Cutting, Direction
    <3>2. ASSUME NEW j \in 1 .. Len(out), IsCut(out, j), k \in out[j].surplus
          PROVE  \E h \in 1 .. Len(z) : IsCut(z, h) /\ k \in z[h].surplus
      BY <1>2, <1>3, <1>6, <3>2
    <3> QED BY <3>1, <3>2
  <2> QED BY <2>1 DEF Cutting
<1> QED BY <1>1, <1>7, <1>8, <1>9, <1>10, <1>11 DEF Direction

(* What a direction says of the messages does not depend on the one read,  *)
(* if it is neither an answer to FILL nor SKEY_CREATE.                     *)
LEMMA OutRead ==
  ASSUME NEW e, NEW d, NEW out \in Seq(Messages), NEW qs, NEW sv, NEW fd,
         Direction(e, d, out, qs, sv, fd),
         out # <<>>, Head(out).type # "skey",
         \A k \in KeyIds : AcceptedAt(out, 1, k) => d.st[k] # "INIT"
  PROVE  Direction(e, d, Tail(out), qs, sv, fd)
<1>1. PICK z : z = Tail(out)
  OBVIOUS
<1>2. PICK L \in Nat : L = Len(z)
  BY <1>1, TailFacts
<1>3. /\ Len(out) = L + 1 /\ Head(out) = out[1]
      /\ \A i \in 1 .. L : i + 1 \in 1 .. L + 1 /\ z[i] = out[i + 1]
      /\ \A i \in 1 .. L + 1 : i = 1 \/ (i - 1 \in 1 .. L /\ z[i - 1] = out[i])
  <2>1. /\ Len(z) + 1 = Len(out) /\ Head(out) = out[1]
        /\ \A i \in 1 .. Len(z) : i + 1 \in 1 .. Len(out) /\ z[i] = out[i + 1]
        /\ \A i \in 1 .. Len(out) : i = 1 \/ (i - 1 \in 1 .. Len(z) /\ z[i - 1] = out[i])
    BY <1>1, TailFacts
  <2> QED BY <1>2, <2>1
<1>4. \A i, k : AcceptedAt(out, i, k) /\ i # 1 => i - 1 \in 1 .. L /\ AcceptedAt(z, i - 1, k)
  BY <1>2, <1>3 DEF AcceptedAt
<1>5. \A i : IsCut(z, i) => i \in 1 .. L /\ i + 1 \in 1 .. L + 1 /\ IsCut(out, i + 1) /\ z[i] = out[i + 1]
  BY <1>2, <1>3 DEF IsCut
<1>6. \A i : IsCut(out, i) => i - 1 \in 1 .. L /\ IsCut(z, i - 1) /\ z[i - 1] = out[i]
  BY <1>2, <1>3 DEF IsCut
<1>7. Announced(e, d, z)
  <2>1. ASSUME NEW k \in KeyIds, e.st[k] = "READY", d.st[k] = "INIT"
        PROVE  \E i \in 1 .. Len(z) : AcceptedAt(z, i, k)
    <3>1. PICK i \in 1 .. Len(out) : AcceptedAt(out, i, k)
      BY <2>1 DEF Announced, Direction
    <3>2. i # 1
      BY <2>1, <3>1
    <3> QED BY <1>2, <1>4, <3>1, <3>2
  <2> QED BY <2>1 DEF Announced
<1>8. Sending(e, d, z, sv)
  BY <1>2, <1>3, <1>5 DEF Sending, Direction
<1>9. Waiting(d, z)
  <2>1. ASSUME NEW i \in 1 .. Len(z), NEW k \in KeyIds, IsCut(z, i), Names(z[i], k), d.st[k] = "INIT"
        PROVE  \E j \in 1 .. Len(z) : j < i /\ AcceptedAt(z, j, k)
    <3>1. i + 1 \in 1 .. Len(out) /\ IsCut(out, i + 1) /\ Names(out[i + 1], k)
      BY <1>3, <1>5, <2>1
    <3>2. PICK j \in 1 .. Len(out) : j < i + 1 /\ AcceptedAt(out, j, k)
      BY <2>1, <3>1 DEF Waiting, Direction
    <3>4. j # 1
      BY <2>1, <3>2
    <3>3. j - 1 \in 1 .. L /\ AcceptedAt(z, j - 1, k) /\ j - 1 < i
      BY <1>2, <1>4, <3>2, <3>4
    <3> QED BY <1>2, <3>3
  <2> QED BY <2>1 DEF Waiting
<1>10. Apart(z)
  <2>1. ASSUME NEW i \in 1 .. Len(z), NEW j \in 1 .. Len(z), IsCut(z, i), IsCut(z, j), i # j
        PROVE  /\ \A k \in KeyIds : ~(Names(z[i], k) /\ Names(z[j], k))
               /\ \A s \in SupplyIds : ~(Gives(z[i], s) /\ Gives(z[j], s))
    <3>1. /\ i + 1 \in 1 .. Len(out) /\ j + 1 \in 1 .. Len(out) /\ i + 1 # j + 1
          /\ IsCut(out, i + 1) /\ IsCut(out, j + 1)
          /\ z[i] = out[i + 1] /\ z[j] = out[j + 1]
      BY <1>2, <1>3, <1>5, <2>1
    <3> QED BY <3>1 DEF Apart, Direction
  <2> QED BY <2>1 DEF Apart
<1>11. Cutting(e, d, z, qs)
  <2>1. ASSUME NEW i \in 1 .. Len(qs), NEW k \in KeyIds, qs[i].type = "skey", k \in qs[i].surplus
        PROVE  \/ \E j \in 1 .. Len(z) : IsCut(z, j) /\ k \in z[j].surplus
               \/ d.st[k] = "READY" /\ d.lo[k] = e.lo[k] /\ d.hi[k] = e.hi[k]
    <3>1. \/ \E j \in 1 .. Len(out) : IsCut(out, j) /\ k \in out[j].surplus
          \/ d.st[k] = "READY" /\ d.lo[k] = e.lo[k] /\ d.hi[k] = e.hi[k]
      BY <2>1 DEF Cutting, Direction
    <3>2. ASSUME NEW j \in 1 .. Len(out), IsCut(out, j), k \in out[j].surplus
          PROVE  \E h \in 1 .. Len(z) : IsCut(z, h) /\ k \in z[h].surplus
      BY <1>2, <1>6, <3>2
    <3> QED BY <3>1, <3>2
  <2> QED BY <2>1 DEF Cutting
<1> QED BY <1>1, <1>7, <1>8, <1>9, <1>10, <1>11 DEF Direction

(* A FILL joins the queries; the first query leaves them.                  *)
LEMMA QuerySent ==
  ASSUME NEW e, NEW d, NEW out, NEW qs \in Seq(Messages), NEW sv, NEW fd,
         Direction(e, d, out, qs, sv, fd), NEW m \in Messages, m.type # "skey"
  PROVE  Direction(e, d, out, Append(qs, m), sv, fd)
<1>1. \A i \in 1 .. Len(Append(qs, m)) : Append(qs, m)[i].type = "skey" =>
        i \in 1 .. Len(qs) /\ Append(qs, m)[i] = qs[i]
  BY AppendFacts
<1>2. Cutting(e, d, out, Append(qs, m))
  BY <1>1 DEF Cutting, Direction
<1> QED BY <1>2 DEF Direction

(* A direction without its first query.                                    *)
LEMMA QueryLeft ==
  ASSUME NEW e, NEW d, NEW out, NEW qs \in Seq(Messages), NEW sv, NEW fd,
         Direction(e, d, out, qs, sv, fd), qs # <<>>
  PROVE  Direction(e, d, out, Tail(qs), sv, fd)
<1>1. \A i \in 1 .. Len(Tail(qs)) : i + 1 \in 1 .. Len(qs) /\ Tail(qs)[i] = qs[i + 1]
  BY TailFacts
<1>2. Cutting(e, d, out, Tail(qs))
  BY <1>1 DEF Cutting, Direction
<1> QED BY <1>2 DEF Direction

(* The keys that SKEY_CREATE names, in the buffers of its direction.       *)
LEMMA Named ==
  ASSUME NEW x, NEW e, NEW d, NEW sv, Cut(x, e, d, sv)
  PROVE  /\ \A k : Names(x, k) => /\ k \in KeyIds /\ d.st[k] # "NONE"
                                  /\ e.st[k] = IF k \in x.surplus THEN "INIT" ELSE "NONE"
         /\ \A k \in x.surplus : Names(x, k)
         /\ \A i \in 1 .. Len(x.ids) : Names(x, x.ids[i])
<1>1. PICK off, cells : /\ Cuts(d, x.ids, x.surplus, off, Total(x)) /\ Left(x, e, d, off)
  BY DEF Cut
<1>2. \A k : Names(x, k) => k \in KeyIds
  BY <1>1, CutsFacts DEF Names
<1>3. \A k \in x.surplus : Names(x, k)
  BY <1>1 DEF Names, Cuts
<1> QED BY <1>1, <1>2, <1>3 DEF Names, Left

(* A SKEY_CREATE on its way stands for the same units as long as its keys  *)
(* and supply keys are left alone.                                         *)
LEMMA CutSame ==
  ASSUME NEW x, NEW e, NEW d, NEW sv, Cut(x, e, d, sv), NEW e2, NEW d2, NEW sv2,
         \A k \in KeyIds : Names(x, k) =>
            /\ d2.st[k] # "NONE" /\ d2.lo[k] = d.lo[k] /\ d2.hi[k] = d.hi[k]
            /\ e2.st[k] = e.st[k] /\ e2.lo[k] = e.lo[k] /\ e2.hi[k] = e.hi[k],
         \A s : Gives(x, s) => sv2[s] = sv[s]
  PROVE  Cut(x, e2, d2, sv2)
<1>1. PICK off, cells : /\ Cuts(d, x.ids, x.surplus, off, Total(x))
                        /\ Fills(d, x.ids, off, cells, Total(x))
                        /\ Left(x, e, d, off) /\ Served(x, cells, sv)
  BY DEF Cut
<1>2. \A i \in 1 .. Len(x.ids) : Names(x, x.ids[i]) /\ x.ids[i] \in KeyIds
  BY Named
<1>3. Cuts(d2, x.ids, x.surplus, off, Total(x)) /\ Fills(d2, x.ids, off, cells, Total(x))
  <2>1. PICK ids, n : ids = x.ids /\ n = Total(x)
    OBVIOUS
  <2>2. Cuts(d, ids, x.surplus, off, n) /\ Fills(d, ids, off, cells, n)
    BY <1>1, <2>1
  <2>3. \A i \in 1 .. Len(ids) : d2.lo[ids[i]] = d.lo[ids[i]] /\ d2.hi[ids[i]] = d.hi[ids[i]]
    BY <1>2, <2>1
  <2>4. Cuts(d2, ids, x.surplus, off, n) /\ Fills(d2, ids, off, cells, n)
    BY <2>2, <2>3, CutsSame
  <2> QED BY <2>1, <2>4
<1>4. Left(x, e2, d2, off)
  BY <1>1, <1>2 DEF Left
<1>5. Served(x, cells, sv2)
  BY <1>1 DEF Served, Gives
<1> QED BY <1>3, <1>4, <1>5 DEF Cut

(* The keys that a SKEY_CREATE on its way names.                           *)
LEMMA SendingNames ==
  ASSUME NEW e, NEW d, NEW out, NEW sv, Sending(e, d, out, sv)
  PROVE  \A i : IsCut(out, i) =>
           /\ Cut(out[i], e, d, sv) /\ Fresh(out[i], d)
           /\ \A k : Names(out[i], k) => /\ k \in KeyIds /\ d.st[k] # "NONE"
                                         /\ e.st[k] = IF k \in out[i].surplus THEN "INIT" ELSE "NONE"
           /\ \A k \in out[i].surplus : Names(out[i], k)
<1>1. TAKE i
<1>2. HAVE IsCut(out, i)
<1>3. Cut(out[i], e, d, sv) /\ Fresh(out[i], d)
  BY <1>2 DEF Sending, IsCut
<1> QED BY <1>3, Named

(* The master reserves, in "enc", keys that are in neither buffer.         *)
LEMMA EncReserves ==
  ASSUME NEW e, NEW d, NEW out, NEW qs, NEW sv, NEW fd, Direction(e, d, out, qs, sv, fd),
         NEW ks \in SUBSET KeyIds, \A k \in ks : d.st[k] = "NONE",
         NEW e2, Sets(e, e2, ks, "INIT", 0, MaxLen)
  PROVE  Direction(e2, d, out, qs, sv, fd)
<1>1. \A k \in KeyIds : IF k \in ks THEN e2.st[k] = "INIT"
                        ELSE e2.st[k] = e.st[k] /\ e2.lo[k] = e.lo[k] /\ e2.hi[k] = e.hi[k]
  BY DEF Sets
<1>2. Sending(e2, d, out, sv)
  <2>1. ASSUME NEW i \in 1 .. Len(out), IsCut(out, i)
        PROVE  Cut(out[i], e2, d, sv) /\ Fresh(out[i], d)
    <3>1. Cut(out[i], e, d, sv) /\ Fresh(out[i], d)
      BY <2>1 DEF Direction, Sending
    <3>2. \A k \in KeyIds : Names(out[i], k) => k \notin ks /\ d.st[k] # "NONE"
      BY <3>1, Named
    <3> QED BY <1>1, <3>1, <3>2, CutSame
  <2> QED BY <2>1 DEF Sending
<1>3. Mirrored(e2, d) /\ Announced(e2, d, out)
  BY <1>1 DEF Direction, Mirrored, Announced
<1>4. Cutting(e2, d, out, qs)
  <2>1. ASSUME NEW i \in 1 .. Len(qs), NEW k \in KeyIds, qs[i].type = "skey", k \in qs[i].surplus
        PROVE  \/ \E j \in 1 .. Len(out) : IsCut(out, j) /\ k \in out[j].surplus
               \/ d.st[k] = "READY" /\ d.lo[k] = e2.lo[k] /\ d.hi[k] = e2.hi[k]
    <3>1. \/ \E j \in 1 .. Len(out) : IsCut(out, j) /\ k \in out[j].surplus
          \/ d.st[k] = "READY" /\ d.lo[k] = e.lo[k] /\ d.hi[k] = e.hi[k]
      BY <2>1 DEF Direction, Cutting
    <3> QED BY <1>1, <3>1
  <2> QED BY <2>1 DEF Cutting
<1> QED BY <1>2, <1>3, <1>4 DEF Direction

(* "dec" gains keys that it did not have.                                  *)
LEMMA DecGains ==
  ASSUME NEW e, NEW d, NEW out, NEW qs, NEW sv, NEW fd, Direction(e, d, out, qs, sv, fd),
         NEW ks \in SUBSET KeyIds, \A k \in ks : d.st[k] = "NONE",
         NEW s \in {"INIT", "READY"}, NEW d2, Sets(d, d2, ks, s, 0, MaxLen)
  PROVE  Direction(e, d2, out, qs, sv, fd)
<1>1. /\ \A k \in KeyIds : IF k \in ks THEN d2.st[k] = s
                           ELSE d2.st[k] = d.st[k] /\ d2.lo[k] = d.lo[k] /\ d2.hi[k] = d.hi[k]
      /\ d2.supply = d.supply
  BY DEF Sets
<1>2. Sending(e, d2, out, sv)
  <2>1. ASSUME NEW i \in 1 .. Len(out), IsCut(out, i)
        PROVE  Cut(out[i], e, d2, sv) /\ Fresh(out[i], d2)
    <3>1. Cut(out[i], e, d, sv) /\ Fresh(out[i], d)
      BY <2>1 DEF Direction, Sending
    <3>2. \A k \in KeyIds : Names(out[i], k) => k \notin ks /\ d.st[k] # "NONE"
      BY <3>1, Named
    <3>3. Cut(out[i], e, d2, sv)
      BY <1>1, <3>1, <3>2, CutSame
    <3> QED BY <1>1, <3>1, <3>3 DEF Fresh
  <2> QED BY <2>1 DEF Sending
<1>3. Mirrored(e, d2) /\ Announced(e, d2, out)
  BY <1>1 DEF Direction, Mirrored, Announced
<1>4. Waiting(d2, out)
  <2>1. \A i \in 1 .. Len(out), k \in KeyIds : IsCut(out, i) /\ Names(out[i], k) => k \notin ks
    BY SendingNames DEF Direction
  <2> QED BY <1>1, <2>1 DEF Direction, Waiting
<1>5. Cutting(e, d2, out, qs)
  <2>1. ASSUME NEW i \in 1 .. Len(qs), NEW k \in KeyIds, qs[i].type = "skey", k \in qs[i].surplus
        PROVE  \/ \E j \in 1 .. Len(out) : IsCut(out, j) /\ k \in out[j].surplus
               \/ d2.st[k] = "READY" /\ d2.lo[k] = e.lo[k] /\ d2.hi[k] = e.hi[k]
    <3>1. \/ \E j \in 1 .. Len(out) : IsCut(out, j) /\ k \in out[j].surplus
          \/ d.st[k] = "READY" /\ d.lo[k] = e.lo[k] /\ d.hi[k] = e.hi[k]
      BY <2>1 DEF Direction, Cutting
    <3> QED BY <1>1, <3>1
  <2> QED BY <2>1 DEF Cutting
<1>6. Supplied(d2, sv, fd)
  BY <1>1 DEF Direction, Supplied
<1> QED BY <1>2, <1>3, <1>4, <1>5, <1>6 DEF Direction

(* The peer accepts keys of a FILL for its "enc": the answer that says so  *)
(* is the last message out.                                                *)
LEMMA EncAccepts ==
  ASSUME NEW e, NEW d, NEW out \in Seq(Messages), NEW qs, NEW sv, NEW fd,
         Direction(e, d, out, qs, sv, fd), NEW ks \in SUBSET KeyIds,
         \A k \in ks : /\ d.st[k] = "INIT" /\ d.lo[k] = 0 /\ d.hi[k] = MaxLen
                       /\ AcceptedAt(out, Len(out), k)
                       /\ \A i \in 1 .. Len(out) : AcceptedAt(out, i, k) => i = Len(out),
         NEW e2, Sets(e, e2, ks, "READY", 0, MaxLen)
  PROVE  Direction(e2, d, out, qs, sv, fd)
<1>1. \A k \in KeyIds :
        IF k \in ks THEN e2.st[k] = "READY" /\ e2.lo[k] = 0 /\ e2.hi[k] = MaxLen
                    ELSE e2.st[k] = e.st[k] /\ e2.lo[k] = e.lo[k] /\ e2.hi[k] = e.hi[k]
  BY DEF Sets
<1>2. \A i \in 1 .. Len(out), k \in KeyIds : IsCut(out, i) /\ Names(out[i], k) => k \notin ks
  <2>1. SUFFICES ASSUME NEW i \in 1 .. Len(out), NEW k \in KeyIds, IsCut(out, i),
                        Names(out[i], k), k \in ks
                 PROVE  FALSE
    OBVIOUS
  <2>2. PICK j \in 1 .. Len(out) : j < i /\ AcceptedAt(out, j, k)
    BY <2>1 DEF Direction, Waiting
  <2>3. j = Len(out)
    BY <2>1, <2>2
  <2> QED BY <2>2, <2>3
<1>3. Sending(e2, d, out, sv)
  <2>1. ASSUME NEW i \in 1 .. Len(out), IsCut(out, i)
        PROVE  Cut(out[i], e2, d, sv) /\ Fresh(out[i], d)
    <3>1. Cut(out[i], e, d, sv) /\ Fresh(out[i], d)
      BY <2>1 DEF Direction, Sending
    <3>2. \A k \in KeyIds : Names(out[i], k) => k \notin ks /\ d.st[k] # "NONE"
      BY <1>2, <2>1, <3>1, Named
    <3> QED BY <1>1, <3>1, <3>2, CutSame
  <2> QED BY <2>1 DEF Sending
<1>4. Mirrored(e2, d)
  BY <1>1 DEF Direction, Mirrored
<1>5. Announced(e2, d, out)
  <2>1. \A k \in ks : Len(out) \in 1 .. Len(out) /\ AcceptedAt(out, Len(out), k)
    BY DEF AcceptedAt
  <2> QED BY <1>1, <2>1 DEF Direction, Announced
<1>6. Cutting(e2, d, out, qs)
  <2>1. ASSUME NEW i \in 1 .. Len(qs), NEW k \in KeyIds, qs[i].type = "skey", k \in qs[i].surplus
        PROVE  \/ \E j \in 1 .. Len(out) : IsCut(out, j) /\ k \in out[j].surplus
               \/ d.st[k] = "READY" /\ d.lo[k] = e2.lo[k] /\ d.hi[k] = e2.hi[k]
    <3>1. \/ \E j \in 1 .. Len(out) : IsCut(out, j) /\ k \in out[j].surplus
          \/ d.st[k] = "READY" /\ d.lo[k] = e.lo[k] /\ d.hi[k] = e.hi[k]
      BY <2>1 DEF Direction, Cutting
    <3> QED BY <1>1, <3>1
  <2> QED BY <2>1 DEF Cutting
<1> QED BY <1>3, <1>4, <1>5, <1>6 DEF Direction

(* Reserved keys of "enc" are settled: those of acc, which the peer has    *)
(* READY, can be served, the others leave.                                 *)
LEMMA EncSettles ==
  ASSUME NEW e, NEW d, NEW out, NEW qs, NEW sv, NEW fd, Direction(e, d, out, qs, sv, fd),
         NEW ks \in SUBSET KeyIds, NEW acc \in SUBSET ks,
         \A k \in ks : e.st[k] = "INIT",
         \A k \in acc : d.st[k] = "READY" /\ d.lo[k] = e.lo[k] /\ d.hi[k] = e.hi[k],
         \A i \in 1 .. Len(qs) : qs[i].type = "skey" => qs[i].surplus \cap ks = {},
         \A i \in 1 .. Len(out) : IsCut(out, i) => out[i].surplus \cap ks = {},
         NEW e2, SettlesAll(e, e2, ks, acc)
  PROVE  Direction(e2, d, out, qs, sv, fd)
<1>1. \A k \in KeyIds :
        /\ k \notin ks => e2.st[k] = e.st[k] /\ e2.lo[k] = e.lo[k] /\ e2.hi[k] = e.hi[k]
        /\ k \in acc => e2.st[k] = "READY" /\ e2.lo[k] = e.lo[k] /\ e2.hi[k] = e.hi[k]
        /\ k \in ks \ acc => e2.st[k] = "NONE"
  BY DEF SettlesAll
<1>2. Sending(e2, d, out, sv)
  <2>1. ASSUME NEW i \in 1 .. Len(out), IsCut(out, i)
        PROVE  Cut(out[i], e2, d, sv) /\ Fresh(out[i], d)
    <3>1. Cut(out[i], e, d, sv) /\ Fresh(out[i], d)
      BY <2>1 DEF Direction, Sending
    <3>2. \A k \in KeyIds : Names(out[i], k) => k \notin ks /\ d.st[k] # "NONE"
      BY <2>1, <3>1, Named
    <3> QED BY <1>1, <3>1, <3>2, CutSame
  <2> QED BY <2>1 DEF Sending
<1>3. Mirrored(e2, d) /\ Announced(e2, d, out)
  <2>1. \A k \in KeyIds : e2.st[k] = "READY" => (k \in acc \/ k \notin ks)
    BY <1>1
  <2> QED BY <1>1, <2>1 DEF Direction, Mirrored, Announced
<1>4. Cutting(e2, d, out, qs)
  <2>1. ASSUME NEW i \in 1 .. Len(qs), NEW k \in KeyIds, qs[i].type = "skey", k \in qs[i].surplus
        PROVE  \/ \E j \in 1 .. Len(out) : IsCut(out, j) /\ k \in out[j].surplus
               \/ d.st[k] = "READY" /\ d.lo[k] = e2.lo[k] /\ d.hi[k] = e2.hi[k]
    <3>1. \/ \E j \in 1 .. Len(out) : IsCut(out, j) /\ k \in out[j].surplus
          \/ d.st[k] = "READY" /\ d.lo[k] = e.lo[k] /\ d.hi[k] = e.hi[k]
      BY <2>1 DEF Direction, Cutting
    <3>2. k \notin ks
      BY <2>1
    <3> QED BY <1>1, <3>1, <3>2
  <2> QED BY <2>1 DEF Cutting
<1> QED BY <1>2, <1>3, <1>4 DEF Direction

(* The master settles reserved keys of its "dec", for the answer it reads. *)
LEMMA DecSettles ==
  ASSUME NEW e, NEW d, NEW out \in Seq(Messages), NEW qs, NEW sv, NEW fd,
         Direction(e, d, out, qs, sv, fd),
         out # <<>>, Head(out).type = "filled",
         NEW ks \in SUBSET KeyIds, NEW acc \in SUBSET ks, acc = Head(out).accepted,
         \A k \in ks : d.st[k] = "INIT",
         \A k \in ks \ acc : e.st[k] = "NONE",
         \A i \in 1 .. Len(out), k \in ks : AcceptedAt(out, i, k) => i = 1,
         NEW d2, SettlesAll(d, d2, ks, acc)
  PROVE  Direction(e, d2, Tail(out), qs, sv, fd)
<1>1. PICK z : z = Tail(out)
  OBVIOUS
<1>2. PICK L \in Nat : L = Len(z)
  BY <1>1, TailFacts
<1>3. /\ Len(out) = L + 1 /\ Head(out) = out[1] /\ 1 \in 1 .. L + 1
      /\ \A i \in 1 .. L : i + 1 \in 1 .. L + 1 /\ z[i] = out[i + 1]
      /\ \A i \in 1 .. L + 1 : i = 1 \/ (i - 1 \in 1 .. L /\ z[i - 1] = out[i])
  <2>1. /\ Len(z) + 1 = Len(out) /\ Head(out) = out[1] /\ 1 \in 1 .. Len(out)
        /\ \A i \in 1 .. Len(z) : i + 1 \in 1 .. Len(out) /\ z[i] = out[i + 1]
        /\ \A i \in 1 .. Len(out) : i = 1 \/ (i - 1 \in 1 .. Len(z) /\ z[i - 1] = out[i])
    BY <1>1, TailFacts
  <2> QED BY <1>2, <2>1
<1>4. \A i, k : AcceptedAt(out, i, k) => i = 1 \/ (i - 1 \in 1 .. L /\ AcceptedAt(z, i - 1, k))
  BY <1>2, <1>3 DEF AcceptedAt
<1>4a. \A k : AcceptedAt(out, 1, k) => k \in acc
  BY <1>3 DEF AcceptedAt
<1>5. \A i : IsCut(z, i) => i \in 1 .. L /\ i + 1 \in 1 .. L + 1 /\ IsCut(out, i + 1) /\ z[i] = out[i + 1]
  BY <1>2, <1>3 DEF IsCut
<1>6. \A i : IsCut(out, i) => i - 1 \in 1 .. L /\ IsCut(z, i - 1) /\ z[i - 1] = out[i]
  BY <1>2, <1>3 DEF IsCut
<1>7. /\ \A k \in KeyIds :
           /\ k \notin ks => d2.st[k] = d.st[k] /\ d2.lo[k] = d.lo[k] /\ d2.hi[k] = d.hi[k]
           /\ k \in acc => d2.st[k] = "READY" /\ d2.lo[k] = d.lo[k] /\ d2.hi[k] = d.hi[k]
           /\ k \in ks \ acc => d2.st[k] = "NONE"
      /\ d2.supply = d.supply
  BY DEF SettlesAll
<1>8. \A i, k : IsCut(out, i) /\ Names(out[i], k) => k \notin ks \ acc
  <2>1. SUFFICES ASSUME NEW i, NEW k, IsCut(out, i), Names(out[i], k), k \in ks \ acc
                 PROVE  FALSE
    OBVIOUS
  <2>2. i \in 1 .. Len(out) /\ k \in KeyIds /\ d.st[k] = "INIT"
    BY <2>1 DEF IsCut
  <2>3. PICK j \in 1 .. Len(out) : j < i /\ AcceptedAt(out, j, k)
    BY <2>1, <2>2 DEF Direction, Waiting
  <2>4. j = 1
    BY <2>1, <2>3
  <2> QED BY <1>4a, <2>1, <2>3, <2>4
<1>9. Mirrored(e, d2)
  BY <1>7 DEF Direction, Mirrored
<1>10. Announced(e, d2, z)
  <2>1. ASSUME NEW k \in KeyIds, e.st[k] = "READY", d2.st[k] = "INIT"
        PROVE  \E i \in 1 .. Len(z) : AcceptedAt(z, i, k)
    <3>1. k \notin ks /\ d.st[k] = "INIT"
      BY <1>7, <2>1
    <3>2. PICK i \in 1 .. Len(out) : AcceptedAt(out, i, k)
      BY <2>1, <3>1 DEF Announced, Direction
    <3>3. i # 1
      BY <1>4a, <3>1, <3>2
    <3> QED BY <1>2, <1>4, <3>2, <3>3
  <2> QED BY <2>1 DEF Announced
<1>11. Sending(e, d2, z, sv)
  <2>1. ASSUME NEW i \in 1 .. Len(z), IsCut(z, i)
        PROVE  Cut(z[i], e, d2, sv) /\ Fresh(z[i], d2)
    <3>1. IsCut(out, i + 1) /\ z[i] = out[i + 1]
      BY <1>5, <2>1
    <3>2. Cut(z[i], e, d, sv) /\ Fresh(z[i], d)
      BY <3>1 DEF Direction, Sending, IsCut
    <3>3. \A k \in KeyIds : Names(z[i], k) => k \notin ks \ acc /\ d.st[k] # "NONE"
      BY <1>8, <3>1, <3>2, Named
    <3>4. \A k \in KeyIds : Names(z[i], k) =>
            d2.st[k] # "NONE" /\ d2.lo[k] = d.lo[k] /\ d2.hi[k] = d.hi[k]
      BY <1>7, <3>3
    <3>5. Cut(z[i], e, d2, sv)
      BY <3>2, <3>4, CutSame
    <3> QED BY <1>7, <3>2, <3>5 DEF Fresh
  <2> QED BY <2>1 DEF Sending
<1>12. Waiting(d2, z)
  <2>1. ASSUME NEW i \in 1 .. Len(z), NEW k \in KeyIds, IsCut(z, i), Names(z[i], k), d2.st[k] = "INIT"
        PROVE  \E j \in 1 .. Len(z) : j < i /\ AcceptedAt(z, j, k)
    <3>1. k \notin ks /\ d.st[k] = "INIT"
      BY <1>7, <2>1
    <3>2. i + 1 \in 1 .. Len(out) /\ IsCut(out, i + 1) /\ Names(out[i + 1], k)
      BY <1>3, <1>5, <2>1
    <3>3. PICK j \in 1 .. Len(out) : j < i + 1 /\ AcceptedAt(out, j, k)
      BY <3>1, <3>2 DEF Waiting, Direction
    <3>4. j # 1
      BY <1>4a, <3>1, <3>3
    <3>5. j - 1 \in 1 .. L /\ AcceptedAt(z, j - 1, k) /\ j - 1 < i
      BY <1>2, <1>4, <3>3, <3>4
    <3> QED BY <1>2, <3>5
  <2> QED BY <2>1 DEF Waiting
<1>13. Apart(z)
  <2>1. ASSUME NEW i \in 1 .. Len(z), NEW j \in 1 .. Len(z), IsCut(z, i), IsCut(z, j), i # j
        PROVE  /\ \A k \in KeyIds : ~(Names(z[i], k) /\ Names(z[j], k))
               /\ \A s \in SupplyIds : ~(Gives(z[i], s) /\ Gives(z[j], s))
    <3>1. /\ i + 1 \in 1 .. Len(out) /\ j + 1 \in 1 .. Len(out) /\ i + 1 # j + 1
          /\ IsCut(out, i + 1) /\ IsCut(out, j + 1)
          /\ z[i] = out[i + 1] /\ z[j] = out[j + 1]
      BY <1>2, <1>3, <1>5, <2>1
    <3> QED BY <3>1 DEF Apart, Direction
  <2> QED BY <2>1 DEF Apart
<1>14. Cutting(e, d2, z, qs)
  <2>1. ASSUME NEW i \in 1 .. Len(qs), NEW k \in KeyIds, qs[i].type = "skey", k \in qs[i].surplus
        PROVE  \/ \E j \in 1 .. Len(z) : IsCut(z, j) /\ k \in z[j].surplus
               \/ d2.st[k] = "READY" /\ d2.lo[k] = e.lo[k] /\ d2.hi[k] = e.hi[k]
    <3>1. \/ \E j \in 1 .. Len(out) : IsCut(out, j) /\ k \in out[j].surplus
          \/ d.st[k] = "READY" /\ d.lo[k] = e.lo[k] /\ d.hi[k] = e.hi[k]
      BY <2>1 DEF Cutting, Direction
    <3>2. ASSUME NEW j \in 1 .. Len(out), IsCut(out, j), k \in out[j].surplus
          PROVE  \E h \in 1 .. Len(z) : IsCut(z, h) /\ k \in z[h].surplus
      BY <1>2, <1>6, <3>2
    <3>3. d.st[k] = "READY" => k \notin ks
      OBVIOUS
    <3> QED BY <1>7, <3>1, <3>2, <3>3
  <2> QED BY <2>1 DEF Cutting
<1>15. Supplied(d2, sv, fd)
  BY <1>7 DEF Direction, Supplied
<1> QED BY <1>1, <1>9, <1>10, <1>11, <1>12, <1>13, <1>14, <1>15 DEF Direction

(* dec_keys gives out supply keys.                                         *)
LEMMA DecGives ==
  ASSUME NEW e, NEW d, NEW out, NEW qs, NEW sv, NEW fd, Direction(e, d, out, qs, sv, fd),
         NEW ids \in SUBSET SupplyIds, NEW d2, Empties(d, d2, ids),
         NEW fd2, \A s \in SupplyIds : fd2[s] \in {d.supply[s], fd[s]}
  PROVE  Direction(e, d2, out, qs, sv, fd2)
<1>1. /\ d2.st = d.st /\ d2.lo = d.lo /\ d2.hi = d.hi
      /\ \A s \in SupplyIds : d2.supply[s] \in {{}, d.supply[s]}
  BY DEF Empties
<1>2. Sending(e, d2, out, sv)
  <2>1. ASSUME NEW i \in 1 .. Len(out), IsCut(out, i)
        PROVE  Cut(out[i], e, d2, sv) /\ Fresh(out[i], d2)
    <3>1. Cut(out[i], e, d, sv) /\ Fresh(out[i], d)
      BY <2>1 DEF Direction, Sending
    <3>2. \A k \in KeyIds : Names(out[i], k) => d.st[k] # "NONE"
      BY <3>1, Named
    <3>3. Cut(out[i], e, d2, sv)
      BY <1>1, <3>1, <3>2, CutSame
    <3>4. \A j \in 1 .. Len(out[i].supply) : out[i].supply[j] \in SupplyIds
      BY <3>1 DEF Fresh
    <3> QED BY <1>1, <3>1, <3>3, <3>4 DEF Fresh
  <2> QED BY <2>1 DEF Sending
<1>3. Mirrored(e, d2) /\ Announced(e, d2, out) /\ Waiting(d2, out) /\ Cutting(e, d2, out, qs)
  BY <1>1 DEF Direction, Mirrored, Announced, Waiting, Cutting
<1>4. Supplied(d2, sv, fd2)
  BY <1>1 DEF Direction, Supplied
<1> QED BY <1>2, <1>3, <1>4 DEF Direction

(* The supply keys of a SKEY_CREATE on its way were served.                *)
LEMMA CutServed ==
  ASSUME NEW x, NEW e, NEW d, NEW sv, Cut(x, e, d, sv), Fresh(x, d)
  PROVE  \A s : Gives(x, s) => s \in SupplyIds /\ sv[s] # {}
<1>1. SUFFICES ASSUME NEW s, Gives(x, s)
               PROVE  s \in SupplyIds /\ sv[s] # {}
  OBVIOUS
<1>2. PICK i \in 1 .. Len(x.supply) : x.supply[i] = s
  BY <1>1 DEF Gives
<1>3. PICK cells : sv[s] = Piece(cells, x.size, i)
  BY <1>2 DEF Cut, Served
<1>4. x.size \in Nat \ {0} /\ x.supply \in Seq(SupplyIds) /\ i \in Nat \ {0}
  BY DEF Fresh
<1>5. i * x.size \in (i - 1) * x.size + 1 .. i * x.size
  BY <1>4, PieceThere
<1>6. Piece(cells, x.size, i) # {}
  BY <1>5 DEF Piece
<1> QED BY <1>2, <1>3, <1>4, <1>6

(* enc_keys serves out of "enc" what m merges, and sends SKEY_CREATE x.    *)
LEMMA EncServes ==
  ASSUME NEW e, NEW d, NEW out \in Seq(Messages), NEW qs \in Seq(Messages), NEW sv, NEW fd,
         Direction(e, d, out, qs, sv, fd), Kept(e),
         \A i \in 1 .. Len(qs) : qs[i].type = "skey" => \A k \in qs[i].surplus : e.st[k] = "INIT",
         NEW x \in Messages, x.type = "skey", x.size \in Nat \ {0}, x.supply \in Seq(SupplyIds),
         \A i, j \in 1 .. Len(x.supply) : x.supply[i] = x.supply[j] => i = j,
         \A s : Gives(x, s) => sv[s] = {},
         NEW m, m.ids = x.ids, m.surplus = x.surplus, NEW off, Draws(e, m, off, Total(x)),
         NEW sv2, Served(x, m.cells, sv2),
         \A s \in SupplyIds : ~Gives(x, s) => sv2[s] = sv[s]
  PROVE  Direction(m.buf, d, Append(out, x), Append(qs, x), sv2, fd)
<1>1. PICK z : z = Append(out, x)
  OBVIOUS
<1>2. PICK L \in Nat : L = Len(out)
  OBVIOUS
<1>3. /\ Len(z) = L + 1 /\ \A i \in 1 .. L : i \in 1 .. L + 1 /\ z[i] = out[i]
      /\ z[L + 1] = x /\ \A i \in 1 .. L + 1 : i \in 1 .. L \/ i = L + 1
  BY <1>1, <1>2, AppendFacts
<1>4. \A i, k : AcceptedAt(out, i, k) => i \in 1 .. L /\ AcceptedAt(z, i, k)
  BY <1>2, <1>3 DEF AcceptedAt
<1>5. \A i : IsCut(z, i) => \/ i \in 1 .. L /\ IsCut(out, i) /\ z[i] = out[i]
                            \/ i = L + 1 /\ z[i] = x
  BY <1>2, <1>3 DEF IsCut
<1>6. /\ \A i : IsCut(out, i) => i \in 1 .. L + 1 /\ IsCut(z, i) /\ z[i] = out[i]
      /\ IsCut(z, L + 1) /\ L + 1 \in 1 .. L + 1
  BY <1>2, <1>3 DEF IsCut
<1>7. /\ Cuts(e, x.ids, x.surplus, off, Total(x)) /\ Fills(e, x.ids, off, m.cells, Total(x))
      /\ Drains(e, m.buf, x.ids, x.surplus, off, "INIT")
      /\ \A i \in 1 .. Len(x.ids) : e.st[x.ids[i]] = "READY"
  BY DEF Draws
<1>8. /\ \A k : Names(x, k) => k \in KeyIds /\ e.st[k] = "READY"
                               /\ m.buf.st[k] = IF k \in x.surplus THEN "INIT" ELSE "NONE"
      /\ \A k \in KeyIds : ~Names(x, k) => /\ m.buf.st[k] = e.st[k] /\ m.buf.lo[k] = e.lo[k]
                                           /\ m.buf.hi[k] = e.hi[k]
  <2>1. \A k : Names(x, k) => k \in KeyIds
    BY <1>7, CutsFacts DEF Names
  <2> QED BY <1>7, <2>1 DEF Names, Drains
<1>9. \A k : Names(x, k) => d.st[k] # "NONE" /\ d.lo[k] = e.lo[k] /\ d.hi[k] = e.hi[k]
  BY <1>8 DEF Direction, Mirrored
<1>10. \A s : Gives(x, s) => s \in SupplyIds /\ d.supply[s] = {}
  <2>1. \A s : Gives(x, s) => s \in SupplyIds
    BY DEF Gives
  <2> QED BY <2>1 DEF Direction, Supplied
<1>11. Cut(x, m.buf, d, sv2)
  <2>1. PICK ids, n : ids = x.ids /\ n = Total(x)
    OBVIOUS
  <2>2. Cuts(e, ids, x.surplus, off, n) /\ Fills(e, ids, off, m.cells, n)
    BY <1>7, <2>1
  <2>3. \A i \in 1 .. Len(ids) : Names(x, ids[i])
    BY <2>1 DEF Names
  <2>4. \A i \in 1 .. Len(ids) : d.lo[ids[i]] = e.lo[ids[i]] /\ d.hi[ids[i]] = e.hi[ids[i]]
    BY <1>9, <2>3
  <2>5. Cuts(d, ids, x.surplus, off, n) /\ Fills(d, ids, off, m.cells, n)
    BY <2>2, <2>4, CutsSame
  <2>6. Left(x, m.buf, d, off)
    <3>1. ASSUME NEW i \in 1 .. Len(x.ids)
          PROVE  /\ d.st[x.ids[i]] # "NONE"
                 /\ IF x.ids[i] \in x.surplus
                      THEN /\ m.buf.st[x.ids[i]] = "INIT" /\ m.buf.hi[x.ids[i]] = d.hi[x.ids[i]]
                           /\ m.buf.lo[x.ids[i]] = d.lo[x.ids[i]] + (off[i] - off[i - 1])
                      ELSE m.buf.st[x.ids[i]] = "NONE"
      <4>1. Names(x, x.ids[i])
        BY DEF Names
      <4>2. d.st[x.ids[i]] # "NONE" /\ d.lo[x.ids[i]] = e.lo[x.ids[i]] /\ d.hi[x.ids[i]] = e.hi[x.ids[i]]
        BY <1>9, <4>1
      <4> QED BY <1>7, <4>2 DEF Drains
    <3> QED BY <3>1 DEF Left
  <2> QED BY <2>1, <2>5, <2>6 DEF Cut
<1>12. Fresh(x, d)
  <2>1. \A i \in 1 .. Len(x.supply) : Gives(x, x.supply[i])
    BY DEF Gives
  <2> QED BY <1>10, <2>1 DEF Fresh
<1>13. ASSUME NEW i \in 1 .. L, IsCut(out, i)
       PROVE  /\ \A k : ~(Names(out[i], k) /\ Names(x, k))
              /\ \A s : ~(Gives(out[i], s) /\ Gives(x, s))
              /\ Cut(out[i], m.buf, d, sv2) /\ Fresh(out[i], d)
  <2>1. Cut(out[i], e, d, sv) /\ Fresh(out[i], d)
    BY <1>2, <1>13 DEF Direction, Sending
  <2>2. \A k : Names(out[i], k) => k \in KeyIds /\ d.st[k] # "NONE" /\ ~Names(x, k)
    BY <1>8, <2>1, Named
  <2>3. \A s : Gives(out[i], s) => s \in SupplyIds /\ ~Gives(x, s)
    BY <2>1, CutServed
  <2>4. \A s : Gives(out[i], s) => sv2[s] = sv[s]
    BY <2>3
  <2>5. Cut(out[i], m.buf, d, sv2)
    BY <1>8, <2>1, <2>2, <2>4, CutSame
  <2> QED BY <2>1, <2>2, <2>3, <2>5
<1>14. Sending(m.buf, d, z, sv2)
  <2>1. \A i \in 1 .. Len(z) : IsCut(z, i) => Cut(z[i], m.buf, d, sv2) /\ Fresh(z[i], d)
    BY <1>5, <1>11, <1>12, <1>13
  <2> QED BY <2>1 DEF Sending
<1>15. Apart(z)
  <2>1. ASSUME NEW i \in 1 .. Len(z), NEW j \in 1 .. Len(z), IsCut(z, i), IsCut(z, j), i # j
        PROVE  /\ \A k \in KeyIds : ~(Names(z[i], k) /\ Names(z[j], k))
               /\ \A s \in SupplyIds : ~(Gives(z[i], s) /\ Gives(z[j], s))
    <3>1. CASE i \in 1 .. L /\ j \in 1 .. L
      <4>1. IsCut(out, i) /\ IsCut(out, j) /\ z[i] = out[i] /\ z[j] = out[j]
        BY <1>5, <2>1, <3>1
      <4> QED BY <1>2, <2>1, <3>1, <4>1 DEF Apart, Direction
    <3>2. CASE i = L + 1 /\ j \in 1 .. L
      BY <1>5, <1>13, <2>1, <3>2
    <3>3. CASE j = L + 1 /\ i \in 1 .. L
      BY <1>5, <1>13, <2>1, <3>3
    <3> QED BY <1>3, <2>1, <3>1, <3>2, <3>3
  <2> QED BY <2>1 DEF Apart
<1>16. Waiting(d, z)
  <2>1. ASSUME NEW i \in 1 .. Len(z), NEW k \in KeyIds, IsCut(z, i), Names(z[i], k), d.st[k] = "INIT"
        PROVE  \E j \in 1 .. Len(z) : j < i /\ AcceptedAt(z, j, k)
    <3>1. CASE i \in 1 .. L
      <4>1. IsCut(out, i) /\ Names(out[i], k) /\ i \in 1 .. Len(out)
        BY <1>2, <1>5, <2>1, <3>1
      <4>2. PICK j \in 1 .. Len(out) : j < i /\ AcceptedAt(out, j, k)
        BY <2>1, <4>1 DEF Waiting, Direction
      <4> QED BY <1>2, <1>3, <1>4, <4>2
    <3>2. CASE i = L + 1
      <4>1. e.st[k] = "READY"
        BY <1>3, <1>8, <2>1, <3>2
      <4>2. PICK j \in 1 .. Len(out) : AcceptedAt(out, j, k)
        BY <2>1, <4>1 DEF Announced, Direction
      <4>3. j < i /\ j \in 1 .. Len(z)
        BY <1>2, <1>3, <3>2
      <4> QED BY <1>4, <4>2, <4>3
    <3> QED BY <1>3, <3>1, <3>2
  <2> QED BY <2>1 DEF Waiting
<1>17. Mirrored(m.buf, d) /\ Announced(m.buf, d, z)
  <2>1. \A k \in KeyIds : m.buf.st[k] = "READY" =>
          e.st[k] = "READY" /\ m.buf.lo[k] = e.lo[k] /\ m.buf.hi[k] = e.hi[k]
    BY <1>8
  <2>2. Mirrored(m.buf, d)
    BY <2>1 DEF Direction, Mirrored
  <2>3. ASSUME NEW k \in KeyIds, m.buf.st[k] = "READY", d.st[k] = "INIT"
        PROVE  \E i \in 1 .. Len(z) : AcceptedAt(z, i, k)
    <3>1. PICK j \in 1 .. Len(out) : AcceptedAt(out, j, k)
      BY <2>1, <2>3 DEF Announced, Direction
    <3> QED BY <1>2, <1>3, <1>4, <3>1
  <2> QED BY <2>2, <2>3 DEF Announced
<1>18. Cutting(m.buf, d, z, Append(qs, x))
  <2>1. PICK y : y = Append(qs, x)
    OBVIOUS
  <2>2. \A i \in 1 .. Len(y) : (i \in 1 .. Len(qs) /\ y[i] = qs[i]) \/ y[i] = x
    BY <2>1, AppendFacts
  <2>3. ASSUME NEW i \in 1 .. Len(y), NEW k \in KeyIds, y[i].type = "skey", k \in y[i].surplus
        PROVE  \/ \E j \in 1 .. Len(z) : IsCut(z, j) /\ k \in z[j].surplus
               \/ d.st[k] = "READY" /\ d.lo[k] = m.buf.lo[k] /\ d.hi[k] = m.buf.hi[k]
    <3>1. CASE i \in 1 .. Len(qs) /\ y[i] = qs[i]
      <4>1. \/ \E j \in 1 .. Len(out) : IsCut(out, j) /\ k \in out[j].surplus
            \/ d.st[k] = "READY" /\ d.lo[k] = e.lo[k] /\ d.hi[k] = e.hi[k]
        BY <2>3, <3>1 DEF Cutting, Direction
      <4>2. ASSUME NEW j \in 1 .. Len(out), IsCut(out, j), k \in out[j].surplus
            PROVE  \E h \in 1 .. Len(z) : IsCut(z, h) /\ k \in z[h].surplus
        BY <1>3, <1>6, <4>2
      <4>3. e.st[k] = "INIT"
        BY <2>3, <3>1
      <4>4. ~Names(x, k)
        BY <1>8, <4>3
      <4> QED BY <1>8, <4>1, <4>2, <4>4
    <3>2. CASE y[i] = x
      BY <1>3, <1>6, <2>3, <3>2
    <3> QED BY <2>2, <3>1, <3>2
  <2> QED BY <2>1, <2>3 DEF Cutting
<1>19. Supplied(d, sv2, fd)
  <2>1. ASSUME NEW s \in SupplyIds
        PROVE  d.supply[s] \in {{}, sv2[s]} /\ fd[s] \in {{}, sv2[s]}
    <3>1. d.supply[s] \in {{}, sv[s]} /\ fd[s] \in {{}, sv[s]}
      BY DEF Direction, Supplied
    <3> QED BY <3>1
  <2> QED BY <2>1 DEF Supplied
<1> QED BY <1>1, <1>14, <1>15, <1>16, <1>17, <1>18, <1>19 DEF Direction

(* What ProcessSKeyCreateRequest makes of "dec" for the request x.         *)
CutAt(x, b) ==
  LET p == Taken(b, x.ids, x.size * Len(x.supply))
  IN IF p.buf.failed THEN p.buf ELSE WithSupply(p, x.supply, x.size)

(* What ProcessSKeyCreateRequest does: the named keys are cut where the    *)
(* peer has cut them, and the supply keys hold what was served.            *)
LEMMA SkeyEffect ==
  ASSUME NEW e, NEW d, NEW sv, NEW x, Cut(x, e, d, sv), Fresh(x, d), Kept(d),
         \A k \in KeyIds : Names(x, k) => d.st[k] # "INIT"
  PROVE  /\ Kept(CutAt(x, d))
         /\ \A k \in KeyIds : ~Names(x, k) => /\ CutAt(x, d).st[k] = d.st[k]
                                              /\ CutAt(x, d).lo[k] = d.lo[k]
                                              /\ CutAt(x, d).hi[k] = d.hi[k]
         /\ \A k \in KeyIds : Names(x, k) =>
              /\ d.st[k] = "READY"
              /\ IF k \in x.surplus
                   THEN /\ CutAt(x, d).st[k] = "READY" /\ CutAt(x, d).lo[k] = e.lo[k]
                        /\ CutAt(x, d).hi[k] = e.hi[k]
                   ELSE CutAt(x, d).st[k] = "NONE"
         /\ \A s \in SupplyIds : IF Gives(x, s) THEN CutAt(x, d).supply[s] = sv[s]
                                 ELSE CutAt(x, d).supply[s] = d.supply[s]
<1>1. PICK off, cells : /\ Cuts(d, x.ids, x.surplus, off, Total(x))
                        /\ Fills(d, x.ids, off, cells, Total(x))
                        /\ Left(x, e, d, off) /\ Served(x, cells, sv)
  BY DEF Cut
<1>2. PICK ids, n : ids = x.ids /\ n = Total(x) /\ n \in Nat
  BY <1>1, CutsFacts
<1>3. x.size \in Nat \ {0} /\ x.supply \in Seq(SupplyIds) /\ Len(x.supply) \in Nat
  BY DEF Fresh
<1>4. x.size * Len(x.supply) = n
  BY <1>2, <1>3 DEF Total
<1>5. \A i \in 1 .. Len(ids) : ids[i] \in KeyIds /\ Names(x, ids[i])
  BY <1>1, <1>2, CutsFacts DEF Names
<1>6. \A k \in KeyIds : Names(x, k) => d.st[k] = "READY"
  <2>1. \A k \in KeyIds : d.st[k] \in {"NONE", "INIT", "READY"}
    BY KeyFacts DEF Kept, Sound
  <2> QED BY <2>1, Named
<1>7. Cuts(d, ids, x.surplus, off, n) /\ Fills(d, ids, off, cells, n)
  BY <1>1, <1>2
<1>8. PICK p : p = Taken(d, ids, n)
  OBVIOUS
<1>9. Drains(d, p.buf, ids, x.surplus, off, "READY") /\ p.cells = cells
  <2>1. \A i \in 1 .. Len(ids) : d.st[ids[i]] = "READY"
    BY <1>5, <1>6
  <2> QED BY <1>7, <1>8, <2>1, TakenEffect DEF Kept
<1>10. Kept(p.buf)
  BY <1>7, <1>9, DrainsKept
<1>11. PICK c : c = WithSupply(p, x.supply, x.size)
  OBVIOUS
<1>12. CutAt(x, d) = c
  BY <1>2, <1>4, <1>8, <1>10, <1>11 DEF CutAt, Kept
<1>13. PICK y : y = x.supply /\ y \in Seq(SupplyIds)
  BY <1>3
<1>14. Stores(p.buf, c, y, p.cells, x.size, Len(y))
  <2>1. \A i \in 1 .. Len(y) : \A j \in 1 .. Len(y) : y[i] = y[j] => i = j
    BY <1>13 DEF Fresh
  <2>2. \A i \in 1 .. Len(y) : p.buf.supply[y[i]] = {}
    BY <1>9, <1>13 DEF Fresh, Drains
  <2>3. \A j \in 1 .. Len(y) * x.size : p.cells[j] \in Cell
    <3>1. \A j \in 1 .. n : cells[j] \in Cell
      BY <1>7, UnitsCells DEF Kept
    <3>2. Len(y) * x.size = n
      BY <1>2, <1>13 DEF Total
    <3> QED BY <1>9, <3>1, <3>2
  <2>4. PICK size \in Nat \ {0} : size = x.size
    BY <1>3
  <2>5. Stores(p.buf, WithSupply(p, y, size), y, p.cells, size, Len(y))
    BY <1>10, <1>13, <2>1, <2>2, <2>3, <2>4, StoreAll DEF Kept
  <2> QED BY <1>11, <1>13, <2>4, <2>5
<1>15. c.st = p.buf.st /\ c.lo = p.buf.lo /\ c.hi = p.buf.hi /\ Sound(c) /\ c.failed = p.buf.failed
  BY <1>14 DEF Stores
<1>16. Kept(c)
  BY <1>10, <1>15 DEF Kept
<1>17. \A k \in KeyIds : ~Names(x, k) => c.st[k] = d.st[k] /\ c.lo[k] = d.lo[k] /\ c.hi[k] = d.hi[k]
  <2>1. \A k \in KeyIds : ~Names(x, k) => \A i \in 1 .. Len(ids) : ids[i] # k
    BY <1>2 DEF Names
  <2> QED BY <1>9, <1>15, <2>1 DEF Drains
<1>18. \A k \in KeyIds : Names(x, k) =>
         IF k \in x.surplus THEN c.st[k] = "READY" /\ c.lo[k] = e.lo[k] /\ c.hi[k] = e.hi[k]
                            ELSE c.st[k] = "NONE"
  <2>1. SUFFICES ASSUME NEW k \in KeyIds, Names(x, k)
                 PROVE  IF k \in x.surplus
                          THEN c.st[k] = "READY" /\ c.lo[k] = e.lo[k] /\ c.hi[k] = e.hi[k]
                          ELSE c.st[k] = "NONE"
    OBVIOUS
  <2>2. PICK i \in 1 .. Len(ids) : ids[i] = k
    BY <1>2, <2>1 DEF Names
  <2>3. k \in x.surplus => e.hi[k] = d.hi[k] /\ e.lo[k] = d.lo[k] + (off[i] - off[i - 1])
    BY <1>1, <1>2, <2>2 DEF Left
  <2>4. IF k \in x.surplus THEN /\ p.buf.st[k] = "READY" /\ p.buf.hi[k] = d.hi[k]
                                /\ p.buf.lo[k] = d.lo[k] + (off[i] - off[i - 1])
        ELSE p.buf.st[k] = "NONE"
    BY <1>9, <2>2 DEF Drains
  <2> QED BY <1>15, <2>3, <2>4
<1>19. \A s \in SupplyIds : IF Gives(x, s) THEN c.supply[s] = sv[s] ELSE c.supply[s] = d.supply[s]
  <2>1. ASSUME NEW s \in SupplyIds, Gives(x, s)
        PROVE  c.supply[s] = sv[s]
    <3>1. PICK i \in 1 .. Len(y) : y[i] = s
      BY <1>13, <2>1 DEF Gives
    <3>2. c.supply[s] = Piece(p.cells, x.size, i)
      BY <1>14, <3>1 DEF Stores
    <3>3. sv[s] = Piece(cells, x.size, i)
      BY <1>1, <1>13, <3>1 DEF Served
    <3> QED BY <1>9, <3>2, <3>3
  <2>2. ASSUME NEW s \in SupplyIds, ~Gives(x, s)
        PROVE  c.supply[s] = d.supply[s]
    <3>1. \A j \in 1 .. Len(y) : y[j] # s
      BY <1>13, <2>2 DEF Gives
    <3> QED BY <1>9, <1>14, <3>1 DEF Stores, Drains
  <2> QED BY <2>1, <2>2
<1> QED BY <1>6, <1>12, <1>16, <1>17, <1>18, <1>19

(* What a cut does to a key of d, and what e has of it.                    *)
Trimmed(e, d, c, surplus) ==
  \A k \in KeyIds :
    /\ d.st[k] # c.st[k] => d.st[k] = "READY" /\ e.st[k] = "NONE"
    /\ d.st[k] = "NONE" => c.st[k] = "NONE"
    /\ k \in surplus => d.st[k] = "READY"
    /\ e.st[k] # "INIT" \/ k \notin surplus =>
         c.st[k] = "NONE" \/ (c.st[k] = d.st[k] /\ c.lo[k] = d.lo[k] /\ c.hi[k] = d.hi[k])

(* The peer takes the SKEY_CREATE that is first on its way.                *)
LEMMA DecTakes ==
  ASSUME NEW e, NEW d, NEW out \in Seq(Messages), NEW qs, NEW sv, NEW fd,
         Direction(e, d, out, qs, sv, fd), Kept(d),
         \A i \in 1 .. Len(qs) : qs[i].type = "skey" => \A k \in qs[i].surplus : e.st[k] = "INIT",
         out # <<>>, Head(out).type = "skey"
  PROVE  /\ Direction(e, CutAt(Head(out), d), Tail(out), qs, sv, fd)
         /\ Kept(CutAt(Head(out), d))
         /\ Trimmed(e, d, CutAt(Head(out), d), Head(out).surplus)
<1>1. PICK z : z = Tail(out)
  OBVIOUS
<1>2. PICK L \in Nat : L = Len(z)
  BY <1>1, TailFacts
<1>3. /\ Len(out) = L + 1 /\ Head(out) = out[1] /\ 1 \in 1 .. L + 1
      /\ \A i \in 1 .. L : i + 1 \in 1 .. L + 1 /\ z[i] = out[i + 1]
      /\ \A i \in 1 .. L + 1 : i = 1 \/ (i - 1 \in 1 .. L /\ z[i - 1] = out[i])
  <2>1. /\ Len(z) + 1 = Len(out) /\ Head(out) = out[1] /\ 1 \in 1 .. Len(out)
        /\ \A i \in 1 .. Len(z) : i + 1 \in 1 .. Len(out) /\ z[i] = out[i + 1]
        /\ \A i \in 1 .. Len(out) : i = 1 \/ (i - 1 \in 1 .. Len(z) /\ z[i - 1] = out[i])
    BY <1>1, TailFacts
  <2> QED BY <1>2, <2>1
<1>4. PICK x : x = Head(out)
  OBVIOUS
<1>5. x = out[1] /\ IsCut(out, 1) /\ 1 \in 1 .. Len(out)
  BY <1>3, <1>4 DEF IsCut
<1>6. Cut(x, e, d, sv) /\ Fresh(x, d)
  BY <1>5 DEF Direction, Sending
<1>7. \A k \in KeyIds : Names(x, k) => d.st[k] # "INIT"
  <2>1. SUFFICES ASSUME NEW k \in KeyIds, Names(x, k), d.st[k] = "INIT"
                 PROVE  FALSE
    OBVIOUS
  <2>2. PICK j \in 1 .. Len(out) : j < 1 /\ AcceptedAt(out, j, k)
    BY <1>5, <2>1 DEF Direction, Waiting
  <2> QED BY <1>3, <2>2
<1>8. PICK c : c = CutAt(x, d)
  OBVIOUS
<1>9. /\ Kept(c)
      /\ \A k \in KeyIds : ~Names(x, k) => c.st[k] = d.st[k] /\ c.lo[k] = d.lo[k] /\ c.hi[k] = d.hi[k]
      /\ \A k \in KeyIds : Names(x, k) =>
           /\ d.st[k] = "READY"
           /\ IF k \in x.surplus THEN c.st[k] = "READY" /\ c.lo[k] = e.lo[k] /\ c.hi[k] = e.hi[k]
                                 ELSE c.st[k] = "NONE"
      /\ \A s \in SupplyIds : IF Gives(x, s) THEN c.supply[s] = sv[s] ELSE c.supply[s] = d.supply[s]
  BY <1>6, <1>7, <1>8, SkeyEffect
<1>10. \A k : Names(x, k) => k \in KeyIds /\ e.st[k] = IF k \in x.surplus THEN "INIT" ELSE "NONE"
  BY <1>6, Named
<1>11. \A k \in x.surplus : Names(x, k)
  BY <1>6, Named
<1>12. \A i, k : AcceptedAt(out, i, k) => i - 1 \in 1 .. L /\ AcceptedAt(z, i - 1, k)
  BY <1>2, <1>3 DEF AcceptedAt
<1>13. \A i : IsCut(z, i) => i \in 1 .. L /\ i + 1 \in 1 .. L + 1 /\ IsCut(out, i + 1) /\ z[i] = out[i + 1]
  BY <1>2, <1>3 DEF IsCut
<1>14. \A i : IsCut(out, i) => i = 1 \/ (i - 1 \in 1 .. L /\ IsCut(z, i - 1) /\ z[i - 1] = out[i])
  BY <1>2, <1>3 DEF IsCut
<1>15. ASSUME NEW i \in 1 .. L, IsCut(z, i)
       PROVE  /\ \A k : Names(z[i], k) => k \in KeyIds /\ ~Names(x, k)
              /\ \A s : Gives(z[i], s) => s \in SupplyIds /\ ~Gives(x, s)
              /\ Cut(z[i], e, c, sv) /\ Fresh(z[i], c)
  <2>1. IsCut(out, i + 1) /\ z[i] = out[i + 1] /\ i + 1 \in 1 .. Len(out) /\ i + 1 # 1
    BY <1>3, <1>13, <1>15
  <2>2. Cut(z[i], e, d, sv) /\ Fresh(z[i], d)
    BY <2>1 DEF Direction, Sending
  <2>3. /\ \A k \in KeyIds : ~(Names(z[i], k) /\ Names(x, k))
        /\ \A s \in SupplyIds : ~(Gives(z[i], s) /\ Gives(x, s))
    BY <1>5, <2>1 DEF Direction, Apart
  <2>4. \A k : Names(z[i], k) => k \in KeyIds /\ d.st[k] # "NONE"
    BY <2>2, Named
  <2>5. \A s : Gives(z[i], s) => s \in SupplyIds
    BY <2>2 DEF Fresh, Gives
  <2>6. Cut(z[i], e, c, sv)
    BY <1>9, <2>2, <2>3, <2>4, CutSame
  <2>7. \A j \in 1 .. Len(z[i].supply) : c.supply[z[i].supply[j]] = d.supply[z[i].supply[j]]
    <3>1. \A j \in 1 .. Len(z[i].supply) : Gives(z[i], z[i].supply[j])
      BY DEF Gives
    <3> QED BY <1>9, <2>3, <2>5, <3>1
  <2>8. Fresh(z[i], c)
    BY <2>2, <2>7 DEF Fresh
  <2> QED BY <2>3, <2>4, <2>5, <2>6, <2>8
<1>16. Sending(e, c, z, sv)
  BY <1>2, <1>15 DEF Sending
<1>17. Mirrored(e, c)
  BY <1>9, <1>10 DEF Direction, Mirrored
<1>18. Announced(e, c, z)
  <2>1. ASSUME NEW k \in KeyIds, e.st[k] = "READY", c.st[k] = "INIT"
        PROVE  \E i \in 1 .. Len(z) : AcceptedAt(z, i, k)
    <3>1. d.st[k] = "INIT"
      BY <1>9, <2>1
    <3>2. PICK i \in 1 .. Len(out) : AcceptedAt(out, i, k)
      BY <2>1, <3>1 DEF Announced, Direction
    <3> QED BY <1>2, <1>12, <3>2
  <2> QED BY <2>1 DEF Announced
<1>19. Waiting(c, z)
  <2>1. ASSUME NEW i \in 1 .. Len(z), NEW k \in KeyIds, IsCut(z, i), Names(z[i], k), c.st[k] = "INIT"
        PROVE  \E j \in 1 .. Len(z) : j < i /\ AcceptedAt(z, j, k)
    <3>1. d.st[k] = "INIT"
      BY <1>9, <2>1
    <3>2. i + 1 \in 1 .. Len(out) /\ IsCut(out, i + 1) /\ Names(out[i + 1], k)
      BY <1>3, <1>13, <2>1
    <3>3. PICK j \in 1 .. Len(out) : j < i + 1 /\ AcceptedAt(out, j, k)
      BY <3>1, <3>2 DEF Waiting, Direction
    <3>4. j - 1 \in 1 .. L /\ AcceptedAt(z, j - 1, k) /\ j - 1 < i
      BY <1>2, <1>12, <3>3
    <3> QED BY <1>2, <3>4
  <2> QED BY <2>1 DEF Waiting
<1>20. Apart(z)
  <2>1. ASSUME NEW i \in 1 .. Len(z), NEW j \in 1 .. Len(z), IsCut(z, i), IsCut(z, j), i # j
        PROVE  /\ \A k \in KeyIds : ~(Names(z[i], k) /\ Names(z[j], k))
               /\ \A s \in SupplyIds : ~(Gives(z[i], s) /\ Gives(z[j], s))
    <3>1. /\ i + 1 \in 1 .. Len(out) /\ j + 1 \in 1 .. Len(out) /\ i + 1 # j + 1
          /\ IsCut(out, i + 1) /\ IsCut(out, j + 1)
          /\ z[i] = out[i + 1] /\ z[j] = out[j + 1]
      BY <1>2, <1>3, <1>13, <2>1
    <3> QED BY <3>1 DEF Apart, Direction
  <2> QED BY <2>1 DEF Apart
<1>21. Cutting(e, c, z, qs)
  <2>1. ASSUME NEW i \in 1 .. Len(qs), NEW k \in KeyIds, qs[i].type = "skey", k \in qs[i].surplus
        PROVE  \/ \E j \in 1 .. Len(z) : IsCut(z, j) /\ k \in z[j].surplus
               \/ c.st[k] = "READY" /\ c.lo[k] = e.lo[k] /\ c.hi[k] = e.hi[k]
    <3>1. CASE k \in x.surplus
      BY <1>9, <1>11, <3>1
    <3>2. CASE k \notin x.surplus
      <4>1. \/ \E j \in 1 .. Len(out) : IsCut(out, j) /\ k \in out[j].surplus
            \/ d.st[k] = "READY" /\ d.lo[k] = e.lo[k] /\ d.hi[k] = e.hi[k]
        BY <2>1 DEF Cutting, Direction
      <4>2. ASSUME NEW j \in 1 .. Len(out), IsCut(out, j), k \in out[j].surplus
            PROVE  \E h \in 1 .. Len(z) : IsCut(z, h) /\ k \in z[h].surplus
        <5>1. j # 1
          BY <1>5, <3>2, <4>2
        <5> QED BY <1>2, <1>14, <4>2, <5>1
      <4>3. ASSUME ~Names(x, k)
            PROVE  c.st[k] = d.st[k] /\ c.lo[k] = d.lo[k] /\ c.hi[k] = d.hi[k]
        BY <1>9, <4>3
      <4>4. ~Names(x, k)
        BY <1>10, <2>1, <3>2
      <4> QED BY <4>1, <4>2, <4>3, <4>4
    <3> QED BY <3>1, <3>2
  <2> QED BY <2>1 DEF Cutting
<1>22. Supplied(c, sv, fd)
  BY <1>9 DEF Direction, Supplied
<1>23. Trimmed(e, d, c, x.surplus)
  BY <1>9, <1>10, <1>11 DEF Trimmed
<1> QED BY <1>1, <1>4, <1>8, <1>9, <1>23, <1>16, <1>17, <1>18, <1>19, <1>20, <1>21, <1>22 DEF Direction

-----------------------------------------------------------------------------
(* The query that a message on its way belongs to.                         *)

LEMMA Replied ==
  ASSUME NEW S, NEW x \in Seq(S), NEW y \in Seq(S), NEW qs \in Seq(S), Matched(x, y, qs),
         NEW i \in 1 .. Len(x), ~Request(x[i])
  PROVE  \E j \in 1 .. Len(qs) :
           /\ j <= Cardinality(Replies(x)) /\ Answers(x[i], qs[j])
           /\ ~Request(x[1]) => (j = 1 <=> i = 1)
<1>1. PICK R : R = Replies(x)
  OBVIOUS
<1>2. IsFiniteSet(R) /\ R \subseteq Nat \ {0} /\ Cardinality(R) \in Nat
  BY <1>1, PlacesFinite
<1>3. i \in R
  BY <1>1 DEF Replies
<1>4. PICK j \in 1 .. Cardinality(R) : j = Rank(R, i)
  BY <1>2, <1>3, RankRange
<1>5. Answers(x[i], qs[j])
  BY <1>1, <1>3, <1>4 DEF Matched
<1>6. j \in 1 .. Len(qs)
  <2>1. Len(qs) = Cardinality(R) + Cardinality(Asks(y)) /\ Cardinality(Asks(y)) \in Nat
    BY <1>1, PlacesFinite DEF Matched
  <2>2. PICK a \in Nat, b \in Nat : a = Cardinality(R) /\ b = Cardinality(Asks(y))
    BY <1>2, <2>1
  <2>3. j \in 1 .. a /\ Len(qs) = a + b
    BY <1>4, <2>1, <2>2
  <2> QED BY <2>2, <2>3
<1>7. ASSUME ~Request(x[1])
      PROVE  j = 1 <=> i = 1
  <2>1. 1 \in R
    BY <1>1, <1>7 DEF Replies
  <2>2. Rank(R, 1) \in 1 .. Cardinality(R) /\ \A h \in R : 1 < h => Rank(R, 1) < Rank(R, h)
    BY <1>2, <2>1, RankRange
  <2>3. CASE i = 1
    <3>1. {h \in R : h <= 1} = {1}
      <4>1. \A h \in R : h <= 1 <=> h = 1
        <5>1. \A h \in Nat \ {0} : h <= 1 <=> h = 1
          OBVIOUS
        <5> QED BY <1>2, <5>1
      <4> QED BY <2>1, <4>1
    <3>2. Cardinality({1}) = 1
      BY FS_Singleton
    <3> QED BY <1>4, <2>3, <3>1, <3>2 DEF Rank
  <2>4. CASE i # 1
    <3>1. 1 < i
      BY <2>4
    <3>2. Rank(R, 1) < j
      BY <1>3, <1>4, <2>2, <3>1
    <3> QED BY <1>2, <1>4, <2>2, <2>4, <3>2
  <2> QED BY <2>3, <2>4
<1> QED BY <1>1, <1>4, <1>5, <1>6, <1>7

(* A request on its way is a query behind those answered.                  *)
LEMMA AskedFor ==
  ASSUME NEW S, NEW x \in Seq(S), NEW y \in Seq(S), NEW qs \in Seq(S), Matched(x, y, qs),
         NEW i \in 1 .. Len(y), Request(y[i])
  PROVE  \E j \in 1 .. Len(qs) : j > Cardinality(Replies(x)) /\ qs[j] = y[i]
<1>1. PICK R : R = Asks(y)
  OBVIOUS
<1>2. IsFiniteSet(R) /\ R \subseteq Nat \ {0} /\ Cardinality(R) \in Nat /\ R \subseteq Nat
  BY <1>1, PlacesFinite
<1>3. i \in R
  BY <1>1 DEF Asks
<1>4. PICK g \in 1 .. Cardinality(R) : g = Rank(R, i)
  BY <1>2, <1>3, RankRange
<1>5. PICK c \in Nat : c = Cardinality(Replies(x))
  BY PlacesFinite
<1>6. qs[c + g] = y[i] /\ Len(qs) = c + Cardinality(R)
  BY <1>1, <1>3, <1>4, <1>5 DEF Matched
<1>7. c + g \in 1 .. Len(qs) /\ c + g > c
  BY <1>2, <1>6
<1> QED BY <1>5, <1>6, <1>7

(* The lists of a node and its peer.                                       *)
LEMMA ListedFacts ==
  ASSUME NEW nt, NEW qy, Listed(nt, qy), NEW n \in Node
  PROVE  /\ Peer(n) \in Node /\ Peer(Peer(n)) = n /\ Peer(n) # n
         /\ nt[n] \in Seq(Messages) /\ nt[Peer(n)] \in Seq(Messages) /\ qy[n] \in Seq(Messages)
         /\ Matched(nt[n], nt[Peer(n)], qy[n])
         /\ \A i \in 1 .. Len(qy[n]) : Request(qy[n][i])
  BY DEF Listed, Node, Peer

(* An accepted key is one of a FILL that the master waits on.              *)
LEMMA AcceptClaims ==
  ASSUME NEW nt, NEW qy, Listed(nt, qy), NEW n \in Node,
         NEW i \in 1 .. Len(nt[n]), NEW k, AcceptedAt(nt[n], i, k)
  PROVE  n = "A" /\ \E j \in 1 .. Len(qy[n]) :
           /\ j <= Cardinality(Replies(nt[n])) /\ qy[n][j].type = "fill" /\ k \in qy[n][j].keys
           /\ ~Request(nt[n][1]) => (j = 1 <=> i = 1)
<1>1. i \in 1 .. Len(nt[n]) /\ nt[n][i].type = "filled" /\ k \in nt[n][i].accepted
      /\ ~Request(nt[n][i])
  BY DEF AcceptedAt, Request
<1>2. PICK j \in 1 .. Len(qy[n]) :
           /\ j <= Cardinality(Replies(nt[n])) /\ Answers(nt[n][i], qy[n][j])
           /\ ~Request(nt[n][1]) => (j = 1 <=> i = 1)
  <2>1. PICK x \in Seq(Messages), y \in Seq(Messages), qs \in Seq(Messages) :
          x = nt[n] /\ y = nt[Peer(n)] /\ qs = qy[n] /\ Matched(x, y, qs)
    BY ListedFacts
  <2>2. i \in 1 .. Len(x) /\ ~Request(x[i])
    BY <1>1, <2>1
  <2>3. \E j \in 1 .. Len(qs) :
          /\ j <= Cardinality(Replies(x)) /\ Answers(x[i], qs[j])
          /\ ~Request(x[1]) => (j = 1 <=> i = 1)
    BY <2>1, <2>2, Replied, SMTT(30)
  <2> QED BY <2>1, <2>3
<1>3. qy[n][j].type = "fill" /\ k \in qy[n][j].keys
  BY <1>1, <1>2 DEF Answers
<1>4. n = "A"
  BY <1>3 DEF Listed, Node
<1> QED BY <1>2, <1>3, <1>4

(* A SKEY_CREATE on its way is a query of its sender.                      *)
LEMMA CutClaims ==
  ASSUME NEW nt, NEW qy, Listed(nt, qy), NEW n \in Node, NEW i \in 1 .. Len(nt[Peer(n)]),
         Request(nt[Peer(n)][i])
  PROVE  \E j \in 1 .. Len(qy[n]) :
           j > Cardinality(Replies(nt[n])) /\ qy[n][j] = nt[Peer(n)][i]
<1>1. PICK x \in Seq(Messages), y \in Seq(Messages), qs \in Seq(Messages) :
        x = nt[n] /\ y = nt[Peer(n)] /\ qs = qy[n] /\ Matched(x, y, qs)
  BY ListedFacts
<1>2. i \in 1 .. Len(y) /\ Request(y[i])
  BY <1>1
<1>3. \E j \in 1 .. Len(qs) : j > Cardinality(Replies(x)) /\ qs[j] = y[i]
  BY <1>1, <1>2, AskedFor
<1> QED BY <1>1, <1>3

-----------------------------------------------------------------------------
(* The lists of messages and queries, step by step.                        *)

LEMMA Peers ==
  /\ \A n \in Node : Peer(n) \in Node /\ Peer(Peer(n)) = n /\ Peer(n) # n
  /\ \A n, m \in Node : m = n \/ m = Peer(n)
  /\ Peer("A") = "B" /\ Peer("B") = "A" /\ "A" \in Node /\ "B" \in Node
  /\ Dir = {"enc", "dec"} /\ Other("enc") = "dec" /\ Other("dec") = "enc"
BY DEF Node, Peer, Dir, Other

(* Listed, from a node and its peer.                                       *)
LEMMA ListedPair ==
  ASSUME NEW nt, NEW qy, NEW n \in Node,
         nt[n] \in Seq(Messages), nt[Peer(n)] \in Seq(Messages),
         qy[n] \in Seq(Messages), qy[Peer(n)] \in Seq(Messages),
         Matched(nt[n], nt[Peer(n)], qy[n]), Matched(nt[Peer(n)], nt[n], qy[Peer(n)]),
         \A i \in 1 .. Len(qy[n]) : Request(qy[n][i]) /\ (n = "B" => qy[n][i].type = "skey"),
         \A i \in 1 .. Len(qy[Peer(n)]) :
           Request(qy[Peer(n)][i]) /\ (n = "A" => qy[Peer(n)][i].type = "skey")
  PROVE  Listed(nt, qy)
<1>1. CASE n = "A"
  BY <1>1, Peers DEF Listed, Node
<1>2. CASE n = "B"
  BY <1>2, Peers DEF Listed, Node
<1> QED BY <1>1, <1>2 DEF Node

(* Listed, at a node and its peer.                                         *)
LEMMA ListedUnpair ==
  ASSUME NEW nt, NEW qy, Listed(nt, qy), NEW n \in Node
  PROVE  /\ nt[n] \in Seq(Messages) /\ nt[Peer(n)] \in Seq(Messages)
         /\ qy[n] \in Seq(Messages) /\ qy[Peer(n)] \in Seq(Messages)
         /\ Matched(nt[n], nt[Peer(n)], qy[n]) /\ Matched(nt[Peer(n)], nt[n], qy[Peer(n)])
         /\ \A i \in 1 .. Len(qy[n]) : Request(qy[n][i]) /\ (n = "B" => qy[n][i].type = "skey")
         /\ \A i \in 1 .. Len(qy[Peer(n)]) :
              Request(qy[Peer(n)][i]) /\ (n = "A" => qy[Peer(n)][i].type = "skey")
BY DEF Listed, Node, Peer

(* A request is sent.                                                      *)
LEMMA ListedSend ==
  ASSUME NEW nt, NEW qy, Listed(nt, qy), NEW n \in Node,
         NEW m \in Messages, Request(m), n = "B" => m.type = "skey",
         NEW nt2, nt2[n] = nt[n], nt2[Peer(n)] = Append(nt[Peer(n)], m),
         NEW qy2, qy2[n] = Append(qy[n], m), qy2[Peer(n)] = qy[Peer(n)]
  PROVE  Listed(nt2, qy2)
<1>1. PICK x \in Seq(Messages), y \in Seq(Messages), qs \in Seq(Messages), rs \in Seq(Messages) :
        /\ x = nt[n] /\ y = nt[Peer(n)] /\ qs = qy[n] /\ rs = qy[Peer(n)]
        /\ Matched(x, y, qs) /\ Matched(y, x, rs)
  BY ListedUnpair
<1>2. Matched(x, Append(y, m), Append(qs, m))
  BY <1>1, AskSent
<1>3. Matched(Append(y, m), x, rs)
  BY <1>1, AskArrives
<1>4. Append(y, m) \in Seq(Messages) /\ Append(qs, m) \in Seq(Messages)
  OBVIOUS
<1>5. \A i \in 1 .. Len(qy2[n]) : Request(qy2[n][i]) /\ (n = "B" => qy2[n][i].type = "skey")
  <2>1. \A i \in 1 .. Len(qs) : Request(qs[i]) /\ (n = "B" => qs[i].type = "skey")
    BY <1>1, ListedUnpair
  <2>2. PICK ps : ps = Append(qs, m) /\ ps = qy2[n]
    BY <1>1
  <2>3. \A i \in 1 .. Len(ps) : ps[i] = m \/ (i \in 1 .. Len(qs) /\ ps[i] = qs[i])
    <3>1. PICK us \in Seq(Messages) : us = qs
      OBVIOUS
    <3>2. ps = Append(us, m)
      BY <2>2, <3>1
    <3>3. \A i \in 1 .. Len(ps) : ps[i] = m \/ (i \in 1 .. Len(us) /\ ps[i] = us[i])
      BY <3>2, AppendFacts
    <3> QED BY <3>1, <3>3
  <2>4. \A i \in 1 .. Len(ps) : Request(ps[i]) /\ (n = "B" => ps[i].type = "skey")
    BY <2>1, <2>3
  <2> QED BY <2>2, <2>4
<1>6. \A i \in 1 .. Len(qy2[Peer(n)]) :
           Request(qy2[Peer(n)][i]) /\ (n = "A" => qy2[Peer(n)][i].type = "skey")
  BY ListedUnpair
<1> QED BY <1>1, <1>2, <1>3, <1>4, <1>5, <1>6, ListedPair

(* A request is read and answered.                                         *)
LEMMA ListedAnswer ==
  ASSUME NEW nt, NEW qy, Listed(nt, qy), NEW n \in Node, nt[n] # <<>>, Request(Head(nt[n])),
         NEW m \in Messages, ~Request(m), Answers(m, Head(nt[n])),
         NEW nt2, nt2[n] = Tail(nt[n]), nt2[Peer(n)] = Append(nt[Peer(n)], m)
  PROVE  Listed(nt2, qy)
<1>1. PICK x \in Seq(Messages), y \in Seq(Messages), qs \in Seq(Messages), rs \in Seq(Messages) :
        /\ x = nt[n] /\ y = nt[Peer(n)] /\ qs = qy[n] /\ rs = qy[Peer(n)]
        /\ Matched(x, y, qs) /\ Matched(y, x, rs)
  BY ListedUnpair
<1>2. Matched(Tail(x), Append(y, m), qs)
  BY <1>1, AskRead
<1>3. Matched(Append(y, m), Tail(x), rs)
  BY <1>1, AskAnswered
<1>4. Append(y, m) \in Seq(Messages) /\ Tail(x) \in Seq(Messages)
  BY <1>1, TailFacts
<1>5. /\ \A i \in 1 .. Len(qy[n]) : Request(qy[n][i]) /\ (n = "B" => qy[n][i].type = "skey")
      /\ \A i \in 1 .. Len(qy[Peer(n)]) :
           Request(qy[Peer(n)][i]) /\ (n = "A" => qy[Peer(n)][i].type = "skey")
  BY ListedUnpair
<1> QED BY <1>1, <1>2, <1>3, <1>4, <1>5, ListedPair

(* An answer is read: it is that of the first query.                       *)
LEMMA ListedRead ==
  ASSUME NEW nt, NEW qy, Listed(nt, qy), NEW n \in Node, nt[n] # <<>>, ~Request(Head(nt[n])),
         NEW nt2, nt2[n] = Tail(nt[n]), nt2[Peer(n)] = nt[Peer(n)],
         NEW qy2, qy2[n] = Tail(qy[n]), qy2[Peer(n)] = qy[Peer(n)]
  PROVE  Listed(nt2, qy2) /\ qy[n] # <<>> /\ Answers(Head(nt[n]), qy[n][1])
<1>1. PICK x \in Seq(Messages), y \in Seq(Messages), qs \in Seq(Messages), rs \in Seq(Messages) :
        /\ x = nt[n] /\ y = nt[Peer(n)] /\ qs = qy[n] /\ rs = qy[Peer(n)]
        /\ Matched(x, y, qs) /\ Matched(y, x, rs)
  BY ListedUnpair
<1>2. qs # <<>> /\ Answers(Head(x), qs[1]) /\ Matched(Tail(x), y, Tail(qs))
  BY <1>1, AnswerRead
<1>3. Matched(y, Tail(x), rs)
  BY <1>1, AnswerLeft
<1>4. Tail(x) \in Seq(Messages) /\ Tail(qs) \in Seq(Messages)
  BY <1>1, <1>2, TailFacts
<1>5. \A i \in 1 .. Len(qy2[n]) : Request(qy2[n][i]) /\ (n = "B" => qy2[n][i].type = "skey")
  <2>1. \A i \in 1 .. Len(qs) : Request(qs[i]) /\ (n = "B" => qs[i].type = "skey")
    BY <1>1, ListedUnpair
  <2>2. \A i \in 1 .. Len(Tail(qs)) : i + 1 \in 1 .. Len(qs) /\ Tail(qs)[i] = qs[i + 1]
    BY <1>2, TailFacts
  <2> QED BY <1>1, <2>1, <2>2
<1>6. \A i \in 1 .. Len(qy2[Peer(n)]) :
           Request(qy2[Peer(n)][i]) /\ (n = "A" => qy2[Peer(n)][i].type = "skey")
  BY ListedUnpair
<1>7. Listed(nt2, qy2)
  BY <1>1, <1>2, <1>3, <1>4, <1>5, <1>6, ListedPair
<1> QED BY <1>1, <1>2, <1>7

-----------------------------------------------------------------------------
(* Claims and places, step by step.                                        *)

(* No buffer but the d of node n has changed.                              *)
Only(bs, bs2, n, d) == \A m \in Node, c \in Dir : m # n \/ c # d => bs2[m][c] = bs[m][c]

(* What is INIT does not change.                                           *)
LEMMA ClaimedKeep ==
  ASSUME NEW bs, NEW qy, Claimed(bs, qy), NEW bs2,
         \A n \in Node, d \in Dir, k \in KeyIds :
           bs2[n][d].st[k] = "INIT" <=> bs[n][d].st[k] = "INIT"
  PROVE  Claimed(bs2, qy)
BY DEF Claimed

(* The two parts of Claimed of one node.                                   *)
ClaimedAt(b, qs) ==
  \A d \in Dir, k \in KeyIds :
    /\ b[d].st[k] = "INIT" <=> \E i \in 1 .. Len(qs) : k \in Claims(qs[i], d)
    /\ \A i, j \in 1 .. Len(qs) : k \in Claims(qs[i], d) /\ k \in Claims(qs[j], d) => i = j

(* Claimed, node by node.                                                  *)
LEMMA ClaimedNodes ==
  ASSUME NEW bs, NEW qy
  PROVE  Claimed(bs, qy) <=> \A n \in Node : ClaimedAt(bs[n], qy[n])
BY DEF Claimed, ClaimedAt

(* A request that claims keys is sent, and they become INIT.               *)
LEMMA ClaimedAsk ==
  ASSUME NEW bs, NEW nt, NEW qy, Listed(nt, qy), Claimed(bs, qy), NEW n \in Node, NEW m \in Messages,
         NEW qy2, qy2[n] = Append(qy[n], m), qy2[Peer(n)] = qy[Peer(n)],
         NEW bs2,
         \A d \in Dir, k \in KeyIds :
           /\ bs2[Peer(n)][d].st[k] = "INIT" <=> bs[Peer(n)][d].st[k] = "INIT"
           /\ bs2[n][d].st[k] = "INIT" <=> (bs[n][d].st[k] = "INIT" \/ k \in Claims(m, d))
           /\ k \in Claims(m, d) => bs[n][d].st[k] # "INIT"
  PROVE  Claimed(bs2, qy2)
<1>1. qy[n] \in Seq(Messages)
  BY ListedUnpair
<1>2. PICK qs \in Seq(Messages), rs \in Seq(Messages) :
        qs = qy[n] /\ rs = Append(qs, m) /\ rs = qy2[n]
  BY <1>1, AppendFacts
<1>3. /\ Len(qs) \in Nat /\ Len(rs) = Len(qs) + 1
      /\ \A i \in 1 .. Len(qs) : i \in 1 .. Len(rs) /\ rs[i] = qs[i]
      /\ Len(qs) + 1 \in 1 .. Len(rs) /\ rs[Len(qs) + 1] = m
      /\ \A i \in 1 .. Len(rs) : i \in 1 .. Len(qs) \/ i = Len(qs) + 1
  BY <1>2, AppendFacts
<1>4. \A d \in Dir, k \in KeyIds :
        /\ bs[n][d].st[k] = "INIT" <=> \E i \in 1 .. Len(qs) : k \in Claims(qs[i], d)
        /\ \A i, j \in 1 .. Len(qs) : k \in Claims(qs[i], d) /\ k \in Claims(qs[j], d) => i = j
  BY <1>2 DEF Claimed
<1>5. ASSUME NEW d \in Dir, NEW k \in KeyIds
      PROVE  /\ bs2[n][d].st[k] = "INIT" <=> \E i \in 1 .. Len(rs) : k \in Claims(rs[i], d)
             /\ \A i, j \in 1 .. Len(rs) : k \in Claims(rs[i], d) /\ k \in Claims(rs[j], d) => i = j
  <2>1. (\E i \in 1 .. Len(rs) : k \in Claims(rs[i], d))
          <=> (k \in Claims(m, d) \/ \E i \in 1 .. Len(qs) : k \in Claims(qs[i], d))
    BY <1>3
  <2>2. ASSUME NEW i \in 1 .. Len(rs), NEW j \in 1 .. Len(rs),
               k \in Claims(rs[i], d), k \in Claims(rs[j], d)
        PROVE  i = j
    <3>1. CASE i \in 1 .. Len(qs) /\ j \in 1 .. Len(qs)
      BY <1>3, <1>4, <2>2, <3>1
    <3>2. CASE i \in 1 .. Len(qs) /\ j = Len(qs) + 1
      BY <1>3, <1>4, <2>2, <3>2
    <3>3. CASE j \in 1 .. Len(qs) /\ i = Len(qs) + 1
      BY <1>3, <1>4, <2>2, <3>3
    <3>4. CASE i = Len(qs) + 1 /\ j = Len(qs) + 1
      BY <3>4
    <3> QED BY <1>3, <3>1, <3>2, <3>3, <3>4
  <2> QED BY <1>4, <2>1, <2>2
<1>6. ClaimedAt(bs2[n], qy2[n])
  <2>1. ClaimedAt(bs2[n], rs)
    BY <1>5 DEF ClaimedAt
  <2> QED BY <1>2, <2>1
<1>7. ClaimedAt(bs2[Peer(n)], qy2[Peer(n)])
  <2>1. Peer(n) \in Node
    BY Peers
  <2>2. ClaimedAt(bs[Peer(n)], qy[Peer(n)])
    BY <2>1, ClaimedNodes
  <2> QED BY <2>2 DEF ClaimedAt
<1>8. \A o \in Node : o = n \/ o = Peer(n)
  BY Peers
<1> QED BY <1>6, <1>7, <1>8, ClaimedNodes

(* The first query is settled, and its keys are INIT no more.              *)
LEMMA ClaimedRead ==
  ASSUME NEW bs, NEW nt, NEW qy, Listed(nt, qy), Claimed(bs, qy), NEW n \in Node, qy[n] # <<>>,
         NEW qy2, qy2[n] = Tail(qy[n]), qy2[Peer(n)] = qy[Peer(n)],
         NEW bs2,
         \A d \in Dir, k \in KeyIds :
           /\ bs2[Peer(n)][d].st[k] = "INIT" <=> bs[Peer(n)][d].st[k] = "INIT"
           /\ bs2[n][d].st[k] = "INIT" <=> (bs[n][d].st[k] = "INIT" /\ k \notin Claims(qy[n][1], d))
  PROVE  Claimed(bs2, qy2)
<1>1. qy[n] \in Seq(Messages)
  BY ListedUnpair
<1>2. PICK qs \in Seq(Messages), rs \in Seq(Messages) :
        qs = qy[n] /\ rs = Tail(qs) /\ rs = qy2[n] /\ qs # <<>>
  BY <1>1, TailFacts
<1>3. /\ Len(qs) \in Nat /\ Len(rs) \in Nat /\ Len(rs) + 1 = Len(qs) /\ 1 \in 1 .. Len(qs)
      /\ \A i \in 1 .. Len(rs) : i + 1 \in 1 .. Len(qs) /\ rs[i] = qs[i + 1]
      /\ \A i \in 1 .. Len(qs) : i = 1 \/ (i - 1 \in 1 .. Len(rs) /\ rs[i - 1] = qs[i])
  BY <1>2, TailFacts
<1>4. \A d \in Dir, k \in KeyIds :
        /\ bs[n][d].st[k] = "INIT" <=> \E i \in 1 .. Len(qs) : k \in Claims(qs[i], d)
        /\ \A i, j \in 1 .. Len(qs) : k \in Claims(qs[i], d) /\ k \in Claims(qs[j], d) => i = j
  BY <1>2 DEF Claimed
<1>5. ASSUME NEW d \in Dir, NEW k \in KeyIds
      PROVE  /\ bs2[n][d].st[k] = "INIT" <=> \E i \in 1 .. Len(rs) : k \in Claims(rs[i], d)
             /\ \A i, j \in 1 .. Len(rs) : k \in Claims(rs[i], d) /\ k \in Claims(rs[j], d) => i = j
  <2>1. \A i \in 1 .. Len(rs) : i + 1 # 1
    OBVIOUS
  <2>2. ASSUME NEW i \in 1 .. Len(rs), k \in Claims(rs[i], d)
        PROVE  (\E j \in 1 .. Len(qs) : k \in Claims(qs[j], d)) /\ k \notin Claims(qs[1], d)
    BY <1>3, <1>4, <2>1, <2>2
  <2>3. ASSUME NEW i \in 1 .. Len(qs), k \in Claims(qs[i], d), k \notin Claims(qs[1], d)
        PROVE  \E j \in 1 .. Len(rs) : k \in Claims(rs[j], d)
    BY <1>3, <2>3
  <2>4. ASSUME NEW i \in 1 .. Len(rs), NEW j \in 1 .. Len(rs),
               k \in Claims(rs[i], d), k \in Claims(rs[j], d)
        PROVE  i = j
    <3>1. i + 1 = j + 1
      BY <1>3, <1>4, <2>4
    <3> QED BY <3>1
  <2> QED BY <1>2, <1>4, <2>2, <2>3, <2>4
<1>6. ClaimedAt(bs2[n], qy2[n])
  <2>1. ClaimedAt(bs2[n], rs)
    BY <1>5 DEF ClaimedAt
  <2> QED BY <1>2, <2>1
<1>7. ClaimedAt(bs2[Peer(n)], qy2[Peer(n)])
  <2>1. Peer(n) \in Node
    BY Peers
  <2>2. ClaimedAt(bs[Peer(n)], qy[Peer(n)])
    BY <2>1, ClaimedNodes
  <2> QED BY <2>2 DEF ClaimedAt
<1>8. \A o \in Node : o = n \/ o = Peer(n)
  BY Peers
<1> QED BY <1>6, <1>7, <1>8, ClaimedNodes

(* One query of a node claims a key, in one direction.                     *)
LEMMA OneClaim ==
  ASSUME NEW st, NEW qb, NEW bs, NEW qy, Claimed(bs, qy), Located(st, qb, bs),
         NEW n \in Node, NEW k \in KeyIds, NEW c \in Dir, NEW d \in Dir,
         NEW i \in 1 .. Len(qy[n]), NEW j \in 1 .. Len(qy[n]),
         k \in Claims(qy[n][i], c), k \in Claims(qy[n][j], d)
  PROVE  i = j /\ c = d /\ bs[n][c].st[k] = "INIT" /\ bs[n][Other(c)].st[k] = "NONE"
<1>1. bs[n][c].st[k] = "INIT" /\ bs[n][d].st[k] = "INIT"
  BY DEF Claimed
<1>2. bs[n]["enc"].st[k] = "NONE" \/ bs[n]["dec"].st[k] = "NONE"
  BY DEF Located
<1>3. c = d /\ bs[n][Other(c)].st[k] = "NONE"
  BY <1>1, <1>2, Peers
<1> QED BY <1>1, <1>3 DEF Claimed

(* Keys only leave buffers.                                                *)
LEMMA LocatedShrinks ==
  ASSUME NEW st, NEW qb, NEW bs, Located(st, qb, bs), NEW bs2,
         \A n \in Node, d \in Dir, k \in KeyIds : bs[n][d].st[k] = "NONE" => bs2[n][d].st[k] = "NONE"
  PROVE  Located(st, qb, bs2)
<1>1. \A n \in Node, k \in KeyIds : Absent(bs, n, k) => Absent(bs2, n, k)
  BY Peers DEF Absent
<1>2. \A n \in Node, k \in KeyIds :
        bs[n]["enc"].st[k] = "NONE" \/ bs[n]["dec"].st[k] = "NONE" =>
        bs2[n]["enc"].st[k] = "NONE" \/ bs2[n]["dec"].st[k] = "NONE"
  BY Peers
<1> QED BY <1>1, <1>2, Peers DEF Located

(* One buffer changes.                                                     *)
LEMMA StockedOne ==
  ASSUME NEW bs, Stocked(bs), NEW n \in Node, NEW d \in Dir, NEW bs2, Only(bs, bs2, n, d),
         Kept(bs2[n][d]), d = "enc" => bs2[n][d].supply = bs[n][d].supply
  PROVE  Stocked(bs2)
<1>1. \A m \in Node, c \in Dir : Kept(bs2[m][c])
  BY Peers DEF Only, Stocked
<1>2. \A m \in Node : bs2[m]["enc"].supply = bs[m]["enc"].supply
  BY Peers DEF Only
<1> QED BY <1>1, <1>2, Peers DEF Stocked

(* Whole keys come or go.                                                  *)
LEMMA SetsKept ==
  ASSUME NEW b, Kept(b), NEW ks \in SUBSET KeyIds, NEW s, NEW c, Sets(b, c, ks, s, 0, MaxLen)
  PROVE  Kept(c) /\ c.supply = b.supply
BY BoundsNat DEF Kept, Sets

(* Keys change their state.                                                *)
LEMMA MarksKept ==
  ASSUME NEW b, Kept(b), NEW ks \in SUBSET KeyIds, NEW s, NEW c, Marks(b, c, ks, s),
         \A k \in ks : b.st[k] # "NONE"
  PROVE  Kept(c) /\ c.supply = b.supply
BY DEF Kept, Marks

(* Keys of a FILL are settled.                                             *)
LEMMA SettlesKept ==
  ASSUME NEW b, Kept(b), NEW ks \in SUBSET KeyIds, NEW acc \in SUBSET ks, NEW c,
         SettlesAll(b, c, ks, acc), \A k \in ks : b.st[k] # "NONE"
  PROVE  Kept(c) /\ c.supply = b.supply
BY DEF Kept, SettlesAll

(* Supply keys leave.                                                      *)
LEMMA EmptiesKept ==
  ASSUME NEW b, Kept(b), NEW ids, NEW c, Empties(b, c, ids)
  PROVE  Kept(c)
BY DEF Kept, Empties

-----------------------------------------------------------------------------
(* STORE_KEY, and FILL at the master.                                      *)

LEMMA BankedSizes ==
  ASSUME NEW s, s.keys \in SUBSET KeyIds, NEW ks \in SUBSET s.keys
  PROVE  /\ IsFiniteSet(s.keys) /\ Cardinality(s.keys) \in Nat /\ Cardinality(ks) \in Nat
         /\ Cardinality(s.keys \ ks) \in Nat
         /\ Cardinality(s.keys \ ks) + Cardinality(ks) = Cardinality(s.keys)
         /\ MaxLen * Cardinality(s.keys \ ks) \in Nat /\ MaxLen * Cardinality(ks) \in Nat
         /\ MaxLen * Cardinality(s.keys \ ks) + MaxLen * Cardinality(ks) = MaxLen * Cardinality(s.keys)
<1>1. IsFiniteSet(s.keys)
  BY KeyIdsFinite, FS_Subset
<1>2. IsFiniteSet(ks) /\ IsFiniteSet(s.keys \ ks)
  BY <1>1, FS_Subset
<1>3. Cardinality(s.keys) \in Nat /\ Cardinality(ks) \in Nat /\ Cardinality(s.keys \ ks) \in Nat
  BY <1>1, <1>2, FS_CardinalityType
<1>4. Cardinality(s.keys \ ks) + Cardinality(ks) = Cardinality(s.keys)
  <2>1. Cardinality(s.keys \ ks) = Cardinality(s.keys) - Cardinality(s.keys \cap ks)
    BY <1>1, <1>2, FS_Difference
  <2>2. s.keys \cap ks = ks
    OBVIOUS
  <2>3. PICK a \in Nat, b \in Nat, c \in Nat :
          a = Cardinality(s.keys) /\ b = Cardinality(ks) /\ c = Cardinality(s.keys \ ks)
    BY <1>3
  <2>4. c = a - b
    BY <2>1, <2>2, <2>3
  <2>5. c + b = a
    BY <2>4
  <2> QED BY <2>3, <2>5
<1>5. PICK a \in Nat, b \in Nat : a = Cardinality(s.keys \ ks) /\ b = Cardinality(ks)
  BY <1>3
<1>6. MaxLen * a \in Nat /\ MaxLen * b \in Nat /\ MaxLen * (a + b) = MaxLen * a + MaxLen * b
  BY Multiples
<1> QED BY <1>1, <1>3, <1>4, <1>5, <1>6

(* A QBuffer that takes a key counts it, or refuses it.                    *)
LEMMA QStoreBits ==
  ASSUME NEW s \in [keys : SUBSET KeyIds, bits : Nat], s.bits <= QMax,
         NEW k \in KeyIds, k \notin s.keys, NEW t, t = QStore(s, k, TRUE)
  PROVE  /\ t.keys \in SUBSET KeyIds /\ t.bits \in Nat /\ t.bits <= QMax
         /\ t = [keys |-> t.keys, bits |-> t.bits]
         /\ s.keys \subseteq t.keys /\ t.keys \subseteq s.keys \cup {k}
         /\ s.bits <= MaxLen * Cardinality(s.keys) => t.bits <= MaxLen * Cardinality(t.keys)
         /\ s.bits = MaxLen * Cardinality(s.keys) => t.bits = MaxLen * Cardinality(t.keys)
<1>1. CASE ~QFits(s)
  BY <1>1 DEF QStore
<1>2. CASE QFits(s)
  <2>1. t.keys = s.keys \cup {k} /\ t.bits = s.bits + MaxLen /\ t.bits <= QMax
        /\ t = [keys |-> s.keys \cup {k}, bits |-> s.bits + MaxLen]
    BY <1>2 DEF QStore, QFits
  <2>2. IsFiniteSet(s.keys) /\ Cardinality(s.keys) \in Nat
    BY KeyIdsFinite, FS_Subset, FS_CardinalityType
  <2>3. Cardinality(t.keys) = Cardinality(s.keys) + 1
    BY <2>1, <2>2, FS_AddElement
  <2>4. PICK a \in Nat : a = Cardinality(s.keys)
    BY <2>2
  <2>5. MaxLen * (a + 1) = MaxLen * a + MaxLen /\ MaxLen * a \in Nat
    BY Multiples
  <2>6. MaxLen \in Nat
    BY BoundsNat
  <2>7. PICK y \in Nat, z \in Nat : y = MaxLen * a /\ z = s.bits
    BY <2>5
  <2>8. MaxLen * Cardinality(s.keys) = y /\ MaxLen * Cardinality(t.keys) = y + MaxLen
        /\ t.bits = z + MaxLen /\ s.bits = z
    BY <2>1, <2>3, <2>4, <2>5, <2>7
  <2>9. (z <= y => z + MaxLen <= y + MaxLen) /\ z + MaxLen \in Nat
    BY <2>6
  <2>10. /\ s.bits <= MaxLen * Cardinality(s.keys) => t.bits <= MaxLen * Cardinality(t.keys)
         /\ s.bits = MaxLen * Cardinality(s.keys) => t.bits = MaxLen * Cardinality(t.keys)
         /\ t.bits \in Nat
    BY <2>8, <2>9
  <2>11. t = [keys |-> t.keys, bits |-> t.bits]
    BY <2>1
  <2> QED BY <2>1, <2>10, <2>11
<1> QED BY <1>1, <1>2

(* STORE_KEY at either node.                                               *)
LEMMA StoreKeeps ==
  ASSUME NEW st, NEW qb, NEW bs, NEW nt, NEW qy, NEW sv, NEW fd,
         Invariant(st, qb, bs, nt, qy, sv, fd), NEW n \in Node, NEW k \in KeyIds, k \notin st[n],
         NEW st2, st2[n] = st[n] \cup {k}, st2[Peer(n)] = st[Peer(n)],
         NEW qb2, qb2[n] = QStore(qb[n], k, TRUE), qb2[Peer(n)] = qb[Peer(n)]
  PROVE  Invariant(st2, qb2, bs, nt, qy, sv, fd)
<1>1. Banked(st, qb) /\ Located(st, qb, bs)
  BY DEF Invariant
<1>2. PICK s, t : s = qb[n] /\ t = qb2[n]
  OBVIOUS
<1>3. /\ st[n] \in SUBSET KeyIds /\ s.keys \in SUBSET KeyIds /\ s.keys \subseteq st[n]
      /\ s = [keys |-> s.keys, bits |-> s.bits] /\ s.bits \in Nat /\ s.bits <= QMax
  BY <1>1, <1>2 DEF Banked
<1>4. /\ t.keys \in SUBSET KeyIds /\ t.bits \in Nat /\ t.bits <= QMax
      /\ t = [keys |-> t.keys, bits |-> t.bits]
      /\ s.keys \subseteq t.keys /\ t.keys \subseteq s.keys \cup {k}
      /\ s.bits <= MaxLen * Cardinality(s.keys) => t.bits <= MaxLen * Cardinality(t.keys)
      /\ s.bits = MaxLen * Cardinality(s.keys) => t.bits = MaxLen * Cardinality(t.keys)
  <2>1. k \notin s.keys
    BY <1>3
  <2>2. t = QStore(s, k, TRUE)
    BY <1>2
  <2>3. s \in [keys : SUBSET KeyIds, bits : Nat] /\ s.bits <= QMax
    BY <1>3
  <2> QED BY <2>1, <2>2, <2>3, QStoreBits
<1>5. CASE n = "A"
  <2>1. Banked(st2, qb2)
    BY <1>1, <1>2, <1>3, <1>4, <1>5, Peers DEF Banked, Node
  <2>2. Located(st2, qb2, bs)
    BY <1>1, <1>2, <1>3, <1>4, <1>5, Peers DEF Located
  <2> QED BY <2>1, <2>2 DEF Invariant
<1>6. CASE n = "B"
  <2>1. Banked(st2, qb2)
    BY <1>1, <1>2, <1>3, <1>4, <1>6, Peers DEF Banked, Node
  <2>2. Located(st2, qb2, bs)
    BY <1>1, <1>2, <1>3, <1>4, <1>6, Peers DEF Located
  <2> QED BY <2>1, <2>2 DEF Invariant
<1> QED BY <1>5, <1>6 DEF Node

(* Both directions, seen from a node.                                      *)
LEMMA DirectionPair ==
  ASSUME NEW bs, NEW nt, NEW qy, NEW sv, NEW fd, NEW n \in Node
  PROVE  (\A m \in Node : Direction(bs[m]["enc"], bs[Peer(m)]["dec"], nt[Peer(m)], qy[m], sv[m], fd[Peer(m)]))
           <=> /\ Direction(bs[n]["enc"], bs[Peer(n)]["dec"], nt[Peer(n)], qy[n], sv[n], fd[Peer(n)])
               /\ Direction(bs[Peer(n)]["enc"], bs[n]["dec"], nt[n], qy[Peer(n)], sv[Peer(n)], fd[n])
<1>1. Peer(n) \in Node /\ Peer(Peer(n)) = n /\ \A m \in Node : m = n \/ m = Peer(n)
  BY Peers
<1> QED BY <1>1

(* Key k, which answer i accepts, is in query j, a FILL of store d.        *)
AcceptedBy(bs, nt, qy, i, k, j, d) ==
  /\ j <= Cardinality(Replies(nt["A"])) /\ qy["A"][j].type = "fill"
  /\ d = qy["A"][j].dir /\ k \in qy["A"][j].keys /\ k \in Claims(qy["A"][j], d)
  /\ k \in KeyIds /\ bs["A"][d].st[k] = "INIT" /\ bs["A"][Other(d)].st[k] = "NONE"
  /\ ~Request(nt["A"][1]) => (j = 1 <=> i = 1)

(* What the accepted keys of a message say of the queries.                 *)
LEMMA AcceptedClaim ==
  ASSUME NEW st, NEW qb, NEW bs, NEW nt, NEW qy, NEW sv, NEW fd,
         Invariant(st, qb, bs, nt, qy, sv, fd),
         NEW i \in 1 .. Len(nt["A"]), NEW k, AcceptedAt(nt["A"], i, k)
  PROVE  \E j \in 1 .. Len(qy["A"]), d \in Dir : AcceptedBy(bs, nt, qy, i, k, j, d)
<1>1. Listed(nt, qy) /\ Claimed(bs, qy) /\ Located(st, qb, bs)
  BY DEF Invariant
<1>2. PICK j \in 1 .. Len(qy["A"]) :
           /\ j <= Cardinality(Replies(nt["A"])) /\ qy["A"][j].type = "fill" /\ k \in qy["A"][j].keys
           /\ ~Request(nt["A"][1]) => (j = 1 <=> i = 1)
  <2>1. PICK n \in Node : n = "A" /\ AcceptedAt(nt[n], i, k) /\ i \in 1 .. Len(nt[n])
    BY Peers
  <2>2. \E j \in 1 .. Len(qy[n]) :
           /\ j <= Cardinality(Replies(nt[n])) /\ qy[n][j].type = "fill" /\ k \in qy[n][j].keys
           /\ ~Request(nt[n][1]) => (j = 1 <=> i = 1)
    <3>1. Listed(nt, qy) /\ AcceptedAt(nt[n], i, k) /\ i \in 1 .. Len(nt[n])
      BY <1>1, <2>1
    <3>2. n = "A" /\ \E j \in 1 .. Len(qy[n]) :
           /\ j <= Cardinality(Replies(nt[n])) /\ qy[n][j].type = "fill" /\ k \in qy[n][j].keys
           /\ ~Request(nt[n][1]) => (j = 1 <=> i = 1)
      BY <3>1, AcceptClaims
    <3> QED BY <3>2
  <2> QED BY <2>1, <2>2
<1>3. qy["A"][j] \in Messages
  BY <1>1, <1>2, Peers DEF Listed
<1>4. PICK d \in Dir : d = qy["A"][j].dir /\ k \in KeyIds
  BY <1>2, <1>3 DEF Messages, Message
<1>5. k \in Claims(qy["A"][j], d)
  BY <1>2, <1>4 DEF Claims
<1>6. bs["A"][d].st[k] = "INIT" /\ bs["A"][Other(d)].st[k] = "NONE"
  BY <1>1, <1>4, <1>5, OneClaim, Peers
<1>7. AcceptedBy(bs, nt, qy, i, k, j, d)
  BY <1>2, <1>4, <1>5, <1>6 DEF AcceptedBy
<1> QED BY <1>7

(* FILL: the master reserves keys of its QBuffer for one direction.        *)
LEMMA FillKeeps ==
  ASSUME NEW st, NEW qb, NEW bs, NEW nt, NEW qy, NEW sv, NEW fd,
         Invariant(st, qb, bs, nt, qy, sv, fd),
         NEW d \in Dir, NEW ks \in SUBSET qb["A"].keys, MaxLen * Cardinality(ks) <= qb["A"].bits,
         NEW m, m = [type |-> "fill", dir |-> d, keys |-> ks],
         NEW bs2, Only(bs, bs2, "A", d), Sets(bs["A"][d], bs2["A"][d], ks, "INIT", 0, MaxLen),
         NEW qb2, qb2["A"] = QTake(qb["A"], ks), qb2["B"] = qb["B"],
         NEW nt2, nt2["A"] = nt["A"], nt2["B"] = Append(nt["B"], m),
         NEW qy2, qy2["A"] = Append(qy["A"], m), qy2["B"] = qy["B"]
  PROVE  Invariant(st, qb2, bs2, nt2, qy2, sv, fd)
<1>1. /\ Listed(nt, qy) /\ Stocked(bs) /\ Banked(st, qb) /\ Claimed(bs, qy)
      /\ Located(st, qb, bs) /\ Filling(bs, nt, qy) /\ Typed(sv, fd)
  BY DEF Invariant
<1>2. /\ ks \in SUBSET KeyIds /\ ks \subseteq st["A"]
      /\ \A k \in ks : Absent(bs, "A", k) /\ Absent(bs, "B", k)
  BY <1>1, Peers DEF Banked, Located
<1>3. m \in Messages /\ Request(m) /\ m.type # "skey" /\ m.type # "filled"
  BY <1>2 DEF Messages, Message, Request
<1>4. Listed(nt2, qy2)
  BY <1>1, <1>3, ListedSend, Peers, SMTT(30)
<1>5. Stocked(bs2)
  <2>1. Kept(bs["A"][d])
    BY <1>1, Peers DEF Stocked
  <2>2. Kept(bs2["A"][d]) /\ bs2["A"][d].supply = bs["A"][d].supply
    BY <1>2, <2>1, SetsKept
  <2> QED BY <1>1, <2>2, StockedOne, Peers
<1>6. /\ \A k \in KeyIds : /\ bs2["A"][d].st[k] = IF k \in ks THEN "INIT" ELSE bs["A"][d].st[k]
                           /\ bs2["A"][d].lo[k] = IF k \in ks THEN 0 ELSE bs["A"][d].lo[k]
                           /\ bs2["A"][d].hi[k] = IF k \in ks THEN MaxLen ELSE bs["A"][d].hi[k]
      /\ bs2["A"][Other(d)] = bs["A"][Other(d)]
      /\ \A c \in Dir : bs2["B"][c] = bs["B"][c]
  BY Peers DEF Sets, Only
<1>7. Banked(st, qb2)
  <2>1. PICK s, t : s = qb["A"] /\ t = qb2["A"]
    OBVIOUS
  <2>2. /\ s.keys \in SUBSET KeyIds /\ s.keys \subseteq st["A"] /\ st["A"] \in SUBSET KeyIds
        /\ s.bits \in Nat /\ s.bits <= QMax /\ s.bits <= MaxLen * Cardinality(s.keys)
    BY <1>1, <2>1, Peers DEF Banked
  <2>3. /\ t.keys = s.keys \ ks /\ t.bits = s.bits - MaxLen * Cardinality(ks)
        /\ t = [keys |-> t.keys, bits |-> t.bits]
    BY <2>1 DEF QTake
  <2>4. /\ MaxLen * Cardinality(s.keys \ ks) \in Nat /\ MaxLen * Cardinality(ks) \in Nat
        /\ MaxLen * Cardinality(s.keys \ ks) + MaxLen * Cardinality(ks) = MaxLen * Cardinality(s.keys)
    BY <2>1, <2>2, BankedSizes
  <2>5. PICK x \in Nat, y \in Nat, z \in Nat :
          x = MaxLen * Cardinality(s.keys \ ks) /\ y = MaxLen * Cardinality(ks) /\ z = s.bits
    BY <2>2, <2>4
  <2>6. x + y = MaxLen * Cardinality(s.keys) /\ y <= z /\ z <= x + y /\ z <= QMax
    BY <2>1, <2>2, <2>4, <2>5
  <2>7. t.bits = z - y /\ z - y \in Nat /\ z - y <= x /\ z - y <= QMax
    BY <2>3, <2>5, <2>6, LinkAssumption
  <2>8. t.bits <= MaxLen * Cardinality(t.keys) /\ t.bits \in Nat /\ t.bits <= QMax
    BY <2>3, <2>5, <2>7
  <2> QED BY <1>1, <2>1, <2>2, <2>3, <2>8 DEF Banked, Node
<1>8. Claimed(bs2, qy2)
  <2>1. \A c \in Dir, k \in KeyIds : k \in Claims(m, c) <=> (c = d /\ k \in ks)
    BY DEF Claims
  <2>2. ASSUME NEW c \in Dir, NEW k \in KeyIds
        PROVE  /\ bs2["B"][c].st[k] = "INIT" <=> bs["B"][c].st[k] = "INIT"
               /\ bs2["A"][c].st[k] = "INIT" <=> (bs["A"][c].st[k] = "INIT" \/ k \in Claims(m, c))
               /\ k \in Claims(m, c) => bs["A"][c].st[k] # "INIT"
    <3>1. CASE c = d
      BY <1>2, <1>6, <2>1, <3>1, Peers DEF Absent
    <3>2. CASE c # d
      <4>1. c = Other(d)
        BY <3>2, Peers
      <4> QED BY <1>6, <2>1, <3>2, <4>1
    <3> QED BY <3>1, <3>2
  <2>3. PICK n \in Node : n = "A" /\ Peer(n) = "B"
    BY Peers
  <2>4. \A c \in Dir, k \in KeyIds :
          /\ bs2[Peer(n)][c].st[k] = "INIT" <=> bs[Peer(n)][c].st[k] = "INIT"
          /\ bs2[n][c].st[k] = "INIT" <=> (bs[n][c].st[k] = "INIT" \/ k \in Claims(m, c))
          /\ k \in Claims(m, c) => bs[n][c].st[k] # "INIT"
    BY <2>2, <2>3
  <2>5. qy2[n] = Append(qy[n], m) /\ qy2[Peer(n)] = qy[Peer(n)]
    BY <2>3
  <2> QED BY <1>1, <1>3, <2>4, <2>5, ClaimedAsk
<1>9. Located(st, qb2, bs2)
  <2>1. qb2["A"].keys = qb["A"].keys \ ks /\ qb2["B"].keys = qb["B"].keys
    BY DEF QTake
  <2>2. \A k \in KeyIds : Absent(bs, "B", k) => Absent(bs2, "B", k)
    BY <1>6, Peers DEF Absent
  <2>3. \A k \in KeyIds : Absent(bs, "A", k) /\ k \notin ks => Absent(bs2, "A", k)
    BY <1>6, Peers DEF Absent
  <2>4. ASSUME NEW k \in KeyIds
        PROVE  bs2["A"]["enc"].st[k] = "NONE" \/ bs2["A"]["dec"].st[k] = "NONE"
    <3>1. bs["A"]["enc"].st[k] = "NONE" \/ bs["A"]["dec"].st[k] = "NONE"
      BY <1>1, Peers DEF Located
    <3> QED BY <1>2, <1>6, <3>1, Peers DEF Absent
  <2>5. ASSUME NEW k \in KeyIds
        PROVE  bs2["B"]["enc"].st[k] = "NONE" \/ bs2["B"]["dec"].st[k] = "NONE"
    BY <1>1, <1>6, Peers DEF Located
  <2> QED BY <1>1, <1>2, <2>1, <2>2, <2>3, <2>4, <2>5 DEF Located, Node
<1>10. Filling(bs2, nt2, qy2)
  <2>1. PICK qs \in Seq(Messages) : qs = qy["A"]
    BY <1>1, Peers DEF Listed
  <2>2. /\ \A i \in 1 .. Len(Append(qs, m)) : i \in 1 .. Len(qs) \/ i = Len(qs) + 1
        /\ \A i \in 1 .. Len(qs) : Append(qs, m)[i] = qs[i]
        /\ Append(qs, m)[Len(qs) + 1] = m
    BY <1>3, AppendFacts
  <2>3. ASSUME NEW i \in 1 .. Len(qs), qs[i].type = "fill", NEW k \in qs[i].keys
        PROVE  /\ bs2["A"][qs[i].dir].lo[k] = 0 /\ bs2["A"][qs[i].dir].hi[k] = MaxLen
               /\ Absent(bs2, "B", k) \/ \E j \in 1 .. Len(nt2["A"]) : AcceptedAt(nt2["A"], j, k)
    <3>1. /\ bs["A"][qs[i].dir].lo[k] = 0 /\ bs["A"][qs[i].dir].hi[k] = MaxLen
          /\ Absent(bs, "B", k) \/ \E j \in 1 .. Len(nt["A"]) : AcceptedAt(nt["A"], j, k)
      BY <1>1, <2>1, <2>3 DEF Filling
    <3>2. qs[i].dir \in Dir /\ k \in KeyIds
      BY <2>1, <2>3 DEF Messages, Message
    <3>3. k \in Claims(qs[i], qs[i].dir)
      BY <2>3 DEF Claims
    <3>4. bs["A"][qs[i].dir].st[k] = "INIT"
      BY <1>1, <2>1, <3>2, <3>3, Peers DEF Claimed
    <3>5. k \notin ks
      BY <1>2, <3>2, <3>4, Peers DEF Absent
    <3>6. bs2["A"][qs[i].dir].lo[k] = 0 /\ bs2["A"][qs[i].dir].hi[k] = MaxLen
      BY <1>6, <3>1, <3>2, <3>5, Peers
    <3>7. Absent(bs, "B", k) => Absent(bs2, "B", k)
      BY <1>6, Peers DEF Absent
    <3> QED BY <3>1, <3>6, <3>7
  <2>4. ASSUME NEW k \in ks
        PROVE  /\ bs2["A"][d].lo[k] = 0 /\ bs2["A"][d].hi[k] = MaxLen
               /\ Absent(bs2, "B", k)
    <3>1. k \in KeyIds /\ Absent(bs, "B", k)
      BY <1>2
    <3>2. Absent(bs2, "B", k)
      BY <1>6, <3>1, Peers DEF Absent
    <3> QED BY <1>6, <3>1, <3>2
  <2>5. ASSUME NEW i \in 1 .. Len(qy2["A"]), qy2["A"][i].type = "fill", NEW k \in qy2["A"][i].keys
        PROVE  /\ bs2["A"][qy2["A"][i].dir].lo[k] = 0 /\ bs2["A"][qy2["A"][i].dir].hi[k] = MaxLen
               /\ Absent(bs2, "B", k) \/ \E j \in 1 .. Len(nt2["A"]) : AcceptedAt(nt2["A"], j, k)
    <3>1. CASE i \in 1 .. Len(qs)
      <4>1. PICK e : e = qs[i] /\ e = qy2["A"][i]
        BY <2>1, <2>2, <3>1
      <4>2. e.type = "fill" /\ k \in e.keys
        BY <2>5, <4>1
      <4>3. /\ bs2["A"][e.dir].lo[k] = 0 /\ bs2["A"][e.dir].hi[k] = MaxLen
            /\ Absent(bs2, "B", k) \/ \E j \in 1 .. Len(nt2["A"]) : AcceptedAt(nt2["A"], j, k)
        BY <2>3, <3>1, <4>1, <4>2
      <4> QED BY <4>1, <4>3
    <3>2. CASE i = Len(qs) + 1
      <4>1. qy2["A"][i] = m /\ m.keys = ks /\ m.dir = d
        BY <2>1, <2>2, <3>2
      <4> QED BY <2>4, <2>5, <4>1
    <3> QED BY <2>1, <2>2, <2>5, <3>1, <3>2
  <2>6. ASSUME NEW i \in 1 .. Len(nt2["A"]), NEW k \in KeyIds, AcceptedAt(nt2["A"], i, k),
               bs2["A"]["enc"].st[k] = "INIT"
        PROVE  /\ bs2["B"]["dec"].st[k] = "READY"
               /\ bs2["B"]["dec"].lo[k] = 0 /\ bs2["B"]["dec"].hi[k] = MaxLen
    <3>1. \E c \in Dir : bs["A"][c].st[k] = "INIT"
      <4>1. AcceptedAt(nt["A"], i, k) /\ i \in 1 .. Len(nt["A"])
        BY <2>6
      <4>2. \E j2 \in 1 .. Len(qy["A"]), c \in Dir : AcceptedBy(bs, nt, qy, i, k, j2, c)
        BY <4>1, AcceptedClaim
      <4> QED BY <4>2 DEF AcceptedBy
    <3>2. k \notin ks
      BY <1>2, <3>1, Peers DEF Absent
    <3>3. bs["A"]["enc"].st[k] = "INIT"
      BY <1>6, <2>6, <3>2, Peers
    <3>4. /\ bs["B"]["dec"].st[k] = "READY"
          /\ bs["B"]["dec"].lo[k] = 0 /\ bs["B"]["dec"].hi[k] = MaxLen
      BY <1>1, <2>6, <3>3 DEF Filling
    <3> QED BY <1>6, <3>4, Peers
  <2> QED BY <2>5, <2>6 DEF Filling
<1>11. Direction(bs2["A"]["enc"], bs2["B"]["dec"], nt2["B"], qy2["A"], sv["A"], fd["B"])
  <2>1. Direction(bs["A"]["enc"], bs["B"]["dec"], nt["B"], qy["A"], sv["A"], fd["B"])
    BY Peers DEF Invariant
  <2>2. PICK e : e = bs2["A"]["enc"] /\ Direction(e, bs["B"]["dec"], nt["B"], qy["A"], sv["A"], fd["B"])
    <3>1. CASE d = "enc"
      <4>1. \A k \in ks : bs["B"]["dec"].st[k] = "NONE"
        BY <1>2 DEF Absent
      <4> QED BY <1>2, <2>1, <3>1, <4>1, EncReserves
    <3>2. CASE d = "dec"
      BY <1>6, <2>1, <3>2, Peers
    <3> QED BY <3>1, <3>2, Peers
  <2>3. nt["B"] \in Seq(Messages) /\ qy["A"] \in Seq(Messages)
    BY <1>1, Peers DEF Listed
  <2>4. Direction(e, bs["B"]["dec"], nt2["B"], qy["A"], sv["A"], fd["B"])
    BY <1>3, <2>2, <2>3, OutSent
  <2>5. Direction(e, bs["B"]["dec"], nt2["B"], qy2["A"], sv["A"], fd["B"])
    BY <1>3, <2>3, <2>4, QuerySent
  <2> QED BY <1>6, <2>2, <2>5, Peers
<1>12. Direction(bs2["B"]["enc"], bs2["A"]["dec"], nt2["A"], qy2["B"], sv["B"], fd["A"])
  <2>1. Direction(bs["B"]["enc"], bs["A"]["dec"], nt["A"], qy["B"], sv["B"], fd["A"])
    BY Peers DEF Invariant
  <2>2. Direction(bs["B"]["enc"], bs2["A"]["dec"], nt["A"], qy["B"], sv["B"], fd["A"])
    <3>1. CASE d = "dec"
      <4>1. \A k \in ks : bs["A"]["dec"].st[k] = "NONE"
        BY <1>2 DEF Absent
      <4> QED BY <1>2, <2>1, <3>1, <4>1, DecGains
    <3>2. CASE d = "enc"
      BY <1>6, <2>1, <3>2, Peers
    <3> QED BY <3>1, <3>2, Peers
  <2> QED BY <1>6, <2>2, Peers
<1> QED BY <1>1, <1>4, <1>5, <1>7, <1>8, <1>9, <1>10, <1>11, <1>12, DirectionPair, Peers DEF Invariant

-----------------------------------------------------------------------------
(* FILL arrives: the peer takes keys of its QBuffer into the other store.  *)

IsHead(r, s) == s # <<>> /\ r = Head(s)

(* A FILL on its way: its keys are whole and reserved at the master, the   *)
(* peer has them in no store and no answer accepts them.                   *)
LEMMA FillComes ==
  ASSUME NEW st, NEW qb, NEW bs, NEW nt, NEW qy, NEW sv, NEW fd,
         Invariant(st, qb, bs, nt, qy, sv, fd),
         NEW r, IsHead(r, nt["B"]), r.type = "fill"
  PROVE  /\ r \in Messages /\ r.dir \in Dir /\ r.keys \in SUBSET KeyIds
         /\ \A k \in r.keys :
              /\ bs["A"][r.dir].st[k] = "INIT" /\ bs["A"][Other(r.dir)].st[k] = "NONE"
              /\ bs["A"][r.dir].lo[k] = 0 /\ bs["A"][r.dir].hi[k] = MaxLen
              /\ Absent(bs, "B", k)
              /\ \A i \in 1 .. Len(nt["A"]) : ~AcceptedAt(nt["A"], i, k)
<1>1. Listed(nt, qy) /\ Claimed(bs, qy) /\ Located(st, qb, bs) /\ Filling(bs, nt, qy)
  BY DEF Invariant
<1>2. PICK out \in Seq(Messages) : out = nt["B"]
  BY <1>1, Peers DEF Listed
<1>3. 1 \in 1 .. Len(out) /\ out[1] = r /\ r \in Messages
  <2>1. out # <<>> /\ r = Head(out)
    BY <1>2 DEF IsHead
  <2> QED BY <2>1, TailFacts
<1>4. Request(r) /\ r.dir \in Dir /\ r.keys \in SUBSET KeyIds
  BY <1>3 DEF Request, Messages, Message
<1>5. PICK j \in 1 .. Len(qy["A"]) : j > Cardinality(Replies(nt["A"])) /\ qy["A"][j] = r
  <2>1. PICK n \in Node : n = "A" /\ Peer(n) = "B"
    BY Peers
  <2>2. Listed(nt, qy) /\ 1 \in 1 .. Len(nt[Peer(n)]) /\ Request(nt[Peer(n)][1])
    BY <1>1, <1>2, <1>3, <1>4, <2>1
  <2>3. \E j \in 1 .. Len(qy[n]) :
          j > Cardinality(Replies(nt[n])) /\ qy[n][j] = nt[Peer(n)][1]
    BY <2>2, CutClaims
  <2> QED BY <1>2, <1>3, <2>1, <2>3
<1>6. ASSUME NEW k \in r.keys
      PROVE  /\ bs["A"][r.dir].st[k] = "INIT" /\ bs["A"][Other(r.dir)].st[k] = "NONE"
             /\ bs["A"][r.dir].lo[k] = 0 /\ bs["A"][r.dir].hi[k] = MaxLen
             /\ Absent(bs, "B", k)
             /\ \A i \in 1 .. Len(nt["A"]) : ~AcceptedAt(nt["A"], i, k)
  <2>1. k \in KeyIds /\ k \in Claims(qy["A"][j], r.dir)
    BY <1>4, <1>5 DEF Claims
  <2>2. bs["A"][r.dir].st[k] = "INIT" /\ bs["A"][Other(r.dir)].st[k] = "NONE"
    BY <1>1, <1>4, <1>5, <2>1, OneClaim, Peers
  <2>3. ASSUME NEW i \in 1 .. Len(nt["A"]), AcceptedAt(nt["A"], i, k)
        PROVE  FALSE
    <3>1. PICK h \in 1 .. Len(qy["A"]), c \in Dir :
            h <= Cardinality(Replies(nt["A"])) /\ k \in Claims(qy["A"][h], c)
      <4>1. AcceptedAt(nt["A"], i, k) /\ i \in 1 .. Len(nt["A"])
        BY <2>3
      <4>2. \E j2 \in 1 .. Len(qy["A"]), d \in Dir : AcceptedBy(bs, nt, qy, i, k, j2, d)
        BY <4>1, AcceptedClaim
      <4> QED BY <4>2 DEF AcceptedBy
    <3>2. h = j
      BY <1>1, <1>4, <2>1, <3>1, OneClaim, Peers
    <3>3. Cardinality(Replies(nt["A"])) \in Nat
      BY <1>1, PlacesFinite, Peers DEF Listed
    <3> QED BY <1>5, <3>1, <3>2, <3>3
  <2>4. /\ bs["A"][r.dir].lo[k] = 0 /\ bs["A"][r.dir].hi[k] = MaxLen
        /\ Absent(bs, "B", k) \/ \E i \in 1 .. Len(nt["A"]) : AcceptedAt(nt["A"], i, k)
    BY <1>1, <1>5 DEF Filling
  <2> QED BY <2>2, <2>3, <2>4
<1> QED BY <1>3, <1>4, <1>6

(* The peer accepts some of the keys it has and rejects the rest.          *)
LEMMA FillRequestKeeps ==
  ASSUME NEW st, NEW qb, NEW bs, NEW nt, NEW qy, NEW sv, NEW fd,
         Invariant(st, qb, bs, nt, qy, sv, fd),
         NEW r, IsHead(r, nt["B"]), r.type = "fill",
         NEW d \in Dir, d = Other(r.dir), NEW taken \in SUBSET (r.keys \cap qb["B"].keys),
         NEW m, m = [type |-> "filled", accepted |-> taken,
                     rejected |-> (r.keys \cap qb["B"].keys) \ taken],
         NEW bs2, Only(bs, bs2, "B", d), Sets(bs["B"][d], bs2["B"][d], taken, "READY", 0, MaxLen),
         NEW qb2, qb2["B"] = QTake(qb["B"], taken), qb2["A"] = qb["A"],
         NEW nt2, nt2["A"] = Append(nt["A"], m), nt2["B"] = Tail(nt["B"])
  PROVE  Invariant(st, qb2, bs2, nt2, qy, sv, fd)
<1>1. /\ Listed(nt, qy) /\ Stocked(bs) /\ Banked(st, qb) /\ Claimed(bs, qy)
      /\ Located(st, qb, bs) /\ Filling(bs, nt, qy) /\ Typed(sv, fd)
  BY DEF Invariant
<1>2. /\ r \in Messages /\ r.dir \in Dir /\ r.keys \in SUBSET KeyIds
      /\ \A k \in r.keys :
           /\ bs["A"][r.dir].st[k] = "INIT" /\ bs["A"][Other(r.dir)].st[k] = "NONE"
           /\ bs["A"][r.dir].lo[k] = 0 /\ bs["A"][r.dir].hi[k] = MaxLen
           /\ Absent(bs, "B", k)
           /\ \A i \in 1 .. Len(nt["A"]) : ~AcceptedAt(nt["A"], i, k)
  BY FillComes
<1>3. taken \in SUBSET KeyIds /\ taken \subseteq r.keys
  BY <1>2
<1>16. /\ d = "enc" => r.dir = "dec" /\ Other(r.dir) = "enc"
       /\ d = "dec" => r.dir = "enc" /\ Other(r.dir) = "dec"
  BY <1>2, Peers
<1>17. \A k \in taken :
         /\ bs["B"]["enc"].st[k] = "NONE" /\ bs["B"]["dec"].st[k] = "NONE"
         /\ d = "enc" => /\ bs["A"]["dec"].st[k] = "INIT" /\ bs["A"]["enc"].st[k] = "NONE"
                         /\ bs["A"]["dec"].lo[k] = 0 /\ bs["A"]["dec"].hi[k] = MaxLen
         /\ d = "dec" => /\ bs["A"]["enc"].st[k] = "INIT" /\ bs["A"]["dec"].st[k] = "NONE"
                         /\ bs["A"]["enc"].lo[k] = 0 /\ bs["A"]["enc"].hi[k] = MaxLen
  <2>1. ASSUME NEW k \in taken
        PROVE  /\ bs["A"][r.dir].st[k] = "INIT" /\ bs["A"][Other(r.dir)].st[k] = "NONE"
               /\ bs["A"][r.dir].lo[k] = 0 /\ bs["A"][r.dir].hi[k] = MaxLen
               /\ bs["B"]["enc"].st[k] = "NONE" /\ bs["B"]["dec"].st[k] = "NONE"
    BY <1>2, <1>3 DEF Absent
  <2> QED BY <1>16, <2>1
<1>4. m \in Messages /\ ~Request(m) /\ Answers(m, r) /\ m.type = "filled" /\ Request(r)
  BY <1>2, <1>3 DEF Messages, Message, Request, Answers
<1>5. PICK got \in Seq(Messages), out \in Seq(Messages) : got = nt["A"] /\ out = nt["B"]
  BY <1>1, Peers DEF Listed
<1>6. /\ Len(got) \in Nat /\ Len(Append(got, m)) = Len(got) + 1
      /\ \A i \in 1 .. Len(got) : i \in 1 .. Len(got) + 1 /\ Append(got, m)[i] = got[i]
      /\ Append(got, m)[Len(got) + 1] = m /\ Len(got) + 1 \in 1 .. Len(got) + 1
      /\ \A i \in 1 .. Len(got) + 1 : i \in 1 .. Len(got) \/ i = Len(got) + 1
  BY <1>4, AppendFacts
<1>7. Listed(nt2, qy)
  <2>1. PICK n \in Node : n = "B" /\ Peer(n) = "A"
    BY Peers
  <2>3. nt["B"] # <<>> /\ Head(nt["B"]) = r
    BY DEF IsHead
  <2>2. /\ Listed(nt, qy) /\ nt[n] # <<>> /\ Request(Head(nt[n])) /\ Answers(m, Head(nt[n]))
        /\ nt2[n] = Tail(nt[n]) /\ nt2[Peer(n)] = Append(nt[Peer(n)], m)
    BY <1>1, <1>4, <2>1, <2>3
  <2> QED BY <1>4, <2>2, ListedAnswer
<1>8. Stocked(bs2)
  <2>1. Kept(bs["B"][d])
    BY <1>1, <1>3, Peers DEF Stocked
  <2>2. Kept(bs2["B"][d]) /\ bs2["B"][d].supply = bs["B"][d].supply
    BY <1>3, <2>1, SetsKept
  <2> QED BY <1>1, <1>3, <2>2, StockedOne, Peers
<1>9. /\ \A k \in KeyIds : /\ bs2["B"][d].st[k] = IF k \in taken THEN "READY" ELSE bs["B"][d].st[k]
                           /\ bs2["B"][d].lo[k] = IF k \in taken THEN 0 ELSE bs["B"][d].lo[k]
                           /\ bs2["B"][d].hi[k] = IF k \in taken THEN MaxLen ELSE bs["B"][d].hi[k]
      /\ \A c \in Dir : bs2["A"][c] = bs["A"][c] /\ (c # d => bs2["B"][c] = bs["B"][c])
  <2>1. \A c \in Dir : bs2["A"][c] = bs["A"][c] /\ (c # d => bs2["B"][c] = bs["B"][c])
    BY Peers DEF Only
  <2> QED BY <2>1 DEF Sets
<1>10. Banked(st, qb2)
  <2>1. PICK s, t : s = qb["B"] /\ t = qb2["B"]
    OBVIOUS
  <2>2. /\ s.keys \in SUBSET KeyIds /\ s.keys \subseteq st["B"] /\ st["B"] \in SUBSET KeyIds
        /\ s.bits \in Nat /\ s.bits <= QMax /\ s.bits = MaxLen * Cardinality(s.keys)
    BY <1>1, <2>1, Peers DEF Banked
  <2>3. /\ t.keys = s.keys \ taken /\ t.bits = s.bits - MaxLen * Cardinality(taken)
        /\ t = [keys |-> t.keys, bits |-> t.bits]
    BY <2>1 DEF QTake
  <2>4. /\ MaxLen * Cardinality(s.keys \ taken) \in Nat /\ MaxLen * Cardinality(taken) \in Nat
        /\ MaxLen * Cardinality(s.keys \ taken) + MaxLen * Cardinality(taken) = MaxLen * Cardinality(s.keys)
    BY <2>1, <2>2, BankedSizes
  <2>5. PICK x \in Nat, y \in Nat, z \in Nat :
          x = MaxLen * Cardinality(s.keys \ taken) /\ y = MaxLen * Cardinality(taken) /\ z = s.bits
    BY <2>2, <2>4
  <2>6. x + y = z /\ z <= QMax
    BY <2>2, <2>4, <2>5
  <2>7. t.bits = z - y /\ z - y = x /\ x <= QMax
    BY <2>3, <2>5, <2>6, LinkAssumption
  <2>8. t.bits = MaxLen * Cardinality(t.keys) /\ t.bits \in Nat /\ t.bits <= QMax
    BY <2>3, <2>5, <2>7
  <2> QED BY <1>1, <2>1, <2>2, <2>3, <2>8 DEF Banked, Node
<1>11. Claimed(bs2, qy)
  <2>1. ASSUME NEW n \in Node, NEW c \in Dir, NEW k \in KeyIds
        PROVE  bs2[n][c].st[k] = "INIT" <=> bs[n][c].st[k] = "INIT"
    <3>1. CASE n = "A"
      BY <1>9, <3>1
    <3>2. CASE n = "B" /\ c = d
      BY <1>9, <1>17, <3>2, Peers
    <3>3. CASE n = "B" /\ c # d
      BY <1>9, <3>3
    <3> QED BY <3>1, <3>2, <3>3 DEF Node
  <2> QED BY <1>1, <2>1, ClaimedKeep
<1>12. Located(st, qb2, bs2)
  <2>1. qb2["B"].keys = qb["B"].keys \ taken /\ qb2["A"].keys = qb["A"].keys /\ taken \subseteq st["B"]
    <3>1. qb["B"].keys \subseteq st["B"]
      BY <1>1, Peers DEF Banked
    <3> QED BY <3>1 DEF QTake
  <2>2. \A k \in KeyIds : Absent(bs, "B", k) /\ k \notin taken => Absent(bs2, "B", k)
    <3>1. \A c \in Dir, k \in KeyIds : k \notin taken => bs2["B"][c].st[k] = bs["B"][c].st[k]
      BY <1>9
    <3> QED BY <3>1, Peers DEF Absent
  <2>3. \A k \in KeyIds : Absent(bs, "A", k) => Absent(bs2, "A", k) /\ k \notin taken
    <3>1. \A c \in Dir : bs2["A"][c] = bs["A"][c]
      BY <1>9
    <3>2. \A k \in taken : ~Absent(bs, "A", k)
      BY <1>17, Peers DEF Absent
    <3> QED BY <3>1, <3>2, Peers DEF Absent
  <2>4. ASSUME NEW k \in KeyIds
        PROVE  bs2["B"]["enc"].st[k] = "NONE" \/ bs2["B"]["dec"].st[k] = "NONE"
    <3>1. bs["B"]["enc"].st[k] = "NONE" \/ bs["B"]["dec"].st[k] = "NONE"
      BY <1>1, Peers DEF Located
    <3>2. \A c \in Dir : bs2["B"][c].st[k] = bs["B"][c].st[k] \/ (k \in taken /\ c = d)
      BY <1>9
    <3> QED BY <1>17, <3>1, <3>2, Peers
  <2>5. ASSUME NEW k \in KeyIds
        PROVE  bs2["A"]["enc"].st[k] = "NONE" \/ bs2["A"]["dec"].st[k] = "NONE"
    <3>1. bs["A"]["enc"].st[k] = "NONE" \/ bs["A"]["dec"].st[k] = "NONE"
      BY <1>1, Peers DEF Located
    <3> QED BY <1>9, <3>1, Peers
  <2>6. /\ \A k \in KeyIds : k \in qb["A"].keys \/ k \notin st["A"] => Absent(bs, "A", k) /\ Absent(bs, "B", k)
        /\ \A k \in KeyIds : k \in qb["B"].keys \/ k \notin st["B"] => Absent(bs, "B", k)
    BY <1>1 DEF Located
  <2>7. /\ \A k \in KeyIds : k \in qb2["A"].keys \/ k \notin st["A"] => Absent(bs2, "A", k) /\ Absent(bs2, "B", k)
        /\ \A k \in KeyIds : k \in qb2["B"].keys \/ k \notin st["B"] => Absent(bs2, "B", k)
    BY <2>1, <2>2, <2>3, <2>6
  <2> QED BY <2>4, <2>5, <2>7 DEF Located, Node
<1>13. Filling(bs2, nt2, qy)
  <2>1. ASSUME NEW i \in 1 .. Len(qy["A"]), qy["A"][i].type = "fill", NEW k \in qy["A"][i].keys
        PROVE  /\ bs2["A"][qy["A"][i].dir].lo[k] = 0 /\ bs2["A"][qy["A"][i].dir].hi[k] = MaxLen
               /\ Absent(bs2, "B", k) \/ \E j \in 1 .. Len(nt2["A"]) : AcceptedAt(nt2["A"], j, k)
    <3>1. /\ bs["A"][qy["A"][i].dir].lo[k] = 0 /\ bs["A"][qy["A"][i].dir].hi[k] = MaxLen
          /\ Absent(bs, "B", k) \/ \E j \in 1 .. Len(nt["A"]) : AcceptedAt(nt["A"], j, k)
      BY <1>1, <2>1 DEF Filling
    <3>2. qy["A"][i].dir \in Dir /\ k \in KeyIds
      <4>1. qy["A"][i] \in Messages
        BY <1>1, Peers DEF Listed
      <4> QED BY <2>1, <4>1 DEF Messages, Message
    <3>3. bs2["A"][qy["A"][i].dir].lo[k] = 0 /\ bs2["A"][qy["A"][i].dir].hi[k] = MaxLen
      BY <1>9, <3>1, <3>2
    <3>4. CASE k \in taken
      <4>1. AcceptedAt(nt2["A"], Len(got) + 1, k) /\ Len(got) + 1 \in 1 .. Len(nt2["A"])
        BY <1>4, <1>5, <1>6, <3>4 DEF AcceptedAt
      <4> QED BY <3>3, <4>1
    <3>5. CASE k \notin taken /\ Absent(bs, "B", k)
      <4>1. \A c \in Dir : bs2["B"][c].st[k] = bs["B"][c].st[k]
        BY <1>9, <3>2, <3>5
      <4>2. Absent(bs2, "B", k)
        BY <3>5, <4>1, Peers DEF Absent
      <4> QED BY <3>3, <4>2
    <3>6. CASE \E j \in 1 .. Len(nt["A"]) : AcceptedAt(nt["A"], j, k)
      <4>1. PICK j \in 1 .. Len(got) : AcceptedAt(got, j, k)
        BY <1>5, <3>6
      <4>2. AcceptedAt(nt2["A"], j, k) /\ j \in 1 .. Len(nt2["A"])
        BY <1>5, <1>6, <4>1 DEF AcceptedAt
      <4> QED BY <3>3, <4>2
    <3> QED BY <3>1, <3>4, <3>5, <3>6
  <2>2. ASSUME NEW i \in 1 .. Len(nt2["A"]), NEW k \in KeyIds, AcceptedAt(nt2["A"], i, k),
               bs2["A"]["enc"].st[k] = "INIT"
        PROVE  /\ bs2["B"]["dec"].st[k] = "READY"
               /\ bs2["B"]["dec"].lo[k] = 0 /\ bs2["B"]["dec"].hi[k] = MaxLen
    <3>1. bs["A"]["enc"].st[k] = "INIT"
      BY <1>9, <2>2, Peers
    <3>2. CASE i \in 1 .. Len(got)
      <4>1. AcceptedAt(nt["A"], i, k) /\ i \in 1 .. Len(nt["A"])
        BY <1>5, <1>6, <2>2, <3>2 DEF AcceptedAt
      <4>2. /\ bs["B"]["dec"].st[k] = "READY"
            /\ bs["B"]["dec"].lo[k] = 0 /\ bs["B"]["dec"].hi[k] = MaxLen
        BY <1>1, <3>1, <4>1 DEF Filling
      <4>3. k \notin taken
        BY <1>2, <1>3, <4>1
      <4>4. \/ bs2["B"]["dec"] = bs["B"]["dec"]
            \/ d = "dec"
        BY <1>9, Peers
      <4> QED BY <1>9, <4>2, <4>3, <4>4
    <3>3. CASE i = Len(got) + 1
      <4>1. k \in taken
        BY <1>5, <1>6, <2>2, <3>3 DEF AcceptedAt
      <4>2. d = "dec"
        BY <1>17, <3>1, <4>1, Peers
      <4> QED BY <1>9, <4>1, <4>2
    <3> QED BY <1>5, <1>6, <2>2, <3>2, <3>3
  <2> QED BY <2>1, <2>2 DEF Filling
<1>14. Direction(bs2["A"]["enc"], bs2["B"]["dec"], nt2["B"], qy["A"], sv["A"], fd["B"])
  <2>1. Direction(bs["A"]["enc"], bs["B"]["dec"], out, qy["A"], sv["A"], fd["B"])
    BY <1>5, Peers DEF Invariant
  <2>2. Direction(bs["A"]["enc"], bs2["B"]["dec"], out, qy["A"], sv["A"], fd["B"])
    <3>1. CASE d = "dec"
      <4>1. \A k \in taken : bs["B"]["dec"].st[k] = "NONE"
        BY <1>2, <1>3 DEF Absent
      <4>2. Sets(bs["B"]["dec"], bs2["B"]["dec"], taken, "READY", 0, MaxLen)
        BY <3>1
      <4> QED BY <1>3, <2>1, <4>1, <4>2, DecGains
    <3>2. CASE d = "enc"
      BY <1>9, <2>1, <3>2, Peers
    <3> QED BY <1>3, <3>1, <3>2, Peers
  <2>5. out # <<>> /\ Head(out).type = "fill"
    BY <1>5 DEF IsHead
  <2>3. /\ out # <<>> /\ Head(out).type # "skey"
        /\ \A k \in KeyIds : AcceptedAt(out, 1, k) => bs2["B"]["dec"].st[k] # "INIT"
    BY <2>5, TailFacts DEF AcceptedAt
  <2>4. Direction(bs["A"]["enc"], bs2["B"]["dec"], Tail(out), qy["A"], sv["A"], fd["B"])
    BY <2>2, <2>3, OutRead
  <2> QED BY <1>5, <1>9, <2>4, Peers
<1>15. Direction(bs2["B"]["enc"], bs2["A"]["dec"], nt2["A"], qy["B"], sv["B"], fd["A"])
  <2>1. Direction(bs["B"]["enc"], bs["A"]["dec"], got, qy["B"], sv["B"], fd["A"])
    BY <1>5, Peers DEF Invariant
  <2>2. PICK w \in Seq(Messages) : w = Append(got, m) /\ w = nt2["A"]
    BY <1>4, <1>5, AppendFacts
  <2>3. Direction(bs["B"]["enc"], bs["A"]["dec"], w, qy["B"], sv["B"], fd["A"])
    BY <1>4, <2>1, <2>2, OutSent
  <2>4. Direction(bs2["B"]["enc"], bs["A"]["dec"], w, qy["B"], sv["B"], fd["A"])
    <3>1. CASE d = "enc"
      <4>1. ASSUME NEW k \in taken
            PROVE  /\ bs["A"]["dec"].st[k] = "INIT" /\ bs["A"]["dec"].lo[k] = 0
                   /\ bs["A"]["dec"].hi[k] = MaxLen
                   /\ AcceptedAt(w, Len(w), k)
                   /\ \A i \in 1 .. Len(w) : AcceptedAt(w, i, k) => i = Len(w)
        <5>1. /\ bs["A"]["dec"].st[k] = "INIT" /\ bs["A"]["dec"].lo[k] = 0
              /\ bs["A"]["dec"].hi[k] = MaxLen
          BY <1>17, <3>1
        <5>2. AcceptedAt(w, Len(w), k)
          BY <1>4, <1>6, <2>2 DEF AcceptedAt
        <5>3. \A i \in 1 .. Len(got) : ~AcceptedAt(got, i, k)
          BY <1>2, <1>3, <1>5
        <5>4. \A i \in 1 .. Len(w) : AcceptedAt(w, i, k) => i = Len(w)
          BY <1>6, <2>2, <5>3 DEF AcceptedAt
        <5> QED BY <5>1, <5>2, <5>4
      <4>2. Sets(bs["B"]["enc"], bs2["B"]["enc"], taken, "READY", 0, MaxLen)
        BY <3>1
      <4> QED BY <1>3, <2>3, <4>1, <4>2, EncAccepts
    <3>2. CASE d = "dec"
      BY <1>9, <2>3, <3>2, Peers
    <3> QED BY <1>3, <3>1, <3>2, Peers
  <2> QED BY <1>9, <2>2, <2>4, Peers
<1> QED BY <1>1, <1>7, <1>8, <1>10, <1>11, <1>12, <1>13, <1>14, <1>15, DirectionPair, Peers DEF Invariant

-----------------------------------------------------------------------------
(* The answer to a FILL arrives: its keys are settled.                     *)

IsAnswered(a, r, got, qs) == IsHead(a, got) /\ a.type = "filled" /\ IsHead(r, qs)

(* What is known of a filled answer a at the master to the query r.        *)
Settling(bs, got, qs, a, r) ==
  /\ r \in Messages /\ r.type = "fill" /\ r.dir \in Dir /\ r.keys \in SUBSET KeyIds
  /\ a \in Messages /\ a.accepted \cup a.rejected \subseteq r.keys
  /\ a.accepted \cap a.rejected = {}
  /\ \A k \in r.keys :
       /\ bs["A"][r.dir].st[k] = "INIT" /\ bs["A"][Other(r.dir)].st[k] = "NONE"
       /\ bs["A"][r.dir].lo[k] = 0 /\ bs["A"][r.dir].hi[k] = MaxLen
       /\ \A i \in 1 .. Len(got) : AcceptedAt(got, i, k) => i = 1
       /\ \A i \in 1 .. Len(qs), c \in Dir : k \in Claims(qs[i], c) => i = 1
       /\ k \notin a.accepted => Absent(bs, "B", k)
       /\ k \in a.accepted /\ r.dir = "enc" =>
            /\ bs["B"]["dec"].st[k] = "READY"
            /\ bs["B"]["dec"].lo[k] = 0 /\ bs["B"]["dec"].hi[k] = MaxLen

(* The answer at the master is about keys of its first query.              *)
LEMMA FillAnswered ==
  ASSUME NEW st, NEW qb, NEW bs, NEW nt, NEW qy, NEW sv, NEW fd,
         Invariant(st, qb, bs, nt, qy, sv, fd),
         NEW a, NEW r, IsAnswered(a, r, nt["A"], qy["A"])
  PROVE  Settling(bs, nt["A"], qy["A"], a, r)
<1>1. Listed(nt, qy) /\ Claimed(bs, qy) /\ Located(st, qb, bs) /\ Filling(bs, nt, qy)
  BY DEF Invariant
<1>2. PICK got \in Seq(Messages), qs \in Seq(Messages), sent \in Seq(Messages) :
        got = nt["A"] /\ qs = qy["A"] /\ sent = nt["B"] /\ Matched(got, sent, qs)
  BY <1>1, Peers DEF Listed
<1>3. got # <<>> /\ qs # <<>> /\ a = Head(got) /\ r = Head(qs)
  BY <1>2 DEF IsAnswered, IsHead
<1>4. /\ 1 \in 1 .. Len(got) /\ got[1] = a /\ a \in Messages
      /\ 1 \in 1 .. Len(qs) /\ qs[1] = r /\ r \in Messages
  BY <1>3, TailFacts
<1>5. a.type = "filled" /\ ~Request(a)
  BY DEF IsAnswered, Request
<1>6. Answers(a, r)
  <2>1. ~Request(Head(got))
    BY <1>3, <1>5
  <2>2. Answers(Head(got), qs[1])
    BY <1>2, <1>3, <2>1, AnswerRead
  <2> QED BY <1>3, <1>4, <2>2
<1>7. r.type = "fill" /\ a.accepted \cup a.rejected \subseteq r.keys
  BY <1>5, <1>6 DEF Answers
<1>8. r.dir \in Dir /\ r.keys \in SUBSET KeyIds /\ a.accepted \cap a.rejected = {}
  BY <1>4, <1>5, <1>7 DEF Messages, Message
<1>9. ASSUME NEW k \in r.keys
      PROVE  /\ bs["A"][r.dir].st[k] = "INIT" /\ bs["A"][Other(r.dir)].st[k] = "NONE"
             /\ bs["A"][r.dir].lo[k] = 0 /\ bs["A"][r.dir].hi[k] = MaxLen
             /\ \A i \in 1 .. Len(nt["A"]) : AcceptedAt(nt["A"], i, k) => i = 1
             /\ \A i \in 1 .. Len(qy["A"]), c \in Dir : k \in Claims(qy["A"][i], c) => i = 1
             /\ k \notin a.accepted => Absent(bs, "B", k)
             /\ k \in a.accepted /\ r.dir = "enc" =>
                  /\ bs["B"]["dec"].st[k] = "READY"
                  /\ bs["B"]["dec"].lo[k] = 0 /\ bs["B"]["dec"].hi[k] = MaxLen
  <2>1. k \in KeyIds /\ k \in Claims(r, r.dir)
    BY <1>7, <1>8 DEF Claims
  <2>2. 1 \in 1 .. Len(qy["A"]) /\ k \in Claims(qy["A"][1], r.dir)
    BY <1>2, <1>4, <2>1
  <2>3. bs["A"][r.dir].st[k] = "INIT" /\ bs["A"][Other(r.dir)].st[k] = "NONE"
    BY <1>1, <1>8, <2>1, <2>2, OneClaim, Peers
  <2>4. ASSUME NEW i \in 1 .. Len(qy["A"]), NEW c \in Dir, k \in Claims(qy["A"][i], c)
        PROVE  i = 1
    BY <1>1, <1>8, <2>1, <2>2, <2>4, OneClaim, Peers
  <2>5. ASSUME NEW i \in 1 .. Len(nt["A"]), AcceptedAt(nt["A"], i, k)
        PROVE  i = 1
    <3>1. \E j2 \in 1 .. Len(qy["A"]), d \in Dir : AcceptedBy(bs, nt, qy, i, k, j2, d)
      BY <2>5, AcceptedClaim
    <3>2. PICK j \in 1 .. Len(qy["A"]), d \in Dir :
            k \in Claims(qy["A"][j], d) /\ (~Request(nt["A"][1]) => (j = 1 <=> i = 1))
      BY <3>1 DEF AcceptedBy
    <3>3. ~Request(nt["A"][1])
      BY <1>2, <1>4, <1>5
    <3> QED BY <2>4, <3>2, <3>3
  <2>6. /\ bs["A"][r.dir].lo[k] = 0 /\ bs["A"][r.dir].hi[k] = MaxLen
        /\ Absent(bs, "B", k) \/ \E i \in 1 .. Len(nt["A"]) : AcceptedAt(nt["A"], i, k)
    <3>1. 1 \in 1 .. Len(qy["A"]) /\ qy["A"][1] = r
      BY <1>2, <1>4
    <3> QED BY <1>1, <1>7, <3>1 DEF Filling
  <2>7. 1 \in 1 .. Len(nt["A"]) /\ (AcceptedAt(nt["A"], 1, k) <=> k \in a.accepted)
    BY <1>2, <1>4, <1>5 DEF AcceptedAt
  <2>8. k \notin a.accepted => Absent(bs, "B", k)
    BY <2>5, <2>6, <2>7
  <2>9. k \in a.accepted /\ r.dir = "enc" =>
          /\ bs["B"]["dec"].st[k] = "READY"
          /\ bs["B"]["dec"].lo[k] = 0 /\ bs["B"]["dec"].hi[k] = MaxLen
    BY <1>1, <2>1, <2>3, <2>7 DEF Filling
  <2> QED BY <2>3, <2>4, <2>5, <2>6, <2>8, <2>9
<1> QED BY <1>4, <1>7, <1>8, <1>9 DEF Settling

Towards(d, r) == d = r.dir

(* The keys of a FILL are settled at the master.                           *)
LEMMA FillResponseKeeps ==
  ASSUME NEW st, NEW qb, NEW bs, NEW nt, NEW qy, NEW sv, NEW fd,
         Invariant(st, qb, bs, nt, qy, sv, fd),
         NEW a, NEW r, IsAnswered(a, r, nt["A"], qy["A"]), NEW d \in Dir, Towards(d, r),
         NEW bs2, Only(bs, bs2, "A", d), SettlesAll(bs["A"][d], bs2["A"][d], r.keys, a.accepted),
         NEW qb2, qb2["B"] = qb["B"], qb2["A"] \in [keys : SUBSET KeyIds, bits : Nat],
         qb2["A"].bits = qb["A"].bits, qb["A"].keys \subseteq qb2["A"].keys,
         qb2["A"].keys \subseteq qb["A"].keys \cup a.rejected,
         NEW nt2, nt2["A"] = Tail(nt["A"]), nt2["B"] = nt["B"],
         NEW qy2, qy2["A"] = Tail(qy["A"]), qy2["B"] = qy["B"]
  PROVE  Invariant(st, qb2, bs2, nt2, qy2, sv, fd)
<1>1. /\ Listed(nt, qy) /\ Stocked(bs) /\ Banked(st, qb) /\ Claimed(bs, qy)
      /\ Located(st, qb, bs) /\ Filling(bs, nt, qy) /\ Typed(sv, fd)
  BY DEF Invariant
<1>2. /\ r \in Messages /\ r.type = "fill" /\ r.dir \in Dir /\ r.keys \in SUBSET KeyIds
      /\ a \in Messages /\ a.accepted \cup a.rejected \subseteq r.keys
      /\ a.accepted \cap a.rejected = {}
      /\ \A k \in r.keys :
           /\ bs["A"][r.dir].st[k] = "INIT" /\ bs["A"][Other(r.dir)].st[k] = "NONE"
           /\ bs["A"][r.dir].lo[k] = 0 /\ bs["A"][r.dir].hi[k] = MaxLen
           /\ \A i \in 1 .. Len(nt["A"]) : AcceptedAt(nt["A"], i, k) => i = 1
           /\ \A i \in 1 .. Len(qy["A"]), c \in Dir : k \in Claims(qy["A"][i], c) => i = 1
           /\ k \notin a.accepted => Absent(bs, "B", k)
           /\ k \in a.accepted /\ r.dir = "enc" =>
                /\ bs["B"]["dec"].st[k] = "READY"
                /\ bs["B"]["dec"].lo[k] = 0 /\ bs["B"]["dec"].hi[k] = MaxLen
  <2>1. Settling(bs, nt["A"], qy["A"], a, r)
    BY FillAnswered
  <2> QED BY <2>1 DEF Settling
<1>3. PICK ks \in SUBSET KeyIds, acc \in SUBSET KeyIds, rej \in SUBSET KeyIds :
        ks = r.keys /\ acc = a.accepted /\ rej = a.rejected
  <2>1. a.accepted \in SUBSET KeyIds /\ a.rejected \in SUBSET KeyIds
    BY <1>2
  <2> QED BY <1>2, <2>1
<1>4. /\ acc \subseteq ks /\ rej \subseteq ks /\ acc \cap rej = {}
      /\ d = "enc" => Other(r.dir) = "dec"
      /\ d = "dec" => Other(r.dir) = "enc"
  <2>1. d = r.dir
    BY DEF Towards
  <2> QED BY <1>2, <1>3, <2>1, Peers
<1>5. \A k \in ks :
        /\ d = "enc" => /\ bs["A"]["enc"].st[k] = "INIT" /\ bs["A"]["dec"].st[k] = "NONE"
                        /\ bs["A"]["enc"].lo[k] = 0 /\ bs["A"]["enc"].hi[k] = MaxLen
        /\ d = "dec" => bs["A"]["dec"].st[k] = "INIT" /\ bs["A"]["enc"].st[k] = "NONE"
        /\ \A i \in 1 .. Len(nt["A"]) : AcceptedAt(nt["A"], i, k) => i = 1
        /\ \A i \in 1 .. Len(qy["A"]), c \in Dir : k \in Claims(qy["A"][i], c) => i = 1
        /\ k \notin acc => bs["B"]["enc"].st[k] = "NONE" /\ bs["B"]["dec"].st[k] = "NONE"
        /\ k \in acc /\ d = "enc" =>
             /\ bs["B"]["dec"].st[k] = "READY"
             /\ bs["B"]["dec"].lo[k] = 0 /\ bs["B"]["dec"].hi[k] = MaxLen
  <2> SUFFICES ASSUME NEW k \in ks
      PROVE  /\ d = "enc" => /\ bs["A"]["enc"].st[k] = "INIT" /\ bs["A"]["dec"].st[k] = "NONE"
                             /\ bs["A"]["enc"].lo[k] = 0 /\ bs["A"]["enc"].hi[k] = MaxLen
             /\ d = "dec" => bs["A"]["dec"].st[k] = "INIT" /\ bs["A"]["enc"].st[k] = "NONE"
             /\ \A i \in 1 .. Len(nt["A"]) : AcceptedAt(nt["A"], i, k) => i = 1
             /\ \A i \in 1 .. Len(qy["A"]), c \in Dir : k \in Claims(qy["A"][i], c) => i = 1
             /\ k \notin acc => bs["B"]["enc"].st[k] = "NONE" /\ bs["B"]["dec"].st[k] = "NONE"
             /\ k \in acc /\ d = "enc" =>
                  /\ bs["B"]["dec"].st[k] = "READY"
                  /\ bs["B"]["dec"].lo[k] = 0 /\ bs["B"]["dec"].hi[k] = MaxLen
    OBVIOUS
  <2>1. /\ bs["A"][r.dir].st[k] = "INIT" /\ bs["A"][Other(r.dir)].st[k] = "NONE"
        /\ bs["A"][r.dir].lo[k] = 0 /\ bs["A"][r.dir].hi[k] = MaxLen
        /\ \A i \in 1 .. Len(nt["A"]) : AcceptedAt(nt["A"], i, k) => i = 1
        /\ \A i \in 1 .. Len(qy["A"]), c \in Dir : k \in Claims(qy["A"][i], c) => i = 1
        /\ k \notin a.accepted => bs["B"]["enc"].st[k] = "NONE" /\ bs["B"]["dec"].st[k] = "NONE"
        /\ k \in a.accepted /\ r.dir = "enc" =>
             /\ bs["B"]["dec"].st[k] = "READY"
             /\ bs["B"]["dec"].lo[k] = 0 /\ bs["B"]["dec"].hi[k] = MaxLen
    BY <1>2, <1>3 DEF Absent
  <2> QED BY <1>3, <1>4, <2>1 DEF Towards
<1>6. PICK got \in Seq(Messages), sent \in Seq(Messages), qs \in Seq(Messages) :
        /\ got = nt["A"] /\ sent = nt["B"] /\ qs = qy["A"]
        /\ got # <<>> /\ qs # <<>> /\ Head(got) = a /\ Head(qs) = r
  <2>1. nt["A"] \in Seq(Messages) /\ nt["B"] \in Seq(Messages) /\ qy["A"] \in Seq(Messages)
    BY <1>1, Peers DEF Listed
  <2> QED BY <2>1 DEF IsAnswered, IsHead
<1>7. a.type = "filled" /\ ~Request(a)
  BY DEF IsAnswered, IsHead, Request
<1>8. PICK w \in Seq(Messages), rs \in Seq(Messages) :
        /\ w = Tail(got) /\ w = nt2["A"] /\ rs = Tail(qs) /\ rs = qy2["A"]
        /\ \A i \in 1 .. Len(w) : i + 1 \in 1 .. Len(got) /\ w[i] = got[i + 1] /\ i + 1 # 1
        /\ \A i \in 1 .. Len(got) : i = 1 \/ (i - 1 \in 1 .. Len(w) /\ w[i - 1] = got[i])
        /\ \A i \in 1 .. Len(rs) : i + 1 \in 1 .. Len(qs) /\ rs[i] = qs[i + 1] /\ i + 1 # 1
        /\ got[1] = a /\ qs[1] = r
  <2>1. /\ Tail(got) \in Seq(Messages) /\ Head(got) = got[1]
        /\ \A i \in 1 .. Len(Tail(got)) : i + 1 \in 1 .. Len(got) /\ Tail(got)[i] = got[i + 1]
        /\ \A i \in 1 .. Len(got) : i = 1 \/ (i - 1 \in 1 .. Len(Tail(got)) /\ Tail(got)[i - 1] = got[i])
    BY <1>6, TailFacts
  <2>2. /\ Tail(qs) \in Seq(Messages) /\ Head(qs) = qs[1]
        /\ \A i \in 1 .. Len(Tail(qs)) : i + 1 \in 1 .. Len(qs) /\ Tail(qs)[i] = qs[i + 1]
    BY <1>6, TailFacts
  <2>3. /\ \A i \in 1 .. Len(Tail(got)) : i + 1 # 1
        /\ \A i \in 1 .. Len(Tail(qs)) : i + 1 # 1
    BY <2>1, <2>2
  <2>4. PICK w \in Seq(Messages), rs \in Seq(Messages) : w = Tail(got) /\ rs = Tail(qs)
    BY <2>1, <2>2
  <2>5. w = nt2["A"] /\ rs = qy2["A"] /\ got[1] = a /\ qs[1] = r
    BY <1>6, <2>1, <2>2, <2>4
  <2>6. /\ \A i \in 1 .. Len(w) : i + 1 \in 1 .. Len(got) /\ w[i] = got[i + 1] /\ i + 1 # 1
        /\ \A i \in 1 .. Len(got) : i = 1 \/ (i - 1 \in 1 .. Len(w) /\ w[i - 1] = got[i])
    BY <2>1, <2>3, <2>4
  <2>7. \A i \in 1 .. Len(rs) : i + 1 \in 1 .. Len(qs) /\ rs[i] = qs[i + 1] /\ i + 1 # 1
    BY <2>2, <2>3, <2>4
  <2> QED BY <2>4, <2>5, <2>6, <2>7
<1>9. Listed(nt2, qy2)
  <2>1. PICK n \in Node : n = "A" /\ Peer(n) = "B"
    BY Peers
  <2>2. /\ Listed(nt, qy) /\ nt[n] # <<>> /\ ~Request(Head(nt[n]))
        /\ nt2[n] = Tail(nt[n]) /\ nt2[Peer(n)] = nt[Peer(n)]
        /\ qy2[n] = Tail(qy[n]) /\ qy2[Peer(n)] = qy[Peer(n)]
    BY <1>1, <1>6, <1>7, <2>1
  <2> QED BY <2>2, ListedRead
<1>10. SettlesAll(bs["A"][d], bs2["A"][d], ks, acc)
  BY <1>3
<1>11. Stocked(bs2)
  <2>1. Kept(bs["A"][d]) /\ \A k \in ks : bs["A"][d].st[k] # "NONE"
    BY <1>1, <1>5, Peers DEF Stocked
  <2>2. Kept(bs2["A"][d]) /\ bs2["A"][d].supply = bs["A"][d].supply
    <3>1. acc \in SUBSET ks
      BY <1>4
    <3> QED BY <1>10, <2>1, <3>1, SettlesKept
  <2> QED BY <1>1, <2>2, StockedOne, Peers
<1>12. /\ \A k \in KeyIds : /\ bs2["A"][d].st[k] = IF k \in acc THEN "READY"
                                                   ELSE IF k \in ks THEN "NONE" ELSE bs["A"][d].st[k]
                            /\ k \notin ks => /\ bs2["A"][d].lo[k] = bs["A"][d].lo[k]
                                              /\ bs2["A"][d].hi[k] = bs["A"][d].hi[k]
       /\ \A c \in Dir : bs2["B"][c] = bs["B"][c] /\ (c # d => bs2["A"][c] = bs["A"][c])
  <2>1. \A c \in Dir : bs2["B"][c] = bs["B"][c] /\ (c # d => bs2["A"][c] = bs["A"][c])
    BY Peers DEF Only
  <2> QED BY <1>10, <2>1 DEF SettlesAll
<1>13. Banked(st, qb2)
  <2>1. rej \subseteq st["A"]
    <3>1. \A k \in ks : ~Absent(bs, "A", k)
      BY <1>5, Peers DEF Absent
    <3> QED BY <1>1, <1>4, <3>1 DEF Located
  <2>2. PICK s, t : s = qb["A"] /\ t = qb2["A"]
    OBVIOUS
  <2>3. /\ s.keys \in SUBSET KeyIds /\ s.keys \subseteq st["A"] /\ st["A"] \in SUBSET KeyIds
        /\ s.bits \in Nat /\ s.bits <= QMax /\ s.bits <= MaxLen * Cardinality(s.keys)
    BY <1>1, <2>2, Peers DEF Banked
  <2>4. /\ t.keys \in SUBSET KeyIds /\ t = [keys |-> t.keys, bits |-> t.bits] /\ t.bits = s.bits
        /\ s.keys \in SUBSET t.keys /\ t.keys \subseteq st["A"]
    BY <1>3, <2>1, <2>2, <2>3
  <2>5. /\ MaxLen * Cardinality(t.keys \ s.keys) \in Nat /\ MaxLen * Cardinality(s.keys) \in Nat
        /\ MaxLen * Cardinality(t.keys \ s.keys) + MaxLen * Cardinality(s.keys) = MaxLen * Cardinality(t.keys)
    BY <2>4, BankedSizes
  <2>6. PICK x \in Nat, y \in Nat, z \in Nat :
          x = MaxLen * Cardinality(t.keys \ s.keys) /\ y = MaxLen * Cardinality(s.keys) /\ z = s.bits
    BY <2>3, <2>5
  <2>7. z <= x + y /\ MaxLen * Cardinality(t.keys) = x + y
    BY <2>3, <2>5, <2>6
  <2>8. t.bits <= MaxLen * Cardinality(t.keys)
    BY <2>4, <2>6, <2>7
  <2> QED BY <1>1, <2>2, <2>3, <2>4, <2>8 DEF Banked, Node
<1>14. Claimed(bs2, qy2)
  <2>1. \A c \in Dir, k \in KeyIds : k \in Claims(r, c) <=> (c = d /\ k \in ks)
    BY <1>2, <1>3 DEF Claims, Towards
  <2>2. ASSUME NEW c \in Dir, NEW k \in KeyIds
        PROVE  /\ bs2["B"][c].st[k] = "INIT" <=> bs["B"][c].st[k] = "INIT"
               /\ bs2["A"][c].st[k] = "INIT" <=> (bs["A"][c].st[k] = "INIT" /\ k \notin Claims(r, c))
    <3>1. CASE c = d
      BY <1>4, <1>12, <2>1, <3>1, Peers
    <3>2. CASE c # d
      BY <1>12, <2>1, <3>2
    <3> QED BY <3>1, <3>2
  <2>3. PICK n \in Node : n = "A" /\ Peer(n) = "B"
    BY Peers
  <2>4. \A c \in Dir, k \in KeyIds :
          /\ bs2[Peer(n)][c].st[k] = "INIT" <=> bs[Peer(n)][c].st[k] = "INIT"
          /\ bs2[n][c].st[k] = "INIT" <=> (bs[n][c].st[k] = "INIT" /\ k \notin Claims(qy[n][1], c))
    BY <1>6, <1>8, <2>2, <2>3
  <2>5. qy[n] # <<>> /\ qy2[n] = Tail(qy[n]) /\ qy2[Peer(n)] = qy[Peer(n)]
    BY <1>6, <2>3
  <2> QED BY <1>1, <2>4, <2>5, ClaimedRead
<1>15. Located(st, qb2, bs2)
  <2>1. qb2["A"].keys \subseteq qb["A"].keys \cup rej /\ qb2["B"].keys = qb["B"].keys
    BY <1>3
  <2>2. \A k \in KeyIds : Absent(bs, "B", k) => Absent(bs2, "B", k)
    BY <1>12, Peers DEF Absent
  <2>3. ASSUME NEW k \in KeyIds, Absent(bs, "A", k) \/ k \in rej
        PROVE  Absent(bs2, "A", k)
    <3>1. CASE k \in rej
      <4>1. k \in ks /\ k \notin acc
        BY <1>4, <3>1
      <4>2. bs2["A"][d].st[k] = "NONE" /\ \A c \in Dir : c # d => bs2["A"][c].st[k] = "NONE"
        BY <1>5, <1>12, <4>1, Peers
      <4> QED BY <4>2, Peers DEF Absent
    <3>2. CASE Absent(bs, "A", k)
      <4>1. k \notin ks
        BY <1>5, <3>2, Peers DEF Absent
      <4>2. \A c \in Dir : bs2["A"][c].st[k] = bs["A"][c].st[k]
        BY <1>4, <1>12, <4>1
      <4> QED BY <3>2, <4>2, Peers DEF Absent
    <3> QED BY <2>3, <3>1, <3>2
  <2>4. \A k \in rej : Absent(bs2, "B", k)
    <3>1. \A k \in rej : Absent(bs, "B", k)
      BY <1>4, <1>5 DEF Absent
    <3> QED BY <2>2, <3>1
  <2>5. ASSUME NEW k \in KeyIds
        PROVE  bs2["A"]["enc"].st[k] = "NONE" \/ bs2["A"]["dec"].st[k] = "NONE"
    <3>1. bs["A"]["enc"].st[k] = "NONE" \/ bs["A"]["dec"].st[k] = "NONE"
      BY <1>1, Peers DEF Located
    <3>2. \A c \in Dir : bs2["A"][c].st[k] = bs["A"][c].st[k] \/ (k \in ks /\ c = d)
      BY <1>4, <1>12
    <3> QED BY <1>5, <1>12, <3>1, <3>2, Peers
  <2>6. ASSUME NEW k \in KeyIds
        PROVE  bs2["B"]["enc"].st[k] = "NONE" \/ bs2["B"]["dec"].st[k] = "NONE"
    <3>1. bs["B"]["enc"].st[k] = "NONE" \/ bs["B"]["dec"].st[k] = "NONE"
      BY <1>1, Peers DEF Located
    <3> QED BY <1>12, <3>1, Peers
  <2>7. /\ \A k \in KeyIds : k \in qb["A"].keys \/ k \notin st["A"] => Absent(bs, "A", k) /\ Absent(bs, "B", k)
        /\ \A k \in KeyIds : k \in qb["B"].keys \/ k \notin st["B"] => Absent(bs, "B", k)
    BY <1>1 DEF Located
  <2>8. /\ \A k \in KeyIds : k \in qb2["A"].keys \/ k \notin st["A"] => Absent(bs2, "A", k) /\ Absent(bs2, "B", k)
        /\ \A k \in KeyIds : k \in qb2["B"].keys \/ k \notin st["B"] => Absent(bs2, "B", k)
    BY <2>1, <2>2, <2>3, <2>4, <2>7
  <2> QED BY <2>5, <2>6, <2>8 DEF Located, Node
<1>16. Filling(bs2, nt2, qy2)
  <2>1. ASSUME NEW i \in 1 .. Len(rs), rs[i].type = "fill", NEW k \in rs[i].keys
        PROVE  /\ bs2["A"][rs[i].dir].lo[k] = 0 /\ bs2["A"][rs[i].dir].hi[k] = MaxLen
               /\ Absent(bs2, "B", k) \/ \E j \in 1 .. Len(w) : AcceptedAt(w, j, k)
    <3>1. i + 1 \in 1 .. Len(qs) /\ qs[i + 1] = rs[i] /\ i + 1 # 1
      BY <1>8
    <3>2. /\ bs["A"][rs[i].dir].lo[k] = 0 /\ bs["A"][rs[i].dir].hi[k] = MaxLen
          /\ Absent(bs, "B", k) \/ \E j \in 1 .. Len(got) : AcceptedAt(got, j, k)
      <4>1. i + 1 \in 1 .. Len(qy["A"]) /\ qy["A"][i + 1] = rs[i]
        BY <1>6, <3>1
      <4>2. /\ bs["A"][qy["A"][i + 1].dir].lo[k] = 0 /\ bs["A"][qy["A"][i + 1].dir].hi[k] = MaxLen
            /\ Absent(bs, "B", k) \/ \E j \in 1 .. Len(nt["A"]) : AcceptedAt(nt["A"], j, k)
        BY <1>1, <2>1, <4>1 DEF Filling
      <4> QED BY <1>6, <4>1, <4>2
    <3>3. rs[i].dir \in Dir /\ k \in KeyIds /\ k \in Claims(rs[i], rs[i].dir)
      <4>1. rs[i] \in Messages
        BY <1>8
      <4> QED BY <2>1, <4>1 DEF Messages, Message, Claims
    <3>4. k \notin ks
      <4>1. i + 1 \in 1 .. Len(qy["A"]) /\ k \in Claims(qy["A"][i + 1], rs[i].dir)
        BY <1>6, <3>1, <3>3
      <4> QED BY <1>5, <3>1, <3>3, <4>1
    <3>5. bs2["A"][rs[i].dir].lo[k] = 0 /\ bs2["A"][rs[i].dir].hi[k] = MaxLen
      BY <1>12, <3>2, <3>3, <3>4
    <3>6. Absent(bs, "B", k) => Absent(bs2, "B", k)
      BY <1>12, Peers DEF Absent
    <3>7. ASSUME NEW j \in 1 .. Len(got), AcceptedAt(got, j, k)
          PROVE  \E h \in 1 .. Len(w) : AcceptedAt(w, h, k)
      <4>1. j # 1
        BY <1>3, <1>4, <1>8, <3>4, <3>7 DEF AcceptedAt
      <4>2. j - 1 \in 1 .. Len(w) /\ w[j - 1] = got[j]
        BY <1>8, <4>1
      <4> QED BY <3>7, <4>2 DEF AcceptedAt
    <3> QED BY <3>2, <3>5, <3>6, <3>7
  <2>2. ASSUME NEW i \in 1 .. Len(w), NEW k \in KeyIds, AcceptedAt(w, i, k),
               bs2["A"]["enc"].st[k] = "INIT"
        PROVE  /\ bs2["B"]["dec"].st[k] = "READY"
               /\ bs2["B"]["dec"].lo[k] = 0 /\ bs2["B"]["dec"].hi[k] = MaxLen
    <3>1. i + 1 \in 1 .. Len(nt["A"]) /\ AcceptedAt(nt["A"], i + 1, k) /\ i + 1 # 1
      BY <1>6, <1>8, <2>2 DEF AcceptedAt
    <3>2. k \notin ks
      BY <1>5, <3>1
    <3>3. bs["A"]["enc"].st[k] = "INIT"
      BY <1>4, <1>12, <2>2, <3>2, Peers
    <3>4. /\ bs["B"]["dec"].st[k] = "READY"
          /\ bs["B"]["dec"].lo[k] = 0 /\ bs["B"]["dec"].hi[k] = MaxLen
      BY <1>1, <3>1, <3>3 DEF Filling
    <3> QED BY <1>12, <3>4, Peers
  <2>3. \A i \in 1 .. Len(qy2["A"]) : qy2["A"][i].type = "fill" =>
          \A k \in qy2["A"][i].keys :
            /\ bs2["A"][qy2["A"][i].dir].lo[k] = 0 /\ bs2["A"][qy2["A"][i].dir].hi[k] = MaxLen
            /\ Absent(bs2, "B", k) \/ \E j \in 1 .. Len(nt2["A"]) : AcceptedAt(nt2["A"], j, k)
    <3>1. rs = qy2["A"] /\ w = nt2["A"]
      BY <1>8
    <3> QED BY <2>1, <3>1
  <2>4. \A i \in 1 .. Len(nt2["A"]), k \in KeyIds :
          AcceptedAt(nt2["A"], i, k) /\ bs2["A"]["enc"].st[k] = "INIT" =>
            /\ bs2["B"]["dec"].st[k] = "READY"
            /\ bs2["B"]["dec"].lo[k] = 0 /\ bs2["B"]["dec"].hi[k] = MaxLen
    <3>1. w = nt2["A"]
      BY <1>8
    <3> QED BY <2>2, <3>1
  <2> QED BY <2>3, <2>4 DEF Filling
<1>17. Direction(bs2["A"]["enc"], bs2["B"]["dec"], nt2["B"], qy2["A"], sv["A"], fd["B"])
  <2>1. Direction(bs["A"]["enc"], bs["B"]["dec"], sent, qs, sv["A"], fd["B"])
    BY <1>6, Peers DEF Invariant
  <2>2. Direction(bs["A"]["enc"], bs["B"]["dec"], sent, rs, sv["A"], fd["B"])
    BY <1>6, <1>8, <2>1, QueryLeft
  <2>3. Direction(bs2["A"]["enc"], bs["B"]["dec"], sent, rs, sv["A"], fd["B"])
    <3>1. CASE d = "enc"
      <4>1. \A k \in ks : bs["A"]["enc"].st[k] = "INIT"
        BY <1>5, <3>1
      <4>2. \A k \in acc : /\ bs["B"]["dec"].st[k] = "READY"
                           /\ bs["B"]["dec"].lo[k] = bs["A"]["enc"].lo[k]
                           /\ bs["B"]["dec"].hi[k] = bs["A"]["enc"].hi[k]
        BY <1>4, <1>5, <3>1
      <4>3. ASSUME NEW i \in 1 .. Len(rs), rs[i].type = "skey"
            PROVE  rs[i].surplus \cap ks = {}
        <5>1. ASSUME NEW k \in rs[i].surplus
              PROVE  k \in Claims(rs[i], "enc")
          BY <4>3 DEF Claims
        <5>2. i + 1 \in 1 .. Len(qy["A"]) /\ qy["A"][i + 1] = rs[i] /\ i + 1 # 1
          BY <1>6, <1>8
        <5> QED BY <1>5, <5>1, <5>2, Peers
      <4>4. ASSUME NEW i \in 1 .. Len(sent), IsCut(sent, i)
            PROVE  sent[i].surplus \cap ks = {}
        <5>1. sent[i].type = "skey" /\ Request(sent[i])
          BY <4>4 DEF IsCut, Request
        <5>2. PICK j \in 1 .. Len(qy["A"]) : qy["A"][j] = sent[i]
          <6>1. PICK n \in Node : n = "A" /\ Peer(n) = "B"
            BY Peers
          <6>2. Listed(nt, qy) /\ i \in 1 .. Len(nt[Peer(n)]) /\ Request(nt[Peer(n)][i])
            BY <1>1, <1>6, <5>1, <6>1
          <6>3. \E j \in 1 .. Len(qy[n]) :
                  j > Cardinality(Replies(nt[n])) /\ qy[n][j] = nt[Peer(n)][i]
            BY <6>2, CutClaims
          <6> QED BY <1>6, <6>1, <6>3
        <5>3. \A k \in sent[i].surplus : k \in Claims(qy["A"][j], "enc")
          BY <5>1, <5>2 DEF Claims
        <5>4. j # 1
          BY <1>2, <1>6, <1>8, <5>1, <5>2
        <5> QED BY <1>5, <5>3, <5>4, Peers
      <4>5. SettlesAll(bs["A"]["enc"], bs2["A"]["enc"], ks, acc)
        BY <1>10, <3>1
      <4>6. acc \in SUBSET ks
        BY <1>4
      <4> QED BY <2>2, <4>1, <4>2, <4>3, <4>4, <4>5, <4>6, EncSettles
    <3>2. CASE d = "dec"
      BY <1>12, <2>2, <3>2, Peers
    <3> QED BY <3>1, <3>2, Peers
  <2> QED BY <1>6, <1>8, <1>12, <2>3, Peers
<1>18. Direction(bs2["B"]["enc"], bs2["A"]["dec"], nt2["A"], qy2["B"], sv["B"], fd["A"])
  <2>1. Direction(bs["B"]["enc"], bs["A"]["dec"], got, qy["B"], sv["B"], fd["A"])
    BY <1>6, Peers DEF Invariant
  <2>2. Direction(bs["B"]["enc"], bs2["A"]["dec"], w, qy["B"], sv["B"], fd["A"])
    <3>1. CASE d = "dec"
      <4>1. \A k \in ks : bs["A"]["dec"].st[k] = "INIT"
        BY <1>5, <3>1
      <4>2. \A k \in ks \ acc : bs["B"]["enc"].st[k] = "NONE"
        BY <1>5
      <4>3. \A i \in 1 .. Len(got), k \in ks : AcceptedAt(got, i, k) => i = 1
        BY <1>5, <1>6
      <4>4. SettlesAll(bs["A"]["dec"], bs2["A"]["dec"], ks, acc)
        BY <1>10, <3>1
      <4>5. acc \in SUBSET ks /\ acc = Head(got).accepted /\ got # <<>> /\ Head(got).type = "filled"
        BY <1>3, <1>4, <1>6, <1>7
      <4>6. Direction(bs["B"]["enc"], bs2["A"]["dec"], Tail(got), qy["B"], sv["B"], fd["A"])
        BY <2>1, <4>1, <4>2, <4>3, <4>4, <4>5, DecSettles
      <4> QED BY <1>8, <4>6
    <3>2. CASE d = "enc"
      <4>1. bs2["A"]["dec"] = bs["A"]["dec"]
        BY <1>12, <3>2, Peers
      <4>2. /\ got # <<>> /\ Head(got).type # "skey"
            /\ \A k \in KeyIds : AcceptedAt(got, 1, k) => bs["A"]["dec"].st[k] # "INIT"
        BY <1>3, <1>4, <1>5, <1>6, <1>7, <1>8, <3>2 DEF AcceptedAt
      <4>3. Direction(bs["B"]["enc"], bs["A"]["dec"], Tail(got), qy["B"], sv["B"], fd["A"])
        BY <2>1, <4>2, OutRead
      <4> QED BY <1>8, <4>1, <4>3
    <3> QED BY <3>1, <3>2, Peers
  <2> QED BY <1>8, <1>12, <2>2, Peers
<1> QED BY <1>1, <1>9, <1>11, <1>13, <1>14, <1>15, <1>16, <1>17, <1>18, DirectionPair, Peers DEF Invariant

-----------------------------------------------------------------------------
(* FILL while keys are served.                                             *)
Accepts(s, k) == \E j \in 1 .. Len(s) : AcceptedAt(s, j, k)

(* Reading another message loses no accepted key.                          *)
LEMMA TailAccepts ==
  ASSUME NEW s \in Seq(Messages), s # <<>>, Head(s).type # "filled"
  PROVE  \A k : Accepts(Tail(s), k) <=> Accepts(s, k)
<1>1. PICK w \in Seq(Messages) : w = Tail(s)
  BY TailFacts
<1>2. /\ \A i \in 1 .. Len(w) : i + 1 \in 1 .. Len(s) /\ w[i] = s[i + 1]
      /\ \A i \in 1 .. Len(s) : i = 1 \/ (i - 1 \in 1 .. Len(w) /\ w[i - 1] = s[i])
      /\ Head(s) = s[1]
  <2>1. /\ \A i \in 1 .. Len(Tail(s)) : i + 1 \in 1 .. Len(s) /\ Tail(s)[i] = s[i + 1]
        /\ \A i \in 1 .. Len(s) : i = 1 \/ (i - 1 \in 1 .. Len(Tail(s)) /\ Tail(s)[i - 1] = s[i])
        /\ Head(s) = s[1]
    BY TailFacts
  <2> QED BY <1>1, <2>1
<1>3. ASSUME NEW k, NEW j \in 1 .. Len(s), AcceptedAt(s, j, k)
      PROVE  Accepts(w, k)
  <2>1. j # 1
    BY <1>2, <1>3 DEF AcceptedAt
  <2>2. j - 1 \in 1 .. Len(w) /\ AcceptedAt(w, j - 1, k)
    BY <1>2, <1>3, <2>1 DEF AcceptedAt
  <2> QED BY <2>2 DEF Accepts
<1>4. ASSUME NEW k, NEW j \in 1 .. Len(w), AcceptedAt(w, j, k)
      PROVE  Accepts(s, k)
  <2>1. j + 1 \in 1 .. Len(s) /\ AcceptedAt(s, j + 1, k)
    BY <1>2, <1>4 DEF AcceptedAt
  <2> QED BY <2>1 DEF Accepts
<1> QED BY <1>1, <1>3, <1>4 DEF Accepts

(* Sending another message adds no accepted key.                           *)
LEMMA AppendAccepts ==
  ASSUME NEW s \in Seq(Messages), NEW m \in Messages, m.type # "filled"
  PROVE  \A k : Accepts(Append(s, m), k) <=> Accepts(s, k)
<1>1. PICK w \in Seq(Messages) : w = Append(s, m)
  BY AppendFacts
<1>2. /\ \A i \in 1 .. Len(s) : i \in 1 .. Len(w) /\ w[i] = s[i]
      /\ \A i \in 1 .. Len(w) : i \in 1 .. Len(s) \/ w[i] = m
  <2>1. /\ Len(Append(s, m)) = Len(s) + 1
        /\ \A i \in 1 .. Len(s) : i \in 1 .. Len(s) + 1 /\ Append(s, m)[i] = s[i]
        /\ Append(s, m)[Len(s) + 1] = m
        /\ \A i \in 1 .. Len(s) + 1 : i \in 1 .. Len(s) \/ i = Len(s) + 1
    BY AppendFacts
  <2> QED BY <1>1, <2>1
<1>3. \A k, j : j \in 1 .. Len(s) => (AcceptedAt(s, j, k) => AcceptedAt(w, j, k) /\ j \in 1 .. Len(w))
  BY <1>2 DEF AcceptedAt
<1>4. \A k, j : j \in 1 .. Len(w) => (AcceptedAt(w, j, k) => AcceptedAt(s, j, k) /\ j \in 1 .. Len(s))
  BY <1>2 DEF AcceptedAt
<1> QED BY <1>1, <1>3, <1>4 DEF Accepts

(* FILLs stay as they are while reserved keys are left alone.              *)
LEMMA FillingKeeps ==
  ASSUME NEW bs, NEW nt, NEW qy, Listed(nt, qy), Claimed(bs, qy), Filling(bs, nt, qy),
         NEW bs2, NEW nt2, NEW qy2,
         \A i \in 1 .. Len(qy2["A"]) : qy2["A"][i].type = "fill" =>
           \E j \in 1 .. Len(qy["A"]) : qy["A"][j] = qy2["A"][i],
         \A k \in KeyIds : Accepts(nt2["A"], k) <=> Accepts(nt["A"], k),
         \A d \in Dir, k \in KeyIds : bs["A"][d].st[k] = "INIT" =>
           bs2["A"][d].lo[k] = bs["A"][d].lo[k] /\ bs2["A"][d].hi[k] = bs["A"][d].hi[k],
         \A k \in KeyIds : Absent(bs, "B", k) => Absent(bs2, "B", k),
         \A k \in KeyIds : Accepts(nt["A"], k) /\ bs2["A"]["enc"].st[k] = "INIT" =>
           /\ bs["A"]["enc"].st[k] = "INIT"
           /\ bs["B"]["dec"].st[k] = "READY" =>
                /\ bs2["B"]["dec"].st[k] = "READY"
                /\ bs2["B"]["dec"].lo[k] = bs["B"]["dec"].lo[k]
                /\ bs2["B"]["dec"].hi[k] = bs["B"]["dec"].hi[k]
  PROVE  Filling(bs2, nt2, qy2)
<1>1. ASSUME NEW i \in 1 .. Len(qy2["A"]), qy2["A"][i].type = "fill", NEW k \in qy2["A"][i].keys
      PROVE  /\ bs2["A"][qy2["A"][i].dir].lo[k] = 0 /\ bs2["A"][qy2["A"][i].dir].hi[k] = MaxLen
             /\ Absent(bs2, "B", k) \/ \E j \in 1 .. Len(nt2["A"]) : AcceptedAt(nt2["A"], j, k)
  <2>8. PICK j \in 1 .. Len(qy["A"]) : qy["A"][j] = qy2["A"][i]
    BY <1>1
  <2>1. PICK r : r = qy2["A"][i] /\ r = qy["A"][j]
    BY <2>8
  <2>2. r \in Messages /\ r.type = "fill" /\ k \in r.keys
    BY <1>1, <2>1, Peers DEF Listed
  <2>3. r.dir \in Dir /\ k \in KeyIds /\ k \in Claims(r, r.dir)
    BY <2>2 DEF Messages, Message, Claims
  <2>4. bs["A"][r.dir].st[k] = "INIT"
    BY <2>1, <2>3, Peers DEF Claimed
  <2>5. /\ bs["A"][r.dir].lo[k] = 0 /\ bs["A"][r.dir].hi[k] = MaxLen
        /\ Absent(bs, "B", k) \/ Accepts(nt["A"], k)
    BY <2>1, <2>2 DEF Filling, Accepts
  <2>6. bs2["A"][r.dir].lo[k] = 0 /\ bs2["A"][r.dir].hi[k] = MaxLen
    BY <2>3, <2>4, <2>5
  <2>7. Absent(bs2, "B", k) \/ Accepts(nt2["A"], k)
    BY <2>3, <2>5
  <2> QED BY <2>1, <2>6, <2>7 DEF Accepts
<1>2. ASSUME NEW i \in 1 .. Len(nt2["A"]), NEW k \in KeyIds, AcceptedAt(nt2["A"], i, k),
             bs2["A"]["enc"].st[k] = "INIT"
      PROVE  /\ bs2["B"]["dec"].st[k] = "READY"
             /\ bs2["B"]["dec"].lo[k] = 0 /\ bs2["B"]["dec"].hi[k] = MaxLen
  <2>1. Accepts(nt["A"], k)
    <3>1. Accepts(nt2["A"], k)
      BY <1>2 DEF Accepts
    <3> QED BY <3>1
  <2>2. bs["A"]["enc"].st[k] = "INIT"
    BY <1>2, <2>1
  <2>3. /\ bs["B"]["dec"].st[k] = "READY"
        /\ bs["B"]["dec"].lo[k] = 0 /\ bs["B"]["dec"].hi[k] = MaxLen
    BY <2>1, <2>2 DEF Filling, Accepts
  <2> QED BY <1>2, <2>1, <2>3
<1> QED BY <1>1, <1>2 DEF Filling

-----------------------------------------------------------------------------
(* The answer to a SKEY_CREATE arrives: the rest of the split key is READY.*)

IsConfirmed(a, r, got, qs) == IsHead(a, got) /\ a.type = "created" /\ IsHead(r, qs)

Confirming(e, d, other, out, qs, r) ==
  /\ r \in Messages /\ r.type = "skey" /\ r.surplus \in SUBSET KeyIds
  /\ \A k \in r.surplus :
       /\ e.st[k] = "INIT" /\ other.st[k] = "NONE"
       /\ d.st[k] = "READY" /\ d.lo[k] = e.lo[k] /\ d.hi[k] = e.hi[k]
       /\ \A i \in 1 .. Len(qs) : qs[i].type = "skey" /\ k \in qs[i].surplus => i = 1
       /\ \A i \in 1 .. Len(out) : IsCut(out, i) => k \notin out[i].surplus

(* The answer that arrives is that of the first query, whose request is    *)
(* not on its way any more.                                                *)
LEMMA SkeyAnswered ==
  ASSUME NEW st, NEW qb, NEW bs, NEW nt, NEW qy, NEW sv, NEW fd,
         Invariant(st, qb, bs, nt, qy, sv, fd), NEW n \in Node,
         NEW a, NEW r, IsConfirmed(a, r, nt[n], qy[n])
  PROVE  Confirming(bs[n]["enc"], bs[Peer(n)]["dec"], bs[n]["dec"], nt[Peer(n)], qy[n], r)
<1>1. Listed(nt, qy) /\ Claimed(bs, qy) /\ Located(st, qb, bs)
  BY DEF Invariant
<1>2. PICK got \in Seq(Messages), qs \in Seq(Messages), sent \in Seq(Messages) :
        got = nt[n] /\ qs = qy[n] /\ sent = nt[Peer(n)] /\ Matched(got, sent, qs)
  BY <1>1, ListedUnpair
<1>3. got # <<>> /\ qs # <<>> /\ a = Head(got) /\ r = Head(qs) /\ a.type = "created"
  BY <1>2 DEF IsConfirmed, IsHead
<1>4. /\ 1 \in 1 .. Len(got) /\ got[1] = a /\ a \in Messages
      /\ 1 \in 1 .. Len(qs) /\ qs[1] = r /\ r \in Messages
  BY <1>3, TailFacts
<1>5. ~Request(a) /\ a.type # "filled"
  BY <1>3 DEF Request
<1>6. Answers(a, r)
  <2>1. ~Request(Head(got))
    BY <1>3, <1>5
  <2>2. Answers(Head(got), qs[1])
    BY <1>2, <1>3, <2>1, AnswerRead
  <2> QED BY <1>3, <1>4, <2>2
<1>7. r.type = "skey" /\ r.surplus \in SUBSET KeyIds
  <2>1. Request(r)
    BY <1>1, <1>2, <1>4, ListedUnpair
  <2>2. r.type = "skey"
    BY <1>5, <1>6, <2>1 DEF Answers, Request
  <2> QED BY <1>4, <2>2 DEF Messages, Message
<1>8. PICK c \in Nat : c = Cardinality(Replies(got)) /\ c >= 1
  <2>1. Cardinality(Replies(got)) \in Nat /\ IsFiniteSet(Replies(got))
    BY PlacesFinite
  <2>2. 1 \in Replies(got)
    BY <1>4, <1>5 DEF Replies
  <2>3. Cardinality(Replies(got)) # 0
    BY <2>1, <2>2, FS_EmptySet
  <2> QED BY <2>1, <2>3
<1>9. ASSUME NEW k \in r.surplus
      PROVE  /\ bs[n]["enc"].st[k] = "INIT" /\ bs[n]["dec"].st[k] = "NONE"
             /\ \A i \in 1 .. Len(qs) : qs[i].type = "skey" /\ k \in qs[i].surplus => i = 1
  <2>1. k \in KeyIds /\ 1 \in 1 .. Len(qy[n]) /\ k \in Claims(qy[n][1], "enc")
    BY <1>2, <1>4, <1>7 DEF Claims
  <2>2. bs[n]["enc"].st[k] = "INIT" /\ bs[n][Other("enc")].st[k] = "NONE"
    BY <1>1, <2>1, OneClaim, Peers
  <2>3. ASSUME NEW i \in 1 .. Len(qs), qs[i].type = "skey", k \in qs[i].surplus
        PROVE  i = 1
    <3>1. i \in 1 .. Len(qy[n]) /\ k \in Claims(qy[n][i], "enc")
      BY <1>2, <2>3 DEF Claims
    <3> QED BY <1>1, <2>1, <3>1, OneClaim, Peers
  <2> QED BY <2>2, <2>3, Peers
<1>10. ASSUME NEW i \in 1 .. Len(sent), IsCut(sent, i), NEW k \in r.surplus
       PROVE  k \notin sent[i].surplus
  <2>1. sent[i].type = "skey" /\ Request(sent[i])
    BY <1>10 DEF IsCut, Request
  <2>2. PICK j \in 1 .. Len(qy[n]) : j > Cardinality(Replies(nt[n])) /\ qy[n][j] = nt[Peer(n)][i]
    <3>1. Listed(nt, qy) /\ i \in 1 .. Len(nt[Peer(n)]) /\ Request(nt[Peer(n)][i])
      BY <1>1, <1>2, <2>1
    <3> QED BY <3>1, CutClaims
  <2>3. j \in 1 .. Len(qs) /\ j > c /\ qs[j] = sent[i]
    BY <1>2, <1>8, <2>2
  <2>4. j # 1
    BY <1>8, <2>3
  <2> QED BY <1>9, <2>1, <2>3, <2>4
<1>11. ASSUME NEW k \in r.surplus
       PROVE  /\ bs[Peer(n)]["dec"].st[k] = "READY"
              /\ bs[Peer(n)]["dec"].lo[k] = bs[n]["enc"].lo[k]
              /\ bs[Peer(n)]["dec"].hi[k] = bs[n]["enc"].hi[k]
  <2>1. Cutting(bs[n]["enc"], bs[Peer(n)]["dec"], sent, qs)
    BY <1>2 DEF Invariant, Direction
  <2>2. k \in KeyIds /\ qs[1].type = "skey" /\ k \in qs[1].surplus
    BY <1>4, <1>7
  <2>3. \/ \E j \in 1 .. Len(sent) : IsCut(sent, j) /\ k \in sent[j].surplus
        \/ /\ bs[Peer(n)]["dec"].st[k] = "READY"
           /\ bs[Peer(n)]["dec"].lo[k] = bs[n]["enc"].lo[k]
           /\ bs[Peer(n)]["dec"].hi[k] = bs[n]["enc"].hi[k]
    BY <1>4, <2>1, <2>2 DEF Cutting
  <2> QED BY <1>10, <2>3
<1>12. \A i \in 1 .. Len(nt[Peer(n)]), k \in r.surplus :
         IsCut(nt[Peer(n)], i) => k \notin nt[Peer(n)][i].surplus
  BY <1>2, <1>10
<1>13. \A k \in r.surplus : \A i \in 1 .. Len(qy[n]) :
         qy[n][i].type = "skey" /\ k \in qy[n][i].surplus => i = 1
  BY <1>2, <1>9
<1> QED BY <1>4, <1>7, <1>9, <1>11, <1>12, <1>13 DEF Confirming

(* Keys that are marked READY are settled.                                 *)
LEMMA MarksSettle ==
  ASSUME NEW b, Sound(b), NEW c, NEW ks \in SUBSET KeyIds, Marks(b, c, ks, "READY")
  PROVE  SettlesAll(b, c, ks, ks)
<1>1. /\ b.lo = [k \in KeyIds |-> b.lo[k]] /\ b.hi = [k \in KeyIds |-> b.hi[k]]
  BY SoundMaps
<1>2. /\ [k \in KeyIds |-> IF k \in ks \ ks THEN 0 ELSE b.lo[k]] = [k \in KeyIds |-> b.lo[k]]
      /\ [k \in KeyIds |-> IF k \in ks \ ks THEN 0 ELSE b.hi[k]] = [k \in KeyIds |-> b.hi[k]]
      /\ [k \in KeyIds |-> IF k \in ks THEN "READY" ELSE IF k \in ks THEN "NONE" ELSE b.st[k]]
           = [k \in KeyIds |-> IF k \in ks THEN "READY" ELSE b.st[k]]
  OBVIOUS
<1> QED BY <1>1, <1>2 DEF Marks, SettlesAll

(* The rest of a split key may be served again.                            *)
LEMMA SkeyResponseKeeps ==
  ASSUME NEW st, NEW qb, NEW bs, NEW nt, NEW qy, NEW sv, NEW fd,
         Invariant(st, qb, bs, nt, qy, sv, fd), NEW n \in Node,
         NEW a, NEW r, IsConfirmed(a, r, nt[n], qy[n]),
         NEW bs2, Only(bs, bs2, n, "enc"), Marks(bs[n]["enc"], bs2[n]["enc"], r.surplus, "READY"),
         NEW nt2, nt2[n] = Tail(nt[n]), nt2[Peer(n)] = nt[Peer(n)],
         NEW qy2, qy2[n] = Tail(qy[n]), qy2[Peer(n)] = qy[Peer(n)]
  PROVE  Invariant(st, qb, bs2, nt2, qy2, sv, fd)
<1>1. /\ Listed(nt, qy) /\ Stocked(bs) /\ Banked(st, qb) /\ Claimed(bs, qy)
      /\ Located(st, qb, bs) /\ Filling(bs, nt, qy) /\ Typed(sv, fd)
  BY DEF Invariant
<1>2. Confirming(bs[n]["enc"], bs[Peer(n)]["dec"], bs[n]["dec"], nt[Peer(n)], qy[n], r)
  BY SkeyAnswered
<1>3. r \in Messages /\ r.type = "skey"
  BY <1>2 DEF Confirming
<1>4. PICK ks \in SUBSET KeyIds : ks = r.surplus
  BY <1>2 DEF Confirming
<1>5. \A k \in ks :
        /\ bs[n]["enc"].st[k] = "INIT" /\ bs[n]["dec"].st[k] = "NONE"
        /\ bs[Peer(n)]["dec"].st[k] = "READY"
        /\ bs[Peer(n)]["dec"].lo[k] = bs[n]["enc"].lo[k]
        /\ bs[Peer(n)]["dec"].hi[k] = bs[n]["enc"].hi[k]
  BY <1>2, <1>4 DEF Confirming
<1>6. PICK got \in Seq(Messages), sent \in Seq(Messages), qs \in Seq(Messages) :
        /\ got = nt[n] /\ sent = nt[Peer(n)] /\ qs = qy[n]
        /\ got # <<>> /\ qs # <<>> /\ Head(got) = a /\ Head(qs) = r
  <2>1. nt[n] \in Seq(Messages) /\ nt[Peer(n)] \in Seq(Messages) /\ qy[n] \in Seq(Messages)
    BY <1>1, ListedUnpair
  <2> QED BY <2>1 DEF IsConfirmed, IsHead
<1>7. a.type = "created" /\ ~Request(a)
  BY DEF IsConfirmed, IsHead, Request
<1>8. PICK rs \in Seq(Messages) :
        /\ rs = Tail(qs) /\ rs = qy2[n]
        /\ \A i \in 1 .. Len(rs) : i + 1 \in 1 .. Len(qs) /\ rs[i] = qs[i + 1] /\ i + 1 # 1
        /\ qs[1] = r
  <2>1. /\ Tail(qs) \in Seq(Messages) /\ Head(qs) = qs[1]
        /\ \A i \in 1 .. Len(Tail(qs)) : i + 1 \in 1 .. Len(qs) /\ Tail(qs)[i] = qs[i + 1]
    BY <1>6, TailFacts
  <2>2. \A i \in 1 .. Len(Tail(qs)) : i + 1 # 1
    BY <2>1
  <2> QED BY <1>6, <2>1, <2>2
<1>9. Listed(nt2, qy2)
  <2>1. /\ Listed(nt, qy) /\ nt[n] # <<>> /\ ~Request(Head(nt[n]))
        /\ nt2[n] = Tail(nt[n]) /\ nt2[Peer(n)] = nt[Peer(n)]
        /\ qy2[n] = Tail(qy[n]) /\ qy2[Peer(n)] = qy[Peer(n)]
    BY <1>1, <1>6, <1>7
  <2> QED BY <2>1, ListedRead
<1>10. Marks(bs[n]["enc"], bs2[n]["enc"], ks, "READY")
  BY <1>4
<1>11. Stocked(bs2)
  <2>1. Kept(bs[n]["enc"]) /\ \A k \in ks : bs[n]["enc"].st[k] # "NONE"
    BY <1>1, <1>5, Peers DEF Stocked
  <2>2. Kept(bs2[n]["enc"]) /\ bs2[n]["enc"].supply = bs[n]["enc"].supply
    BY <1>10, <2>1, MarksKept
  <2> QED BY <1>1, <2>2, StockedOne, Peers
<1>12. /\ \A k \in KeyIds : bs2[n]["enc"].st[k] = IF k \in ks THEN "READY" ELSE bs[n]["enc"].st[k]
       /\ bs2[n]["enc"].lo = bs[n]["enc"].lo /\ bs2[n]["enc"].hi = bs[n]["enc"].hi
       /\ \A c \in Dir : bs2[Peer(n)][c] = bs[Peer(n)][c] /\ (c # "enc" => bs2[n][c] = bs[n][c])
  <2>1. \A c \in Dir : bs2[Peer(n)][c] = bs[Peer(n)][c] /\ (c # "enc" => bs2[n][c] = bs[n][c])
    BY Peers DEF Only
  <2> QED BY <1>10, <2>1 DEF Marks
<1>13. Claimed(bs2, qy2)
  <2>1. \A c \in Dir, k \in KeyIds : k \in Claims(r, c) <=> (c = "enc" /\ k \in ks)
    BY <1>3, <1>4 DEF Claims
  <2>2. ASSUME NEW c \in Dir, NEW k \in KeyIds
        PROVE  /\ bs2[Peer(n)][c].st[k] = "INIT" <=> bs[Peer(n)][c].st[k] = "INIT"
               /\ bs2[n][c].st[k] = "INIT" <=> (bs[n][c].st[k] = "INIT" /\ k \notin Claims(r, c))
    <3>1. CASE c = "enc"
      BY <1>12, <2>1, <3>1, Peers
    <3>2. CASE c # "enc"
      BY <1>12, <2>1, <3>2
    <3> QED BY <3>1, <3>2
  <2>4. \A c \in Dir, k \in KeyIds :
          /\ bs2[Peer(n)][c].st[k] = "INIT" <=> bs[Peer(n)][c].st[k] = "INIT"
          /\ bs2[n][c].st[k] = "INIT" <=> (bs[n][c].st[k] = "INIT" /\ k \notin Claims(qy[n][1], c))
    BY <1>6, <1>8, <2>2
  <2>5. qy[n] # <<>> /\ qy2[n] = Tail(qy[n]) /\ qy2[Peer(n)] = qy[Peer(n)]
    BY <1>6
  <2> QED BY <1>1, <2>4, <2>5, ClaimedRead
<1>14. \A m \in Node : m = n \/ m = Peer(n)
  BY Peers
<1>15. \A m \in Node, d \in Dir, k \in KeyIds :
         /\ bs[m][d].st[k] = "NONE" => bs2[m][d].st[k] = "NONE"
         /\ bs2[m][d].lo = bs[m][d].lo /\ bs2[m][d].hi = bs[m][d].hi
         /\ bs2[m][d].st[k] = "INIT" => bs[m][d].st[k] = "INIT"
  <2>1. ASSUME NEW m \in Node, NEW d \in Dir, NEW k \in KeyIds
        PROVE  /\ bs[m][d].st[k] = "NONE" => bs2[m][d].st[k] = "NONE"
               /\ bs2[m][d].lo = bs[m][d].lo /\ bs2[m][d].hi = bs[m][d].hi
               /\ bs2[m][d].st[k] = "INIT" => bs[m][d].st[k] = "INIT"
    <3>1. CASE m = n /\ d = "enc"
      BY <1>5, <1>12, <3>1
    <3>2. CASE m = n /\ d # "enc"
      BY <1>12, <3>2
    <3>3. CASE m = Peer(n)
      BY <1>12, <3>3
    <3> QED BY <1>14, <3>1, <3>2, <3>3
  <2> QED BY <2>1
<1>16. Located(st, qb, bs2)
  BY <1>1, <1>15, LocatedShrinks
<1>17. Filling(bs2, nt2, qy2)
  <2>1. \A i \in 1 .. Len(qy2["A"]) : \E j \in 1 .. Len(qy["A"]) : qy["A"][j] = qy2["A"][i]
    <3>1. CASE n = "A"
      BY <1>6, <1>8, <3>1
    <3>2. CASE n = "B"
      BY <3>2, Peers
    <3> QED BY <3>1, <3>2 DEF Node
  <2>2. \A k \in KeyIds : Accepts(nt2["A"], k) <=> Accepts(nt["A"], k)
    <3>1. CASE n = "A"
      <4>1. \A k : Accepts(Tail(got), k) <=> Accepts(got, k)
        BY <1>6, <1>7, TailAccepts
      <4> QED BY <1>6, <3>1, <4>1
    <3>2. CASE n = "B"
      BY <3>2, Peers
    <3> QED BY <3>1, <3>2 DEF Node
  <2>3. \A k \in KeyIds : Absent(bs, "B", k) => Absent(bs2, "B", k)
    BY <1>15, Peers DEF Absent
  <2>4. bs2["B"]["dec"] = bs["B"]["dec"]
    BY Peers DEF Only
  <2>5. \A i \in 1 .. Len(qy2["A"]) : qy2["A"][i].type = "fill" =>
          \E j \in 1 .. Len(qy["A"]) : qy["A"][j] = qy2["A"][i]
    BY <2>1
  <2>6. \A d \in Dir, k \in KeyIds : bs["A"][d].st[k] = "INIT" =>
          bs2["A"][d].lo[k] = bs["A"][d].lo[k] /\ bs2["A"][d].hi[k] = bs["A"][d].hi[k]
    BY <1>15, Peers
  <2>7. \A k \in KeyIds : Accepts(nt["A"], k) /\ bs2["A"]["enc"].st[k] = "INIT" =>
          /\ bs["A"]["enc"].st[k] = "INIT"
          /\ bs["B"]["dec"].st[k] = "READY" =>
               /\ bs2["B"]["dec"].st[k] = "READY"
               /\ bs2["B"]["dec"].lo[k] = bs["B"]["dec"].lo[k]
               /\ bs2["B"]["dec"].hi[k] = bs["B"]["dec"].hi[k]
    BY <1>15, <2>4, Peers
  <2> QED BY <1>1, <2>2, <2>3, <2>5, <2>6, <2>7, FillingKeeps
<1>18. Direction(bs2[n]["enc"], bs2[Peer(n)]["dec"], nt2[Peer(n)], qy2[n], sv[n], fd[Peer(n)])
  <2>1. Direction(bs[n]["enc"], bs[Peer(n)]["dec"], sent, qs, sv[n], fd[Peer(n)])
    BY <1>6 DEF Invariant
  <2>2. Direction(bs[n]["enc"], bs[Peer(n)]["dec"], sent, rs, sv[n], fd[Peer(n)])
    BY <1>6, <1>8, <2>1, QueryLeft
  <2>3. \A k \in ks : bs[n]["enc"].st[k] = "INIT"
    BY <1>5
  <2>4. \A k \in ks : /\ bs[Peer(n)]["dec"].st[k] = "READY"
                      /\ bs[Peer(n)]["dec"].lo[k] = bs[n]["enc"].lo[k]
                      /\ bs[Peer(n)]["dec"].hi[k] = bs[n]["enc"].hi[k]
    BY <1>5
  <2>5. ASSUME NEW i \in 1 .. Len(rs), rs[i].type = "skey"
        PROVE  rs[i].surplus \cap ks = {}
    <3>1. i + 1 \in 1 .. Len(qs) /\ qs[i + 1] = rs[i] /\ i + 1 # 1
      BY <1>8
    <3>2. \A k \in ks : \A j \in 1 .. Len(qs) : qs[j].type = "skey" /\ k \in qs[j].surplus => j = 1
      BY <1>2, <1>4, <1>6 DEF Confirming
    <3> QED BY <2>5, <3>1, <3>2
  <2>6. ASSUME NEW i \in 1 .. Len(sent), IsCut(sent, i)
        PROVE  sent[i].surplus \cap ks = {}
    <3>1. \A k \in ks : k \notin sent[i].surplus
      BY <1>2, <1>4, <1>6, <2>6 DEF Confirming
    <3> QED BY <3>1
  <2>7. SettlesAll(bs[n]["enc"], bs2[n]["enc"], ks, ks)
    <3>1. Sound(bs[n]["enc"])
      BY <1>1 DEF Stocked, Kept
    <3> QED BY <1>10, <3>1, MarksSettle
  <2>8. ks \in SUBSET ks
    OBVIOUS
  <2>9. Direction(bs2[n]["enc"], bs[Peer(n)]["dec"], sent, rs, sv[n], fd[Peer(n)])
    BY <2>2, <2>3, <2>4, <2>5, <2>6, <2>7, <2>8, EncSettles
  <2> QED BY <1>6, <1>8, <1>12, <2>9, Peers
<1>19. Direction(bs2[Peer(n)]["enc"], bs2[n]["dec"], nt2[n], qy2[Peer(n)], sv[Peer(n)], fd[n])
  <2>1. Direction(bs[Peer(n)]["enc"], bs[n]["dec"], got, qy[Peer(n)], sv[Peer(n)], fd[n])
    BY <1>6, Peers DEF Invariant
  <2>2. /\ got # <<>> /\ Head(got).type # "skey"
        /\ \A k \in KeyIds : AcceptedAt(got, 1, k) => bs[n]["dec"].st[k] # "INIT"
    BY <1>6, <1>7, TailFacts DEF AcceptedAt
  <2>3. Direction(bs[Peer(n)]["enc"], bs[n]["dec"], Tail(got), qy[Peer(n)], sv[Peer(n)], fd[n])
    BY <2>1, <2>2, OutRead
  <2>4. bs2[Peer(n)]["enc"] = bs[Peer(n)]["enc"] /\ bs2[n]["dec"] = bs[n]["dec"]
    BY <1>12, Peers
  <2> QED BY <1>6, <2>3, <2>4
<1> QED BY <1>1, <1>9, <1>11, <1>13, <1>16, <1>17, <1>18, <1>19, DirectionPair DEF Invariant

-----------------------------------------------------------------------------
(* dec_keys gives supply keys out.                                         *)
LEMMA DecKeeps ==
  ASSUME NEW st, NEW qb, NEW bs, NEW nt, NEW qy, NEW sv, NEW fd,
         Invariant(st, qb, bs, nt, qy, sv, fd), NEW n \in Node, NEW ids \in SUBSET SupplyIds,
         NEW bs2, Only(bs, bs2, n, "dec"), Empties(bs[n]["dec"], bs2[n]["dec"], ids),
         NEW fd2, fd2[Peer(n)] = fd[Peer(n)],
         \A s \in SupplyIds : fd2[n][s] \in {bs[n]["dec"].supply[s], fd[n][s]}
  PROVE  Invariant(st, qb, bs2, nt, qy, sv, fd2)
<1>1. /\ Listed(nt, qy) /\ Stocked(bs) /\ Banked(st, qb) /\ Claimed(bs, qy)
      /\ Located(st, qb, bs) /\ Filling(bs, nt, qy) /\ Typed(sv, fd)
  BY DEF Invariant
<1>2. Kept(bs[n]["dec"]) /\ Sound(bs[n]["dec"])
  BY <1>1, Peers DEF Stocked, Kept
<1>3. Stocked(bs2)
  <2>1. Kept(bs2[n]["dec"])
    BY <1>2, EmptiesKept
  <2>2. "dec" # "enc" /\ "dec" \in Dir
    BY Peers
  <2> QED BY <1>1, <2>1, <2>2, StockedOne
<1>4. \A m \in Node, d \in Dir :
        bs2[m][d].st = bs[m][d].st /\ bs2[m][d].lo = bs[m][d].lo /\ bs2[m][d].hi = bs[m][d].hi
  <2>1. ASSUME NEW m \in Node, NEW d \in Dir
        PROVE  bs2[m][d].st = bs[m][d].st /\ bs2[m][d].lo = bs[m][d].lo /\ bs2[m][d].hi = bs[m][d].hi
    <3>1. CASE m = n /\ d = "dec"
      BY <3>1 DEF Empties
    <3>2. CASE m # n \/ d # "dec"
      BY <3>2 DEF Only
    <3> QED BY <3>1, <3>2
  <2> QED BY <2>1
<1>5. Claimed(bs2, qy)
  BY <1>1, <1>4, ClaimedKeep
<1>6. Located(st, qb, bs2)
  BY <1>1, <1>4, LocatedShrinks
<1>7. Filling(bs2, nt, qy)
  <2>1. \A i \in 1 .. Len(qy["A"]) : qy["A"][i].type = "fill" =>
          \E j \in 1 .. Len(qy["A"]) : qy["A"][j] = qy["A"][i]
    OBVIOUS
  <2>2. \A k \in KeyIds : Absent(bs, "B", k) => Absent(bs2, "B", k)
    BY <1>4, Peers DEF Absent
  <2>3. \A d \in Dir, k \in KeyIds : bs["A"][d].st[k] = "INIT" =>
          bs2["A"][d].lo[k] = bs["A"][d].lo[k] /\ bs2["A"][d].hi[k] = bs["A"][d].hi[k]
    BY <1>4, Peers
  <2>4. \A k \in KeyIds : Accepts(nt["A"], k) /\ bs2["A"]["enc"].st[k] = "INIT" =>
          /\ bs["A"]["enc"].st[k] = "INIT"
          /\ bs["B"]["dec"].st[k] = "READY" =>
               /\ bs2["B"]["dec"].st[k] = "READY"
               /\ bs2["B"]["dec"].lo[k] = bs["B"]["dec"].lo[k]
               /\ bs2["B"]["dec"].hi[k] = bs["B"]["dec"].hi[k]
    BY <1>4, Peers
  <2> QED BY <1>1, <2>1, <2>2, <2>3, <2>4, FillingKeeps
<1>8. Typed(sv, fd2)
  <2>1. \A s \in SupplyIds : bs[n]["dec"].supply[s] \in SUBSET Cell
    BY <1>2, SoundMaps
  <2>2. \A m \in Node : m = n \/ m = Peer(n)
    BY Peers
  <2>3. \A s \in SupplyIds : fd2[n][s] \in SUBSET Cell
    BY <1>1, <2>1 DEF Typed
  <2> QED BY <1>1, <2>2, <2>3 DEF Typed
<1>9. Direction(bs2[Peer(n)]["enc"], bs2[n]["dec"], nt[n], qy[Peer(n)], sv[Peer(n)], fd2[n])
  <2>1. Direction(bs[Peer(n)]["enc"], bs[n]["dec"], nt[n], qy[Peer(n)], sv[Peer(n)], fd[n])
    BY Peers DEF Invariant
  <2>2. Direction(bs[Peer(n)]["enc"], bs2[n]["dec"], nt[n], qy[Peer(n)], sv[Peer(n)], fd2[n])
    BY <2>1, DecGives
  <2>3. bs2[Peer(n)]["enc"] = bs[Peer(n)]["enc"]
    BY Peers DEF Only
  <2> QED BY <2>2, <2>3
<1>10. Direction(bs2[n]["enc"], bs2[Peer(n)]["dec"], nt[Peer(n)], qy[n], sv[n], fd2[Peer(n)])
  <2>1. Direction(bs[n]["enc"], bs[Peer(n)]["dec"], nt[Peer(n)], qy[n], sv[n], fd[Peer(n)])
    BY Peers DEF Invariant
  <2>2. bs2[Peer(n)]["dec"] = bs[Peer(n)]["dec"] /\ bs2[n]["enc"] = bs[n]["enc"]
    BY Peers DEF Only
  <2> QED BY <2>1, <2>2
<1> QED BY <1>1, <1>3, <1>5, <1>6, <1>7, <1>8, <1>9, <1>10, DirectionPair DEF Invariant

-----------------------------------------------------------------------------
(* SKEY_CREATE arrives.                                                    *)
LEMMA SurplusReserved ==
  ASSUME NEW bs, NEW qy, Claimed(bs, qy), NEW n \in Node,
         NEW i \in 1 .. Len(qy[n]), qy[n][i].type = "skey", NEW k \in qy[n][i].surplus, k \in KeyIds
  PROVE  bs[n]["enc"].st[k] = "INIT"
<1>1. k \in Claims(qy[n][i], "enc")
  BY DEF Claims
<1> QED BY <1>1, Peers DEF Claimed

(* The rest of a split key is INIT while the query is open.                *)
LEMMA QueriesSurplus ==
  ASSUME NEW bs, NEW nt, NEW qy, Listed(nt, qy), Claimed(bs, qy), NEW n \in Node
  PROVE  \A i \in 1 .. Len(qy[n]) : qy[n][i].type = "skey" =>
           \A k \in qy[n][i].surplus : k \in KeyIds /\ bs[n]["enc"].st[k] = "INIT"
<1>1. ASSUME NEW i \in 1 .. Len(qy[n]), qy[n][i].type = "skey", NEW k \in qy[n][i].surplus
      PROVE  k \in KeyIds /\ bs[n]["enc"].st[k] = "INIT"
  <2>1. qy[n][i] \in Messages
    BY DEF Listed
  <2>2. k \in KeyIds
    BY <1>1, <2>1 DEF Messages, Message
  <2> QED BY <1>1, <2>2, SurplusReserved
<1> QED BY <1>1

(* The peer cuts its keys and stores the supply keys.                      *)
LEMMA SkeyRequestKeeps ==
  ASSUME NEW st, NEW qb, NEW bs, NEW nt, NEW qy, NEW sv, NEW fd,
         Invariant(st, qb, bs, nt, qy, sv, fd), NEW n \in Node,
         NEW x, IsHead(x, nt[n]), x.type = "skey",
         NEW m, m = [type |-> "created"],
         NEW bs2, Only(bs, bs2, n, "dec"), bs2[n]["dec"] = CutAt(x, bs[n]["dec"]),
         NEW nt2, nt2[n] = Tail(nt[n]), nt2[Peer(n)] = Append(nt[Peer(n)], m)
  PROVE  Invariant(st, qb, bs2, nt2, qy, sv, fd)
<1>1. /\ Listed(nt, qy) /\ Stocked(bs) /\ Banked(st, qb) /\ Claimed(bs, qy)
      /\ Located(st, qb, bs) /\ Filling(bs, nt, qy) /\ Typed(sv, fd)
  BY DEF Invariant
<1>2. PICK got \in Seq(Messages), sent \in Seq(Messages) :
        got = nt[n] /\ sent = nt[Peer(n)] /\ got # <<>> /\ Head(got) = x
  <2>1. nt[n] \in Seq(Messages) /\ nt[Peer(n)] \in Seq(Messages)
    BY <1>1, ListedUnpair
  <2> QED BY <2>1 DEF IsHead
<1>3. /\ m \in Messages /\ ~Request(m) /\ m.type # "filled" /\ m.type # "skey"
      /\ Request(x) /\ Answers(m, x) /\ x.type # "filled"
  BY DEF Messages, Message, Request, Answers
<1>4. PICK e, d, c : e = bs[Peer(n)]["enc"] /\ d = bs[n]["dec"] /\ c = bs2[n]["dec"]
  OBVIOUS
<1>5. Listed(nt2, qy)
  <2>1. /\ Listed(nt, qy) /\ nt[n] # <<>> /\ Request(Head(nt[n])) /\ Answers(m, Head(nt[n]))
        /\ nt2[n] = Tail(nt[n]) /\ nt2[Peer(n)] = Append(nt[Peer(n)], m)
    BY <1>1, <1>2, <1>3
  <2> QED BY <1>3, <2>1, ListedAnswer
<1>6. /\ Direction(e, c, Tail(got), qy[Peer(n)], sv[Peer(n)], fd[n])
      /\ Kept(c) /\ Trimmed(e, d, c, x.surplus)
  <2>1. Direction(e, d, got, qy[Peer(n)], sv[Peer(n)], fd[n])
    BY <1>2, <1>4, Peers DEF Invariant
  <2>2. Kept(d)
    BY <1>1, <1>4, Peers DEF Stocked
  <2>3. \A i \in 1 .. Len(qy[Peer(n)]) : qy[Peer(n)][i].type = "skey" =>
          \A k \in qy[Peer(n)][i].surplus : e.st[k] = "INIT"
    <3>1. Peer(n) \in Node
      BY Peers
    <3>2. \A i \in 1 .. Len(qy[Peer(n)]) : qy[Peer(n)][i].type = "skey" =>
           \A k \in qy[Peer(n)][i].surplus : k \in KeyIds /\ bs[Peer(n)]["enc"].st[k] = "INIT"
      BY <1>1, <3>1, QueriesSurplus
    <3> QED BY <1>4, <3>2
  <2>4. got # <<>> /\ Head(got).type = "skey"
    BY <1>2
  <2>5. /\ Direction(e, CutAt(Head(got), d), Tail(got), qy[Peer(n)], sv[Peer(n)], fd[n])
        /\ Kept(CutAt(Head(got), d))
        /\ Trimmed(e, d, CutAt(Head(got), d), Head(got).surplus)
    BY <2>1, <2>2, <2>3, <2>4, DecTakes
  <2>6. CutAt(Head(got), d) = c /\ Head(got) = x
    BY <1>2, <1>4
  <2> QED BY <2>5, <2>6
<1>7. \A o \in Node, b \in Dir : o # n \/ b # "dec" => bs2[o][b] = bs[o][b]
  BY DEF Only
<1>8. Stocked(bs2)
  <2>1. Kept(bs2[n]["dec"]) /\ "dec" # "enc" /\ "dec" \in Dir
    BY <1>4, <1>6, Peers
  <2> QED BY <1>1, <2>1, StockedOne
<1>9. \A k \in KeyIds : /\ c.st[k] = "INIT" <=> d.st[k] = "INIT"
                        /\ d.st[k] = "NONE" => c.st[k] = "NONE"
                        /\ d.st[k] = "INIT" => c.lo[k] = d.lo[k] /\ c.hi[k] = d.hi[k]
  BY <1>6 DEF Trimmed
<1>10. Claimed(bs2, qy)
  <2>1. ASSUME NEW o \in Node, NEW b \in Dir, NEW k \in KeyIds
        PROVE  bs2[o][b].st[k] = "INIT" <=> bs[o][b].st[k] = "INIT"
    <3>1. CASE o = n /\ b = "dec"
      BY <1>4, <1>9, <3>1
    <3>2. CASE o # n \/ b # "dec"
      BY <1>7, <3>2
    <3> QED BY <3>1, <3>2
  <2> QED BY <1>1, <2>1, ClaimedKeep
<1>11. Located(st, qb, bs2)
  <2>1. ASSUME NEW o \in Node, NEW b \in Dir, NEW k \in KeyIds, bs[o][b].st[k] = "NONE"
        PROVE  bs2[o][b].st[k] = "NONE"
    <3>1. CASE o = n /\ b = "dec"
      BY <1>4, <1>9, <2>1, <3>1
    <3>2. CASE o # n \/ b # "dec"
      BY <1>7, <2>1, <3>2
    <3> QED BY <3>1, <3>2
  <2> QED BY <1>1, <2>1, LocatedShrinks
<1>12. Filling(bs2, nt2, qy)
  <2>1. \A i \in 1 .. Len(qy["A"]) : qy["A"][i].type = "fill" =>
          \E j \in 1 .. Len(qy["A"]) : qy["A"][j] = qy["A"][i]
    OBVIOUS
  <2>2. \A k \in KeyIds : Accepts(nt2["A"], k) <=> Accepts(nt["A"], k)
    <3>1. CASE n = "A"
      <4>1. \A k : Accepts(Tail(got), k) <=> Accepts(got, k)
        BY <1>2, <1>3, TailAccepts
      <4> QED BY <1>2, <3>1, <4>1
    <3>2. CASE n = "B"
      <4>1. \A k : Accepts(Append(sent, m), k) <=> Accepts(sent, k)
        BY <1>3, AppendAccepts
      <4>2. nt2["A"] = Append(sent, m) /\ nt["A"] = sent
        BY <1>2, <3>2, Peers
      <4> QED BY <4>1, <4>2
    <3> QED BY <3>1, <3>2 DEF Node
  <2>3. \A b \in Dir, k \in KeyIds : bs["A"][b].st[k] = "INIT" =>
          bs2["A"][b].lo[k] = bs["A"][b].lo[k] /\ bs2["A"][b].hi[k] = bs["A"][b].hi[k]
    <3>1. ASSUME NEW b \in Dir, NEW k \in KeyIds, bs["A"][b].st[k] = "INIT"
          PROVE  bs2["A"][b].lo[k] = bs["A"][b].lo[k] /\ bs2["A"][b].hi[k] = bs["A"][b].hi[k]
      <4>1. CASE n = "A" /\ b = "dec"
        BY <1>4, <1>9, <3>1, <4>1
      <4>2. CASE n # "A" \/ b # "dec"
        BY <1>7, <4>2, Peers
      <4> QED BY <4>1, <4>2
    <3> QED BY <3>1
  <2>4. \A k \in KeyIds : Absent(bs, "B", k) => Absent(bs2, "B", k)
    <3>1. ASSUME NEW b \in Dir, NEW k \in KeyIds, bs["B"][b].st[k] = "NONE"
          PROVE  bs2["B"][b].st[k] = "NONE"
      <4>1. CASE n = "B" /\ b = "dec"
        BY <1>4, <1>9, <3>1, <4>1
      <4>2. CASE n # "B" \/ b # "dec"
        BY <1>7, <3>1, <4>2, Peers
      <4> QED BY <4>1, <4>2
    <3> QED BY <3>1, Peers DEF Absent
  <2>5. ASSUME NEW k \in KeyIds, Accepts(nt["A"], k), bs2["A"]["enc"].st[k] = "INIT"
        PROVE  /\ bs["A"]["enc"].st[k] = "INIT"
               /\ bs["B"]["dec"].st[k] = "READY" =>
                    /\ bs2["B"]["dec"].st[k] = "READY"
                    /\ bs2["B"]["dec"].lo[k] = bs["B"]["dec"].lo[k]
                    /\ bs2["B"]["dec"].hi[k] = bs["B"]["dec"].hi[k]
    <3>1. bs["A"]["enc"].st[k] = "INIT"
      BY <1>7, <2>5, Peers
    <3>2. CASE n = "A"
      <4>1. bs2["B"]["dec"] = bs["B"]["dec"]
        BY <1>7, <3>2, Peers
      <4> QED BY <3>1, <4>1
    <3>3. CASE n = "B"
      <4>1. e = bs["A"]["enc"] /\ d = bs["B"]["dec"] /\ c = bs2["B"]["dec"]
        BY <1>4, <3>3, Peers
      <4>2. k \notin x.surplus
        <5>1. SUFFICES ASSUME k \in x.surplus PROVE FALSE
          OBVIOUS
        <5>2. PICK j \in 1 .. Len(qy["A"]) : qy["A"][j] = x
          <6>1. PICK o \in Node : o = "A" /\ Peer(o) = "B"
            BY Peers
          <6>2. Listed(nt, qy) /\ 1 \in 1 .. Len(nt[Peer(o)]) /\ Request(nt[Peer(o)][1]) /\ nt[Peer(o)][1] = x
            BY <1>1, <1>2, <1>3, <3>3, <6>1, TailFacts
          <6>4. Listed(nt, qy) /\ 1 \in 1 .. Len(nt[Peer(o)]) /\ Request(nt[Peer(o)][1])
            BY <6>2
          <6>3. \E j \in 1 .. Len(qy[o]) :
                  j > Cardinality(Replies(nt[o])) /\ qy[o][j] = nt[Peer(o)][1]
            BY <6>4, CutClaims
          <6> QED BY <6>1, <6>2, <6>3
        <5>3. k \in Claims(qy["A"][j], "enc")
          BY <5>1, <5>2 DEF Claims
        <5>4. PICK i \in 1 .. Len(nt["A"]) : AcceptedAt(nt["A"], i, k)
          BY <2>5 DEF Accepts
        <5>5. \E j2 \in 1 .. Len(qy["A"]), d2 \in Dir : AcceptedBy(bs, nt, qy, i, k, j2, d2)
          BY <5>4, AcceptedClaim
        <5>6. PICK h \in 1 .. Len(qy["A"]), b \in Dir :
                qy["A"][h].type = "fill" /\ k \in Claims(qy["A"][h], b)
          BY <5>5 DEF AcceptedBy
        <5>7. h = j
          BY <1>1, <5>3, <5>6, OneClaim, Peers
        <5> QED BY <5>2, <5>6, <5>7
      <4>3. /\ d.st[k] # c.st[k] => e.st[k] = "NONE"
            /\ c.st[k] = "NONE" \/ (c.st[k] = d.st[k] /\ c.lo[k] = d.lo[k] /\ c.hi[k] = d.hi[k])
        BY <1>6, <4>2 DEF Trimmed
      <4> QED BY <3>1, <4>1, <4>3
    <3> QED BY <3>2, <3>3 DEF Node
  <2> QED BY <1>1, <2>1, <2>2, <2>3, <2>4, <2>5, FillingKeeps
<1>13. Direction(bs2[Peer(n)]["enc"], bs2[n]["dec"], nt2[n], qy[Peer(n)], sv[Peer(n)], fd[n])
  <2>1. bs2[Peer(n)]["enc"] = e /\ bs2[n]["dec"] = c /\ nt2[n] = Tail(got)
    BY <1>2, <1>4, <1>7, Peers
  <2> QED BY <1>6, <2>1
<1>14. Direction(bs2[n]["enc"], bs2[Peer(n)]["dec"], nt2[Peer(n)], qy[n], sv[n], fd[Peer(n)])
  <2>1. Direction(bs[n]["enc"], bs[Peer(n)]["dec"], sent, qy[n], sv[n], fd[Peer(n)])
    BY <1>2 DEF Invariant
  <2>2. Direction(bs[n]["enc"], bs[Peer(n)]["dec"], Append(sent, m), qy[n], sv[n], fd[Peer(n)])
    BY <1>3, <2>1, OutSent
  <2>3. bs2[n]["enc"] = bs[n]["enc"] /\ bs2[Peer(n)]["dec"] = bs[Peer(n)]["dec"]
    BY <1>7, Peers
  <2> QED BY <1>2, <2>2, <2>3
<1> QED BY <1>1, <1>5, <1>8, <1>10, <1>11, <1>12, <1>13, <1>14, DirectionPair DEF Invariant

-----------------------------------------------------------------------------
(* What enc_keys serves for its request x, of the merge m.                 *)
Serving(x, m, sv, sv2) ==
  /\ x \in Messages /\ x.type = "skey" /\ x.size \in Nat \ {0} /\ x.supply \in Seq(SupplyIds)
  /\ \A i, j \in 1 .. Len(x.supply) : x.supply[i] = x.supply[j] => i = j
  /\ m.ids = x.ids /\ m.surplus = x.surplus
  /\ \A s : Gives(x, s) => sv[s] = {}
  /\ Served(x, m.cells, sv2) /\ \A s \in SupplyIds : ~Gives(x, s) => sv2[s] = sv[s]

(* What enc_keys takes and sends keeps its direction.                      *)
LEMMA ServesBy ==
  ASSUME NEW e, NEW d, NEW out \in Seq(Messages), NEW qs \in Seq(Messages), NEW sv, NEW fd,
         Direction(e, d, out, qs, sv, fd), Kept(e),
         \A i \in 1 .. Len(qs) : qs[i].type = "skey" => \A k \in qs[i].surplus : e.st[k] = "INIT",
         NEW x, NEW m, NEW sv2, Serving(x, m, sv, sv2), NEW off, Draws(e, m, off, Total(x))
  PROVE  Direction(m.buf, d, Append(out, x), Append(qs, x), sv2, fd)
<1>1. /\ x \in Messages /\ x.type = "skey" /\ x.size \in Nat \ {0} /\ x.supply \in Seq(SupplyIds)
      /\ m.ids = x.ids /\ m.surplus = x.surplus /\ Served(x, m.cells, sv2)
  BY DEF Serving
<1>2. \A i, j \in 1 .. Len(x.supply) : x.supply[i] = x.supply[j] => i = j
  BY DEF Serving
<1>3. /\ \A s : Gives(x, s) => sv[s] = {}
      /\ \A s \in SupplyIds : ~Gives(x, s) => sv2[s] = sv[s]
  BY DEF Serving
<1> QED BY <1>1, <1>2, <1>3, EncServes, SMTT(30), ZenonT(60)

Sends(n, x, nt, qy, nt2, qy2) ==
  /\ nt2[n] = nt[n] /\ nt2[Peer(n)] = Append(nt[Peer(n)], x)
  /\ qy2[n] = Append(qy[n], x) /\ qy2[Peer(n)] = qy[Peer(n)]

Merges(n, x, m, bs, bs2) ==
  /\ Only(bs, bs2, n, "enc") /\ bs2[n]["enc"] = m.buf
  /\ \E off : Draws(bs[n]["enc"], m, off, Total(x))

(* enc_keys serves a request.                                              *)
LEMMA EncServesKeeps ==
  ASSUME NEW st, NEW qb, NEW bs, NEW nt, NEW qy, NEW sv, NEW fd,
         Invariant(st, qb, bs, nt, qy, sv, fd), NEW n \in Node,
         NEW x, NEW m, NEW sv2, Serving(x, m, sv[n], sv2[n]), sv2[Peer(n)] = sv[Peer(n)],
         NEW bs2, Merges(n, x, m, bs, bs2),
         NEW nt2, NEW qy2, Sends(n, x, nt, qy, nt2, qy2)
  PROVE  Invariant(st, qb, bs2, nt2, qy2, sv2, fd)
<1>a. /\ x \in Messages /\ x.type = "skey" /\ x.size \in Nat \ {0} /\ x.supply \in Seq(SupplyIds)
      /\ m.ids = x.ids /\ m.surplus = x.surplus
      /\ Served(x, m.cells, sv2[n])
      /\ \A s \in SupplyIds : ~Gives(x, s) => sv2[n][s] = sv[n][s]
  BY DEF Serving
<1>b. PICK off : Draws(bs[n]["enc"], m, off, Total(x))
  BY DEF Merges
<1>c. Only(bs, bs2, n, "enc") /\ bs2[n]["enc"] = m.buf
  BY DEF Merges
<1>d. /\ nt2[n] = nt[n] /\ nt2[Peer(n)] = Append(nt[Peer(n)], x)
      /\ qy2[n] = Append(qy[n], x) /\ qy2[Peer(n)] = qy[Peer(n)]
  BY DEF Sends
<1> USE <1>a, <1>b, <1>c, <1>d
<1>1. /\ Listed(nt, qy) /\ Stocked(bs) /\ Banked(st, qb) /\ Claimed(bs, qy)
      /\ Located(st, qb, bs) /\ Filling(bs, nt, qy) /\ Typed(sv, fd)
  BY DEF Invariant
<1>2. /\ nt[n] \in Seq(Messages) /\ nt[Peer(n)] \in Seq(Messages)
      /\ qy[n] \in Seq(Messages) /\ qy[Peer(n)] \in Seq(Messages)
  BY <1>1, ListedUnpair
<1>3. Request(x) /\ x.type # "filled" /\ x.type # "fill"
  BY DEF Request
<1>4. Listed(nt2, qy2)
  BY <1>1, <1>3, ListedSend
<1>5. PICK e, c : e = bs[n]["enc"] /\ c = m.buf /\ bs2[n]["enc"] = c /\ Draws(e, m, off, Total(x))
  OBVIOUS
<1>6. /\ \A k \in KeyIds :
           /\ c.st[k] = "INIT" <=> (e.st[k] = "INIT" \/ k \in x.surplus)
           /\ k \in x.surplus => e.st[k] = "READY"
           /\ e.st[k] = "NONE" => c.st[k] = "NONE"
           /\ e.st[k] = "INIT" => c.lo[k] = e.lo[k] /\ c.hi[k] = e.hi[k]
      /\ c.supply = e.supply
  <2>1.  /\ \A k \in KeyIds :
              /\ m.buf.st[k] = "INIT" <=> (e.st[k] = "INIT" \/ k \in m.surplus)
              /\ k \in m.surplus => e.st[k] = "READY"
              /\ e.st[k] = "NONE" => m.buf.st[k] = "NONE"
              /\ e.st[k] = "INIT" => /\ m.buf.lo[k] = e.lo[k] /\ m.buf.hi[k] = e.hi[k]
         /\ m.buf.supply = e.supply
    BY <1>5, DrawsStates
  <2>2. m.buf = c /\ m.surplus = x.surplus
    BY <1>5
  <2>3. c.supply = e.supply
    BY <2>1, <2>2
  <2>4. ASSUME NEW k \in KeyIds
        PROVE  /\ c.st[k] = "INIT" <=> (e.st[k] = "INIT" \/ k \in x.surplus)
               /\ k \in x.surplus => e.st[k] = "READY"
               /\ e.st[k] = "NONE" => c.st[k] = "NONE"
               /\ e.st[k] = "INIT" => c.lo[k] = e.lo[k] /\ c.hi[k] = e.hi[k]
    <3>1. /\ m.buf.st[k] = "INIT" <=> (e.st[k] = "INIT" \/ k \in m.surplus)
          /\ k \in m.surplus => e.st[k] = "READY"
          /\ e.st[k] = "NONE" => m.buf.st[k] = "NONE"
          /\ e.st[k] = "INIT" => /\ m.buf.lo[k] = e.lo[k] /\ m.buf.hi[k] = e.hi[k]
      BY <2>1
    <3> QED BY <2>2, <3>1
  <2> QED BY <2>3, <2>4
<1>7. \A o \in Node, b \in Dir : o # n \/ b # "enc" => bs2[o][b] = bs[o][b]
  BY DEF Only
<1>8. Kept(e)
  BY <1>1, <1>5 DEF Stocked
<1>9. Stocked(bs2)
  <2>1. Cuts(e, m.ids, m.surplus, off, Total(x)) /\ Drains(e, m.buf, m.ids, m.surplus, off, "INIT")
    BY <1>5 DEF Draws
  <2>2. Kept(m.buf)
    BY <1>8, <2>1, DrainsKept
  <2>3. Kept(bs2[n]["enc"]) /\ "enc" \in Dir /\ bs2[n]["enc"].supply = bs[n]["enc"].supply
    BY <1>5, <1>6, <2>2, Peers
  <2> QED BY <1>1, <2>3, StockedOne
<1>10. Claimed(bs2, qy2)
  <2>1. ASSUME NEW d \in Dir, NEW k \in KeyIds
        PROVE  /\ bs2[Peer(n)][d].st[k] = "INIT" <=> bs[Peer(n)][d].st[k] = "INIT"
               /\ bs2[n][d].st[k] = "INIT" <=> (bs[n][d].st[k] = "INIT" \/ k \in Claims(x, d))
               /\ k \in Claims(x, d) => bs[n][d].st[k] # "INIT"
    <3>1. bs2[Peer(n)][d] = bs[Peer(n)][d]
      BY <1>7, Peers
    <3>2. Claims(x, d) = IF d = "enc" THEN x.surplus ELSE {}
      BY DEF Claims
    <3>3. CASE d = "enc"
      BY <1>5, <1>6, <3>1, <3>2, <3>3
    <3>4. CASE d # "enc"
      BY <1>7, <3>1, <3>2, <3>4
    <3> QED BY <3>3, <3>4
  <2> QED BY <1>1, <2>1, ClaimedAsk
<1>11. Located(st, qb, bs2)
  <2>1. ASSUME NEW o \in Node, NEW b \in Dir, NEW k \in KeyIds, bs[o][b].st[k] = "NONE"
        PROVE  bs2[o][b].st[k] = "NONE"
    <3>1. CASE o = n /\ b = "enc"
      BY <1>5, <1>6, <2>1, <3>1
    <3>2. CASE o # n \/ b # "enc"
      BY <1>7, <2>1, <3>2
    <3> QED BY <3>1, <3>2
  <2> QED BY <1>1, <2>1, LocatedShrinks
<1>12. Filling(bs2, nt2, qy2)
  <2>1. ASSUME NEW i \in 1 .. Len(qy2["A"]), qy2["A"][i].type = "fill"
        PROVE  \E j \in 1 .. Len(qy["A"]) : qy["A"][j] = qy2["A"][i]
    <3>1. CASE n = "A"
      <4>1. /\ \A j \in 1 .. Len(qy[n]) : Append(qy[n], x)[j] = qy[n][j]
            /\ Append(qy[n], x)[Len(qy[n]) + 1] = x
            /\ Len(Append(qy[n], x)) = Len(qy[n]) + 1
            /\ \A j \in 1 .. Len(qy[n]) + 1 : j \in 1 .. Len(qy[n]) \/ j = Len(qy[n]) + 1
        BY <1>2, AppendFacts
      <4> QED BY <1>3, <2>1, <3>1, <4>1
    <3>2. CASE n = "B"
      BY <3>2, Peers
    <3> QED BY <3>1, <3>2 DEF Node
  <2>2. \A k \in KeyIds : Accepts(nt2["A"], k) <=> Accepts(nt["A"], k)
    <3>1. CASE n = "A"
      BY <3>1
    <3>2. CASE n = "B"
      <4>1. \A k : Accepts(Append(nt[Peer(n)], x), k) <=> Accepts(nt[Peer(n)], k)
        BY <1>2, <1>3, AppendAccepts
      <4>2. nt2["A"] = Append(nt[Peer(n)], x) /\ nt["A"] = nt[Peer(n)]
        BY <3>2, Peers
      <4> QED BY <4>1, <4>2
    <3> QED BY <3>1, <3>2 DEF Node
  <2>3. \A b \in Dir, k \in KeyIds : bs["A"][b].st[k] = "INIT" =>
          bs2["A"][b].lo[k] = bs["A"][b].lo[k] /\ bs2["A"][b].hi[k] = bs["A"][b].hi[k]
    <3>1. ASSUME NEW b \in Dir, NEW k \in KeyIds, bs["A"][b].st[k] = "INIT"
          PROVE  bs2["A"][b].lo[k] = bs["A"][b].lo[k] /\ bs2["A"][b].hi[k] = bs["A"][b].hi[k]
      <4>1. CASE n = "A" /\ b = "enc"
        BY <1>5, <1>6, <3>1, <4>1
      <4>2. CASE n # "A" \/ b # "enc"
        BY <1>7, <4>2, Peers
      <4> QED BY <4>1, <4>2
    <3> QED BY <3>1
  <2>4. \A k \in KeyIds : Absent(bs, "B", k) => Absent(bs2, "B", k)
    <3>1. ASSUME NEW b \in Dir, NEW k \in KeyIds, bs["B"][b].st[k] = "NONE"
          PROVE  bs2["B"][b].st[k] = "NONE"
      <4>1. CASE n = "B" /\ b = "enc"
        BY <1>5, <1>6, <3>1, <4>1
      <4>2. CASE n # "B" \/ b # "enc"
        BY <1>7, <3>1, <4>2, Peers
      <4> QED BY <4>1, <4>2
    <3> QED BY <3>1, Peers DEF Absent
  <2>5. ASSUME NEW k \in KeyIds, Accepts(nt["A"], k), bs2["A"]["enc"].st[k] = "INIT"
        PROVE  /\ bs["A"]["enc"].st[k] = "INIT"
               /\ bs["B"]["dec"].st[k] = "READY" =>
                    /\ bs2["B"]["dec"].st[k] = "READY"
                    /\ bs2["B"]["dec"].lo[k] = bs["B"]["dec"].lo[k]
                    /\ bs2["B"]["dec"].hi[k] = bs["B"]["dec"].hi[k]
    <3>1. bs2["B"]["dec"] = bs["B"]["dec"]
      BY <1>7, Peers
    <3>2. CASE n = "A"
      <4>1. e = bs["A"]["enc"] /\ c = bs2["A"]["enc"]
        BY <1>5, <3>2
      <4>2. k \notin x.surplus
        <5>1. SUFFICES ASSUME k \in x.surplus PROVE FALSE
          OBVIOUS
        <5>2. bs["A"]["enc"].st[k] = "READY"
          BY <1>6, <4>1, <5>1
        <5>4. PICK i \in 1 .. Len(nt["A"]) : AcceptedAt(nt["A"], i, k)
          BY <2>5 DEF Accepts
        <5>5. \E j2 \in 1 .. Len(qy["A"]), d2 \in Dir : AcceptedBy(bs, nt, qy, i, k, j2, d2)
          BY <5>4, AcceptedClaim
        <5>6. PICK b \in Dir : bs["A"][b].st[k] = "INIT" /\ bs["A"][Other(b)].st[k] = "NONE"
          BY <5>5 DEF AcceptedBy
        <5> QED BY <5>2, <5>6, Peers
      <4> QED BY <1>6, <2>5, <3>1, <4>1, <4>2
    <3>3. CASE n = "B"
      <4>1. bs2["A"]["enc"] = bs["A"]["enc"]
        BY <1>7, <3>3, Peers
      <4> QED BY <2>5, <3>1, <4>1
    <3> QED BY <3>2, <3>3 DEF Node
  <2> QED BY <1>1, <2>1, <2>2, <2>3, <2>4, <2>5, FillingKeeps
<1>13. Typed(sv2, fd)
  <2>1. Sound(e) /\ Cuts(e, m.ids, m.surplus, off, Total(x)) /\ Fills(e, m.ids, off, m.cells, Total(x))
    BY <1>5, <1>8 DEF Draws, Kept
  <2>2. \A j \in 1 .. Total(x) : m.cells[j] \in Cell
    BY <2>1, UnitsCells
  <2>3. \A j \in 1 .. Len(x.supply) * x.size : m.cells[j] \in Cell
    BY <2>2 DEF Total
  <2>4. Len(x.supply) \in Nat
    OBVIOUS
  <2>5. \A i \in 1 .. Len(x.supply) : Piece(m.cells, x.size, i) \in SUBSET Cell
    BY <2>3, <2>4, PieceCells
  <2>6. \A i \in 1 .. Len(x.supply) : sv2[n][x.supply[i]] \in SUBSET Cell
    BY <2>5 DEF Served
  <2>7. \A s \in SupplyIds : sv2[n][s] \in SUBSET Cell
    <3>1. ASSUME NEW s \in SupplyIds PROVE sv2[n][s] \in SUBSET Cell
      <4>1. CASE Gives(x, s)
        BY <2>6, <4>1 DEF Gives
      <4>2. CASE ~Gives(x, s)
        BY <1>1, <4>2 DEF Typed
      <4> QED BY <4>1, <4>2
    <3> QED BY <3>1
  <2>8. ASSUME NEW o \in Node, NEW s \in SupplyIds
        PROVE  sv2[o][s] \in SUBSET Cell /\ fd[o][s] \in SUBSET Cell
    <3>1. CASE o = n
      BY <1>1, <2>7, <3>1 DEF Typed
    <3>2. CASE o = Peer(n)
      BY <1>1, <3>2 DEF Typed
    <3> QED BY <3>1, <3>2, Peers
  <2> QED BY <2>8 DEF Typed
<1>14. Direction(bs2[n]["enc"], bs2[Peer(n)]["dec"], nt2[Peer(n)], qy2[n], sv2[n], fd[Peer(n)])
  <2>1. Direction(e, bs[Peer(n)]["dec"], nt[Peer(n)], qy[n], sv[n], fd[Peer(n)])
    BY <1>5 DEF Invariant
  <2>2. \A i \in 1 .. Len(qy[n]) : qy[n][i].type = "skey" =>
          \A k \in qy[n][i].surplus : e.st[k] = "INIT"
    <3>1. \A i \in 1 .. Len(qy[n]) : qy[n][i].type = "skey" =>
            \A k \in qy[n][i].surplus : k \in KeyIds /\ bs[n]["enc"].st[k] = "INIT"
      BY <1>1, QueriesSurplus
    <3> QED BY <1>5, <3>1
  <2>3. Direction(m.buf, bs[Peer(n)]["dec"], Append(nt[Peer(n)], x), Append(qy[n], x), sv2[n], fd[Peer(n)])
    <3>0. PICK d, f, v, v2 : d = bs[Peer(n)]["dec"] /\ f = fd[Peer(n)] /\ v = sv[n] /\ v2 = sv2[n]
      OBVIOUS
    <3>1. PICK out \in Seq(Messages), qs \in Seq(Messages) : out = nt[Peer(n)] /\ qs = qy[n]
      BY <1>2
    <3>2. /\ Direction(e, d, out, qs, v, f) /\ Kept(e)
          /\ \A i \in 1 .. Len(qs) : qs[i].type = "skey" => \A k \in qs[i].surplus : e.st[k] = "INIT"
          /\ Draws(e, m, off, Total(x))
      BY <1>5, <1>8, <2>1, <2>2, <3>0, <3>1
    <3>4. Serving(x, m, v, v2)
      BY <3>0 DEF Serving
    <3>3. Direction(m.buf, d, Append(out, x), Append(qs, x), v2, f)
      BY <3>2, <3>4, ServesBy
    <3> QED BY <3>0, <3>1, <3>3
  <2>4. bs2[Peer(n)]["dec"] = bs[Peer(n)]["dec"] /\ bs2[n]["enc"] = m.buf
    BY <1>7, Peers
  <2> QED BY <2>3, <2>4
<1>15. Direction(bs2[Peer(n)]["enc"], bs2[n]["dec"], nt2[n], qy2[Peer(n)], sv2[Peer(n)], fd[n])
  <2>1. Direction(bs[Peer(n)]["enc"], bs[n]["dec"], nt[n], qy[Peer(n)], sv[Peer(n)], fd[n])
    BY Peers DEF Invariant
  <2>2. bs2[Peer(n)]["enc"] = bs[Peer(n)]["enc"] /\ bs2[n]["dec"] = bs[n]["dec"]
    BY <1>7, Peers
  <2> QED BY <2>1, <2>2
<1> QED BY <1>1, <1>4, <1>9, <1>10, <1>11, <1>12, <1>13, <1>14, <1>15, DirectionPair DEF Invariant

-----------------------------------------------------------------------------
(* Spent material.  A key is free when a FILL may still bring it into an   *)
(* "enc" buffer: it is not stored yet at the master, is in its QBuffer, or *)
(* is reserved for a FILL that the peer has not accepted.                  *)
Open(nt, qy, k) ==
  \E j \in 1 .. Len(qy["A"]) : qy["A"][j].type = "fill" /\ k \in qy["A"][j].keys /\ ~Accepts(nt["A"], k)

Free(st, qb, nt, qy, k) == k \notin st["A"] \/ k \in qb["A"].keys \/ Open(nt, qy, k)

(* A served unit is of a key that is not free, lies below what is left of  *)
(* it where it was served, and cannot be served at the peer.               *)
Below(e, f, k, i) == (e.st[k] # "NONE" => i <= e.lo[k]) /\ f.st[k] = "NONE"

Out(sv, n, k, i) == \E s \in SupplyIds : <<k, i>> \in sv[n][s]

Spent(st, qb, bs, nt, qy, sv) ==
  \A n \in Node, k \in KeyIds, i \in Nat : Out(sv, n, k, i) =>
    ~Free(st, qb, nt, qy, k) /\ Below(bs[n]["enc"], bs[Peer(n)]["enc"], k, i)

(* No unit is served twice: the property ServedOnce.                       *)
Distinct(sv) ==
  \A m, n \in Node, s, t \in SupplyIds :
    <<m, s>> # <<n, t>> => sv[m][s] \cap sv[n][t] = {}

(* What an "enc" buffer holds it has held before, if it is not of a free   *)
(* key, and its units are only taken from below.                           *)
Grows(e, e2, st, qb, nt, qy) ==
  \A k \in KeyIds : e2.st[k] # "NONE" =>
    Free(st, qb, nt, qy, k) \/ (e.st[k] # "NONE" /\ e.lo[k] \in Nat /\ e2.lo[k] \in Nat /\ e.lo[k] <= e2.lo[k])

(* A step that serves nothing keeps what is spent, if no key gets free.    *)
LEMMA SpentSame ==
  ASSUME NEW st, NEW qb, NEW bs, NEW nt, NEW qy, NEW sv, Spent(st, qb, bs, nt, qy, sv),
         NEW st2, NEW qb2, NEW bs2, NEW nt2, NEW qy2,
         \A k \in KeyIds : Free(st2, qb2, nt2, qy2, k) => Free(st, qb, nt, qy, k),
         \A n \in Node : Grows(bs[n]["enc"], bs2[n]["enc"], st, qb, nt, qy)
  PROVE  Spent(st2, qb2, bs2, nt2, qy2, sv)
<1>1. SUFFICES ASSUME NEW n \in Node, NEW k \in KeyIds, NEW i \in Nat, Out(sv, n, k, i)
               PROVE  ~Free(st2, qb2, nt2, qy2, k) /\ Below(bs2[n]["enc"], bs2[Peer(n)]["enc"], k, i)
  BY DEF Spent
<1>2. ~Free(st, qb, nt, qy, k) /\ Below(bs[n]["enc"], bs[Peer(n)]["enc"], k, i)
  BY <1>1 DEF Spent
<1>3. ~Free(st2, qb2, nt2, qy2, k)
  BY <1>2
<1>4. Grows(bs[n]["enc"], bs2[n]["enc"], st, qb, nt, qy)
      /\ Grows(bs[Peer(n)]["enc"], bs2[Peer(n)]["enc"], st, qb, nt, qy)
  BY Peers
<1>5. bs2[n]["enc"].st[k] # "NONE" => i <= bs2[n]["enc"].lo[k]
  BY <1>2, <1>4 DEF Grows, Below
<1>6. bs2[Peer(n)]["enc"].st[k] = "NONE"
  BY <1>2, <1>4 DEF Grows, Below
<1> QED BY <1>3, <1>5, <1>6 DEF Below

(* Where the buffer is not "enc", or is left alone.                        *)
LEMMA GrowsSame ==
  ASSUME NEW e, Kept(e), NEW st, NEW qb, NEW nt, NEW qy
  PROVE  Grows(e, e, st, qb, nt, qy)
BY SoundMaps DEF Grows, Kept, Sound, Shaped, Buffer

(* Whole keys come, all of them free, or go.                               *)
LEMMA GrowsSets ==
  ASSUME NEW e, Kept(e), NEW st, NEW qb, NEW nt, NEW qy, NEW ks, NEW c, NEW s, NEW l, NEW h,
         Sets(e, c, ks, s, l, h), s # "NONE" => \A k \in ks : Free(st, qb, nt, qy, k)
  PROVE  Grows(e, c, st, qb, nt, qy)
<1>1. SUFFICES ASSUME NEW k \in KeyIds, c.st[k] # "NONE", k \notin ks
               PROVE  e.st[k] # "NONE" /\ e.lo[k] \in Nat /\ c.lo[k] \in Nat /\ e.lo[k] <= c.lo[k]
  BY DEF Grows, Sets
<1>2. c.lo[k] = e.lo[k] /\ c.st[k] = e.st[k]
  BY <1>1 DEF Sets
<1>3. e.lo[k] \in Nat
  BY DEF Kept, Sound, Shaped, Buffer
<1> QED BY <1>1, <1>2, <1>3

(* Keys are settled.                                                       *)
LEMMA GrowsSettles ==
  ASSUME NEW e, Kept(e), NEW st, NEW qb, NEW nt, NEW qy, NEW ks, NEW acc, NEW c,
         SettlesAll(e, c, ks, acc), acc \subseteq ks, \A k \in ks : e.st[k] # "NONE"
  PROVE  Grows(e, c, st, qb, nt, qy)
<1>1. SUFFICES ASSUME NEW k \in KeyIds, c.st[k] # "NONE"
               PROVE  e.st[k] # "NONE" /\ e.lo[k] \in Nat /\ c.lo[k] \in Nat /\ e.lo[k] <= c.lo[k]
  BY DEF Grows
<1>2. k \in acc \/ k \notin ks
  BY <1>1 DEF SettlesAll
<1>3. c.lo[k] = e.lo[k] /\ e.st[k] # "NONE"
  BY <1>1, <1>2 DEF SettlesAll
<1>4. e.lo[k] \in Nat
  BY DEF Kept, Sound, Shaped, Buffer
<1> QED BY <1>3, <1>4

(* Keys are marked READY.                                                  *)
LEMMA GrowsMarks ==
  ASSUME NEW e, Kept(e), NEW st, NEW qb, NEW nt, NEW qy, NEW ks, NEW c,
         Marks(e, c, ks, "READY"), \A k \in ks : e.st[k] # "NONE"
  PROVE  Grows(e, c, st, qb, nt, qy)
<1>1. SUFFICES ASSUME NEW k \in KeyIds, c.st[k] # "NONE"
               PROVE  e.st[k] # "NONE" /\ e.lo[k] \in Nat /\ c.lo[k] \in Nat /\ e.lo[k] <= c.lo[k]
  BY DEF Grows
<1>2. c.lo[k] = e.lo[k] /\ e.st[k] # "NONE"
  BY <1>1 DEF Marks
<1>3. e.lo[k] \in Nat
  BY DEF Kept, Sound, Shaped, Buffer
<1> QED BY <1>2, <1>3

-----------------------------------------------------------------------------
(* What enc_keys serves has not been served.                               *)

(* A key that may be served is not free, and is not served at the peer.    *)
LEMMA ReadySpent ==
  ASSUME NEW st, NEW qb, NEW bs, NEW nt, NEW qy, NEW sv, NEW fd,
         Invariant(st, qb, bs, nt, qy, sv, fd),
         NEW n \in Node, NEW k \in KeyIds, bs[n]["enc"].st[k] = "READY"
  PROVE  ~Free(st, qb, nt, qy, k) /\ bs[Peer(n)]["enc"].st[k] = "NONE"
<1>1. Located(st, qb, bs) /\ Claimed(bs, qy) /\ Filling(bs, nt, qy) /\ Listed(nt, qy)
  BY DEF Invariant
<1>2. Direction(bs[n]["enc"], bs[Peer(n)]["dec"], nt[Peer(n)], qy[n], sv[n], fd[Peer(n)])
  BY DEF Invariant
<1>3. bs[Peer(n)]["dec"].st[k] # "NONE"
  BY <1>2 DEF Direction, Mirrored
<1>4. Peer(n) \in Node /\ (n = "A" \/ n = "B") /\ Peer("A") = "B" /\ Peer("B") = "A"
  BY Peers DEF Node
<1>5. bs[Peer(n)]["enc"].st[k] = "NONE"
  BY <1>1, <1>3, <1>4 DEF Located
<1>6. ~(k \in qb["A"].keys \/ k \notin st["A"])
  BY <1>1, <1>4 DEF Located, Absent
<1>7. ASSUME NEW j \in 1 .. Len(qy["A"]), qy["A"][j].type = "fill", k \in qy["A"][j].keys
      PROVE  Accepts(nt["A"], k)
  <2>1. Absent(bs, "B", k) \/ \E i \in 1 .. Len(nt["A"]) : AcceptedAt(nt["A"], i, k)
    BY <1>1, <1>7 DEF Filling
  <2>2. CASE Absent(bs, "B", k)
    BY <1>3, <1>4, <2>2 DEF Absent
  <2> QED BY <2>1, <2>2 DEF Accepts
<1> QED BY <1>5, <1>6, <1>7 DEF Free, Open

(* What is left in the buffer was there.                                   *)
LEMMA GrowsDraws ==
  ASSUME NEW e, Kept(e), NEW st, NEW qb, NEW nt, NEW qy,
         NEW m, NEW off, NEW n, Draws(e, m, off, n)
  PROVE  Grows(e, m.buf, st, qb, nt, qy)
<1>1. /\ Cuts(e, m.ids, m.surplus, off, n) /\ Sound(e) /\ Sound(m.buf)
      /\ Drains(e, m.buf, m.ids, m.surplus, off, "INIT")
  BY DEF Draws, Kept, Drains
<1>2. SUFFICES ASSUME NEW k \in KeyIds, m.buf.st[k] # "NONE"
               PROVE  e.st[k] # "NONE" /\ e.lo[k] \in Nat /\ m.buf.lo[k] \in Nat /\ e.lo[k] <= m.buf.lo[k]
  BY DEF Grows
<1>3. e.lo[k] \in Nat /\ m.buf.lo[k] \in Nat
  BY <1>1, KeyFacts DEF Sound
<1>4. e.st[k] # "NONE"
  BY <1>2, DrawsStates
<1>5. CASE \A a \in 1 .. Len(m.ids) : m.ids[a] # k
  <2>1. m.buf.lo[k] = e.lo[k]
    BY <1>1, <1>5 DEF Drains
  <2> QED BY <1>3, <1>4, <2>1
<1>6. CASE \E a \in 1 .. Len(m.ids) : m.ids[a] = k
  <2>1. PICK a \in 1 .. Len(m.ids) : m.ids[a] = k
    BY <1>6
  <2>2. PICK w \in Nat : w = off[a] - off[a - 1]
    BY <1>1, CutsFacts
  <2>3. m.buf.lo[k] = e.lo[k] + w
    BY <1>1, <1>2, <2>1, <2>2 DEF Drains
  <2> QED BY <1>3, <1>4, <2>3
<1> QED BY <1>5, <1>6

(* The pieces given to two identifiers have no unit in common.             *)
LEMMA PiecesApart ==
  ASSUME NEW number \in Nat, NEW size \in Nat \ {0}, NEW cells,
         \A j, h \in 1 .. number * size : cells[j] = cells[h] => j = h,
         NEW a \in 1 .. number, NEW b \in 1 .. number, a # b
  PROVE  Piece(cells, size, a) \cap Piece(cells, size, b) = {}
<1>1. ASSUME NEW c \in 1 .. number, NEW d \in 1 .. number, c < d,
             NEW j \in (c - 1) * size + 1 .. c * size, NEW h \in (d - 1) * size + 1 .. d * size
      PROVE  cells[j] # cells[h]
  <2>1. j \in 1 .. number * size /\ h \in 1 .. number * size
    BY <1>1, PieceBounds
  <2>2. PICK p \in Nat : p = d - 1 /\ c \in 1 .. p
    BY <1>1
  <2>3. j \in 1 .. p * size
    BY <1>1, <2>2, PieceBounds
  <2>4. PICK z \in Int : z = p * size
    BY <2>2
  <2>5. h \in z + 1 .. d * size /\ j \in 1 .. z
    BY <1>1, <2>2, <2>3, <2>4
  <2>6. j # h
    BY <2>4, <2>5
  <2> QED BY <2>1, <2>6
<1>2. a < b \/ b < a
  OBVIOUS
<1> QED BY <1>1, <1>2 DEF Piece

(* Sending a request to make a cut frees no key.                           *)
LEMMA FreeSent ==
  ASSUME NEW st, NEW qb, NEW nt, NEW qy, Listed(nt, qy), NEW n \in Node, NEW x \in Messages, x.type = "skey",
         NEW nt2, NEW qy2, Sends(n, x, nt, qy, nt2, qy2),
         NEW k, Free(st, qb, nt2, qy2, k)
  PROVE  Free(st, qb, nt, qy, k)
<1>1. /\ nt2[n] = nt[n] /\ nt2[Peer(n)] = Append(nt[Peer(n)], x)
      /\ qy2[n] = Append(qy[n], x) /\ qy2[Peer(n)] = qy[Peer(n)]
  BY DEF Sends
<1>2. nt[Peer(n)] \in Seq(Messages) /\ qy[n] \in Seq(Messages)
  BY Peers DEF Listed
<1>3. SUFFICES ASSUME Open(nt2, qy2, k) PROVE Open(nt, qy, k)
  BY DEF Free
<1>4. PICK j \in 1 .. Len(qy2["A"]) : /\ qy2["A"][j].type = "fill" /\ k \in qy2["A"][j].keys
                                      /\ ~Accepts(nt2["A"], k)
  BY <1>3 DEF Open
<1>5. x.type # "filled"
  OBVIOUS
<1>6. \A c : Accepts(Append(nt[Peer(n)], x), c) <=> Accepts(nt[Peer(n)], c)
  BY <1>2, <1>5, AppendAccepts
<1>7. ~Accepts(nt["A"], k)
  BY <1>1, <1>4, <1>6, Peers DEF Node
<1>8. CASE n = "A"
  <2>1. /\ \A i \in 1 .. Len(qy[n]) : Append(qy[n], x)[i] = qy[n][i]
        /\ Append(qy[n], x)[Len(qy[n]) + 1] = x
        /\ \A i \in 1 .. Len(Append(qy[n], x)) : i \in 1 .. Len(qy[n]) \/ i = Len(qy[n]) + 1
    BY <1>2, AppendFacts
  <2>2. PICK o, p : o = qy["A"] /\ p = Append(o, x)
    OBVIOUS
  <2>3. qy2["A"] = p
    BY <1>1, <1>8, <2>2
  <2>4. j \in 1 .. Len(p) /\ p[j].type = "fill" /\ k \in p[j].keys
    BY <1>4, <2>3
  <2>5. (j \in 1 .. Len(o) \/ j = Len(o) + 1) /\ p[Len(o) + 1] = x
        /\ \A i \in 1 .. Len(o) : p[i] = o[i]
    BY <1>8, <2>1, <2>2, <2>4
  <2>6. j \in 1 .. Len(o) /\ o[j].type = "fill" /\ k \in o[j].keys
    BY <2>4, <2>5
  <2> QED BY <1>7, <2>2, <2>6 DEF Open
<1>9. CASE n = "B"
  <2>1. qy2["A"] = qy["A"]
    BY <1>1, <1>9, Peers
  <2> QED BY <1>4, <1>7, <2>1 DEF Open
<1> QED BY <1>8, <1>9 DEF Node

(* The unit j of the merge m has not been served and is below what is left.*)
NewUnit(n, st, qb, bs, nt, qy, sv, m, j) ==
  \E k \in KeyIds, i \in Nat :
    /\ m.cells[j] = <<k, i>> /\ ~Free(st, qb, nt, qy, k)
    /\ Below(m.buf, bs[Peer(n)]["enc"], k, i)
    /\ \A o \in Node : ~Out(sv, o, k, i)

(* What enc_keys serves was not served before, and is below what it leaves.*)
LEMMA ServedFresh ==
  ASSUME NEW st, NEW qb, NEW bs, NEW nt, NEW qy, NEW sv, NEW fd,
         Invariant(st, qb, bs, nt, qy, sv, fd), Spent(st, qb, bs, nt, qy, sv),
         NEW n \in Node, NEW x, NEW m, NEW off, Draws(bs[n]["enc"], m, off, Total(x)),
         NEW j \in 1 .. Total(x)
  PROVE  NewUnit(n, st, qb, bs, nt, qy, sv, m, j)
<1>1. PICK e, t : e = bs[n]["enc"] /\ t = Total(x)
  OBVIOUS
<1>2. Kept(e) /\ Draws(e, m, off, t) /\ j \in 1 .. t
  BY <1>1 DEF Invariant, Stocked
<1>3. PICK k \in KeyIds, i \in Nat :
           /\ m.cells[j] = <<k, i>> /\ e.st[k] = "READY" /\ e.lo[k] < i /\ e.lo[k] \in Nat
           /\ m.buf.st[k] # "NONE" => i <= m.buf.lo[k]
  BY <1>2, UnitsBelow
<1>4. bs[n]["enc"].st[k] = "READY"
  BY <1>1, <1>3
<1>5. ~Free(st, qb, nt, qy, k) /\ bs[Peer(n)]["enc"].st[k] = "NONE"
  BY <1>4, ReadySpent
<1>6. Below(m.buf, bs[Peer(n)]["enc"], k, i)
  BY <1>3, <1>5 DEF Below
<1>7. ASSUME NEW o \in Node, Out(sv, o, k, i)
      PROVE  FALSE
  <2>1. Below(bs[o]["enc"], bs[Peer(o)]["enc"], k, i)
    BY <1>7 DEF Spent
  <2>2. CASE o = n
    <3>1. i <= e.lo[k]
      BY <1>1, <1>3, <2>1, <2>2 DEF Below
    <3> QED BY <1>3, <3>1
  <2>3. CASE o = Peer(n)
    <3>1. Peer(o) = n
      BY <2>3, Peers
    <3>2. bs[n]["enc"].st[k] = "NONE"
      BY <2>1, <3>1 DEF Below
    <3> QED BY <1>4, <3>2
  <2> QED BY <2>2, <2>3, Peers
<1> QED BY <1>3, <1>5, <1>6, <1>7 DEF NewUnit

(* A unit given under an identifier of the request is one of those merged. *)
LEMMA GivenUnit ==
  ASSUME NEW x, x.size \in Nat \ {0}, Len(x.supply) \in Nat, NEW cells, NEW v, Served(x, cells, v),
         NEW s, Gives(x, s), NEW z \in v[s]
  PROVE  \E j \in 1 .. Total(x) : z = cells[j]
<1>1. PICK a \in 1 .. Len(x.supply) : x.supply[a] = s
  BY DEF Gives
<1>2. z \in Piece(cells, x.size, a)
  BY <1>1 DEF Served
<1>3. PICK j \in (a - 1) * x.size + 1 .. a * x.size : z = cells[j]
  BY <1>2 DEF Piece
<1>4. j \in 1 .. Len(x.supply) * x.size
  BY <1>3, PieceBounds
<1> QED BY <1>3, <1>4 DEF Total

(* Node n has served the merge m for its request x.                        *)
Gave(n, x, m, sv, sv2) == Serving(x, m, sv[n], sv2[n]) /\ sv2[Peer(n)] = sv[Peer(n)]

(* enc_keys keeps what is spent.                                           *)
LEMMA ServeSpends ==
  ASSUME NEW st, NEW qb, NEW bs, NEW nt, NEW qy, NEW sv, NEW fd,
         Invariant(st, qb, bs, nt, qy, sv, fd), Spent(st, qb, bs, nt, qy, sv), NEW n \in Node,
         NEW x, NEW m, NEW sv2, Gave(n, x, m, sv, sv2),
         NEW bs2, Merges(n, x, m, bs, bs2),
         NEW nt2, NEW qy2, Sends(n, x, nt, qy, nt2, qy2)
  PROVE  Spent(st, qb, bs2, nt2, qy2, sv2)
<1>1. PICK off : Draws(bs[n]["enc"], m, off, Total(x))
  BY DEF Merges
<1>2. /\ x \in Messages /\ x.type = "skey" /\ x.size \in Nat \ {0} /\ x.supply \in Seq(SupplyIds)
      /\ Served(x, m.cells, sv2[n]) /\ \A s \in SupplyIds : ~Gives(x, s) => sv2[n][s] = sv[n][s]
      /\ sv2[Peer(n)] = sv[Peer(n)]
  BY DEF Serving, Gave
<1>3. Listed(nt, qy) /\ Stocked(bs)
  BY DEF Invariant
<1>4. \A k : Free(st, qb, nt2, qy2, k) => Free(st, qb, nt, qy, k)
  BY <1>2, <1>3, FreeSent
<1>5. bs2[n]["enc"] = m.buf /\ bs2[Peer(n)]["enc"] = bs[Peer(n)]["enc"]
  BY Peers DEF Merges, Only
<1>6. ASSUME NEW o \in Node
      PROVE  Grows(bs[o]["enc"], bs2[o]["enc"], st, qb, nt, qy)
  <2>1. Kept(bs[o]["enc"])
    BY <1>3 DEF Stocked
  <2>2. CASE o = n
    <3>1. PICK e, t : e = bs[n]["enc"] /\ t = Total(x)
      OBVIOUS
    <3>2. Kept(e) /\ Draws(e, m, off, t)
      BY <1>1, <2>1, <2>2, <3>1
    <3>3. Grows(e, m.buf, st, qb, nt, qy)
      BY <3>2, GrowsDraws
    <3> QED BY <1>5, <2>2, <3>1, <3>3
  <2>3. CASE o = Peer(n)
    BY <1>5, <2>1, <2>3, GrowsSame
  <2> QED BY <2>2, <2>3, Peers
<1>7. Spent(st, qb, bs2, nt2, qy2, sv)
  BY <1>4, <1>6, SpentSame
<1>8. SUFFICES ASSUME NEW o \in Node, NEW k \in KeyIds, NEW i \in Nat, Out(sv2, o, k, i)
               PROVE  ~Free(st, qb, nt2, qy2, k) /\ Below(bs2[o]["enc"], bs2[Peer(o)]["enc"], k, i)
  BY DEF Spent
<1>9. CASE Out(sv, o, k, i)
  BY <1>7, <1>9 DEF Spent
<1>10. CASE ~Out(sv, o, k, i)
  <2>1. PICK s \in SupplyIds : <<k, i>> \in sv2[o][s]
    BY <1>8 DEF Out
  <2>2. o = n /\ Gives(x, s)
    <3>1. sv2[o][s] # sv[o][s]
      BY <1>10, <2>1 DEF Out
    <3> QED BY <1>2, <3>1, Peers
  <2>3. PICK z : z = <<k, i>> /\ z \in sv2[n][s]
    BY <2>1, <2>2
  <2>4. PICK j \in 1 .. Total(x) : z = m.cells[j]
    <3>1. Len(x.supply) \in Nat
      BY <1>2
    <3> QED BY <1>2, <2>2, <2>3, <3>1, GivenUnit
  <2>5. PICK k2 \in KeyIds, i2 \in Nat :
           /\ m.cells[j] = <<k2, i2>> /\ ~Free(st, qb, nt, qy, k2)
           /\ Below(m.buf, bs[Peer(n)]["enc"], k2, i2)
           /\ \A p \in Node : ~Out(sv, p, k2, i2)
    <3>1. j \in 1 .. Total(x)
      BY <2>4
    <3>2. NewUnit(n, st, qb, bs, nt, qy, sv, m, j)
      BY <1>1, <3>1, ServedFresh
    <3> QED BY <3>2 DEF NewUnit
  <2>6. k2 = k /\ i2 = i
    BY <2>3, <2>4, <2>5
  <2>7. ~Free(st, qb, nt2, qy2, k)
    BY <1>4, <2>5, <2>6
  <2> QED BY <1>5, <2>2, <2>5, <2>6, <2>7
<1> QED BY <1>9, <1>10

(* It serves nothing twice.                                                *)
LEMMA ServeDistinct ==
  ASSUME NEW st, NEW qb, NEW bs, NEW nt, NEW qy, NEW sv, NEW fd,
         Invariant(st, qb, bs, nt, qy, sv, fd), Spent(st, qb, bs, nt, qy, sv), Distinct(sv),
         NEW n \in Node,
         NEW x, NEW m, NEW sv2, Gave(n, x, m, sv, sv2),
         NEW off, Draws(bs[n]["enc"], m, off, Total(x))
  PROVE  Distinct(sv2)
<1>1. /\ x \in Messages /\ x.size \in Nat \ {0} /\ x.supply \in Seq(SupplyIds) /\ Len(x.supply) \in Nat
      /\ Served(x, m.cells, sv2[n]) /\ \A s \in SupplyIds : ~Gives(x, s) => sv2[n][s] = sv[n][s]
      /\ sv2[Peer(n)] = sv[Peer(n)]
  BY DEF Serving, Gave
<1> DEFINE New(o, s) == o = n /\ Gives(x, s)
<1>2. ASSUME NEW o \in Node, NEW s \in SupplyIds, ~New(o, s)
      PROVE  sv2[o][s] = sv[o][s]
  BY <1>1, <1>2, Peers
<1>3. ASSUME NEW s \in SupplyIds, Gives(x, s), NEW z \in sv2[n][s],
             NEW p \in Node, NEW t \in SupplyIds, z \in sv[p][t]
      PROVE  FALSE
  <2>1. PICK j \in 1 .. Total(x) : z = m.cells[j]
    BY <1>1, <1>3, GivenUnit
  <2>2. PICK k \in KeyIds, i \in Nat :
           /\ m.cells[j] = <<k, i>> /\ ~Free(st, qb, nt, qy, k)
           /\ Below(m.buf, bs[Peer(n)]["enc"], k, i)
           /\ \A o \in Node : ~Out(sv, o, k, i)
    <3>1. j \in 1 .. Total(x)
      BY <2>1
    <3>2. NewUnit(n, st, qb, bs, nt, qy, sv, m, j)
      BY <3>1, ServedFresh
    <3> QED BY <3>2 DEF NewUnit
  <2>3. Out(sv, p, k, i)
    BY <1>3, <2>1, <2>2 DEF Out
  <2> QED BY <2>2, <2>3
<1>4. \A j, h \in 1 .. Total(x) : m.cells[j] = m.cells[h] => j = h
  <2>1. PICK e, t : e = bs[n]["enc"] /\ t = Total(x)
    OBVIOUS
  <2>2. Sound(e) /\ Draws(e, m, off, t)
    BY <2>1 DEF Invariant, Stocked, Kept
  <2>3. Cuts(e, m.ids, m.surplus, off, t) /\ Fills(e, m.ids, off, m.cells, t)
    BY <2>2 DEF Draws
  <2>4. \A j, h \in 1 .. t : m.cells[j] = m.cells[h] => j = h
    BY <2>2, <2>3, UnitsDiffer
  <2> QED BY <2>1, <2>4
<1>5. ASSUME NEW s \in SupplyIds, NEW t \in SupplyIds, s # t, Gives(x, s), Gives(x, t)
      PROVE  sv2[n][s] \cap sv2[n][t] = {}
  <2>1. PICK a \in 1 .. Len(x.supply) : x.supply[a] = s
    BY <1>5 DEF Gives
  <2>2. PICK b \in 1 .. Len(x.supply) : x.supply[b] = t
    BY <1>5 DEF Gives
  <2>3. a # b
    BY <1>5, <2>1, <2>2
  <2>4. \A j, h \in 1 .. Len(x.supply) * x.size : m.cells[j] = m.cells[h] => j = h
    BY <1>4 DEF Total
  <2>5. Piece(m.cells, x.size, a) \cap Piece(m.cells, x.size, b) = {}
    BY <1>1, <2>3, <2>4, PiecesApart
  <2>6. sv2[n][s] = Piece(m.cells, x.size, a) /\ sv2[n][t] = Piece(m.cells, x.size, b)
    BY <1>1, <2>1, <2>2 DEF Served
  <2> QED BY <2>5, <2>6
<1>6. ASSUME NEW o \in Node, NEW p \in Node, NEW s \in SupplyIds, NEW t \in SupplyIds, <<o, s>> # <<p, t>>
      PROVE  sv2[o][s] \cap sv2[p][t] = {}
  <2>1. CASE ~New(o, s) /\ ~New(p, t)
    BY <1>2, <1>6, <2>1 DEF Distinct
  <2>2. CASE New(o, s) /\ ~New(p, t)
    <3>1. sv2[p][t] = sv[p][t]
      BY <1>2, <2>2
    <3> QED BY <1>3, <2>2, <3>1
  <2>3. CASE ~New(o, s) /\ New(p, t)
    <3>1. sv2[o][s] = sv[o][s]
      BY <1>2, <2>3
    <3> QED BY <1>3, <2>3, <3>1
  <2>4. CASE New(o, s) /\ New(p, t)
    BY <1>5, <1>6, <2>4
  <2> QED BY <2>1, <2>2, <2>3, <2>4
<1> QED BY <1>6 DEF Distinct

(* The other steps: which keys get free, and what an "enc" buffer gains.   *)

(* STORE_KEY: the key that comes was free.                                 *)
LEMMA StoreSpends ==
  ASSUME NEW st, NEW qb, NEW bs, NEW nt, NEW qy, NEW sv, NEW fd,
         Invariant(st, qb, bs, nt, qy, sv, fd), Spent(st, qb, bs, nt, qy, sv),
         NEW n \in Node, NEW k \in KeyIds, k \notin st[n],
         NEW st2, st2[n] = st[n] \cup {k}, st2[Peer(n)] = st[Peer(n)],
         NEW qb2, qb2[n] = QStore(qb[n], k, TRUE), qb2[Peer(n)] = qb[Peer(n)]
  PROVE  Spent(st2, qb2, bs, nt, qy, sv)
<1>1. Stocked(bs) /\ Banked(st, qb)
  BY DEF Invariant
<1>2. qb2[n].keys \subseteq qb[n].keys \cup {k}
  <2>1. PICK s, t : s = qb[n] /\ t = qb2[n]
    OBVIOUS
  <2>2. t = QStore(s, k, TRUE)
    BY <2>1
  <2>3. t.keys \subseteq s.keys \cup {k}
    BY <2>2 DEF QStore
  <2> QED BY <2>1, <2>3
<1>3. ASSUME NEW c \in KeyIds, Free(st2, qb2, nt, qy, c) PROVE Free(st, qb, nt, qy, c)
  <2>1. CASE n = "A"
    BY <1>2, <1>3, <2>1 DEF Free
  <2>2. CASE n = "B"
    <3>1. st2["A"] = st["A"] /\ qb2["A"] = qb["A"]
      BY <2>2, Peers
    <3> QED BY <1>3, <3>1 DEF Free
  <2> QED BY <2>1, <2>2 DEF Node
<1>4. \A m \in Node : Grows(bs[m]["enc"], bs[m]["enc"], st, qb, nt, qy)
  BY <1>1, GrowsSame DEF Stocked
<1> QED BY <1>3, <1>4, SpentSame

(* Fill: the keys it reserves were free in the QBuffer.                    *)
LEMMA FillSpends ==
  ASSUME NEW st, NEW qb, NEW bs, NEW nt, NEW qy, NEW sv, NEW fd,
         Invariant(st, qb, bs, nt, qy, sv, fd), Spent(st, qb, bs, nt, qy, sv),
         NEW d \in Dir, NEW ks \in SUBSET qb["A"].keys,
         NEW m, m = [type |-> "fill", dir |-> d, keys |-> ks],
         NEW bs2, Only(bs, bs2, "A", d), Sets(bs["A"][d], bs2["A"][d], ks, "INIT", 0, MaxLen),
         NEW qb2, qb2["A"] = QTake(qb["A"], ks), qb2["B"] = qb["B"],
         NEW nt2, nt2["A"] = nt["A"], nt2["B"] = Append(nt["B"], m),
         NEW qy2, qy2["A"] = Append(qy["A"], m), qy2["B"] = qy["B"]
  PROVE  Spent(st, qb2, bs2, nt2, qy2, sv)
<1>1. Stocked(bs) /\ Banked(st, qb) /\ Listed(nt, qy)
  BY DEF Invariant
<1>2. qb2["A"].keys \subseteq qb["A"].keys
  BY DEF QTake
<1>3. qy["A"] \in Seq(Messages) /\ qb["A"].keys \in SUBSET KeyIds
  BY <1>1, Peers DEF Listed, Banked
<1>4. m \in Messages /\ m.keys = ks
  BY <1>3 DEF Messages, Message
<1>5. ASSUME NEW c \in KeyIds, Free(st, qb2, nt2, qy2, c) PROVE Free(st, qb, nt, qy, c)
  <2>1. CASE c \notin st["A"] \/ c \in qb2["A"].keys
    BY <1>2, <2>1 DEF Free
  <2>2. CASE Open(nt2, qy2, c)
    <3>1. PICK o, p : o = qy["A"] /\ p = Append(o, m)
      OBVIOUS
    <3>2. qy2["A"] = p
      BY <3>1
    <3>3. PICK j \in 1 .. Len(p) : p[j].type = "fill" /\ c \in p[j].keys /\ ~Accepts(nt["A"], c)
      BY <2>2, <3>2 DEF Open
    <3>4. /\ \A i \in 1 .. Len(o) : p[i] = o[i]
          /\ p[Len(o) + 1] = m /\ (j \in 1 .. Len(o) \/ j = Len(o) + 1)
      BY <1>3, <1>4, <3>1, AppendFacts
    <3>5. CASE j \in 1 .. Len(o)
      <4>1. o[j].type = "fill" /\ c \in o[j].keys
        BY <3>3, <3>4, <3>5
      <4> QED BY <3>1, <3>3, <3>5, <4>1 DEF Free, Open
    <3>6. CASE j = Len(o) + 1
      <4>1. c \in ks
        BY <1>4, <3>3, <3>4, <3>6
      <4> QED BY <4>1 DEF Free
    <3> QED BY <3>4, <3>5, <3>6
  <2> QED BY <1>5, <2>1, <2>2 DEF Free
<1>6. ASSUME NEW o \in Node PROVE Grows(bs[o]["enc"], bs2[o]["enc"], st, qb, nt, qy)
  <2>1. Kept(bs[o]["enc"])
    BY <1>1 DEF Stocked
  <2>2. CASE o = "A" /\ d = "enc"
    <3>1. PICK e, c : e = bs["A"]["enc"] /\ c = bs2["A"]["enc"]
      OBVIOUS
    <3>2. Kept(e) /\ Sets(e, c, ks, "INIT", 0, MaxLen)
      BY <2>1, <2>2, <3>1
    <3>3. \A k \in ks : Free(st, qb, nt, qy, k)
      BY DEF Free
    <3>4. Grows(e, c, st, qb, nt, qy)
      BY <3>2, <3>3, GrowsSets
    <3> QED BY <2>2, <3>1, <3>4
  <2>3. CASE ~(o = "A" /\ d = "enc")
    <3>1. bs2[o]["enc"] = bs[o]["enc"]
      BY <2>3, Peers DEF Only
    <3> QED BY <2>1, <3>1, GrowsSame
  <2> QED BY <2>2, <2>3
<1> QED BY <1>5, <1>6, SpentSame

(* A step that leaves every "enc" buffer, the master's keys and queries    *)
(* and the answers to FILL on their way to it.                             *)
LEMMA PlainSpends ==
  ASSUME NEW st, NEW qb, NEW bs, NEW nt, NEW qy, NEW sv, Stocked(bs), Spent(st, qb, bs, nt, qy, sv),
         NEW n, NEW bs2, Only(bs, bs2, n, "dec"),
         NEW nt2, \A k : Accepts(nt2["A"], k) <=> Accepts(nt["A"], k)
  PROVE  Spent(st, qb, bs2, nt2, qy, sv)
<1>1. \A k \in KeyIds : Free(st, qb, nt2, qy, k) => Free(st, qb, nt, qy, k)
  BY DEF Free, Open
<1>2. ASSUME NEW o \in Node PROVE Grows(bs[o]["enc"], bs2[o]["enc"], st, qb, nt, qy)
  <2>1. Kept(bs[o]["enc"])
    BY DEF Stocked
  <2>2. bs2[o]["enc"] = bs[o]["enc"]
    BY Peers DEF Only
  <2> QED BY <2>1, <2>2, GrowsSame
<1> QED BY <1>1, <1>2, SpentSame

(* FILL: what the peer accepts was reserved and not accepted before.       *)
LEMMA FillRequestSpends ==
  ASSUME NEW st, NEW qb, NEW bs, NEW nt, NEW qy, NEW sv, NEW fd,
         Invariant(st, qb, bs, nt, qy, sv, fd), Spent(st, qb, bs, nt, qy, sv),
         NEW r, IsHead(r, nt["B"]), r.type = "fill",
         NEW d \in Dir, NEW taken \in SUBSET r.keys,
         NEW m, m.type = "filled",
         NEW bs2, Only(bs, bs2, "B", d), Sets(bs["B"][d], bs2["B"][d], taken, "READY", 0, MaxLen),
         NEW qb2, qb2["A"] = qb["A"],
         NEW nt2, nt2["A"] = Append(nt["A"], m)
  PROVE  Spent(st, qb2, bs2, nt2, qy, sv)
<1>1. Stocked(bs) /\ Listed(nt, qy) /\ Claimed(bs, qy) /\ Located(st, qb, bs)
  BY DEF Invariant
<1>2. nt["A"] \in Seq(Messages) /\ nt["B"] \in Seq(Messages)
  BY <1>1, Peers DEF Listed
<1>3. ASSUME NEW k, Accepts(nt["A"], k) PROVE Accepts(nt2["A"], k)
  <2>1. PICK o, p : o = nt["A"] /\ p = Append(o, m)
    OBVIOUS
  <2>2. PICK i \in 1 .. Len(o) : o[i].type = "filled" /\ k \in o[i].accepted
    BY <1>3, <2>1 DEF Accepts, AcceptedAt
  <2>3. i \in 1 .. Len(p) /\ p[i] = o[i]
    BY <1>2, <2>1
  <2>4. Accepts(p, k)
    BY <2>2, <2>3 DEF Accepts, AcceptedAt
  <2> QED BY <2>1, <2>4
<1>4. \A k \in KeyIds : Free(st, qb2, nt2, qy, k) => Free(st, qb, nt, qy, k)
  BY <1>3 DEF Free, Open
<1>5. ASSUME NEW k \in taken PROVE Free(st, qb, nt, qy, k)
  <2>1. PICK one : one = 1 /\ one \in 1 .. Len(nt[Peer("A")]) /\ nt[Peer("A")][one] = r
                   /\ Request(nt[Peer("A")][one])
    <3>1. nt["B"] # <<>> /\ r = Head(nt["B"])
      BY DEF IsHead
    <3>2. 1 \in 1 .. Len(nt["B"]) /\ nt["B"][1] = r
      BY <1>2, <3>1, TailFacts
    <3> QED BY <3>2, Peers DEF Request
  <2>2. \E j \in 1 .. Len(qy["A"]) :
          j > Cardinality(Replies(nt["A"])) /\ qy["A"][j] = nt[Peer("A")][one]
    <3>1. "A" \in Node
      BY Peers
    <3> QED BY <1>1, <2>1, <3>1, CutClaims
  <2>3. PICK j \in 1 .. Len(qy["A"]) :
          j > Cardinality(Replies(nt["A"])) /\ qy["A"][j] = r
    BY <2>1, <2>2
  <2>4. SUFFICES ASSUME Accepts(nt["A"], k) PROVE FALSE
    BY <1>5, <2>3 DEF Free, Open
  <2>5. PICK i \in 1 .. Len(nt["A"]) : AcceptedAt(nt["A"], i, k)
    BY <2>4 DEF Accepts
  <2>6. \E h \in 1 .. Len(qy["A"]), c \in Dir : AcceptedBy(bs, nt, qy, i, k, h, c)
    <3>1. i \in 1 .. Len(nt["A"]) /\ AcceptedAt(nt["A"], i, k)
      BY <2>5
    <3> QED BY <3>1, AcceptedClaim
  <2>7. PICK h \in 1 .. Len(qy["A"]), c \in Dir :
           /\ h <= Cardinality(Replies(nt["A"])) /\ k \in Claims(qy["A"][h], c) /\ k \in KeyIds
    BY <2>6 DEF AcceptedBy
  <2>8. PICK b \in Dir : k \in Claims(qy["A"][j], b)
    <3>1. qy["A"][j] \in Messages /\ r.dir \in Dir
      <4>1. qy["A"] \in Seq(Messages)
        BY <1>1, Peers DEF Listed
      <4>2. qy["A"][j] \in Messages
        BY <4>1
      <4>3. r \in Messages
        BY <2>3, <4>2
      <4> QED BY <4>2, <4>3 DEF Messages, Message
    <3> QED BY <1>5, <2>3, <3>1 DEF Claims
  <2>9. j = h
    <3>1. /\ j \in 1 .. Len(qy["A"]) /\ h \in 1 .. Len(qy["A"]) /\ c \in Dir /\ b \in Dir /\ k \in KeyIds
          /\ k \in Claims(qy["A"][h], c) /\ k \in Claims(qy["A"][j], b)
      BY <2>3, <2>7, <2>8
    <3>2. "A" \in Node /\ Claimed(bs, qy) /\ Located(st, qb, bs)
      BY <1>1, Peers
    <3>3. h = j /\ c = b /\ bs["A"][c].st[k] = "INIT" /\ bs["A"][Other(c)].st[k] = "NONE"
      BY <3>1, <3>2, OneClaim
    <3> QED BY <3>3
  <2>10. Replies(nt["A"]) \in SUBSET Nat /\ Cardinality(Replies(nt["A"])) \in Nat
    BY <1>2, PlacesFinite, FS_CardinalityType
  <2> QED BY <2>3, <2>7, <2>9, <2>10
<1>6. ASSUME NEW o \in Node PROVE Grows(bs[o]["enc"], bs2[o]["enc"], st, qb, nt, qy)
  <2>1. Kept(bs[o]["enc"])
    BY <1>1 DEF Stocked
  <2>2. CASE o = "B" /\ d = "enc"
    <3>1. PICK e, c : e = bs["B"]["enc"] /\ c = bs2["B"]["enc"]
      OBVIOUS
    <3>2. Kept(e) /\ Sets(e, c, taken, "READY", 0, MaxLen)
      BY <2>1, <2>2, <3>1
    <3>4. Grows(e, c, st, qb, nt, qy)
      BY <1>5, <3>2, GrowsSets
    <3> QED BY <2>2, <3>1, <3>4
  <2>3. CASE ~(o = "B" /\ d = "enc")
    <3>1. bs2[o]["enc"] = bs[o]["enc"]
      BY <2>3, Peers DEF Only
    <3> QED BY <2>1, <3>1, GrowsSame
  <2> QED BY <2>2, <2>3
<1> QED BY <1>4, <1>6, SpentSame

(* The answer to FILL: a key put back was free, and the other queries are  *)
(* of other keys.                                                          *)
LEMMA FillResponseSpends ==
  ASSUME NEW st, NEW qb, NEW bs, NEW nt, NEW qy, NEW sv, NEW fd,
         Invariant(st, qb, bs, nt, qy, sv, fd), Spent(st, qb, bs, nt, qy, sv),
         NEW a, NEW r, IsAnswered(a, r, nt["A"], qy["A"]), NEW d \in Dir, Towards(d, r),
         NEW bs2, Only(bs, bs2, "A", d), SettlesAll(bs["A"][d], bs2["A"][d], r.keys, a.accepted),
         NEW qb2, qb2["A"].keys \subseteq qb["A"].keys \cup a.rejected,
         NEW nt2, nt2["A"] = Tail(nt["A"]),
         NEW qy2, qy2["A"] = Tail(qy["A"])
  PROVE  Spent(st, qb2, bs2, nt2, qy2, sv)
<1>1. Stocked(bs) /\ Listed(nt, qy)
  BY DEF Invariant
<1>2. PICK got, qs : got = nt["A"] /\ qs = qy["A"]
  OBVIOUS
<1>3. Settling(bs, got, qs, a, r)
  BY <1>2, FillAnswered
<1>4. got \in Seq(Messages) /\ qs \in Seq(Messages)
  BY <1>1, <1>2, Peers DEF Listed
<1>5. /\ got # <<>> /\ a = Head(got) /\ qs # <<>> /\ r = Head(qs)
  BY <1>2 DEF IsAnswered, IsHead
<1>6. /\ 1 \in 1 .. Len(got) /\ got[1] = a /\ 1 \in 1 .. Len(qs) /\ qs[1] = r
      /\ \A i \in 1 .. Len(Tail(qs)) : i + 1 \in 1 .. Len(qs) /\ Tail(qs)[i] = qs[i + 1]
  BY <1>4, <1>5, TailFacts
<1>7. ASSUME NEW k \in r.keys, k \notin a.accepted PROVE ~Accepts(got, k)
  <2>1. SUFFICES ASSUME NEW i \in 1 .. Len(got), AcceptedAt(got, i, k) PROVE FALSE
    BY DEF Accepts
  <2>2. i = 1
    BY <1>3, <1>7, <2>1 DEF Settling
  <2> QED BY <1>6, <1>7, <2>1, <2>2 DEF AcceptedAt
<1>8. a.rejected \subseteq r.keys /\ a.accepted \cap a.rejected = {} /\ r.type = "fill"
      /\ a.accepted \subseteq r.keys
  BY <1>3 DEF Settling
<1>9. ASSUME NEW k \in a.rejected PROVE Free(st, qb, nt, qy, k)
  <2>1. k \in r.keys /\ ~Accepts(got, k)
    BY <1>7, <1>8, <1>9
  <2>2. qy["A"][1].type = "fill" /\ k \in qy["A"][1].keys /\ ~Accepts(nt["A"], k)
        /\ 1 \in 1 .. Len(qy["A"])
    BY <1>2, <1>6, <1>8, <2>1
  <2> QED BY <2>2 DEF Free, Open
<1>10. ASSUME NEW k \in KeyIds, Free(st, qb2, nt2, qy2, k) PROVE Free(st, qb, nt, qy, k)
  <2>1. CASE k \notin st["A"] \/ k \in qb2["A"].keys
    BY <1>9, <2>1 DEF Free
  <2>2. CASE Open(nt2, qy2, k)
    <3>1. PICK p, t : p = Tail(qs) /\ t = Tail(got)
      OBVIOUS
    <3>2. qy2["A"] = p /\ nt2["A"] = t
      BY <1>2, <3>1
    <3>3. PICK j \in 1 .. Len(p) : p[j].type = "fill" /\ k \in p[j].keys /\ ~Accepts(t, k)
      BY <2>2, <3>2 DEF Open
    <3>4. PICK h \in 1 .. Len(qs) : h = j + 1 /\ qs[h].type = "fill" /\ k \in qs[h].keys
      BY <1>6, <3>1, <3>3
    <3>5. k \notin r.keys
      <4>1. SUFFICES ASSUME k \in r.keys PROVE FALSE
        OBVIOUS
      <4>2. qs[h] \in Messages
        BY <1>4
      <4>3. qs[h].dir \in Dir
        BY <3>4, <4>2 DEF Messages, Message
      <4>4. k \in Claims(qs[h], qs[h].dir)
        BY <3>4 DEF Claims
      <4>5. h = 1
        BY <1>3, <4>1, <4>3, <4>4 DEF Settling
      <4> QED BY <3>3, <3>4, <4>5
    <3>6. ~Accepts(got, k)
      <4>1. SUFFICES ASSUME NEW i \in 1 .. Len(got), AcceptedAt(got, i, k) PROVE FALSE
        BY DEF Accepts
      <4>2. i # 1
        BY <1>6, <1>8, <3>5, <4>1 DEF AcceptedAt
      <4>3. i - 1 \in 1 .. Len(t) /\ t[i - 1] = got[i]
        BY <1>4, <1>5, <3>1, <4>2
      <4>4. AcceptedAt(t, i - 1, k)
        BY <4>1, <4>3 DEF AcceptedAt
      <4> QED BY <3>3, <4>3, <4>4 DEF Accepts
    <3>7. h \in 1 .. Len(qy["A"]) /\ qy["A"][h].type = "fill" /\ k \in qy["A"][h].keys
          /\ ~Accepts(nt["A"], k)
      BY <1>2, <3>4, <3>6
    <3> QED BY <3>7 DEF Free, Open
  <2> QED BY <1>10, <2>1, <2>2 DEF Free
<1>11. ASSUME NEW o \in Node PROVE Grows(bs[o]["enc"], bs2[o]["enc"], st, qb, nt, qy)
  <2>1. Kept(bs[o]["enc"])
    BY <1>1 DEF Stocked
  <2>2. CASE o = "A" /\ d = "enc"
    <3>1. PICK e, c : e = bs["A"]["enc"] /\ c = bs2["A"]["enc"]
      OBVIOUS
    <3>2. Kept(e) /\ SettlesAll(e, c, r.keys, a.accepted)
      BY <2>1, <2>2, <3>1
    <3>3. \A k \in r.keys : e.st[k] # "NONE"
      <4>1. r.dir = "enc"
        BY <2>2 DEF Towards
      <4> QED BY <1>3, <3>1, <4>1 DEF Settling
    <3>4. Grows(e, c, st, qb, nt, qy)
      BY <1>8, <3>2, <3>3, GrowsSettles
    <3> QED BY <2>2, <3>1, <3>4
  <2>3. CASE ~(o = "A" /\ d = "enc")
    <3>1. bs2[o]["enc"] = bs[o]["enc"]
      BY <2>3, Peers DEF Only
    <3> QED BY <2>1, <3>1, GrowsSame
  <2> QED BY <2>2, <2>3
<1> QED BY <1>10, <1>11, SpentSame

(* SKEY_CREATE answered: the master's answers to FILL stay.                *)
LEMMA SkeyRequestSpends ==
  ASSUME NEW st, NEW qb, NEW bs, NEW nt, NEW qy, NEW sv, Listed(nt, qy), Stocked(bs),
         Spent(st, qb, bs, nt, qy, sv), NEW n \in Node,
         NEW x, IsHead(x, nt[n]), x.type = "skey", NEW m \in Messages, m.type = "created",
         NEW bs2, Only(bs, bs2, n, "dec"),
         NEW nt2, nt2[n] = Tail(nt[n]), nt2[Peer(n)] = Append(nt[Peer(n)], m)
  PROVE  Spent(st, qb, bs2, nt2, qy, sv)
<1>1. nt["A"] \in Seq(Messages)
  BY Peers DEF Listed
<1>2. ASSUME NEW k PROVE Accepts(nt2["A"], k) <=> Accepts(nt["A"], k)
  <2>1. PICK s : s = nt["A"]
    OBVIOUS
  <2>2. CASE n = "A"
    <3>1. nt2["A"] = Tail(s)
      BY <2>1, <2>2
    <3>2. s # <<>> /\ Head(s).type # "filled"
      BY <2>1, <2>2 DEF IsHead
    <3>3. Accepts(Tail(s), k) <=> Accepts(s, k)
      BY <1>1, <2>1, <3>2, TailAccepts
    <3> QED BY <2>1, <3>1, <3>3
  <2>3. CASE n = "B"
    <3>1. nt2["A"] = Append(s, m)
      BY <2>1, <2>3, Peers
    <3>2. m.type # "filled"
      OBVIOUS
    <3>3. Accepts(Append(s, m), k) <=> Accepts(s, k)
      BY <1>1, <2>1, <3>2, AppendAccepts
    <3> QED BY <2>1, <3>1, <3>3
  <2> QED BY <2>2, <2>3 DEF Node
<1> QED BY <1>2, PlainSpends

(* The answer to SKEY_CREATE: the rest of a split key is READY again.      *)
LEMMA SkeyResponseSpends ==
  ASSUME NEW st, NEW qb, NEW bs, NEW nt, NEW qy, NEW sv, NEW fd,
         Invariant(st, qb, bs, nt, qy, sv, fd), Spent(st, qb, bs, nt, qy, sv), NEW n \in Node,
         NEW a, NEW r, IsConfirmed(a, r, nt[n], qy[n]),
         NEW bs2, Only(bs, bs2, n, "enc"), Marks(bs[n]["enc"], bs2[n]["enc"], r.surplus, "READY"),
         NEW nt2, nt2[n] = Tail(nt[n]), nt2[Peer(n)] = nt[Peer(n)],
         NEW qy2, qy2[n] = Tail(qy[n]), qy2[Peer(n)] = qy[Peer(n)]
  PROVE  Spent(st, qb, bs2, nt2, qy2, sv)
<1>1. Stocked(bs) /\ Listed(nt, qy)
  BY DEF Invariant
<1>2. nt["A"] \in Seq(Messages) /\ qy["A"] \in Seq(Messages)
  BY <1>1, Peers DEF Listed
<1>3. Confirming(bs[n]["enc"], bs[Peer(n)]["dec"], bs[n]["dec"], nt[Peer(n)], qy[n], r)
  <2>1. Invariant(st, qb, bs, nt, qy, sv, fd) /\ IsConfirmed(a, r, nt[n], qy[n])
    OBVIOUS
  <2> QED BY <2>1, SkeyAnswered
<1>4. ASSUME NEW k \in KeyIds, Free(st, qb, nt2, qy2, k) PROVE Free(st, qb, nt, qy, k)
  <2>1. SUFFICES ASSUME Open(nt2, qy2, k) PROVE Open(nt, qy, k)
    BY <1>4 DEF Free
  <2>2. CASE n = "A"
    <3>1. PICK s, t, p, u : s = nt["A"] /\ t = Tail(s) /\ p = qy["A"] /\ u = Tail(p)
      OBVIOUS
    <3>2. nt2["A"] = t /\ qy2["A"] = u
      BY <2>2, <3>1
    <3>3. s # <<>> /\ Head(s).type # "filled" /\ p # <<>>
      BY <2>2, <3>1 DEF IsConfirmed, IsHead
    <3>4. Accepts(t, k) <=> Accepts(s, k)
      BY <1>2, <3>1, <3>3, TailAccepts
    <3>5. PICK j \in 1 .. Len(u) : u[j].type = "fill" /\ k \in u[j].keys /\ ~Accepts(t, k)
      BY <2>1, <3>2 DEF Open
    <3>6. j + 1 \in 1 .. Len(p) /\ u[j] = p[j + 1]
      BY <1>2, <3>1, <3>3, <3>5, TailFacts
    <3>7. PICK h \in 1 .. Len(p) : p[h].type = "fill" /\ k \in p[h].keys
      BY <3>5, <3>6
    <3> QED BY <3>1, <3>4, <3>5, <3>7 DEF Open
  <2>3. CASE n = "B"
    <3>1. nt2["A"] = nt["A"] /\ qy2["A"] = qy["A"]
      BY <2>3, Peers
    <3> QED BY <2>1, <3>1 DEF Open
  <2> QED BY <2>2, <2>3 DEF Node
<1>5. ASSUME NEW o \in Node PROVE Grows(bs[o]["enc"], bs2[o]["enc"], st, qb, nt, qy)
  <2>1. Kept(bs[o]["enc"])
    BY <1>1 DEF Stocked
  <2>2. CASE o = n
    <3>1. PICK e, c : e = bs[n]["enc"] /\ c = bs2[n]["enc"]
      OBVIOUS
    <3>2. Kept(e) /\ Marks(e, c, r.surplus, "READY")
      BY <2>1, <2>2, <3>1
    <3>3. \A k \in r.surplus : e.st[k] # "NONE"
      BY <1>3, <3>1 DEF Confirming
    <3>4. Grows(e, c, st, qb, nt, qy)
      BY <3>2, <3>3, GrowsMarks
    <3> QED BY <2>2, <3>1, <3>4
  <2>3. CASE o # n
    <3>1. bs2[o]["enc"] = bs[o]["enc"]
      BY <2>3, Peers DEF Only
    <3> QED BY <2>1, <3>1, GrowsSame
  <2> QED BY <2>2, <2>3
<1> QED BY <1>4, <1>5, SpentSame

-----------------------------------------------------------------------------
(* From the handlers to the steps above.  First Fill, for one direction.   *)
LEMMA ReserveNone ==
  ASSUME NEW b
  PROVE  Each(ReserveKey, b, {}) = b
<1>1. PICK none \in SUBSET KeyIds : none = {}
  OBVIOUS
<1>2. PICK R : R = {<<none, b>>}
  OBVIOUS
<1>3. <<{}, b>> \in R
  BY <1>1, <1>2
<1>4. \A s \in SUBSET none, k \in none : \A c :
        k \notin s /\ <<s, c>> \in R => <<s \cup {k}, ReserveKey(c, k)>> \in R
  BY <1>1
<1>5. <<none, Each(ReserveKey, b, none)>> \in R
  BY <1>3, <1>4, EachReserve
<1> QED BY <1>1, <1>2, <1>5

(* Fill sends one request, or none where there is no key.                  *)
LEMMA FillRequests ==
  ASSUME NEW d \in Dir, NEW ks \in SUBSET KeyIds
  PROVE  /\ FillRequest(d, ks) \in Seq(Messages)
         /\ ks # {} => LET m == [type |-> "fill", dir |-> d, keys |-> ks]
                       IN m \in Messages /\ FillRequest(d, ks) = <<m>>
         /\ ks = {} => FillRequest(d, ks) = <<>>
<1> DEFINE m == [type |-> "fill", dir |-> d, keys |-> ks]
<1>1. m \in Messages
  BY DEF Messages, Message
<1> QED BY <1>1 DEF FillRequest

(* The variables are functions on the nodes.                               *)
Formed(st, qb, bs, nt, qy, sv, fd) ==
  /\ st = [n \in Node |-> st[n]] /\ qb = [n \in Node |-> qb[n]]
  /\ nt = [n \in Node |-> nt[n]] /\ qy = [n \in Node |-> qy[n]]
  /\ bs = [n \in Node |-> bs[n]] /\ \A n \in Node : bs[n] = [d \in Dir |-> bs[n][d]]
  /\ sv = [n \in Node |-> sv[n]] /\ \A n \in Node : sv[n] = [s \in SupplyIds |-> sv[n][s]]
  /\ fd = [n \in Node |-> fd[n]] /\ \A n \in Node : fd[n] = [s \in SupplyIds |-> fd[n][s]]

(* The strengthened invariant.                                             *)
Reached(st, qb, bs, nt, qy, sv, fd) ==
  /\ Formed(st, qb, bs, nt, qy, sv, fd) /\ Invariant(st, qb, bs, nt, qy, sv, fd)
  /\ Spent(st, qb, bs, nt, qy, sv) /\ Distinct(sv)

FillTo(d, ks, qb, bs, nt, qy, qb2, bs2, nt2, qy2) ==
  /\ qb2 = [qb EXCEPT !["A"] = QTake(qb["A"], ks)]
  /\ bs2 = [bs EXCEPT !["A"] = [bs["A"] EXCEPT ![d] = Each(ReserveKey, bs["A"][d], ks)]]
  /\ nt2 = [nt EXCEPT !["B"] = nt["B"] \o FillRequest(d, ks)]
  /\ qy2 = [qy EXCEPT !["A"] = qy["A"] \o FillRequest(d, ks)]

(* Fill reserves keys and asks the peer for them.                          *)
LEMMA FillOnce ==
  ASSUME NEW st, NEW qb, NEW bs, NEW nt, NEW qy, NEW sv, NEW fd,
         Reached(st, qb, bs, nt, qy, sv, fd),
         NEW d \in Dir, NEW ks \in SUBSET qb["A"].keys, MaxLen * Cardinality(ks) <= qb["A"].bits,
         ks = {} \/ Fits(bs["A"][d], MaxLen),
         NEW qb2, NEW bs2, NEW nt2, NEW qy2,
         FillTo(d, ks, qb, bs, nt, qy, qb2, bs2, nt2, qy2)
  PROVE  Reached(st, qb2, bs2, nt2, qy2, sv, fd)
<1>1. /\ Formed(st, qb, bs, nt, qy, sv, fd) /\ Invariant(st, qb, bs, nt, qy, sv, fd)
      /\ Spent(st, qb, bs, nt, qy, sv) /\ Distinct(sv)
      /\ Listed(nt, qy) /\ Stocked(bs) /\ Banked(st, qb) /\ Located(st, qb, bs)
  BY DEF Reached, Invariant
<1>2. /\ qb2["A"] = QTake(qb["A"], ks) /\ qb2["B"] = qb["B"]
      /\ nt2["A"] = nt["A"] /\ nt2["B"] = nt["B"] \o FillRequest(d, ks)
      /\ qy2["A"] = qy["A"] \o FillRequest(d, ks) /\ qy2["B"] = qy["B"]
      /\ qb2 = [n \in Node |-> qb2[n]] /\ nt2 = [n \in Node |-> nt2[n]] /\ qy2 = [n \in Node |-> qy2[n]]
  BY <1>1, Peers DEF Formed, FillTo
<1>3. /\ bs2["B"] = bs["B"] /\ bs2["A"] = [bs["A"] EXCEPT ![d] = Each(ReserveKey, bs["A"][d], ks)]
      /\ bs2 = [n \in Node |-> bs2[n]]
  BY <1>1, Peers DEF Formed, FillTo
<1>4. /\ bs2["A"][d] = Each(ReserveKey, bs["A"][d], ks)
      /\ \A c \in Dir : c # d => bs2["A"][c] = bs["A"][c]
      /\ bs2["A"] = [c \in Dir |-> bs2["A"][c]] /\ bs2["B"] = [c \in Dir |-> bs2["B"][c]]
  <2>1. bs["A"] = [c \in Dir |-> bs["A"][c]] /\ bs["B"] = [c \in Dir |-> bs["B"][c]]
    BY <1>1, Peers DEF Formed
  <2>2. PICK a, g : a = bs["A"] /\ g = Each(ReserveKey, bs["A"][d], ks)
    OBVIOUS
  <2>3. a = [c \in Dir |-> a[c]] /\ bs2["A"] = [a EXCEPT ![d] = g]
    BY <1>3, <2>1, <2>2
  <2>4. bs2["A"][d] = g /\ (\A c \in Dir : c # d => bs2["A"][c] = a[c])
        /\ bs2["A"] = [c \in Dir |-> bs2["A"][c]]
    BY <2>3
  <2> QED BY <1>3, <2>1, <2>2, <2>4
<1>5. Formed(st, qb2, bs2, nt2, qy2, sv, fd)
  BY <1>1, <1>2, <1>3, <1>4 DEF Formed, Node
<1>6. /\ nt["B"] \in Seq(Messages) /\ qy["A"] \in Seq(Messages)
      /\ qb["A"].keys \in SUBSET KeyIds /\ qb["A"].bits \in Nat
      /\ qb["A"] = [keys |-> qb["A"].keys, bits |-> qb["A"].bits]
  BY <1>1, Peers DEF Listed, Banked
<1>7. ks \in SUBSET KeyIds
  BY <1>6
<1>8. CASE ks = {}
  <2>1. FillRequest(d, ks) = <<>> /\ Each(ReserveKey, bs["A"][d], ks) = bs["A"][d]
    BY <1>8, ReserveNone DEF FillRequest
  <2>2. MaxLen * Cardinality(ks) = 0
    BY <1>8, FS_EmptySet, BoundsNat
  <2>3. QTake(qb["A"], ks) = qb["A"]
    BY <1>6, <1>8, <2>2 DEF QTake
  <2>4. nt["B"] \o <<>> = nt["B"] /\ qy["A"] \o <<>> = qy["A"]
    BY <1>6, ConcatEmptySeq
  <2>5. qb2 = qb
    BY <1>1, <2>3 DEF Formed, FillTo
  <2>6. nt2 = nt /\ qy2 = qy
    BY <1>1, <2>1, <2>4 DEF Formed, FillTo
  <2>7. bs2 = bs
    <3>1. bs["A"] = [c \in Dir |-> bs["A"][c]]
      BY <1>1, Peers DEF Formed
    <3>2. bs2["A"] = bs["A"]
      BY <1>3, <2>1, <3>1
    <3>3. bs2["B"] = bs["B"] /\ bs = [n \in Node |-> bs[n]]
      BY <1>1, <1>3 DEF Formed
    <3> QED BY <1>3, <3>2, <3>3 DEF Node
  <2> QED BY <2>5, <2>6, <2>7
<1>9. CASE ks # {}
  <2>1. PICK m : m = [type |-> "fill", dir |-> d, keys |-> ks]
    OBVIOUS
  <2>2. m \in Messages /\ FillRequest(d, ks) = <<m>>
    BY <1>7, <1>9, <2>1, FillRequests
  <2>3. nt2["B"] = Append(nt["B"], m) /\ qy2["A"] = Append(qy["A"], m)
    BY <1>2, <1>6, <2>2, AppendIsConcat
  <2>4. Sound(bs["A"][d])
    BY <1>1, Peers DEF Stocked, Kept
  <2>5. \A k \in ks : bs["A"][d].st[k] = "NONE"
    BY <1>1, <1>7, Peers DEF Located, Absent
  <2>6. Sets(bs["A"][d], bs2["A"][d], ks, "INIT", 0, MaxLen)
    BY <1>4, <1>7, <1>9, <2>4, <2>5, ReserveAll
  <2>7. Only(bs, bs2, "A", d)
    BY <1>3, <1>4 DEF Only, Node
  <2>8. /\ Invariant(st, qb, bs, nt, qy, sv, fd)
        /\ qb2["A"] = QTake(qb["A"], ks) /\ qb2["B"] = qb["B"]
        /\ nt2["A"] = nt["A"] /\ qy2["B"] = qy["B"]
    BY <1>1, <1>2
  <2>10. MaxLen * Cardinality(ks) <= qb["A"].bits
    OBVIOUS
  <2>9. Invariant(st, qb2, bs2, nt2, qy2, sv, fd)
    BY <2>1, <2>3, <2>6, <2>7, <2>8, <2>10, FillKeeps
  <2>11. Spent(st, qb2, bs2, nt2, qy2, sv)
    <3>1. Spent(st, qb, bs, nt, qy, sv) /\ ks \in SUBSET qb["A"].keys
      BY <1>1
    <3> QED BY <2>1, <2>3, <2>6, <2>7, <2>8, <3>1, FillSpends
  <2> QED BY <1>1, <1>5, <2>9, <2>11 DEF Reached
<1> QED BY <1>8, <1>9

-----------------------------------------------------------------------------
(* SBufferClientCheck: FILL for "enc", then for "dec".                     *)
LEMMA TakeTwice ==
  ASSUME NEW s, s.keys \in SUBSET KeyIds, s.bits \in Nat,
         NEW a \in SUBSET s.keys, NEW b \in SUBSET s.keys, a \cap b = {},
         MaxLen * (Cardinality(a) + Cardinality(b)) <= s.bits
  PROVE  /\ QTake(QTake(s, a), b) = QTake(s, a \cup b)
         /\ b \in SUBSET QTake(s, a).keys
         /\ MaxLen * Cardinality(a) <= s.bits
         /\ MaxLen * Cardinality(b) <= QTake(s, a).bits
<1>1. IsFiniteSet(a) /\ IsFiniteSet(b)
  BY KeyIdsFinite, FS_Subset
<1>2. Cardinality(a) \in Nat /\ Cardinality(b) \in Nat
  BY <1>1, FS_CardinalityType
<1>3. Cardinality(a \cup b) = Cardinality(a) + Cardinality(b)
  <2>1. Cardinality(a \cup b) = Cardinality(a) + Cardinality(b) - Cardinality(a \cap b)
    BY <1>1, FS_Union
  <2>2. Cardinality(a \cap b) = 0
    BY FS_EmptySet
  <2> QED BY <1>2, <2>1, <2>2
<1>4. PICK i \in Nat, j \in Nat : i = Cardinality(a) /\ j = Cardinality(b)
  BY <1>2
<1>5. PICK x \in Nat, y \in Nat : x = MaxLen * i /\ y = MaxLen * j /\ MaxLen * (i + j) = x + y
  BY Multiples
<1>6. PICK n \in Nat : n = s.bits
  OBVIOUS
<1>7. x + y <= n
  BY <1>4, <1>5, <1>6
<1>8. n - x - y = n - (x + y) /\ x <= n /\ y <= n - x
  BY <1>7
<1>9. QTake(s, a) = [keys |-> s.keys \ a, bits |-> n - x]
  BY <1>4, <1>5, <1>6 DEF QTake
<1>10. QTake(QTake(s, a), b) = [keys |-> (s.keys \ a) \ b, bits |-> n - x - y]
  BY <1>4, <1>5, <1>9 DEF QTake
<1>11. QTake(s, a \cup b) = [keys |-> s.keys \ (a \cup b), bits |-> n - (x + y)]
  BY <1>3, <1>4, <1>5, <1>6 DEF QTake
<1>12. (s.keys \ a) \ b = s.keys \ (a \cup b)
  OBVIOUS
<1>13. QTake(QTake(s, a), b) = QTake(s, a \cup b)
  BY <1>8, <1>10, <1>11, <1>12
<1>14. b \in SUBSET QTake(s, a).keys
  BY <1>9
<1> QED BY <1>4, <1>5, <1>6, <1>8, <1>9, <1>13, <1>14

(* What SBufferClientCheck leaves, of what the buffers and the QBuffer     *)
(* have: nothing changed, or keys are taken for the two directions.        *)
Unchecked(bufs, s, r) == r = [sb |-> bufs, q |-> s, asks |-> <<>>]

Picked(bufs, s, p, r) ==
  r = [sb |-> [d \in Dir |-> Each(ReserveKey, bufs[d], p[d])],
       q |-> QTake(s, p["enc"] \cup p["dec"]),
       asks |-> FillRequest("enc", p["enc"]) \o FillRequest("dec", p["dec"])]

(* SBufferClientCheck does nothing, or fills both buffers.                 *)
LEMMA ChecksEither ==
  ASSUME NEW bufs, NEW s, NEW r \in Checks(bufs, s), s.bits > QMin => Picks(bufs, s) # {},
         s.bits \in Nat
  PROVE  Unchecked(bufs, s, r) \/ (s.bits > QMin /\ \E p \in Picks(bufs, s) : Picked(bufs, s, p, r))
<1>1. CASE s.bits <= QMin
  BY <1>1 DEF Checks, Unchecked
<1>2. CASE ~(s.bits <= QMin)
  <2>1. QMin \in Nat
    BY LinkAssumption
  <2>2. s.bits > QMin
    BY <1>2, <2>1
  <2>3. r \in IF Picks(bufs, s) = {}
                THEN {[sb |-> [bufs EXCEPT !["enc"] = Stop(@)], q |-> s, asks |-> <<>>]}
                ELSE {[sb |-> [d \in Dir |-> Each(ReserveKey, bufs[d], p[d])],
                       q |-> QTake(s, p["enc"] \cup p["dec"]),
                       asks |-> FillRequest("enc", p["enc"]) \o FillRequest("dec", p["dec"])]
                      : p \in Picks(bufs, s)}
    BY <1>2 DEF Checks, Picks
  <2>4. r \in {[sb |-> [d \in Dir |-> Each(ReserveKey, bufs[d], p[d])],
                q |-> QTake(s, p["enc"] \cup p["dec"]),
                asks |-> FillRequest("enc", p["enc"]) \o FillRequest("dec", p["dec"])]
               : p \in Picks(bufs, s)}
    BY <2>2, <2>3
  <2>5. \E p \in Picks(bufs, s) : Picked(bufs, s, p, r)
    BY <2>4 DEF Picked
  <2> QED BY <2>2, <2>5
<1> QED BY <1>1, <1>2

-----------------------------------------------------------------------------
CheckTo(r, qb, bs, nt, qy, qb2, bs2, nt2, qy2) ==
  /\ qb2 = [qb EXCEPT !["A"] = r.q] /\ bs2 = [bs EXCEPT !["A"] = r.sb]
  /\ nt2 = [nt EXCEPT !["B"] = nt["B"] \o r.asks]
  /\ qy2 = [qy EXCEPT !["A"] = qy["A"] \o r.asks]

(* Two FILLs, one after the other, come to what the check leaves.          *)
LEMMA ChecksInTwo ==
  ASSUME NEW st, NEW qb, NEW bs, NEW nt, NEW qy, NEW sv, NEW fd,
         Formed(st, qb, bs, nt, qy, sv, fd),
         NEW x \in SUBSET KeyIds, NEW y \in SUBSET KeyIds,
         nt["B"] \in Seq(Messages), qy["A"] \in Seq(Messages),
         QTake(QTake(qb["A"], x), y) = QTake(qb["A"], x \cup y),
         NEW p, p["enc"] = x, p["dec"] = y, NEW r, Picked(bs["A"], qb["A"], p, r),
         NEW qb1, NEW bs1, NEW nt1, NEW qy1,
         FillTo("enc", x, qb, bs, nt, qy, qb1, bs1, nt1, qy1),
         NEW qb2, NEW bs2, NEW nt2, NEW qy2,
         CheckTo(r, qb, bs, nt, qy, qb2, bs2, nt2, qy2)
  PROVE  FillTo("dec", y, qb1, bs1, nt1, qy1, qb2, bs2, nt2, qy2)
<1>1. /\ qb = [n \in Node |-> qb[n]] /\ bs = [n \in Node |-> bs[n]]
      /\ nt = [n \in Node |-> nt[n]] /\ qy = [n \in Node |-> qy[n]]
      /\ bs["A"] = [d \in Dir |-> bs["A"][d]]
  BY Peers DEF Formed
<1>2. /\ FillRequest("enc", x) \in Seq(Messages) /\ FillRequest("dec", y) \in Seq(Messages)
  BY Peers, FillRequests
<1>3. PICK f \in Seq(Messages), g \in Seq(Messages) :
        f = FillRequest("enc", x) /\ g = FillRequest("dec", y)
  BY <1>2
<1>4. r.q = QTake(QTake(qb["A"], x), y) /\ r.asks = f \o g
  BY <1>3 DEF Picked
<1>5. qb2 = [qb1 EXCEPT !["A"] = QTake(qb1["A"], y)]
  <2>1. qb1["A"] = QTake(qb["A"], x)
    BY <1>1, Peers DEF FillTo
  <2>2. qb2 = [qb EXCEPT !["A"] = QTake(qb1["A"], y)]
    BY <1>4, <2>1 DEF CheckTo
  <2>3. PICK v, w : v = QTake(qb["A"], x) /\ w = QTake(qb1["A"], y)
    OBVIOUS
  <2>4. qb1 = [qb EXCEPT !["A"] = v] /\ qb2 = [qb EXCEPT !["A"] = w]
    BY <2>2, <2>3 DEF FillTo
  <2>5. qb2 = [qb1 EXCEPT !["A"] = w]
    BY <1>1, <2>4
  <2> QED BY <2>3, <2>5
<1>6. nt2 = [nt1 EXCEPT !["B"] = nt1["B"] \o g]
  <2>1. PICK s \in Seq(Messages) : s = nt["B"]
    OBVIOUS
  <2>2. s \o (f \o g) = (s \o f) \o g
    BY ConcatAssociative, SMTT(30)
  <2>3. PICK v, w : v = s \o f /\ w = v \o g
    OBVIOUS
  <2>4. nt1 = [nt EXCEPT !["B"] = v] /\ nt2 = [nt EXCEPT !["B"] = w]
    BY <1>3, <1>4, <2>1, <2>2, <2>3 DEF FillTo, CheckTo
  <2>5. nt2 = [nt1 EXCEPT !["B"] = w] /\ nt1["B"] = v
    BY <1>1, <2>4, Peers
  <2> QED BY <2>3, <2>5
<1>7. qy2 = [qy1 EXCEPT !["A"] = qy1["A"] \o g]
  <2>1. PICK s \in Seq(Messages) : s = qy["A"]
    OBVIOUS
  <2>2. s \o (f \o g) = (s \o f) \o g
    BY ConcatAssociative, SMTT(30)
  <2>3. PICK v, w : v = s \o f /\ w = v \o g
    OBVIOUS
  <2>4. qy1 = [qy EXCEPT !["A"] = v] /\ qy2 = [qy EXCEPT !["A"] = w]
    BY <1>3, <1>4, <2>1, <2>2, <2>3 DEF FillTo, CheckTo
  <2>5. qy2 = [qy1 EXCEPT !["A"] = w] /\ qy1["A"] = v
    BY <1>1, <2>4, Peers
  <2> QED BY <2>3, <2>5
<1>8. bs2 = [bs1 EXCEPT !["A"] = [bs1["A"] EXCEPT !["dec"] = Each(ReserveKey, bs1["A"]["dec"], y)]]
  <2>1. PICK u, v, a : /\ u = Each(ReserveKey, bs["A"]["enc"], x) /\ a = bs["A"]
                       /\ v = Each(ReserveKey, bs["A"]["dec"], y)
    OBVIOUS
  <2>2. bs1 = [bs EXCEPT !["A"] = [a EXCEPT !["enc"] = u]]
    BY <2>1 DEF FillTo
  <2>3. bs1["A"] = [a EXCEPT !["enc"] = u]
    BY <1>1, <2>2, Peers
  <2>4. a = [d \in Dir |-> a[d]]
    BY <1>1, <2>1
  <2>5. bs1["A"]["dec"] = bs["A"]["dec"]
    BY <2>1, <2>3, <2>4, Peers
  <2>6. r.sb = [d \in Dir |-> Each(ReserveKey, bs["A"][d], p[d])]
    BY DEF Picked
  <2>7. /\ r.sb["enc"] = Each(ReserveKey, bs["A"]["enc"], p["enc"])
        /\ r.sb["dec"] = Each(ReserveKey, bs["A"]["dec"], p["dec"])
        /\ r.sb = [d \in Dir |-> r.sb[d]]
    BY <2>6, Peers
  <2>8. r.sb["enc"] = u /\ r.sb["dec"] = v
    BY <2>1, <2>7
  <2>9. PICK z : z = [bs1["A"] EXCEPT !["dec"] = v]
    OBVIOUS
  <2>10. z = [d \in Dir |-> z[d]] /\ z["enc"] = u /\ z["dec"] = v
    BY <2>3, <2>4, <2>9, Peers
  <2>11. z = r.sb
    BY <2>7, <2>8, <2>10, Peers
  <2>12. bs2 = [bs EXCEPT !["A"] = z]
    BY <2>11 DEF CheckTo
  <2>13. bs2 = [bs1 EXCEPT !["A"] = z]
    BY <1>1, <2>2, <2>12
  <2>14. v = Each(ReserveKey, bs1["A"]["dec"], y)
    BY <2>1, <2>5
  <2> QED BY <2>9, <2>13, <2>14
<1> QED BY <1>3, <1>5, <1>6, <1>7, <1>8 DEF FillTo

-----------------------------------------------------------------------------
(* SBufferClientCheck: Fill for "enc", then for "dec", in what the first   *)
(* has left.                                                               *)
LEMMA ChecksKeeps ==
  ASSUME NEW st, NEW qb, NEW bs, NEW nt, NEW qy, NEW sv, NEW fd,
         Reached(st, qb, bs, nt, qy, sv, fd),
         NEW r \in Checks(bs["A"], qb["A"]),
         NEW qb2, NEW bs2, NEW nt2, NEW qy2,
         CheckTo(r, qb, bs, nt, qy, qb2, bs2, nt2, qy2)
  PROVE  Reached(st, qb2, bs2, nt2, qy2, sv, fd)
<1>1. /\ Formed(st, qb, bs, nt, qy, sv, fd) /\ Invariant(st, qb, bs, nt, qy, sv, fd)
      /\ Listed(nt, qy) /\ Stocked(bs) /\ Banked(st, qb)
  BY DEF Reached, Invariant
<1>2. /\ nt["B"] \in Seq(Messages) /\ qy["A"] \in Seq(Messages)
      /\ qb["A"].keys \in SUBSET KeyIds /\ qb["A"].bits \in Nat
      /\ qb["A"].bits <= MaxLen * Cardinality(qb["A"].keys)
  BY <1>1, Peers DEF Listed, Banked
<1>3. PICK bufs, s : bufs = bs["A"] /\ s = qb["A"]
  OBVIOUS
<1>4. bufs["enc"].bits \in Nat /\ bufs["dec"].bits \in Nat
  <2>1. Sound(bs["A"]["enc"]) /\ Sound(bs["A"]["dec"])
    BY <1>1, Peers DEF Stocked, Kept
  <2>2. bs["A"]["enc"].bits \in Nat /\ bs["A"]["dec"].bits \in Nat
    BY <2>1, SoundNat
  <2> QED BY <1>3, <2>2
<1>5. /\ s.keys \in SUBSET KeyIds /\ s.bits \in Nat
      /\ s.bits <= MaxLen * Cardinality(s.keys) /\ r \in Checks(bufs, s)
  BY <1>2, <1>3
<1>6. s.bits > QMin => Picks(bufs, s) # {}
  BY <1>4, <1>5, PicksThere
<1>7. Unchecked(bufs, s, r) \/ (s.bits > QMin /\ \E p \in Picks(bufs, s) : Picked(bufs, s, p, r))
  BY <1>5, <1>6, ChecksEither
<1>8. CASE Unchecked(bufs, s, r)
  <2>1. r.sb = bs["A"] /\ r.q = qb["A"] /\ r.asks = <<>>
    BY <1>3, <1>8 DEF Unchecked
  <2>2. nt["B"] \o <<>> = nt["B"] /\ qy["A"] \o <<>> = qy["A"]
    BY <1>2, ConcatEmptySeq
  <2>3. qb2 = qb /\ bs2 = bs
    BY <1>1, <2>1 DEF CheckTo, Formed
  <2>4. nt2 = nt /\ qy2 = qy
    BY <1>1, <2>1, <2>2 DEF CheckTo, Formed
  <2> QED BY <2>3, <2>4
<1>9. CASE s.bits > QMin /\ \E p \in Picks(bufs, s) : Picked(bufs, s, p, r)
  <2>1. PICK p \in Picks(bufs, s) : Picked(bufs, s, p, r)
    BY <1>9
  <2>2. PICK x, y : x = p["enc"] /\ y = p["dec"]
    OBVIOUS
  <2>3. /\ p["enc"] \in SUBSET s.keys /\ p["dec"] \in SUBSET s.keys
        /\ p["enc"] \cap p["dec"] = {}
        /\ p["enc"] = {} \/ Fits(bufs["enc"], MaxLen)
        /\ p["dec"] = {} \/ Fits(bufs["dec"], MaxLen)
        /\ MaxLen * (Cardinality(p["enc"]) + Cardinality(p["dec"])) <= s.bits
    BY <1>4, <1>5, <1>9, PicksThere
  <2>4. /\ x \in SUBSET s.keys /\ y \in SUBSET s.keys /\ x \cap y = {}
        /\ x = {} \/ Fits(bufs["enc"], MaxLen)
        /\ y = {} \/ Fits(bufs["dec"], MaxLen)
        /\ MaxLen * (Cardinality(x) + Cardinality(y)) <= s.bits
    BY <2>2, <2>3
  <2>5. /\ QTake(QTake(s, x), y) = QTake(s, x \cup y)
        /\ y \in SUBSET QTake(s, x).keys
        /\ MaxLen * Cardinality(x) <= s.bits
        /\ MaxLen * Cardinality(y) <= QTake(s, x).bits
    BY <1>5, <2>4, TakeTwice
  <2>6. PICK qb1, bs1, nt1, qy1 : FillTo("enc", x, qb, bs, nt, qy, qb1, bs1, nt1, qy1)
    BY DEF FillTo
  <2>7. Reached(st, qb1, bs1, nt1, qy1, sv, fd)
    <3>1. /\ "enc" \in Dir /\ x \in SUBSET qb["A"].keys
          /\ MaxLen * Cardinality(x) <= qb["A"].bits
          /\ x = {} \/ Fits(bs["A"]["enc"], MaxLen)
      BY <1>3, <2>4, <2>5, Peers
    <3> QED BY <2>6, <3>1, FillOnce
  <2>8. FillTo("dec", y, qb1, bs1, nt1, qy1, qb2, bs2, nt2, qy2)
    <3>1. /\ x \in SUBSET KeyIds /\ y \in SUBSET KeyIds
      BY <1>5, <2>4
    <3>2. QTake(QTake(qb["A"], x), y) = QTake(qb["A"], x \cup y)
      BY <1>3, <2>5
    <3>3. p["enc"] = x /\ p["dec"] = y /\ Picked(bs["A"], qb["A"], p, r)
      BY <1>3, <2>1, <2>2
    <3> QED BY <1>1, <1>2, <2>6, <3>1, <3>2, <3>3, ChecksInTwo
  <2>9. /\ qb1["A"] = QTake(s, x) /\ bs1["A"]["dec"] = bufs["dec"]
    <3>1. qb1["A"] = QTake(s, x)
      BY <1>1, <1>3, <2>6, Peers DEF FillTo, Formed
    <3>2. PICK g : g = Each(ReserveKey, bs["A"]["enc"], x)
      OBVIOUS
    <3>3. bs1 = [bs EXCEPT !["A"] = [bs["A"] EXCEPT !["enc"] = g]]
      BY <2>6, <3>2 DEF FillTo
    <3>4. bs = [n \in Node |-> bs[n]] /\ bs["A"] = [d \in Dir |-> bs["A"][d]]
      BY <1>1, Peers DEF Formed
    <3>5. bs1["A"] = [bs["A"] EXCEPT !["enc"] = g]
      BY <3>3, <3>4, Peers
    <3>6. bs1["A"]["dec"] = bs["A"]["dec"]
      BY <3>4, <3>5, Peers
    <3> QED BY <1>3, <3>1, <3>6
  <2>10. /\ "dec" \in Dir /\ y \in SUBSET qb1["A"].keys
         /\ MaxLen * Cardinality(y) <= qb1["A"].bits
         /\ y = {} \/ Fits(bs1["A"]["dec"], MaxLen)
    BY <2>4, <2>5, <2>9, Peers
  <2> QED BY <2>7, <2>8, <2>10, FillOnce
<1> QED BY <1>7, <1>8, <1>9

(* The end of a step: what node n has done so far, before the check.       *)
SoFar(n, bufs, s, asks, qb, bs, nt, qy) ==
  /\ qb = [q EXCEPT ![n] = s] /\ bs = [sb EXCEPT ![n] = bufs]
  /\ nt = [net EXCEPT ![Peer(n)] = net[Peer(n)] \o asks]
  /\ qy = [query EXCEPT ![n] = query[n] \o asks]

(* What a handler has done so far, and then the check of the buffers.      *)
LEMMA FinishKeeps ==
  ASSUME NEW st, NEW sv, NEW fd, NEW x, NEW y, NEW z, Formed(x, q, sb, net, query, y, z),
         NEW n \in Node, NEW bufs, NEW s, NEW asks, Finish(n, bufs, s, asks),
         NEW qb, NEW bs, NEW nt, NEW qy, SoFar(n, bufs, s, asks, qb, bs, nt, qy),
         Reached(st, qb, bs, nt, qy, sv, fd)
  PROVE  Reached(st, q', sb', net', query', sv, fd)
<1>1. /\ q = [m \in Node |-> q[m]] /\ sb = [m \in Node |-> sb[m]]
      /\ net = [m \in Node |-> net[m]] /\ query = [m \in Node |-> query[m]]
  BY DEF Formed
<1>2. /\ qb[n] = s /\ bs[n] = bufs
      /\ nt[Peer(n)] = net[Peer(n)] \o asks /\ qy[n] = query[n] \o asks
  BY <1>1, Peers DEF SoFar
<1>3. PICK r \in IF n = Master THEN Checks(bufs, s) ELSE {[sb |-> bufs, q |-> s, asks |-> <<>>]} :
        /\ sb' = [sb EXCEPT ![n] = r.sb]
        /\ q' = [q EXCEPT ![n] = r.q]
        /\ net' = [net EXCEPT ![Peer(n)] = (net[Peer(n)] \o asks) \o r.asks]
        /\ query' = [query EXCEPT ![n] = (query[n] \o asks) \o r.asks]
  BY <1>1, Peers DEF Finish
<1>4. /\ sb' = [bs EXCEPT ![n] = r.sb] /\ q' = [qb EXCEPT ![n] = r.q]
  BY <1>1, <1>3 DEF SoFar
<1>5. /\ net' = [nt EXCEPT ![Peer(n)] = nt[Peer(n)] \o r.asks]
      /\ query' = [qy EXCEPT ![n] = qy[n] \o r.asks]
  <2>1. PICK a, b, c, d : /\ a = net[Peer(n)] \o asks /\ b = a \o r.asks
                          /\ c = query[n] \o asks /\ d = c \o r.asks
    OBVIOUS
  <2>2. /\ nt = [net EXCEPT ![Peer(n)] = a] /\ net' = [net EXCEPT ![Peer(n)] = b]
        /\ qy = [query EXCEPT ![n] = c] /\ query' = [query EXCEPT ![n] = d]
        /\ nt[Peer(n)] = a /\ qy[n] = c
    BY <1>2, <1>3, <2>1 DEF SoFar
  <2>3. net' = [nt EXCEPT ![Peer(n)] = b] /\ query' = [qy EXCEPT ![n] = d]
    BY <1>1, <2>2
  <2> QED BY <2>1, <2>2, <2>3
<1>6. CASE n = "A"
  <2>1. r \in Checks(bs["A"], qb["A"])
    BY <1>2, <1>3, <1>6 DEF Master
  <2>2. CheckTo(r, qb, bs, nt, qy, q', sb', net', query')
    BY <1>4, <1>5, <1>6, Peers DEF CheckTo
  <2> QED BY <2>1, <2>2, ChecksKeeps
<1>7. CASE n # "A"
  <2>1. r.sb = bs[n] /\ r.q = qb[n] /\ r.asks = <<>>
    BY <1>2, <1>3, <1>7 DEF Master
  <2>2. /\ qb = [m \in Node |-> qb[m]] /\ bs = [m \in Node |-> bs[m]]
        /\ nt = [m \in Node |-> nt[m]] /\ qy = [m \in Node |-> qy[m]]
    BY DEF Reached, Formed
  <2>3. nt[Peer(n)] \in Seq(Messages) /\ qy[n] \in Seq(Messages)
    BY Peers DEF Reached, Invariant, Listed
  <2>4. nt[Peer(n)] \o <<>> = nt[Peer(n)] /\ qy[n] \o <<>> = qy[n]
    BY <2>3, ConcatEmptySeq
  <2>5. sb' = bs /\ q' = qb
    BY <1>4, <2>1, <2>2
  <2>6. net' = nt /\ query' = qy
    BY <1>5, <2>1, <2>2, <2>4
  <2> QED BY <2>5, <2>6
<1> QED BY <1>6, <1>7

-----------------------------------------------------------------------------
(* The actions, one by one.                                                *)
ReachedNow == Reached(stored, q, sb, net, query, served, fetched)

(* A handler that has changed the QBuffer only.                            *)
LEMMA SoFarSame ==
  ASSUME ReachedNow, NEW n \in Node, NEW s, NEW qb, qb = [q EXCEPT ![n] = s]
  PROVE  SoFar(n, sb[n], s, <<>>, qb, sb, net, query)
<1>1. /\ sb = [m \in Node |-> sb[m]]
      /\ net = [m \in Node |-> net[m]] /\ query = [m \in Node |-> query[m]]
  BY DEF ReachedNow, Reached, Formed
<1>2. net[Peer(n)] \in Seq(Messages) /\ query[n] \in Seq(Messages)
  BY Peers DEF ReachedNow, Reached, Invariant, Listed
<1>3. net[Peer(n)] \o <<>> = net[Peer(n)] /\ query[n] \o <<>> = query[n]
  BY <1>2, ConcatEmptySeq
<1>4. sb = [sb EXCEPT ![n] = sb[n]]
  BY <1>1
<1>5. net = [net EXCEPT ![Peer(n)] = net[Peer(n)] \o <<>>]
  BY <1>1, <1>3
<1>6. query = [query EXCEPT ![n] = query[n] \o <<>>]
  BY <1>1, <1>3
<1> QED BY <1>4, <1>5, <1>6 DEF SoFar

(* STORE_KEY.                                                              *)
LEMMA StoreKeyReached ==
  ASSUME ReachedNow, NEW n \in Node, NEW k \in KeyIds, StoreKeyRequest(n, k)
  PROVE  ReachedNow'
<1>1. /\ k \notin stored[n] /\ stored' = [stored EXCEPT ![n] = stored[n] \cup {k}]
      /\ Finish(n, sb[n], QStore(q[n], k, TRUE), <<>>)
      /\ served' = served /\ fetched' = fetched
  BY DEF StoreKeyRequest, ReachedNow, Reached, Formed
<1>2. PICK s, qb, st : s = QStore(q[n], k, TRUE) /\ qb = [q EXCEPT ![n] = s] /\ st = stored'
  OBVIOUS
<1>3. /\ Formed(stored, q, sb, net, query, served, fetched)
      /\ Invariant(stored, q, sb, net, query, served, fetched)
  BY DEF ReachedNow, Reached
<1>0. Spent(stored, q, sb, net, query, served) /\ Distinct(served)
  BY DEF ReachedNow, Reached
<1>4. /\ q = [m \in Node |-> q[m]] /\ stored = [m \in Node |-> stored[m]]
  BY <1>3 DEF Formed
<1>5. /\ qb[n] = QStore(q[n], k, TRUE) /\ qb[Peer(n)] = q[Peer(n)]
      /\ qb = [m \in Node |-> qb[m]]
  BY <1>2, <1>4, Peers
<1>6. /\ st[n] = stored[n] \cup {k} /\ st[Peer(n)] = stored[Peer(n)]
      /\ st = [m \in Node |-> st[m]]
  <2>1. PICK g : g = stored[n] \cup {k}
    OBVIOUS
  <2>2. st = [stored EXCEPT ![n] = g]
    BY <1>1, <1>2, <2>1
  <2> QED BY <1>4, <2>1, <2>2, Peers
<1>7. Invariant(st, qb, sb, net, query, served, fetched)
  <2>1. k \notin stored[n] /\ Invariant(stored, q, sb, net, query, served, fetched)
    BY <1>1, <1>3
  <2>2. qb[n] = QStore(q[n], k, TRUE) /\ qb[Peer(n)] = q[Peer(n)]
    BY <1>5
  <2>3. st[n] = stored[n] \cup {k} /\ st[Peer(n)] = stored[Peer(n)]
    BY <1>6
  <2> QED BY <2>1, <2>2, <2>3, StoreKeeps
<1>8. Formed(st, qb, sb, net, query, served, fetched)
  BY <1>3, <1>5, <1>6 DEF Formed
<1>13. Spent(st, qb, sb, net, query, served)
  <2>1. /\ k \notin stored[n] /\ Invariant(stored, q, sb, net, query, served, fetched)
        /\ Spent(stored, q, sb, net, query, served)
    BY <1>0, <1>1, <1>3
  <2>2. qb[n] = QStore(q[n], k, TRUE) /\ qb[Peer(n)] = q[Peer(n)]
    BY <1>5
  <2>3. st[n] = stored[n] \cup {k} /\ st[Peer(n)] = stored[Peer(n)]
    BY <1>6
  <2> QED BY <2>1, <2>2, <2>3, StoreSpends
<1>9. Reached(st, qb, sb, net, query, served, fetched)
  BY <1>0, <1>7, <1>8, <1>13 DEF Reached
<1>10. SoFar(n, sb[n], s, <<>>, qb, sb, net, query)
  BY <1>2, SoFarSame
<1>11. Finish(n, sb[n], s, <<>>)
  BY <1>1, <1>2
<1>12. Reached(st, q', sb', net', query', served, fetched)
  BY <1>3, <1>9, <1>10, <1>11, FinishKeeps
<1> QED BY <1>1, <1>2, <1>12 DEF ReachedNow

(* enc_keys is refused.                                                    *)
LEMMA RefusedReached ==
  ASSUME ReachedNow, NEW n \in Node, NEW r, EncKeysRefused(n, r)
  PROVE  ReachedNow'
<1>1. Finish(n, sb[n], q[n], <<>>) /\ stored' = stored /\ served' = served /\ fetched' = fetched
  BY DEF EncKeysRefused
<1>2. PICK s, qb : s = q[n] /\ qb = [q EXCEPT ![n] = s]
  OBVIOUS
<1>3. q = [m \in Node |-> q[m]] /\ Formed(stored, q, sb, net, query, served, fetched)
  BY DEF ReachedNow, Reached, Formed
<1>4. qb = q
  BY <1>2, <1>3
<1>5. SoFar(n, sb[n], s, <<>>, qb, sb, net, query)
  BY <1>2, SoFarSame
<1>6. Finish(n, sb[n], s, <<>>)
  BY <1>1, <1>2
<1>7. Reached(stored, qb, sb, net, query, served, fetched)
  BY <1>4 DEF ReachedNow
<1>8. Reached(stored, q', sb', net', query', served, fetched)
  BY <1>3, <1>5, <1>6, <1>7, FinishKeeps
<1> QED BY <1>1, <1>8 DEF ReachedNow

(* A buffer replaced.                                                      *)
LEMMA OneBuffer ==
  ASSUME ReachedNow, NEW n \in Node, NEW d \in Dir, NEW b, sb' = [sb EXCEPT ![n][d] = b]
  PROVE  /\ sb'[n][d] = b /\ Only(sb, sb', n, d)
         /\ sb' = [m \in Node |-> sb'[m]] /\ \A m \in Node : sb'[m] = [c \in Dir |-> sb'[m][c]]
<1>1. sb = [m \in Node |-> sb[m]] /\ \A m \in Node : sb[m] = [c \in Dir |-> sb[m][c]]
  BY DEF ReachedNow, Reached, Formed
<1>2. sb' = [sb EXCEPT ![n] = [sb[n] EXCEPT ![d] = b]]
  BY <1>1
<1>3. /\ sb'[n] = [sb[n] EXCEPT ![d] = b] /\ \A m \in Node : m # n => sb'[m] = sb[m]
      /\ sb' = [m \in Node |-> sb'[m]]
  BY <1>1, <1>2
<1>4. PICK a : a = sb[n] /\ a = [c \in Dir |-> a[c]]
  BY <1>1
<1>5. sb'[n] = [a EXCEPT ![d] = b]
  BY <1>3, <1>4
<1>6. /\ sb'[n][d] = b /\ \A c \in Dir : c # d => sb'[n][c] = a[c]
      /\ sb'[n] = [c \in Dir |-> sb'[n][c]]
  BY <1>4, <1>5
<1>7. Only(sb, sb', n, d)
  BY <1>3, <1>4, <1>6 DEF Only
<1> QED BY <1>1, <1>3, <1>6, <1>7

(* dec_keys.                                                               *)
LEMMA DecReached ==
  ASSUME ReachedNow, NEW n \in Node, NEW ids \in SUBSET SupplyIds, DecKeys(n, ids)
  PROVE  ReachedNow'
<1>1. /\ Formed(stored, q, sb, net, query, served, fetched)
      /\ Invariant(stored, q, sb, net, query, served, fetched)
  BY DEF ReachedNow, Reached
<1>0. Spent(stored, q, sb, net, query, served) /\ Distinct(served)
  BY DEF ReachedNow, Reached
<1>2. /\ fetched = [m \in Node |-> fetched[m]]
      /\ \A m \in Node : fetched[m] = [s \in SupplyIds |-> fetched[m][s]]
      /\ sb = [m \in Node |-> sb[m]]
      /\ \A m \in Node : sb[m] = [c \in Dir |-> sb[m][c]]
  BY <1>1 DEF Formed
<1>3. PICK d, b : d = sb[n]["dec"] /\ b = Each(GetSupplyKey, d, ids)
  OBVIOUS
<1>4. sb' = [sb EXCEPT ![n]["dec"] = b]
  BY <1>2, <1>3 DEF DecKeys
<1>5. /\ fetched' = [fetched EXCEPT ![n] = [s \in SupplyIds |->
             IF s \in ids /\ \A t \in ids : d.supply[t] # {} THEN d.supply[s] ELSE fetched[n][s]]]
      /\ stored' = stored /\ q' = q /\ net' = net /\ query' = query /\ served' = served
  BY <1>2, <1>3 DEF DecKeys
<1>6. /\ sb'[n]["dec"] = b /\ Only(sb, sb', n, "dec")
      /\ sb' = [m \in Node |-> sb'[m]] /\ \A m \in Node : sb'[m] = [c \in Dir |-> sb'[m][c]]
  BY <1>4, OneBuffer, Peers
<1>7. Sound(d)
  BY <1>1, <1>3 DEF Invariant, Stocked, Kept
<1>8. Empties(sb[n]["dec"], sb'[n]["dec"], ids)
  BY <1>3, <1>6, <1>7, TakeAll
<1>9. PICK g : g = [s \in SupplyIds |->
             IF s \in ids /\ \A t \in ids : d.supply[t] # {} THEN d.supply[s] ELSE fetched[n][s]]
  OBVIOUS
<1>10. fetched' = [fetched EXCEPT ![n] = g]
  BY <1>5, <1>9
<1>11. /\ fetched'[n] = g /\ \A m \in Node : m # n => fetched'[m] = fetched[m]
       /\ fetched' = [m \in Node |-> fetched'[m]]
  BY <1>2, <1>10
<1>12. g = [s \in SupplyIds |-> g[s]] /\ \A s \in SupplyIds : g[s] \in {d.supply[s], fetched[n][s]}
  BY <1>9
<1>13. Formed(stored, q, sb', net, query, served, fetched')
  BY <1>1, <1>2, <1>6, <1>11, <1>12 DEF Formed
<1>14. /\ fetched'[Peer(n)] = fetched[Peer(n)]
       /\ \A s \in SupplyIds : fetched'[n][s] \in {sb[n]["dec"].supply[s], fetched[n][s]}
  BY <1>3, <1>11, <1>12, Peers
<1>15. Invariant(stored, q, sb', net, query, served, fetched')
  BY <1>1, <1>6, <1>8, <1>14, DecKeeps
<1>16. Spent(stored, q, sb', net, query, served)
  <2>1. Stocked(sb) /\ Spent(stored, q, sb, net, query, served) /\ Only(sb, sb', n, "dec")
    BY <1>0, <1>1, <1>6 DEF Invariant
  <2>2. \A c : Accepts(net["A"], c) <=> Accepts(net["A"], c)
    OBVIOUS
  <2> QED BY <2>1, <2>2, PlainSpends
<1> QED BY <1>0, <1>5, <1>13, <1>15, <1>16 DEF ReachedNow, Reached

-----------------------------------------------------------------------------
(* SKEY_CREATE arrives.                                                    *)
LEMMA SkeyRequestReached ==
  ASSUME ReachedNow, NEW n \in Node, ProcessSKeyCreateRequest(n)
  PROVE  ReachedNow'
<1>1. /\ Formed(stored, q, sb, net, query, served, fetched)
      /\ Invariant(stored, q, sb, net, query, served, fetched)
  BY DEF ReachedNow, Reached
<1>0. Spent(stored, q, sb, net, query, served) /\ Distinct(served)
  BY DEF ReachedNow, Reached
<1>2. /\ net = [m \in Node |-> net[m]] /\ sb = [m \in Node |-> sb[m]]
      /\ \A m \in Node : sb[m] = [c \in Dir |-> sb[m][c]]
  BY <1>1 DEF Formed
<1>3. PICK x : IsHead(x, net[n]) /\ x.type = "skey"
  BY DEF ProcessSKeyCreateRequest, Received, IsHead
<1>4. PICK b : b = CutAt(x, sb[n]["dec"])
  OBVIOUS
<1>5. x = Head(net[n])
  BY <1>3 DEF IsHead
<1>6. sb' = [sb EXCEPT ![n]["dec"] = b]
  BY <1>2, <1>4, <1>5 DEF ProcessSKeyCreateRequest, CutAt
<1>7. PICK m : m = [type |-> "created"]
  OBVIOUS
<1>8. PICK u, v : u = Tail(net[n]) /\ v = Append(net[Peer(n)], m)
  OBVIOUS
<1>9. net' = [net EXCEPT ![n] = u, ![Peer(n)] = v]
  BY <1>2, <1>7, <1>8, Peers DEF ProcessSKeyCreateRequest, Answer
<1>10. /\ net' = [o \in Node |-> net'[o]] /\ net'[n] = u /\ net'[Peer(n)] = v
  BY <1>2, <1>9, Peers
<1>11. /\ stored' = stored /\ q' = q /\ query' = query /\ served' = served /\ fetched' = fetched
  BY DEF ProcessSKeyCreateRequest
<1>12. /\ sb'[n]["dec"] = b /\ Only(sb, sb', n, "dec")
       /\ sb' = [o \in Node |-> sb'[o]] /\ \A o \in Node : sb'[o] = [c \in Dir |-> sb'[o][c]]
  BY <1>6, OneBuffer, Peers
<1>13. PICK bs2, nt2 : bs2 = sb' /\ nt2 = net'
  OBVIOUS
<1>14. Formed(stored, q, bs2, nt2, query, served, fetched)
  BY <1>1, <1>10, <1>12, <1>13 DEF Formed
<1>15. /\ Only(sb, bs2, n, "dec") /\ bs2[n]["dec"] = CutAt(x, sb[n]["dec"])
       /\ nt2[n] = Tail(net[n]) /\ nt2[Peer(n)] = Append(net[Peer(n)], m)
  BY <1>4, <1>8, <1>10, <1>12, <1>13
<1>16. Invariant(stored, q, bs2, nt2, query, served, fetched)
  BY <1>1, <1>3, <1>7, <1>15, SkeyRequestKeeps
<1>17. Spent(stored, q, bs2, nt2, query, served)
  <2>1. Listed(net, query) /\ Stocked(sb) /\ Spent(stored, q, sb, net, query, served)
    BY <1>0, <1>1 DEF Invariant
  <2>2. m \in Messages /\ m.type = "created"
    BY <1>7 DEF Messages, Message
  <2> QED BY <1>3, <1>15, <2>1, <2>2, SkeyRequestSpends
<1> QED BY <1>0, <1>11, <1>13, <1>14, <1>16, <1>17 DEF ReachedNow, Reached

(* A node whose answer comes has a query it answers.                       *)
LEMMA AnswerQuery ==
  ASSUME ReachedNow, NEW n \in Node, NEW a, IsHead(a, net[n]), ~Request(a)
  PROVE  /\ query[n] # <<>> /\ IsHead(query[n][1], query[n]) /\ Answers(a, query[n][1])
         /\ 1 \in 1 .. Len(query[n]) /\ query[n] \in Seq(Messages)
         /\ a.type = "filled" => n = "A" /\ query[n][1].type = "fill"
<1>1. Listed(net, query)
  BY DEF ReachedNow, Reached, Invariant
<1>2. net[n] # <<>> /\ ~Request(Head(net[n])) /\ a = Head(net[n])
  BY DEF IsHead
<1>3. PICK nt2 : nt2 = [m \in Node |-> IF m = n THEN Tail(net[n]) ELSE net[m]]
  OBVIOUS
<1>4. PICK qy2 : qy2 = [m \in Node |-> IF m = n THEN Tail(query[n]) ELSE query[m]]
  OBVIOUS
<1>5. /\ nt2[n] = Tail(net[n]) /\ nt2[Peer(n)] = net[Peer(n)]
      /\ qy2[n] = Tail(query[n]) /\ qy2[Peer(n)] = query[Peer(n)]
  BY <1>3, <1>4, Peers
<1>6. query[n] # <<>> /\ Answers(Head(net[n]), query[n][1])
  BY <1>1, <1>2, <1>5, ListedRead
<1>7. query[n] \in Seq(Messages)
  BY <1>1 DEF Listed
<1>8. 1 \in 1 .. Len(query[n]) /\ query[n][1] = Head(query[n])
  BY <1>6, <1>7
<1>9. Answers(a, query[n][1])
  BY <1>2, <1>6
<1>10. a.type = "filled" => query[n][1].type = "fill"
  BY <1>9 DEF Answers
<1>11. n = "A" \/ query[n][1].type = "skey"
  BY <1>1, <1>8 DEF Listed, Node
<1> QED BY <1>6, <1>7, <1>8, <1>9, <1>10, <1>11 DEF IsHead

(* The answer to a SKEY_CREATE arrives.                                    *)
LEMMA SkeyResponseReached ==
  ASSUME ReachedNow, NEW n \in Node, ProcessSKeyCreateResponse(n)
  PROVE  ReachedNow'
<1>1. /\ Formed(stored, q, sb, net, query, served, fetched)
      /\ Invariant(stored, q, sb, net, query, served, fetched)
  BY DEF ReachedNow, Reached
<1>0. Spent(stored, q, sb, net, query, served) /\ Distinct(served)
  BY DEF ReachedNow, Reached
<1>2. /\ net = [m \in Node |-> net[m]] /\ sb = [m \in Node |-> sb[m]]
      /\ query = [m \in Node |-> query[m]]
      /\ \A m \in Node : sb[m] = [c \in Dir |-> sb[m][c]]
  BY <1>1 DEF Formed
<1>3. PICK a : IsHead(a, net[n]) /\ a.type = "created"
  BY DEF ProcessSKeyCreateResponse, Received, IsHead
<1>4. ~Request(a)
  BY <1>3 DEF Request
<1>5. PICK r : IsHead(r, query[n])
  BY <1>3, <1>4, AnswerQuery
<1>6. r = Head(query[n]) /\ query[n] # <<>>
  BY <1>5 DEF IsHead
<1>7. IsConfirmed(a, r, net[n], query[n])
  BY <1>3, <1>5 DEF IsConfirmed
<1>8. Confirming(sb[n]["enc"], sb[Peer(n)]["dec"], sb[n]["dec"], net[Peer(n)], query[n], r)
  BY <1>1, <1>7, SkeyAnswered
<1>9. /\ r.surplus \in SUBSET KeyIds /\ \A k \in r.surplus : sb[n]["enc"].st[k] = "INIT"
  BY <1>8 DEF Confirming
<1>10. PICK b : b = Each(ConfirmKey, sb[n]["enc"], r.surplus)
  OBVIOUS
<1>11. sb' = [sb EXCEPT ![n]["enc"] = b]
  BY <1>2, <1>6, <1>10 DEF ProcessSKeyCreateResponse
<1>12. /\ net' = [net EXCEPT ![n] = Tail(net[n])] /\ query' = [query EXCEPT ![n] = Tail(query[n])]
       /\ stored' = stored /\ q' = q /\ served' = served /\ fetched' = fetched
  BY <1>2, <1>6 DEF ProcessSKeyCreateResponse
<1>13. PICK u, v : u = Tail(net[n]) /\ v = Tail(query[n])
  OBVIOUS
<1>14. /\ net' = [o \in Node |-> net'[o]] /\ net'[n] = u /\ net'[Peer(n)] = net[Peer(n)]
       /\ query' = [o \in Node |-> query'[o]] /\ query'[n] = v /\ query'[Peer(n)] = query[Peer(n)]
  BY <1>2, <1>12, <1>13, Peers
<1>15. /\ sb'[n]["enc"] = b /\ Only(sb, sb', n, "enc")
       /\ sb' = [o \in Node |-> sb'[o]] /\ \A o \in Node : sb'[o] = [c \in Dir |-> sb'[o][c]]
  BY <1>11, OneBuffer, Peers
<1>16. Sound(sb[n]["enc"])
  BY <1>1 DEF Invariant, Stocked, Kept
<1>17. Marks(sb[n]["enc"], Each(ConfirmKey, sb[n]["enc"], r.surplus), r.surplus, "READY")
  BY <1>9, <1>16, ConfirmAll
<1>18. PICK bs2, nt2, qy2 : bs2 = sb' /\ nt2 = net' /\ qy2 = query'
  OBVIOUS
<1>19. Formed(stored, q, bs2, nt2, qy2, served, fetched)
  BY <1>1, <1>14, <1>15, <1>18 DEF Formed
<1>20. /\ Only(sb, bs2, n, "enc") /\ Marks(sb[n]["enc"], bs2[n]["enc"], r.surplus, "READY")
       /\ nt2[n] = Tail(net[n]) /\ nt2[Peer(n)] = net[Peer(n)]
       /\ qy2[n] = Tail(query[n]) /\ qy2[Peer(n)] = query[Peer(n)]
  BY <1>10, <1>13, <1>14, <1>15, <1>17, <1>18
<1>21. Invariant(stored, q, bs2, nt2, qy2, served, fetched)
  BY <1>1, <1>7, <1>20, SkeyResponseKeeps
<1>22. Spent(stored, q, bs2, nt2, qy2, served)
  BY <1>0, <1>1, <1>7, <1>20, SkeyResponseSpends
<1> QED BY <1>0, <1>12, <1>18, <1>19, <1>21, <1>22 DEF ReachedNow, Reached

-----------------------------------------------------------------------------
(* FILL comes to the peer only, and the answer to the master only.         *)
LEMMA FillAtPeer ==
  ASSUME ReachedNow, NEW n \in Node, NEW r, IsHead(r, net[n]), r.type = "fill"
  PROVE  n = "B"
<1>1. Listed(net, query)
  BY DEF ReachedNow, Reached, Invariant
<1>2. PICK o \in Node : o = Peer(n) /\ Peer(o) = n
  BY Peers
<1>3. net[n] \in Seq(Messages) /\ net[n] # <<>> /\ r = Head(net[n])
  BY <1>1 DEF Listed, IsHead
<1>4. 1 \in 1 .. Len(net[Peer(o)]) /\ net[Peer(o)][1] = r /\ Request(net[Peer(o)][1])
  BY <1>2, <1>3, TailFacts DEF Request
<1>5. \E j \in 1 .. Len(query[o]) :
        j > Cardinality(Replies(net[o])) /\ query[o][j] = net[Peer(o)][1]
  <2>1. 1 \in 1 .. Len(net[Peer(o)]) /\ Request(net[Peer(o)][1])
    BY <1>4
  <2> QED BY <1>1, <2>1, CutClaims
<1>6. o # "B"
  BY <1>1, <1>4, <1>5 DEF Listed
<1> QED BY <1>2, <1>6, Peers DEF Node

(* What the peer accepts fits.                                             *)
LEMMA RoomTaken ==
  ASSUME NEW b, b.bits \in Nat, NEW i \in Nat, NEW j \in Nat,
         i = Few(j, IF Fits(b, 0) THEN Demand(b) \div MaxLen ELSE 0)
  PROVE  i = 0 \/ b.bits + MaxLen * i <= Mmax
<1>1. MaxLen \in Nat \ {0} /\ Mmax \in Nat
  BY BoundsNat
<1>2. SUFFICES ASSUME i # 0 PROVE b.bits + MaxLen * i <= Mmax
  OBVIOUS
<1>3. Fits(b, 0) /\ i <= Demand(b) \div MaxLen
  <2>1. CASE Fits(b, 0)
    <3>1. b.bits <= Mmax
      BY <1>1, <2>1 DEF Fits
    <3>2. PICK e \in Nat : e = Demand(b)
      BY <1>1, <3>1 DEF Demand
    <3>3. e \div MaxLen \in Nat
      BY <1>1
    <3> QED BY <2>1, <3>2, <3>3 DEF Few
  <2>2. CASE ~Fits(b, 0)
    BY <1>2, <2>2 DEF Few
  <2> QED BY <2>1, <2>2
<1>4. b.bits <= Mmax
  BY <1>1, <1>3 DEF Fits
<1>5. PICK e \in Nat : e = Mmax - b.bits
  BY <1>1, <1>4
<1>6. i <= e \div MaxLen
  BY <1>3, <1>5 DEF Demand
<1>7. PICK g \in Nat : g = e \div MaxLen
  BY <1>1
<1>8. MaxLen * g <= e
  BY <1>1, <1>7
<1>9. MaxLen * i <= MaxLen * g /\ MaxLen * i \in Nat /\ MaxLen * g \in Nat
  BY <1>6, <1>7, Multiples
<1> QED BY <1>1, <1>4, <1>5, <1>8, <1>9

(* FILL arrives.                                                           *)
LEMMA FillRequestReached ==
  ASSUME ReachedNow, NEW n \in Node, ProcessFillRequest(n)
  PROVE  ReachedNow'
<1>1. /\ Formed(stored, q, sb, net, query, served, fetched)
      /\ Invariant(stored, q, sb, net, query, served, fetched)
  BY DEF ReachedNow, Reached
<1>0. Spent(stored, q, sb, net, query, served) /\ Distinct(served)
  BY DEF ReachedNow, Reached
<1>2. /\ net = [m \in Node |-> net[m]] /\ sb = [m \in Node |-> sb[m]] /\ q = [m \in Node |-> q[m]]
      /\ \A m \in Node : sb[m] = [c \in Dir |-> sb[m][c]]
  BY <1>1 DEF Formed
<1>3. PICK r : IsHead(r, net[n]) /\ r.type = "fill"
  BY DEF ProcessFillRequest, Received, IsHead
<1>4. n = "B" /\ Peer(n) = "A"
  BY <1>3, FillAtPeer, Peers
<1>5. /\ r \in Messages /\ r.dir \in Dir /\ r.keys \in SUBSET KeyIds
      /\ \A k \in r.keys : Absent(sb, "B", k)
  <2>1. IsHead(r, net["B"]) /\ r.type = "fill"
    BY <1>3, <1>4
  <2> QED BY <1>1, <2>1, FillComes
<1>6. PICK d \in Dir : d = Other(r.dir)
  BY <1>5, Peers
<1>7. r = Head(net["B"])
  BY <1>3, <1>4 DEF IsHead
<1>8. PICK found : found = r.keys \cap q["B"].keys
  OBVIOUS
<1>9. PICK taken :
        /\ taken \in kSubset(Few(Cardinality(found),
              IF Fits(sb["B"][d], 0) THEN Demand(sb["B"][d]) \div MaxLen ELSE 0), found)
        /\ sb' = [sb EXCEPT !["B"][d] = Each(AcceptKey, sb["B"][d], taken)]
        /\ q' = [q EXCEPT !["B"] = QTake(q["B"], taken)]
        /\ Answer("B", [type |-> "filled", accepted |-> taken, rejected |-> found \ taken])
  BY <1>2, <1>4, <1>6, <1>7, <1>8, Peers DEF ProcessFillRequest
<1>10. taken \in SUBSET found /\ taken \in SUBSET KeyIds /\ found \in SUBSET KeyIds
  BY <1>5, <1>8, <1>9 DEF kSubset
<1>11. PICK i \in Nat, j \in Nat : i = Cardinality(taken) /\ j = Cardinality(found)
  <2>1. IsFiniteSet(taken) /\ IsFiniteSet(found)
    BY <1>10, KeyIdsFinite, FS_Subset
  <2> QED BY <2>1, FS_CardinalityType
<1>12. Sound(sb["B"][d])
  <2>1. Kept(sb["B"]["enc"]) /\ Kept(sb["B"]["dec"])
    BY <1>1, Peers DEF Invariant, Stocked
  <2> QED BY <2>1, Peers DEF Kept
<1>13. taken = {} \/ sb["B"][d].bits + MaxLen * Cardinality(taken) <= Mmax
  <2>1. PICK b : b = sb["B"][d]
    OBVIOUS
  <2>2. b.bits \in Nat
    BY <1>12, <2>1, SoundNat
  <2>3. i = Few(j, IF Fits(b, 0) THEN Demand(b) \div MaxLen ELSE 0)
    BY <1>9, <1>11, <2>1 DEF kSubset
  <2>4. i = 0 \/ b.bits + MaxLen * i <= Mmax
    BY <2>2, <2>3, RoomTaken
  <2>5. i = 0 => taken = {}
    BY <1>10, <1>11, KeyIdsFinite, FS_Subset, FS_EmptySet
  <2> QED BY <1>11, <2>1, <2>4, <2>5
<1>14. \A k \in taken : sb["B"][d].st[k] = "NONE"
  BY <1>5, <1>8, <1>10, Peers DEF Absent
<1>15. Sets(sb["B"][d], Each(AcceptKey, sb["B"][d], taken), taken, "READY", 0, MaxLen)
  BY <1>10, <1>12, <1>13, <1>14, AcceptAll
<1>16. PICK b, m, s : /\ b = Each(AcceptKey, sb["B"][d], taken) /\ s = QTake(q["B"], taken)
                      /\ m = [type |-> "filled", accepted |-> taken, rejected |-> found \ taken]
  OBVIOUS
<1>17. sb' = [sb EXCEPT !["B"][d] = b] /\ q' = [q EXCEPT !["B"] = s] /\ Answer("B", m)
  BY <1>9, <1>16
<1>18. PICK u, v : u = Tail(net["B"]) /\ v = Append(net["A"], m)
  OBVIOUS
<1>19. net' = [net EXCEPT !["B"] = u, !["A"] = v]
  BY <1>2, <1>17, <1>18, Peers DEF Answer
<1>20. /\ net' = [o \in Node |-> net'[o]] /\ net'["B"] = u /\ net'["A"] = v
       /\ q' = [o \in Node |-> q'[o]] /\ q'["B"] = s /\ q'["A"] = q["A"]
  BY <1>2, <1>17, <1>19, Peers
<1>21. /\ sb'["B"][d] = b /\ Only(sb, sb', "B", d)
       /\ sb' = [o \in Node |-> sb'[o]] /\ \A o \in Node : sb'[o] = [c \in Dir |-> sb'[o][c]]
  BY <1>17, OneBuffer, Peers
<1>22. stored' = stored /\ query' = query /\ served' = served /\ fetched' = fetched
  BY DEF ProcessFillRequest
<1>23. PICK bs2, nt2, qb2 : bs2 = sb' /\ nt2 = net' /\ qb2 = q'
  OBVIOUS
<1>24. Formed(stored, qb2, bs2, nt2, query, served, fetched)
  BY <1>1, <1>20, <1>21, <1>23 DEF Formed
<1>25. /\ Only(sb, bs2, "B", d) /\ Sets(sb["B"][d], bs2["B"][d], taken, "READY", 0, MaxLen)
       /\ qb2["B"] = QTake(q["B"], taken) /\ qb2["A"] = q["A"]
       /\ nt2["A"] = Append(net["A"], m) /\ nt2["B"] = Tail(net["B"])
  BY <1>15, <1>16, <1>18, <1>20, <1>21, <1>23
<1>26. /\ IsHead(r, net["B"]) /\ r.type = "fill"
       /\ taken \in SUBSET (r.keys \cap q["B"].keys)
       /\ m = [type |-> "filled", accepted |-> taken, rejected |-> (r.keys \cap q["B"].keys) \ taken]
  BY <1>3, <1>4, <1>8, <1>10, <1>16
<1>27. Invariant(stored, qb2, bs2, nt2, query, served, fetched)
  BY <1>1, <1>6, <1>25, <1>26, FillRequestKeeps
<1>28. Spent(stored, qb2, bs2, nt2, query, served)
  <2>1. taken \in SUBSET r.keys /\ m.type = "filled"
    BY <1>26
  <2>2. IsHead(r, net["B"]) /\ r.type = "fill" /\ d \in Dir
    BY <1>26
  <2> QED BY <1>0, <1>1, <1>25, <2>1, <2>2, FillRequestSpends
<1> QED BY <1>0, <1>22, <1>23, <1>24, <1>27, <1>28 DEF ReachedNow, Reached

-----------------------------------------------------------------------------
(* The first query of the master is the FILL that the answer is for.       *)
LEMMA FirstFill ==
  ASSUME NEW qs \in Seq(Messages), 1 \in 1 .. Len(qs), qs[1].type = "fill"
  PROVE  Min(FillQueries(qs)) = 1 /\ FillQueries(qs) # {} /\ SubSeq(qs, 2, Len(qs)) = Tail(qs)
<1>1. 1 \in FillQueries(qs) /\ FillQueries(qs) \subseteq Nat \ {0}
  BY DEF FillQueries
<1>2. \A y \in FillQueries(qs) : 1 <= y
  BY <1>1
<1>3. \A x \in FillQueries(qs) : (\A y \in FillQueries(qs) : x <= y) => x = 1
  BY <1>1
<1>4. Min(FillQueries(qs)) = 1
  BY <1>1, <1>2, <1>3 DEF Min
<1>5. SubSeq(qs, 2, Len(qs)) = Tail(qs)
  OBVIOUS
<1> QED BY <1>1, <1>4, <1>5

(* The answer to a FILL arrives.                                           *)
LEMMA FillResponseReached ==
  ASSUME ReachedNow, NEW n \in Node, ProcessFillResponse(n)
  PROVE  ReachedNow'
<1>1. /\ Formed(stored, q, sb, net, query, served, fetched)
      /\ Invariant(stored, q, sb, net, query, served, fetched)
  BY DEF ReachedNow, Reached
<1>0. Spent(stored, q, sb, net, query, served) /\ Distinct(served)
  BY DEF ReachedNow, Reached
<1>2. /\ net = [m \in Node |-> net[m]] /\ sb = [m \in Node |-> sb[m]] /\ q = [m \in Node |-> q[m]]
      /\ query = [m \in Node |-> query[m]]
      /\ \A m \in Node : sb[m] = [c \in Dir |-> sb[m][c]]
  BY <1>1 DEF Formed
<1>3. PICK a : IsHead(a, net[n]) /\ a.type = "filled"
  BY DEF ProcessFillResponse, Received, IsHead
<1>4. ~Request(a) /\ a = Head(net[n])
  BY <1>3 DEF Request, IsHead
<1>5. PICK r : r = query[n][1]
  OBVIOUS
<1>6. /\ IsHead(r, query[n]) /\ n = "A" /\ r.type = "fill"
      /\ 1 \in 1 .. Len(query[n]) /\ query[n] \in Seq(Messages)
  BY <1>3, <1>4, <1>5, AnswerQuery
<1>7. IsAnswered(a, r, net["A"], query["A"])
  BY <1>3, <1>6 DEF IsAnswered
<1>8. Settling(sb, net["A"], query["A"], a, r)
  BY <1>1, <1>7, FillAnswered
<1>9. /\ r.dir \in Dir /\ r.keys \in SUBSET KeyIds
      /\ a.accepted \cup a.rejected \subseteq r.keys /\ a.accepted \cap a.rejected = {}
      /\ \A k \in r.keys : sb["A"][r.dir].st[k] = "INIT"
  BY <1>8 DEF Settling
<1>10. /\ Min(FillQueries(query["A"])) = 1 /\ FillQueries(query["A"]) # {}
       /\ SubSeq(query["A"], 2, Len(query["A"])) = Tail(query["A"])
  BY <1>5, <1>6, FirstFill
<1>11. PICK d \in Dir : Towards(d, r)
  BY <1>9 DEF Towards
<1>12. d = r.dir
  BY <1>11 DEF Towards
<1>13. PICK b, s, u, v : /\ b = Settled(sb["A"][d], r, a) /\ s = Each(PutBack, q["A"], a.rejected)
                         /\ u = Tail(net["A"]) /\ v = Tail(query["A"])
  OBVIOUS
<1>14. /\ sb' = [sb EXCEPT !["A"][d] = b] /\ q' = [q EXCEPT !["A"] = s]
       /\ query' = [query EXCEPT !["A"] = v] /\ net' = [net EXCEPT !["A"] = u]
       /\ stored' = stored /\ served' = served /\ fetched' = fetched
  <2>1. PICK first : first = Min(FillQueries(query["A"]))
    OBVIOUS
  <2>2. first = 1
    BY <1>10, <2>1
  <2>3. /\ sb' = [sb EXCEPT !["A"][r.dir] = Settled(sb["A"][r.dir], r, a)]
        /\ q' = [q EXCEPT !["A"] = Each(PutBack, q["A"], a.rejected)]
        /\ query' = [query EXCEPT !["A"] = SubSeq(query["A"], first + 1, Len(query["A"]))]
        /\ net' = [net EXCEPT !["A"] = Tail(net["A"])]
    BY <1>2, <1>4, <1>5, <1>6, <1>9, <1>10, <2>1, <2>2 DEF ProcessFillResponse
  <2>4. SubSeq(query["A"], first + 1, Len(query["A"])) = v
    BY <1>10, <1>13, <2>2
  <2>5. /\ stored' = stored /\ served' = served /\ fetched' = fetched
    BY DEF ProcessFillResponse
  <2> QED BY <1>12, <1>13, <2>3, <2>4, <2>5
<1>15. /\ sb'["A"][d] = b /\ Only(sb, sb', "A", d)
       /\ sb' = [o \in Node |-> sb'[o]] /\ \A o \in Node : sb'[o] = [c \in Dir |-> sb'[o][c]]
  BY <1>14, OneBuffer, Peers
<1>16. /\ net' = [o \in Node |-> net'[o]] /\ net'["A"] = u /\ net'["B"] = net["B"]
       /\ q' = [o \in Node |-> q'[o]] /\ q'["A"] = s /\ q'["B"] = q["B"]
       /\ query' = [o \in Node |-> query'[o]] /\ query'["A"] = v /\ query'["B"] = query["B"]
  BY <1>2, <1>14, Peers
<1>17. Sound(sb["A"][d])
  <2>1. Kept(sb["A"]["enc"]) /\ Kept(sb["A"]["dec"])
    BY <1>1, Peers DEF Invariant, Stocked
  <2> QED BY <2>1, Peers DEF Kept
<1>18. SettlesAll(sb["A"][d], b, r.keys, a.accepted)
  <2>1. \A k \in r.keys : sb["A"][d].st[k] = "INIT"
    BY <1>9, <1>12
  <2>2. SettlesAll(sb["A"][d], Settled(sb["A"][d], r, a), r.keys, a.accepted)
    BY <1>9, <1>17, <2>1, SettledEffect
  <2> QED BY <1>13, <2>2
<1>19. /\ s \in [keys : SUBSET KeyIds, bits : Nat] /\ s.bits = q["A"].bits
       /\ q["A"].keys \subseteq s.keys /\ s.keys \subseteq q["A"].keys \cup a.rejected
  <2>1. q["A"] \in [keys : SUBSET KeyIds, bits : Nat]
    <3>1. /\ q["A"].keys \in SUBSET KeyIds /\ q["A"].bits \in Nat
          /\ q["A"] = [keys |-> q["A"].keys, bits |-> q["A"].bits]
      BY <1>1, Peers DEF Invariant, Banked
    <3> QED BY <3>1
  <2>2. a.rejected \in SUBSET KeyIds
    BY <1>9
  <2>3. LET x == Each(PutBack, q["A"], a.rejected)
         IN x \in [keys : SUBSET KeyIds, bits : Nat] /\ x.bits = q["A"].bits
            /\ q["A"].keys \subseteq x.keys /\ x.keys \subseteq q["A"].keys \cup a.rejected
    BY <2>1, <2>2, PutAll
  <2> QED BY <1>13, <2>3
<1>20. PICK bs2, nt2, qb2, qy2 : bs2 = sb' /\ nt2 = net' /\ qb2 = q' /\ qy2 = query'
  OBVIOUS
<1>21. Formed(stored, qb2, bs2, nt2, qy2, served, fetched)
  BY <1>1, <1>15, <1>16, <1>20 DEF Formed
<1>22. /\ Only(sb, bs2, "A", d) /\ SettlesAll(sb["A"][d], bs2["A"][d], r.keys, a.accepted)
       /\ qb2["B"] = q["B"] /\ qb2["A"] \in [keys : SUBSET KeyIds, bits : Nat]
       /\ qb2["A"].bits = q["A"].bits /\ q["A"].keys \subseteq qb2["A"].keys
       /\ qb2["A"].keys \subseteq q["A"].keys \cup a.rejected
       /\ nt2["A"] = Tail(net["A"]) /\ nt2["B"] = net["B"]
       /\ qy2["A"] = Tail(query["A"]) /\ qy2["B"] = query["B"]
  BY <1>13, <1>15, <1>16, <1>18, <1>19, <1>20
<1>23. Invariant(stored, qb2, bs2, nt2, qy2, served, fetched)
  BY <1>1, <1>7, <1>11, <1>22, FillResponseKeeps
<1>24. Spent(stored, qb2, bs2, nt2, qy2, served)
  BY <1>0, <1>1, <1>7, <1>11, <1>22, FillResponseSpends
<1> QED BY <1>0, <1>14, <1>20, <1>21, <1>23, <1>24 DEF ReachedNow, Reached

-----------------------------------------------------------------------------
(* enc_keys: the merge, the identifiers and the message.                   *)
LEMMA ServableFits ==
  ASSUME ReachedNow, NEW n \in Node, NEW r \in Requests, Servable(n, r)
  PROVE  /\ r.number \in Nat \ {0} /\ r.size \in Nat \ {0} /\ r.number * r.size \in Nat \ {0}
         /\ r.number * r.size <= sb[n]["enc"].bits /\ Full(sb[n]["enc"])
<1>1. r.number \in Nat \ {0} /\ r.size \in Nat \ {0}
  BY LinkAssumption
<1>2. Kept(sb[n]["enc"]) /\ \A s \in SupplyIds : sb[n]["enc"].supply[s] = {}
  BY DEF ReachedNow, Reached, Invariant, Stocked
<1>3. Full(sb[n]["enc"])
  BY <1>2 DEF Kept, Full
<1>4. r.number * r.size \in Nat \ {0}
  <2>1. PICK i \in Nat \ {0}, z \in Nat \ {0} : i = r.number /\ z = r.size
    BY <1>1
  <2>2. i * z \in (i - 1) * z + 1 .. i * z
    BY <2>1, PieceThere
  <2>3. PICK j \in Nat : j = i - 1
    BY <2>1
  <2>4. j * z \in Nat /\ i * z \in Nat
    BY <2>1, <2>3
  <2>5. PICK u \in Nat, v \in Nat : u = j * z /\ v = i * z
    BY <2>4
  <2>6. v \in u + 1 .. v
    BY <2>2, <2>3, <2>5
  <2>7. v \in Nat \ {0}
    BY <2>6
  <2> QED BY <2>1, <2>5, <2>7
<1>5. GetSBitCount(sb[n]["enc"]) <= sb[n]["enc"].bits
  <2>1. PICK b : b = sb[n]["enc"]
    OBVIOUS
  <2>2. b \in Buffer
    BY <1>2, <2>1, SoundNat DEF Kept
  <2>3. b.bits \in Nat /\ b.nrBits \in Nat
    BY <2>2 DEF Buffer
  <2> QED BY <2>1, <2>3 DEF GetSBitCount
<1>6. GetSBitCount(sb[n]["enc"]) \in Nat /\ sb[n]["enc"].bits \in Nat
  <2>1. PICK b : b = sb[n]["enc"]
    OBVIOUS
  <2>2. b \in Buffer
    BY <1>2, <2>1, SoundNat DEF Kept
  <2>3. b.bits \in Nat /\ b.nrBits \in Nat
    BY <2>2 DEF Buffer
  <2> QED BY <2>1, <2>3 DEF GetSBitCount
<1>7. r.number * r.size <= GetSBitCount(sb[n]["enc"])
  BY DEF Servable
<1> QED BY <1>1, <1>3, <1>4, <1>5, <1>6, <1>7

(* The message of enc_keys is well formed.                                 *)
LEMMA RequestMessage ==
  ASSUME NEW b, NEW m, NEW off, NEW total, Draws(b, m, off, total),
         NEW number \in Nat \ {0}, NEW size \in Nat \ {0}, NEW ids \in Uuids(number),
         NEW x, x = [type |-> "skey", ids |-> m.ids, supply |-> ids, size |-> size,
                     surplus |-> m.surplus],
         total = number * size
  PROVE  /\ x \in Messages /\ x.type = "skey" /\ x.size \in Nat \ {0}
         /\ x.supply \in Seq(SupplyIds)
         /\ \A i, j \in 1 .. Len(x.supply) : x.supply[i] = x.supply[j] => i = j
         /\ m.ids = x.ids /\ m.surplus = x.surplus /\ Total(x) = total
         /\ x.supply = ids /\ Len(x.supply) = number
<1>1. /\ ids \in [1 .. number -> {s \in SupplyIds : \A o \in Node : served[o][s] = {}}]
      /\ \A i, j \in 1 .. number : ids[i] = ids[j] => i = j
  BY DEF Uuids
<1>2. ids \in Seq(SupplyIds) /\ Len(ids) = number
  <2>1. ids \in [1 .. number -> SupplyIds]
    BY <1>1
  <2> QED BY <2>1
<1>3. m.ids \in Seq(KeyIds) /\ m.surplus \in SUBSET KeyIds
  <2>1. m.ids \in Seq(KeyIds) /\ \A k \in m.surplus : \E i \in 1 .. Len(m.ids) : m.ids[i] = k
    BY DEF Draws, Cuts
  <2>2. \A i \in 1 .. Len(m.ids) : m.ids[i] \in KeyIds
    BY <2>1
  <2> QED BY <2>1, <2>2
<1>4. x \in Messages
  BY <1>2, <1>3 DEF Messages, Message
<1>5. Total(x) = total
  BY <1>2 DEF Total
<1> QED BY <1>1, <1>2, <1>4, <1>5

(* What enc_keys notes as served under each identifier.                    *)
ServedNow(n, r, m, ids) ==
  [s \in SupplyIds |->
     IF \E i \in DOMAIN ids : ids[i] = s
       THEN Piece(m.cells, r.size, CHOOSE i \in DOMAIN ids : ids[i] = s)
       ELSE served[n][s]]

Carries(x, r, ids, number) == x.supply = ids /\ Len(x.supply) = number /\ x.size = r.size

(* The supply keys it names were served, and no other changes.             *)
LEMMA ServedPieces ==
  ASSUME NEW n \in Node, NEW r, NEW m, NEW number \in Nat \ {0}, NEW ids \in Uuids(number),
         NEW x, Carries(x, r, ids, number)
  PROVE  /\ Served(x, m.cells, ServedNow(n, r, m, ids))
         /\ \A s \in SupplyIds : ~Gives(x, s) => ServedNow(n, r, m, ids)[s] = served[n][s]
         /\ \A s : Gives(x, s) => s \in SupplyIds /\ served[n][s] = {}
<1>1. /\ ids \in [1 .. number -> {s \in SupplyIds : \A o \in Node : served[o][s] = {}}]
      /\ \A i, j \in 1 .. number : ids[i] = ids[j] => i = j
      /\ DOMAIN ids = 1 .. number
  BY DEF Uuids
<1>2. \A i \in 1 .. number : ids[i] \in SupplyIds /\ served[n][ids[i]] = {}
  BY <1>1
<1>3. ASSUME NEW i \in 1 .. number
      PROVE  ServedNow(n, r, m, ids)[ids[i]] = Piece(m.cells, r.size, i)
  <2>1. (CHOOSE j \in DOMAIN ids : ids[j] = ids[i]) = i
    BY <1>1, <1>3
  <2>2. \E j \in DOMAIN ids : ids[j] = ids[i]
    BY <1>1
  <2> QED BY <1>2, <2>1, <2>2 DEF ServedNow
<1>4. Served(x, m.cells, ServedNow(n, r, m, ids))
  BY <1>3 DEF Served, Carries
<1>5. \A s : Gives(x, s) <=> \E i \in DOMAIN ids : ids[i] = s
  BY <1>1 DEF Gives, Carries
<1>6. \A s \in SupplyIds : ~Gives(x, s) => ServedNow(n, r, m, ids)[s] = served[n][s]
  BY <1>5 DEF ServedNow
<1>7. \A s : Gives(x, s) => s \in SupplyIds /\ served[n][s] = {}
  BY <1>1, <1>2, <1>5
<1> QED BY <1>4, <1>6, <1>7

-----------------------------------------------------------------------------
(* enc_keys.                                                               *)
LEMMA EncReached ==
  ASSUME ReachedNow, NEW n \in Node, NEW r \in Requests, EncKeys(n, r)
  PROVE  ReachedNow'
<1>1. /\ Formed(stored, q, sb, net, query, served, fetched)
      /\ Invariant(stored, q, sb, net, query, served, fetched)
  BY DEF ReachedNow, Reached
<1>0. Spent(stored, q, sb, net, query, served) /\ Distinct(served)
  BY DEF ReachedNow, Reached
<1>2. /\ net = [o \in Node |-> net[o]] /\ sb = [o \in Node |-> sb[o]] /\ q = [o \in Node |-> q[o]]
      /\ query = [o \in Node |-> query[o]] /\ served = [o \in Node |-> served[o]]
      /\ \A o \in Node : sb[o] = [c \in Dir |-> sb[o][c]]
      /\ \A o \in Node : served[o] = [s \in SupplyIds |-> served[o][s]]
  BY <1>1 DEF Formed
<1>3. PICK m \in Merge[[need |-> r.number * r.size, buf |-> sb[n]["enc"]]], ids \in Uuids(r.number) :
        /\ served' = [served EXCEPT ![n] = ServedNow(n, r, m, ids)]
        /\ Finish(n, [sb[n] EXCEPT !["enc"] = m.buf], q[n],
                  <<[type |-> "skey", ids |-> m.ids, supply |-> ids, size |-> r.size,
                     surplus |-> m.surplus]>>)
  BY <1>2 DEF EncKeys, ServedNow
<1>4. Servable(n, r) /\ stored' = stored /\ fetched' = fetched
  BY DEF EncKeys
<1>5. /\ r.number \in Nat \ {0} /\ r.size \in Nat \ {0} /\ r.number * r.size \in Nat \ {0}
      /\ r.number * r.size <= sb[n]["enc"].bits /\ Full(sb[n]["enc"])
  BY <1>4, ServableFits
<1>6. PICK total \in Nat \ {0} : total = r.number * r.size
  BY <1>5
<1>7. PICK off : Draws(sb[n]["enc"], m, off, total)
  <2>1. PICK b : b = sb[n]["enc"]
    OBVIOUS
  <2>2. Full(b) /\ total <= b.bits /\ m \in Merge[[need |-> total, buf |-> b]]
    BY <1>3, <1>5, <1>6, <2>1
  <2>3. \E off : Draws(b, m, off, total)
    BY <2>2, MergeDraws
  <2> QED BY <2>1, <2>3
<1>8. PICK x : x = [type |-> "skey", ids |-> m.ids, supply |-> ids, size |-> r.size,
                    surplus |-> m.surplus]
  OBVIOUS
<1>9. PICK number \in Nat \ {0}, size \in Nat \ {0} : number = r.number /\ size = r.size
  BY <1>5
<1>10. /\ x \in Messages /\ x.type = "skey" /\ x.size \in Nat \ {0}
       /\ x.supply \in Seq(SupplyIds)
       /\ \A i, j \in 1 .. Len(x.supply) : x.supply[i] = x.supply[j] => i = j
       /\ m.ids = x.ids /\ m.surplus = x.surplus /\ Total(x) = total
       /\ x.supply = ids /\ Len(x.supply) = number
  <2>1. /\ ids \in Uuids(number) /\ total = number * size
        /\ x = [type |-> "skey", ids |-> m.ids, supply |-> ids, size |-> size, surplus |-> m.surplus]
    BY <1>3, <1>6, <1>8, <1>9
  <2> QED BY <1>7, <2>1, RequestMessage
<1>11. PICK g : g = ServedNow(n, r, m, ids)
  OBVIOUS
<1>12. /\ Served(x, m.cells, g)
       /\ \A s \in SupplyIds : ~Gives(x, s) => g[s] = served[n][s]
       /\ \A s : Gives(x, s) => s \in SupplyIds /\ served[n][s] = {}
       /\ g = [s \in SupplyIds |-> g[s]]
  <2>1. ids \in Uuids(number)
    BY <1>3, <1>9
  <2>2. Carries(x, r, ids, number)
    BY <1>8, <1>10 DEF Carries
  <2>3. /\ Served(x, m.cells, ServedNow(n, r, m, ids))
        /\ \A s \in SupplyIds : ~Gives(x, s) => ServedNow(n, r, m, ids)[s] = served[n][s]
        /\ \A s : Gives(x, s) => s \in SupplyIds /\ served[n][s] = {}
    BY <2>1, <2>2, ServedPieces
  <2>4. g = [s \in SupplyIds |-> g[s]]
    BY <1>11 DEF ServedNow
  <2> QED BY <1>11, <2>3, <2>4
<1>13. PICK sv2 : sv2 = served' /\ sv2 = [served EXCEPT ![n] = g]
  BY <1>3, <1>11
<1>14. /\ sv2[n] = g /\ sv2[Peer(n)] = served[Peer(n)] /\ sv2 = [o \in Node |-> sv2[o]]
       /\ \A o \in Node : sv2[o] = [s \in SupplyIds |-> sv2[o][s]]
  <2>1. /\ sv2[n] = g /\ (\A o \in Node : o # n => sv2[o] = served[o]) /\ sv2 = [o \in Node |-> sv2[o]]
    BY <1>2, <1>13
  <2>2. sv2[Peer(n)] = served[Peer(n)]
    BY <2>1, Peers
  <2>3. ASSUME NEW o \in Node PROVE sv2[o] = [s \in SupplyIds |-> sv2[o][s]]
    <3>1. CASE o = n
      BY <1>12, <2>1, <3>1
    <3>2. CASE o # n
      BY <1>2, <2>1, <3>2
    <3> QED BY <3>1, <3>2
  <2> QED BY <2>1, <2>2, <2>3
<1>15. PICK bufs, bs, nt, qy : /\ bufs = [sb[n] EXCEPT !["enc"] = m.buf]
                               /\ bs = [sb EXCEPT ![n] = bufs]
                               /\ nt = [net EXCEPT ![Peer(n)] = net[Peer(n)] \o <<x>>]
                               /\ qy = [query EXCEPT ![n] = query[n] \o <<x>>]
  OBVIOUS
<1>16. SoFar(n, bufs, q[n], <<x>>, q, bs, nt, qy)
  <2>1. q = [q EXCEPT ![n] = q[n]]
    BY <1>2
  <2> QED BY <1>15, <2>1 DEF SoFar
<1>17. Finish(n, bufs, q[n], <<x>>)
  BY <1>3, <1>8, <1>15
<1>18. /\ net[Peer(n)] \o <<x>> = Append(net[Peer(n)], x)
       /\ query[n] \o <<x>> = Append(query[n], x)
  <2>1. net[Peer(n)] \in Seq(Messages) /\ query[n] \in Seq(Messages) /\ x \in Messages
    BY <1>1, <1>10, Peers DEF Invariant, Listed
  <2> QED BY <2>1, AppendIsConcat
<1>19. /\ nt[n] = net[n] /\ nt[Peer(n)] = Append(net[Peer(n)], x) /\ nt = [o \in Node |-> nt[o]]
       /\ qy[n] = Append(query[n], x) /\ qy[Peer(n)] = query[Peer(n)] /\ qy = [o \in Node |-> qy[o]]
  <2>1. PICK u, v : u = Append(net[Peer(n)], x) /\ v = Append(query[n], x)
    OBVIOUS
  <2>2. nt = [net EXCEPT ![Peer(n)] = u] /\ qy = [query EXCEPT ![n] = v]
    BY <1>15, <1>18, <2>1
  <2>3. /\ nt[n] = net[n] /\ nt[Peer(n)] = u /\ nt = [o \in Node |-> nt[o]]
        /\ qy[n] = v /\ qy[Peer(n)] = query[Peer(n)] /\ qy = [o \in Node |-> qy[o]]
    BY <1>2, <2>2, Peers
  <2> QED BY <2>1, <2>3
<1>20. /\ bs[n]["enc"] = m.buf /\ Only(sb, bs, n, "enc") /\ bs = [o \in Node |-> bs[o]]
       /\ \A o \in Node : bs[o] = [c \in Dir |-> bs[o][c]]
  <2>1. PICK a, b : a = sb[n] /\ b = m.buf
    OBVIOUS
  <2>2. a = [c \in Dir |-> a[c]] /\ bufs = [a EXCEPT !["enc"] = b]
    BY <1>2, <1>15, <2>1
  <2>3. /\ bufs["enc"] = b /\ \A c \in Dir : c # "enc" => bufs[c] = a[c]
        /\ bufs = [c \in Dir |-> bufs[c]]
    BY <2>2, Peers
  <2>4. /\ bs[n] = bufs /\ \A o \in Node : o # n => bs[o] = sb[o]
        /\ bs = [o \in Node |-> bs[o]]
    BY <1>2, <1>15
  <2>5. Only(sb, bs, n, "enc")
    BY <2>1, <2>3, <2>4 DEF Only
  <2>6. \A o \in Node : bs[o] = [c \in Dir |-> bs[o][c]]
    BY <1>2, <2>3, <2>4
  <2> QED BY <2>1, <2>3, <2>4, <2>5, <2>6
<1>21. Formed(stored, q, bs, nt, qy, sv2, fetched)
  BY <1>1, <1>14, <1>19, <1>20 DEF Formed
<1>22. Invariant(stored, q, bs, nt, qy, sv2, fetched)
  <2>1. Serving(x, m, served[n], sv2[n])
    BY <1>10, <1>12, <1>14 DEF Serving
  <2>2. Draws(sb[n]["enc"], m, off, Total(x))
    BY <1>7, <1>10
  <2>3. Merges(n, x, m, sb, bs)
    BY <1>20, <2>2 DEF Merges
  <2>4. Sends(n, x, net, query, nt, qy)
    BY <1>19 DEF Sends
  <2>5. sv2[Peer(n)] = served[Peer(n)] /\ Invariant(stored, q, sb, net, query, served, fetched)
    BY <1>1, <1>14
  <2> QED BY <2>1, <2>3, <2>4, <2>5, EncServesKeeps
<1>25. Gave(n, x, m, served, sv2) /\ Draws(sb[n]["enc"], m, off, Total(x))
  <2>1. Serving(x, m, served[n], sv2[n])
    BY <1>10, <1>12, <1>14 DEF Serving
  <2> QED BY <1>7, <1>10, <1>14, <2>1 DEF Gave
<1>26. Spent(stored, q, bs, nt, qy, sv2)
  <2>1. Merges(n, x, m, sb, bs)
    BY <1>20, <1>25 DEF Merges
  <2>2. Sends(n, x, net, query, nt, qy)
    BY <1>19 DEF Sends
  <2> QED BY <1>0, <1>1, <1>25, <2>1, <2>2, ServeSpends
<1>27. Distinct(sv2)
  BY <1>0, <1>1, <1>25, ServeDistinct
<1>23. Reached(stored, q, bs, nt, qy, sv2, fetched)
  BY <1>21, <1>22, <1>26, <1>27 DEF Reached
<1>24. Reached(stored, q', sb', net', query', sv2, fetched)
  BY <1>1, <1>16, <1>17, <1>23, FinishKeeps
<1> QED BY <1>4, <1>13, <1>24 DEF ReachedNow

-----------------------------------------------------------------------------
(* The initial state.                                                      *)
LEMMA EmptyKept == Kept(EmptyBuffer)
<1> DEFINE b == EmptyBuffer
<1>3. /\ b.st = [k \in KeyIds |-> "NONE"]
      /\ b.lo = [k \in KeyIds |-> 0] /\ b.hi = [k \in KeyIds |-> 0]
      /\ b.supply = [s \in SupplyIds |-> {}]
      /\ b.bits = 0 /\ b.nrKeys = 0 /\ b.nrBits = 0 /\ b.failed = FALSE
  BY DEF EmptyBuffer
<1>4. b \in Buffer
  BY BoundsNat DEF EmptyBuffer, Buffer, KeyState
<1>5. ReadyCells(b) = {} /\ SupplyCells(b) = {} /\ NotReadyKeys(b) = {} /\ NotReadyCells(b) = {}
  BY <1>3 DEF ReadyCells, SupplyCells, NotReadyKeys, NotReadyCells, Held, Cell
<1>6. Cardinality({}) = 0
  BY FS_EmptySet
<1>1. Sound(EmptyBuffer) /\ ~EmptyBuffer.failed
  BY <1>3, <1>4, <1>5, <1>6 DEF Sound, Shaped, ReadyAmount
<1>2. \A k \in KeyIds : EmptyBuffer.st[k] = "NONE"
  BY DEF EmptyBuffer
<1> QED BY <1>1, <1>2 DEF Kept

(* The invariant holds at first.                                           *)
LEMMA InitReached ==
  ASSUME Init
  PROVE  ReachedNow
<1>1. /\ \A n \in Node : net[n] = <<>> /\ query[n] = <<>> /\ stored[n] = {}
      /\ \A n \in Node : q[n] = [keys |-> {}, bits |-> 0]
      /\ \A n \in Node, d \in Dir : sb[n][d] = EmptyBuffer
      /\ \A n \in Node, s \in SupplyIds : served[n][s] = {} /\ fetched[n][s] = {}
  BY DEF Init
<1>2. Formed(stored, q, sb, net, query, served, fetched)
  BY DEF Init, Formed
<1>3. \A n \in Node : net[n] = <<>> /\ net[Peer(n)] = <<>> /\ query[n] = <<>>
  BY <1>1, Peers
<1>4. /\ Len(<<>>) = 0 /\ <<>> \in Seq(Messages) /\ \A i : i \notin 1 .. Len(<<>>)
  OBVIOUS
<1>5. Listed(net, query)
  <2>1. Asks(<<>>) = {} /\ Replies(<<>>) = {}
    BY <1>4, PlacesFinite
  <2>2. Cardinality({}) = 0
    BY FS_EmptySet
  <2>3. PICK z : z = <<>>
    OBVIOUS
  <2>4. Len(z) = 0 /\ Asks(z) = {} /\ Replies(z) = {} /\ z \in Seq(Messages)
    BY <1>4, <2>1, <2>3
  <2>5. Len(z) = Cardinality(Replies(z)) + Cardinality(Asks(z))
    BY <2>2, <2>4
  <2>6. Matched(z, z, z)
    BY <2>4, <2>5 DEF Matched
  <2> QED BY <1>1, <1>3, <1>4, <2>3, <2>4, <2>6, Peers DEF Listed
<1>6. \A k \in KeyIds : EmptyBuffer.st[k] = "NONE"
  BY DEF EmptyBuffer
<1>7. \A s \in SupplyIds : EmptyBuffer.supply[s] = {}
  BY DEF EmptyBuffer
<1>8. \A n \in Node : sb[n]["enc"] = EmptyBuffer /\ sb[n]["dec"] = EmptyBuffer
                      /\ sb[Peer(n)]["dec"] = EmptyBuffer
  BY <1>1, Peers
<1>9. Stocked(sb)
  BY <1>7, <1>8, EmptyKept DEF Stocked
<1>10. Banked(stored, q)
  <2>1. MaxLen * Cardinality({}) = 0 /\ QMax \in Nat
    BY FS_EmptySet, BoundsNat, LinkAssumption
  <2>2. q["A"] = [keys |-> {}, bits |-> 0] /\ q["B"] = [keys |-> {}, bits |-> 0]
    BY <1>1, Peers
  <2> QED BY <1>1, <2>1, <2>2 DEF Banked
<1>11. Claimed(sb, query)
  BY <1>1, <1>4, <1>6 DEF Claimed
<1>12. Located(stored, q, sb)
  BY <1>6, <1>8, Peers DEF Located, Absent
<1>13. Filling(sb, net, query)
  BY <1>1, <1>4, Peers DEF Filling, AcceptedAt
<1>14. Typed(served, fetched)
  BY <1>1 DEF Typed
<1>15. ASSUME NEW n \in Node
       PROVE  Direction(sb[n]["enc"], sb[Peer(n)]["dec"], net[Peer(n)], query[n], served[n], fetched[Peer(n)])
  <2>1. PICK e, out : e = EmptyBuffer /\ out = <<>>
    OBVIOUS
  <2>2. \A i : i \notin 1 .. Len(out)
    BY <1>4, <2>1
  <2>3. \A k \in KeyIds : e.st[k] = "NONE"
    BY <1>6, <2>1
  <2>4. Mirrored(e, e) /\ Announced(e, e, out)
    BY <2>3 DEF Mirrored, Announced
  <2>5. Sending(e, e, out, served[n]) /\ Waiting(e, out) /\ Apart(out) /\ Cutting(e, e, out, out)
    BY <2>2 DEF Sending, Waiting, Apart, Cutting
  <2>6. Supplied(e, served[n], fetched[Peer(n)])
    BY <1>1, <1>7, <2>1, Peers DEF Supplied
  <2>7. Direction(e, e, out, out, served[n], fetched[Peer(n)])
    BY <2>4, <2>5, <2>6 DEF Direction
  <2> QED BY <1>3, <1>8, <2>1, <2>7
<1>16. Spent(stored, q, sb, net, query, served) /\ Distinct(served)
  BY <1>1 DEF Spent, Out, Distinct
<1> QED BY <1>2, <1>5, <1>9, <1>10, <1>11, <1>12, <1>13, <1>14, <1>15, <1>16
        DEF ReachedNow, Reached, Invariant

(* Each step keeps it.                                                     *)
LEMMA NextReached ==
  ASSUME ReachedNow, [Next]_vars
  PROVE  ReachedNow'
<1>1. CASE Deliver
  BY <1>1, FillRequestReached, FillResponseReached, SkeyRequestReached, SkeyResponseReached DEF Deliver
<1>2. CASE Call
  <2>1. PICK n \in Node :
          \/ \E k \in KeyIds : StoreKeyRequest(n, k)
          \/ \E r \in Requests : EncKeys(n, r) \/ EncKeysRefused(n, r)
          \/ \E ids \in SUBSET {s \in SupplyIds : served[Peer(n)][s] # {}} : DecKeys(n, ids)
    BY <1>2 DEF Call
  <2>2. ASSUME NEW k \in KeyIds, StoreKeyRequest(n, k) PROVE ReachedNow'
    BY <2>2, StoreKeyReached
  <2>3. ASSUME NEW r \in Requests, EncKeys(n, r) PROVE ReachedNow'
    BY <2>3, EncReached
  <2>4. ASSUME NEW r \in Requests, EncKeysRefused(n, r) PROVE ReachedNow'
    BY <2>4, RefusedReached
  <2>5. ASSUME NEW ids \in SUBSET {s \in SupplyIds : served[Peer(n)][s] # {}}, DecKeys(n, ids)
        PROVE  ReachedNow'
    BY <2>5, DecReached
  <2> QED BY <2>1, <2>2, <2>3, <2>4, <2>5
<1>3. CASE UNCHANGED vars
  BY <1>3 DEF vars, ReachedNow
<1> QED BY <1>1, <1>2, <1>3 DEF Next

-----------------------------------------------------------------------------
(* So it always holds.                                                     *)
LEMMA AlwaysReached == Spec => []ReachedNow
<1>1. Init => ReachedNow
  BY InitReached
<1>2. ReachedNow /\ [Next]_vars => ReachedNow'
  BY NextReached
<1> QED BY <1>1, <1>2, PTL DEF Spec

(* It contains the types of the state.                                     *)
LEMMA ReachedTyped ==
  ASSUME ReachedNow
  PROVE  TypeOK
<1>1. /\ Formed(stored, q, sb, net, query, served, fetched)
      /\ Listed(net, query) /\ Stocked(sb) /\ Banked(stored, q) /\ Typed(served, fetched)
  BY DEF ReachedNow, Reached, Invariant
<1>2. stored \in [Node -> SUBSET KeyIds]
  <2>1. stored = [n \in Node |-> stored[n]] /\ \A n \in Node : stored[n] \in SUBSET KeyIds
    BY <1>1 DEF Formed, Banked
  <2> QED BY <2>1
<1>3. q \in [Node -> [keys : SUBSET KeyIds, bits : 0 .. QMax]]
  <2>1. ASSUME NEW n \in Node PROVE q[n] \in [keys : SUBSET KeyIds, bits : 0 .. QMax]
    <3>1. /\ q[n].keys \in SUBSET KeyIds /\ q[n] = [keys |-> q[n].keys, bits |-> q[n].bits]
          /\ q[n].bits \in Nat /\ q[n].bits <= QMax
      BY <1>1 DEF Banked
    <3>2. q[n].bits \in 0 .. QMax
      BY <3>1, LinkAssumption
    <3> QED BY <3>1, <3>2
  <2>2. q = [n \in Node |-> q[n]]
    BY <1>1 DEF Formed
  <2> QED BY <2>1, <2>2
<1>4. sb \in [Node -> [Dir -> Buffer]]
  <2>1. ASSUME NEW n \in Node PROVE sb[n] \in [Dir -> Buffer]
    <3>1. Sound(sb[n]["enc"]) /\ Sound(sb[n]["dec"])
      BY <1>1 DEF Stocked, Kept
    <3>2. sb[n]["enc"] \in Buffer /\ sb[n]["dec"] \in Buffer
      BY <3>1, SoundNat
    <3>3. sb[n] = [d \in Dir |-> sb[n][d]]
      BY <1>1 DEF Formed
    <3> QED BY <3>2, <3>3, Peers
  <2>2. sb = [n \in Node |-> sb[n]]
    BY <1>1 DEF Formed
  <2> QED BY <2>1, <2>2
<1>5. \A n \in Node : net[n] \in Seq(Message) /\ query[n] \in Seq(Message)
  <2>1. \A n \in Node : net[n] \in Seq(Messages) /\ query[n] \in Seq(Messages)
    BY <1>1 DEF Listed
  <2>2. Messages \subseteq Message
    BY DEF Messages
  <2> QED BY <2>1, <2>2
<1>6. served \in [Node -> [SupplyIds -> SUBSET Cell]]
  <2>1. /\ served = [n \in Node |-> served[n]]
        /\ \A n \in Node : served[n] = [s \in SupplyIds |-> served[n][s]]
        /\ \A n \in Node, s \in SupplyIds : served[n][s] \in SUBSET Cell
    BY <1>1 DEF Formed, Typed
  <2>2. ASSUME NEW n \in Node PROVE served[n] \in [SupplyIds -> SUBSET Cell]
    <3>1. PICK f : f = served[n]
      OBVIOUS
    <3>2. f = [s \in SupplyIds |-> f[s]] /\ \A s \in SupplyIds : f[s] \in SUBSET Cell
      BY <2>1, <3>1
    <3> QED BY <3>1, <3>2
  <2> QED BY <2>1, <2>2
<1>7. fetched \in [Node -> [SupplyIds -> SUBSET Cell]]
  <2>1. /\ fetched = [n \in Node |-> fetched[n]]
        /\ \A n \in Node : fetched[n] = [s \in SupplyIds |-> fetched[n][s]]
        /\ \A n \in Node, s \in SupplyIds : fetched[n][s] \in SUBSET Cell
    BY <1>1 DEF Formed, Typed
  <2>2. ASSUME NEW n \in Node PROVE fetched[n] \in [SupplyIds -> SUBSET Cell]
    <3>1. PICK f : f = fetched[n]
      OBVIOUS
    <3>2. f = [s \in SupplyIds |-> f[s]] /\ \A s \in SupplyIds : f[s] \in SUBSET Cell
      BY <2>1, <3>1
    <3> QED BY <3>1, <3>2
  <2> QED BY <2>1, <2>2
<1> QED BY <1>2, <1>3, <1>4, <1>5, <1>6, <1>7 DEF TypeOK

(* No KMS of the link is ever stopped: no assertion of the buffers fails,  *)
(* no merge misses material, no key of a FILL or a SKEY_CREATE is missing, *)
(* and no answer finds a query it does not fit; and the QBuffer's account  *)
(* never goes below zero.                                                  *)
THEOREM NoFailureHolds == Spec => []NoFailure
<1>1. ReachedNow => NoFailure
  <2>1. SUFFICES ASSUME ReachedNow PROVE NoFailure
    OBVIOUS
  <2>2. Stocked(sb)
    BY <2>1 DEF ReachedNow, Reached, Invariant
  <2>3. \A n \in Node : Running(n)
    BY <2>2, Peers DEF Running, Stocked, Kept
  <2>4. TypeOK
    BY <2>1, ReachedTyped
  <2> QED BY <2>3, <2>4 DEF NoFailure
<1> QED BY <1>1, AlwaysReached, PTL

(* A key that enc_keys may serve is in the peer's "dec" and cut at the     *)
(* same place: what SKEY_CREATE names will be there.                       *)
THEOREM MirrorHolds == Spec => []Mirror
<1>1. ReachedNow => Mirror
  BY DEF ReachedNow, Reached, Invariant, Direction, Mirrored, Mirror, Held
<1> QED BY <1>1, AlwaysReached, PTL

(* dec_keys gives for an identifier what enc_keys gave at the peer.        *)
THEOREM KeysAgreeHolds == Spec => []KeysAgree
<1>1. ReachedNow => KeysAgree
  <2>1. SUFFICES ASSUME ReachedNow, NEW n \in Node, NEW s \in SupplyIds
                 PROVE  fetched[n][s] \in {{}, served[Peer(n)][s]}
    BY DEF KeysAgree
  <2>2. PICK m \in Node : m = Peer(n) /\ Peer(m) = n
    BY Peers
  <2>3. Direction(sb[m]["enc"], sb[Peer(m)]["dec"], net[Peer(m)], query[m], served[m], fetched[Peer(m)])
    BY <2>1 DEF ReachedNow, Reached, Invariant
  <2>4. fetched[Peer(m)][s] \in {{}, served[m][s]}
    BY <2>3 DEF Direction, Supplied
  <2> QED BY <2>2, <2>4
<1> QED BY <1>1, AlwaysReached, PTL

(* Answers without a number meet the queries they are for, and a reserved  *)
(* key always has its answer coming.                                       *)
THEOREM AnswersMatchHolds == Spec => []AnswersMatch
<1>1. ReachedNow => AnswersMatch
  <2>1. SUFFICES ASSUME ReachedNow PROVE AnswersMatch
    OBVIOUS
  <2>2. Listed(net, query) /\ Claimed(sb, query)
    BY <2>1 DEF ReachedNow, Reached, Invariant
  <2>3. ReservedAsked
    <3>1. SUFFICES ASSUME NEW n \in Node, NEW d \in Dir, NEW k \in KeyIds, sb[n][d].st[k] = "INIT"
                   PROVE  \E i \in DOMAIN query[n] :
                            LET r == query[n][i]
                            IN IF r.type = "fill" THEN r.dir = d /\ k \in r.keys
                                                  ELSE d = "enc" /\ k \in r.surplus
      BY DEF ReservedAsked
    <3>2. PICK i \in 1 .. Len(query[n]) : k \in Claims(query[n][i], d)
      BY <2>2, <3>1 DEF Claimed
    <3>3. query[n] \in Seq(Messages)
      BY <2>2 DEF Listed
    <3>4. i \in DOMAIN query[n]
      BY <3>3
    <3> QED BY <3>2, <3>4 DEF Claims
  <2>4. \A n \in Node : Matched(net[n], net[Peer(n)], query[n])
    BY <2>2 DEF Listed
  <2> QED BY <2>3, <2>4 DEF AnswersMatch, Matched
<1> QED BY <1>1, AlwaysReached, PTL

(* Key material is served once: no unit of a key of the link is given out  *)
(* under two identifiers, by one KMS or by the two, whatever is filled,    *)
(* cut, split, rejected and put back meanwhile.                            *)
THEOREM ServedOnceHolds == Spec => []ServedOnce
<1>1. ReachedNow => ServedOnce
  BY DEF ReachedNow, Reached, Distinct, ServedOnce
<1> QED BY <1>1, AlwaysReached, PTL

=============================================================================
