--------------------------- MODULE CMWriteProofs ---------------------------
(***************************************************************************)
(* Proofs about CMWrite: what is on the wire and in the queue is what was  *)
(* accepted, the connection is the byte stream its writers were promised,  *)
(* and nobody who waits for the pending write is forgotten.                *)
(***************************************************************************)
EXTENDS CMWrite, ListLemmas
-----------------------------------------------------------------------------
(* Taking from and dropping of sequences.                                  *)
LEMMA TakeType ==
  ASSUME NEW S, NEW s \in Seq(S), NEW n \in 0 .. Len(s)
  PROVE  /\ Take(s, n) \in Seq(S) /\ Len(Take(s, n)) = n
         /\ \A i \in 1 .. n : Take(s, n)[i] = s[i]
<1> DEFINE l == Len(s)
<1>1. l \in Nat /\ \A i \in 1 .. l : s[i] \in S
  OBVIOUS
<1> HIDE DEF l
<1>2. n \in Int /\ 1 \in Int /\ n <= l /\ n >= 0
  BY <1>1 DEF l
<1>3. \A i \in 1 .. n : s[i] \in S
  BY <1>1, <1>2
<1>4. /\ SubSeq(s, 1, n) \in Seq(S)
      /\ Len(SubSeq(s, 1, n)) = IF 1 <= n THEN n - 1 + 1 ELSE 0
      /\ \A i \in 1 .. n - 1 + 1 : SubSeq(s, 1, n)[i] = s[1 + i - 1]
  BY <1>2, <1>3, SubSeqProperties
<1>5. (IF 1 <= n THEN n - 1 + 1 ELSE 0) = n /\ n - 1 + 1 = n /\ \A i \in 1 .. n : 1 + i - 1 = i
  BY <1>2
<1> QED BY <1>4, <1>5 DEF Take

LEMMA DropType ==
  ASSUME NEW S, NEW s \in Seq(S), NEW n \in 0 .. Len(s)
  PROVE  /\ Drop(s, n) \in Seq(S) /\ Len(Drop(s, n)) = Len(s) - n
         /\ \A i \in 1 .. Len(s) - n : Drop(s, n)[i] = s[n + i]
<1> DEFINE l == Len(s)
<1>1. l \in Nat /\ \A i \in 1 .. l : s[i] \in S
  OBVIOUS
<1> HIDE DEF l
<1>2. n + 1 \in Int /\ l \in Int /\ n <= l /\ n >= 0 /\ n \in Int
  BY <1>1 DEF l
<1>3. \A i \in n + 1 .. l : s[i] \in S
  BY <1>1, <1>2
<1>4. /\ SubSeq(s, n + 1, l) \in Seq(S)
      /\ Len(SubSeq(s, n + 1, l)) = IF n + 1 <= l THEN l - (n + 1) + 1 ELSE 0
      /\ \A i \in 1 .. l - (n + 1) + 1 : SubSeq(s, n + 1, l)[i] = s[(n + 1) + i - 1]
  BY <1>2, <1>3, SubSeqProperties
<1>5. /\ (IF n + 1 <= l THEN l - (n + 1) + 1 ELSE 0) = l - n /\ l - (n + 1) + 1 = l - n
      /\ \A i \in 1 .. l - n : (n + 1) + i - 1 = n + i
  BY <1>2
<1> QED BY <1>4, <1>5 DEF Drop, l

LEMMA TakeDrop ==
  ASSUME NEW S, NEW s \in Seq(S), NEW n \in 0 .. Len(s)
  PROVE  Take(s, n) \o Drop(s, n) = s
<1>1. Len(s) \in Nat
  OBVIOUS
<1>2. 1 \in 1 .. Len(s) + 1 /\ n \in 1 - 1 .. Len(s) /\ Len(s) \in n .. Len(s)
  BY <1>1
<1>3. SubSeq(s, 1, n) \o SubSeq(s, n + 1, Len(s)) = SubSeq(s, 1, Len(s))
  BY <1>2, ConcatAdjacentSubSeq
<1> QED BY <1>3, SubSeqFull DEF Take, Drop

LEMMA DropAll ==
  ASSUME NEW S, NEW s \in Seq(S), NEW n \in Nat, n = Len(s)
  PROVE  Drop(s, n) = <<>>
<1>1. n \in Int /\ n + 1 \in Int /\ n < n + 1
  OBVIOUS
<1>2. SubSeq(s, n + 1, n) = <<>>
  BY <1>1, SubSeqEmpty
<1> QED BY <1>2 DEF Drop

(* What is taken of a part and of two parts. *)
LEMMA TakeOfConcat ==
  ASSUME NEW S, NEW a \in Seq(S), NEW b \in Seq(S), NEW k \in 0 .. Len(b)
  PROVE  /\ Len(a) + k \in 0 .. Len(a \o b)
         /\ Take(a \o b, Len(a) + k) = a \o Take(b, k)
<1> DEFINE l == Len(a)
           s == a \o b
           t == Take(b, k)
<1>1. /\ l \in Nat /\ k \in Nat /\ k <= Len(b) /\ Len(b) \in Nat
      /\ s \in Seq(S) /\ Len(s) = l + Len(b)
      /\ \A i \in 1 .. l + Len(b) : s[i] = IF i <= l THEN a[i] ELSE b[i - l]
  BY ConcatProperties
<1>2. t \in Seq(S) /\ Len(t) = k /\ \A i \in 1 .. k : t[i] = b[i]
  BY TakeType
<1>3. /\ a \o t \in Seq(S) /\ Len(a \o t) = l + k
      /\ \A i \in 1 .. l + k : (a \o t)[i] = IF i <= l THEN a[i] ELSE t[i - l]
  <2>1. t \in Seq(S) /\ Len(t) = k /\ Len(a) = l
    BY <1>2
  <2> HIDE DEF s, t, l
  <2> QED BY <2>1, ConcatProperties
<1> HIDE DEF s, t, l
<1>4. l + k \in 0 .. Len(s)
  BY <1>1
<1>5. /\ Take(s, l + k) \in Seq(S) /\ Len(Take(s, l + k)) = l + k
      /\ \A i \in 1 .. l + k : Take(s, l + k)[i] = s[i]
  BY <1>1, <1>4, TakeType
<1>6. ASSUME NEW i \in 1 .. l + k PROVE Take(s, l + k)[i] = (a \o t)[i]
  <2>1. i \in 1 .. l + Len(b) /\ (~(i <= l) => i - l \in 1 .. k)
    BY <1>1
  <2> QED BY <2>1, <1>1, <1>2, <1>3, <1>5
<1>7. Take(s, l + k) = a \o t
  BY <1>3, <1>5, <1>6, SeqEqual
<1> QED BY <1>4, <1>7 DEF s, t, l

LEMMA TakeOfFirst ==
  ASSUME NEW S, NEW a \in Seq(S), NEW b \in Seq(S), NEW k \in 0 .. Len(a)
  PROVE  Take(a \o b, k) = Take(a, k)
<1> DEFINE l == Len(a)
           s == a \o b
<1>1. /\ l \in Nat /\ k \in Nat /\ k <= l /\ Len(b) \in Nat
      /\ s \in Seq(S) /\ Len(s) = l + Len(b)
      /\ \A i \in 1 .. l + Len(b) : s[i] = IF i <= l THEN a[i] ELSE b[i - l]
  BY ConcatProperties
<1>2. Take(a, k) \in Seq(S) /\ Len(Take(a, k)) = k /\ \A i \in 1 .. k : Take(a, k)[i] = a[i]
  BY TakeType
<1> HIDE DEF s, l
<1>3. k \in 0 .. Len(s)
  BY <1>1
<1>4. Take(s, k) \in Seq(S) /\ Len(Take(s, k)) = k /\ \A i \in 1 .. k : Take(s, k)[i] = s[i]
  BY <1>1, <1>3, TakeType
<1>5. ASSUME NEW i \in 1 .. k PROVE Take(s, k)[i] = Take(a, k)[i]
  BY <1>1, <1>2, <1>4
<1>6. Take(s, k) = Take(a, k)
  BY <1>2, <1>4, <1>5, SeqEqual
<1> QED BY <1>6 DEF s

(* The sequence before, at and after a place. *)
LEMMA SubSeqType ==
  ASSUME NEW S, NEW s \in Seq(S), NEW i \in 1 .. Len(s) + 1, NEW j \in 0 .. Len(s)
  PROVE  /\ SubSeq(s, i, j) \in Seq(S)
         /\ Len(SubSeq(s, i, j)) = IF i <= j THEN j - i + 1 ELSE 0
         /\ \A h \in 1 .. j - i + 1 : SubSeq(s, i, j)[h] = s[i + h - 1]
<1> DEFINE l == Len(s)
<1>1. l \in Nat /\ \A h \in 1 .. l : s[h] \in S
  OBVIOUS
<1> HIDE DEF l
<1>2. i \in Int /\ j \in Int /\ i >= 1 /\ j <= l
  BY <1>1 DEF l
<1>3. \A h \in i .. j : s[h] \in S
  BY <1>1, <1>2
<1> QED BY <1>2, <1>3, SubSeqProperties

LEMMA FlattenFrom ==
  ASSUME NEW S, NEW v \in Seq(Seq(S)), NEW i \in 1 .. Len(v)
  PROVE  /\ v[i] \in Seq(S)
         /\ FlattenSeq(SubSeq(v, i + 1, Len(v))) \in Seq(S)
         /\ FlattenSeq(SubSeq(v, i, Len(v))) = v[i] \o FlattenSeq(SubSeq(v, i + 1, Len(v)))
<1> DEFINE t == SubSeq(v, i + 1, Len(v))
<1>1. Len(v) \in Nat /\ v[i] \in Seq(S) /\ Len(v) \in i .. Len(v)
  OBVIOUS
<1>2. t \in Seq(Seq(S))
  <2>1. i + 1 \in 1 .. Len(v) + 1 /\ Len(v) \in 0 .. Len(v)
    BY <1>1
  <2> QED BY <2>1, SubSeqType
<1>3. SubSeq(v, i, Len(v)) = <<v[i]>> \o t
  BY <1>1, SubSeqRecursiveFirst
<1> HIDE DEF t
<1>4. <<v[i]>> \in Seq(Seq(S))
  BY <1>1
<1>5. FlattenSeq(<<v[i]>> \o t) = FlattenSeq(<<v[i]>>) \o FlattenSeq(t)
  BY <1>2, <1>4, FlattenConcat
<1>6. FlattenSeq(<<v[i]>>) = v[i] /\ FlattenSeq(t) \in Seq(S)
  BY <1>1, <1>2, FlattenOne, FlattenType
<1> QED BY <1>1, <1>3, <1>5, <1>6 DEF t

LEMMA FlattenSplit ==
  ASSUME NEW S, NEW v \in Seq(Seq(S)), NEW i \in 1 .. Len(v)
  PROVE  /\ FlattenSeq(SubSeq(v, 1, i - 1)) \in Seq(S)
         /\ FlattenSeq(v) = FlattenSeq(SubSeq(v, 1, i - 1)) \o
                              (v[i] \o FlattenSeq(SubSeq(v, i + 1, Len(v))))
<1> DEFINE a == SubSeq(v, 1, i - 1)
           b == SubSeq(v, i, Len(v))
<1>1. Len(v) \in Nat /\ i \in Nat /\ i >= 1 /\ i <= Len(v)
  OBVIOUS
<1>2. a \in Seq(Seq(S)) /\ b \in Seq(Seq(S))
  <2>1. 1 \in 1 .. Len(v) + 1 /\ i - 1 \in 0 .. Len(v) /\ i \in 1 .. Len(v) + 1 /\ Len(v) \in 0 .. Len(v)
    BY <1>1
  <2> QED BY <2>1, SubSeqType
<1>3. a \o b = v
  <2>1. 1 \in 1 .. Len(v) + 1 /\ i - 1 \in 1 - 1 .. Len(v) /\ Len(v) \in i - 1 .. Len(v) /\ (i - 1) + 1 = i
    BY <1>1
  <2>2. a \o SubSeq(v, (i - 1) + 1, Len(v)) = SubSeq(v, 1, Len(v))
    BY <2>1, ConcatAdjacentSubSeq
  <2> QED BY <2>1, <2>2, SubSeqFull
<1> HIDE DEF a, b
<1>4. FlattenSeq(v) = FlattenSeq(a) \o FlattenSeq(b) /\ FlattenSeq(a) \in Seq(S)
  BY <1>2, <1>3, FlattenConcat, FlattenType
<1>5. FlattenSeq(b) = v[i] \o FlattenSeq(SubSeq(v, i + 1, Len(v)))
  BY FlattenFrom DEF b
<1> QED BY <1>4, <1>5 DEF a
-----------------------------------------------------------------------------
(* Messages and their pieces.                                              *)
LEMMA LengthsType ==
  ASSUME NEW m \in Messages
  PROVE  /\ Lengths(m) \in Seq(Nat) /\ Len(Lengths(m)) \in Nat /\ Len(Lengths(m)) >= 2
         /\ Lengths(m)[1] = HeaderLength
         /\ m \in WithAttrs => Len(Lengths(m)) >= 3 /\ Lengths(m)[2] = AttrLength
<1>1. /\ HeaderLength \in Nat /\ AttrLength \in Nat
      /\ DataLengths \in Seq(Nat) /\ Len(DataLengths) \in Nat /\ Len(DataLengths) > 0
  BY WriteAssumption
<1> DEFINE a == IF m \in WithAttrs THEN <<AttrLength>> ELSE <<>>
           h == <<HeaderLength>> \o a
<1>2. h \in Seq(Nat) /\ Len(h) >= 1 /\ Len(h) \in Nat /\ h[1] = HeaderLength
      /\ (m \in WithAttrs => Len(h) = 2 /\ h[2] = AttrLength)
  <2>1. CASE m \in WithAttrs
    <3>1. h = <<HeaderLength>> \o <<AttrLength>>
      BY <2>1
    <3> DEFINE x == <<HeaderLength>>
               y == <<AttrLength>>
    <3>2. /\ x \in Seq(Nat) /\ Len(x) = 1 /\ x[1] = HeaderLength
          /\ y \in Seq(Nat) /\ Len(y) = 1 /\ y[1] = AttrLength
      BY <1>1
    <3> HIDE DEF x, y
    <3>3. /\ x \o y \in Seq(Nat) /\ Len(x \o y) = 2
          /\ \A i \in 1 .. 2 : (x \o y)[i] = IF i <= 1 THEN x[i] ELSE y[i - 1]
      BY <3>2, ConcatProperties, SMTT(60)
    <3>4. (x \o y)[1] = HeaderLength /\ (x \o y)[2] = AttrLength
      BY <3>2, <3>3
    <3>5. h = x \o y
      BY <3>1 DEF x, y
    <3> QED BY <3>3, <3>4, <3>5
  <2>2. CASE m \notin WithAttrs
    <3>1. <<HeaderLength>> \in Seq(Nat)
      BY <1>1
    <3>2. h = <<HeaderLength>>
      BY <2>2, <3>1, ConcatEmptySeq
    <3> QED BY <1>1, <2>2, <3>2
  <2> QED BY <2>1, <2>2
<1>3. Lengths(m) = h \o DataLengths
  BY DEF Lengths
<1> HIDE DEF h
<1>4. /\ h \o DataLengths \in Seq(Nat) /\ Len(h \o DataLengths) = Len(h) + Len(DataLengths)
      /\ \A i \in 1 .. Len(h) + Len(DataLengths) :
           (h \o DataLengths)[i] = IF i <= Len(h) THEN h[i] ELSE DataLengths[i - Len(h)]
  BY <1>1, <1>2, ConcatProperties
<1>5. 1 \in 1 .. Len(h) + Len(DataLengths) /\ (Len(h) = 2 => 2 \in 1 .. Len(h) + Len(DataLengths))
  BY <1>1, <1>2
<1> QED BY <1>1, <1>2, <1>3, <1>4, <1>5

LEMMA VectorType ==
  ASSUME NEW m \in Messages
  PROVE  /\ Vector(m) \in Seq(Seq(Byte))
         /\ Len(Vector(m)) = Len(Lengths(m))
         /\ \A i \in 1 .. Len(Lengths(m)) : Len(Vector(m)[i]) = Lengths(m)[i]
<1> DEFINE l == Len(Lengths(m))
           v == Vector(m)
<1>1. l \in Nat /\ \A i \in 1 .. l : Lengths(m)[i] \in Nat
  BY LengthsType
<1>2. v = [i \in 1 .. l |-> [j \in 1 .. Lengths(m)[i] |-> <<m, i, j>>]]
  BY DEF Vector
<1> HIDE DEF l, v
<1>3. ASSUME NEW i \in 1 .. l
      PROVE  v[i] \in Seq(Byte) /\ Len(v[i]) = Lengths(m)[i]
  <2> DEFINE n == Lengths(m)[i]
  <2>1. n \in Nat /\ i \in Nat
    BY <1>1
  <2>2. v[i] = [j \in 1 .. n |-> <<m, i, j>>]
    BY <1>2
  <2> HIDE DEF n
  <2>3. \A j \in 1 .. n : <<m, i, j>> \in Byte
    BY <2>1 DEF Byte
  <2>4. [j \in 1 .. n |-> <<m, i, j>>] \in Seq(Byte) /\ Len([j \in 1 .. n |-> <<m, i, j>>]) = n
    BY <2>1, <2>3
  <2> QED BY <2>2, <2>4 DEF n
<1>4. v \in Seq(Seq(Byte)) /\ Len(v) = l
  BY <1>1, <1>2, <1>3
<1> QED BY <1>3, <1>4 DEF l, v

LEMMA BytesType ==
  ASSUME NEW m \in Messages
  PROVE  Bytes(m) \in Seq(Byte) /\ Len(Bytes(m)) \in Nat
BY VectorType, FlattenType DEF Bytes

(* The pieces lie one after the other. *)
LEMMA StartStep ==
  ASSUME NEW m \in Messages
  PROVE  /\ Start(m, 1) = 0
         /\ \A i \in 1 .. Len(Vector(m)) :
              Start(m, i) \in Nat /\ Start(m, i + 1) = Start(m, i) + Len(Vector(m)[i])
         /\ Len(Bytes(m)) = Start(m, Len(Vector(m)) + 1)
<1> DEFINE v == Vector(m)
<1>1. v \in Seq(Seq(Byte)) /\ Len(v) \in Nat
  BY VectorType
<1> HIDE DEF v
<1>2. FlattenSeq(SubSeq(v, 1, 0)) = <<>>
  <2>1. SubSeq(v, 1, 0) = <<>>
    BY SubSeqEmpty
  <2> QED BY <2>1 DEF FlattenSeq
<1>3. ASSUME NEW i \in 1 .. Len(v)
      PROVE  /\ Len(FlattenSeq(SubSeq(v, 1, i - 1))) \in Nat
             /\ Len(FlattenSeq(SubSeq(v, 1, i))) = Len(FlattenSeq(SubSeq(v, 1, i - 1))) + Len(v[i])
  <2> DEFINE a == SubSeq(v, 1, i - 1)
  <2>1. a \in Seq(Seq(Byte))
    <3>1. 1 \in 1 .. Len(v) + 1 /\ i - 1 \in 0 .. Len(v)
      BY <1>1
    <3> QED BY <3>1, <1>1, SubSeqType
  <2>2. SubSeq(v, 1, i) = a \o <<v[i]>>
    <3>1. 1 \in 1 .. Len(v) /\ i \in 1 .. Len(v)
      BY <1>1
    <3> QED BY <3>1, <1>1, SubSeqRecursiveSecond
  <2> HIDE DEF a
  <2>3. v[i] \in Seq(Byte) /\ <<v[i]>> \in Seq(Seq(Byte))
    BY <1>1
  <2>4. /\ FlattenSeq(a \o <<v[i]>>) = FlattenSeq(a) \o FlattenSeq(<<v[i]>>)
        /\ FlattenSeq(<<v[i]>>) = v[i] /\ FlattenSeq(a) \in Seq(Byte)
    <3>1. FlattenSeq(a \o <<v[i]>>) = FlattenSeq(a) \o FlattenSeq(<<v[i]>>)
      BY <2>1, <2>3, FlattenConcat
    <3>2. FlattenSeq(<<v[i]>>) = v[i]
      BY <2>3, FlattenOne
    <3>3. FlattenSeq(a) \in Seq(Byte)
      BY <2>1, FlattenType
    <3> QED BY <3>1, <3>2, <3>3
  <2>5. Len(FlattenSeq(a) \o v[i]) = Len(FlattenSeq(a)) + Len(v[i]) /\ Len(FlattenSeq(a)) \in Nat
    BY <2>3, <2>4, ConcatProperties
  <2> QED BY <2>2, <2>4, <2>5 DEF a
<1>4. ASSUME NEW i \in 1 .. Len(v)
      PROVE  Start(m, i) \in Nat /\ Start(m, i + 1) = Start(m, i) + Len(v[i])
  <2>1. (i + 1) - 1 = i
    BY <1>1
  <2> QED BY <1>3, <2>1 DEF Start, v
<1>5. Start(m, 1) = 0
  <2>1. 1 - 1 = 0 /\ Len(<<>>) = 0
    OBVIOUS
  <2> QED BY <1>2, <2>1 DEF Start, v
<1>6. Len(Bytes(m)) = Start(m, Len(v) + 1)
  <2>1. (Len(v) + 1) - 1 = Len(v) /\ SubSeq(v, 1, Len(v)) = v
    BY <1>1, SubSeqFull
  <2> QED BY <2>1 DEF Start, Bytes, v
<1> QED BY <1>4, <1>5, <1>6 DEF v

(* The piece in which a write stopped. *)
LEMMA StopPieceIs ==
  ASSUME NEW m \in Messages, NEW n \in 0 .. Len(Bytes(m))
  PROVE  /\ StopPiece(m, n) \in 1 .. Len(Vector(m))
         /\ n >= Start(m, StopPiece(m, n))
         /\ n <= Start(m, StopPiece(m, n)) + Len(Vector(m)[StopPiece(m, n)])
<1> DEFINE l == Len(Vector(m))
           end(i) == Start(m, i) + Lengths(m)[i]
           T == {i \in 1 .. l : n <= end(i)}
<1>1. /\ l = Len(Lengths(m)) /\ l \in Nat /\ l >= 2
      /\ \A i \in 1 .. l : Len(Vector(m)[i]) = Lengths(m)[i] /\ Lengths(m)[i] \in Nat
  <2>1. l = Len(Lengths(m)) /\ \A i \in 1 .. l : Len(Vector(m)[i]) = Lengths(m)[i]
    BY VectorType
  <2>2. Lengths(m) \in Seq(Nat) /\ Len(Lengths(m)) \in Nat /\ Len(Lengths(m)) >= 2
    BY LengthsType
  <2>3. \A i \in 1 .. Len(Lengths(m)) : Lengths(m)[i] \in Nat
    BY <2>2
  <2> QED BY <2>1, <2>2, <2>3
<1>2. /\ Start(m, 1) = 0
      /\ \A i \in 1 .. l : Start(m, i) \in Nat /\ Start(m, i + 1) = end(i)
      /\ Len(Bytes(m)) = Start(m, l + 1)
  BY <1>1, StartStep
<1>3. n \in Nat /\ n <= end(l)
  <2>1. l \in 1 .. l
    BY <1>1
  <2>2. end(l) = Len(Bytes(m))
    BY <1>2, <2>1
  <2> QED BY <2>2, BytesType
<1> HIDE DEF l, end
<1>4. \A i \in 1 .. l : end(i) \in Nat
  BY <1>1, <1>2 DEF end
<1>5. l \in T /\ T \subseteq Nat
  BY <1>1, <1>3
<1>6. PICK k \in T : \A i \in T : k <= i
  <2> HIDE DEF T
  <2> QED BY <1>5, LeastNat
<1>7. /\ k \in 1 .. l /\ n <= end(k)
      /\ \A j \in 1 .. k - 1 : n > end(j)
  <2>1. k \in 1 .. l /\ n <= end(k)
    BY <1>6
  <2>2. ASSUME NEW j \in 1 .. k - 1 PROVE n > end(j)
    <3>1. j \in 1 .. l /\ ~(k <= j)
      BY <2>1, <1>1
    <3>2. j \notin T
      BY <3>1, <1>6
    <3> QED BY <1>3, <1>4, <3>1, <3>2
  <2> QED BY <2>1, <2>2
<1> DEFINE s == StopPiece(m, n)
<1>8. s \in 1 .. l /\ n <= end(s) /\ \A j \in 1 .. s - 1 : n > end(j)
  BY <1>1, <1>7 DEF StopPiece, end
<1> HIDE DEF s
<1>9. n >= Start(m, s)
  <2>1. CASE s = 1
    BY <2>1, <1>2, <1>3
  <2>2. CASE s # 1
    <3>1. s - 1 \in 1 .. s - 1 /\ s - 1 \in 1 .. l /\ (s - 1) + 1 = s
      BY <2>2, <1>1, <1>8
    <3>2. n > end(s - 1) /\ Start(m, s) = end(s - 1) /\ end(s - 1) \in Nat
      BY <3>1, <1>2, <1>4, <1>8
    <3> QED BY <3>2, <1>3
  <2> QED BY <2>1, <2>2
<1> QED BY <1>1, <1>8, <1>9 DEF l, end, s
-----------------------------------------------------------------------------
(* The remainder of a message of which n bytes were taken.                 *)
RestVector(m, n) ==
  [Vector(m) EXCEPT ![StopPiece(m, n)] = Drop(@, n - Start(m, StopPiece(m, n)))]

RestHeader(m, n) == IF StopPiece(m, n) = 1 THEN RestVector(m, n)[1] ELSE <<>>

RestAttrs(m, n) ==
  IF m \in WithAttrs /\ StopPiece(m, n) <= 2 THEN RestVector(m, n)[2] ELSE <<>>

RestData(m, n) ==
  FlattenSeq(SubSeq(RestVector(m, n), DataFrom(m, StopPiece(m, n)), Len(RestVector(m, n))))

(* The pieces of the remainder that are not the one the write stopped in.  *)
LEMMA RestVectorIs ==
  ASSUME NEW m \in Messages, NEW n \in 0 .. Len(Bytes(m))
  PROVE  LET i == StopPiece(m, n)
             v == Vector(m)
             k == n - Start(m, i)
             r == RestVector(m, n)
         IN /\ i \in 1 .. Len(v) /\ k \in 0 .. Len(v[i]) /\ v[i] \in Seq(Byte)
            /\ r \in Seq(Seq(Byte)) /\ Len(r) = Len(v)
            /\ r[i] = Drop(v[i], k)
            /\ \A j \in 1 .. Len(v) : j # i => r[j] = v[j]
            /\ \A j \in i + 1 .. Len(v) + 1 : SubSeq(r, j, Len(r)) = SubSeq(v, j, Len(v))
<1> DEFINE i == StopPiece(m, n)
           v == Vector(m)
           k == n - Start(m, i)
           r == RestVector(m, n)
           d == Drop(v[i], k)
<1>1. v \in Seq(Seq(Byte)) /\ Len(v) \in Nat
  BY VectorType
<1>2. /\ i \in 1 .. Len(v) /\ n >= Start(m, i) /\ n <= Start(m, i) + Len(v[i])
      /\ Start(m, i) \in Nat
  BY StopPieceIs, StartStep
<1>3. n \in Nat
  BY BytesType
<1>4. r = [v EXCEPT ![i] = d]
  BY DEF RestVector
<1>5. v[i] \in Seq(Byte) /\ Len(v[i]) \in Nat
  BY <1>1, <1>2
<1>6. k \in 0 .. Len(v[i])
  BY <1>2, <1>3, <1>5
<1> HIDE DEF i, v, k, r
<1>7. d \in Seq(Byte)
  BY <1>5, <1>6, DropType
<1> HIDE DEF d
<1>8. /\ r \in Seq(Seq(Byte)) /\ Len(r) = Len(v)
      /\ \A j \in 1 .. Len(v) : r[j] = IF j = i THEN d ELSE v[j]
  BY <1>1, <1>2, <1>4, <1>7, ExceptSeq
<1>9. ASSUME NEW j \in i + 1 .. Len(v) + 1
      PROVE  SubSeq(r, j, Len(r)) = SubSeq(v, j, Len(v))
  <2> DEFINE l == Len(v)
             a == SubSeq(r, j, l)
             b == SubSeq(v, j, l)
  <2>1. j \in 1 .. l + 1 /\ l \in 0 .. l /\ l \in Nat /\ j \in Nat /\ j > i /\ i \in Nat
    BY <1>1, <1>2
  <2>2. /\ a \in Seq(Seq(Byte)) /\ Len(a) = IF j <= l THEN l - j + 1 ELSE 0
        /\ \A h \in 1 .. l - j + 1 : a[h] = r[j + h - 1]
    BY <2>1, <1>8, SubSeqType
  <2>3. /\ b \in Seq(Seq(Byte)) /\ Len(b) = IF j <= l THEN l - j + 1 ELSE 0
        /\ \A h \in 1 .. l - j + 1 : b[h] = v[j + h - 1]
    BY <2>1, <1>1, SubSeqType
  <2> HIDE DEF l, a, b
  <2>4. ASSUME NEW h \in 1 .. Len(a) PROVE a[h] = b[h]
    <3>1. h \in 1 .. l - j + 1 /\ j + h - 1 \in 1 .. l /\ j + h - 1 # i
      BY <2>1, <2>2
    <3> QED BY <3>1, <2>2, <2>3, <1>8 DEF l
  <2>5. a = b
    BY <2>2, <2>3, <2>4, SeqEqual
  <2> QED BY <2>5, <1>8 DEF l, a, b
<1>10. r[i] = d /\ \A j \in 1 .. Len(v) : j # i => r[j] = v[j]
  BY <1>2, <1>8
<1> QED BY <1>2, <1>5, <1>6, <1>8, <1>9, <1>10, Zenon DEF i, v, k, r, d

(* What is taken and what is queued are together the message: wherever the *)
(* write stopped, queue_remaining_write keeps exactly the bytes that were  *)
(* not taken.                                                              *)
LEMMA RestIsExact ==
  ASSUME NEW m \in Messages, NEW n \in 0 .. Len(Bytes(m))
  PROVE  /\ RestHeader(m, n) \in Seq(Byte) /\ RestAttrs(m, n) \in Seq(Byte) /\ RestData(m, n) \in Seq(Byte)
         /\ Take(Bytes(m), n) \o ((RestHeader(m, n) \o RestAttrs(m, n)) \o RestData(m, n)) = Bytes(m)
<1> DEFINE i == StopPiece(m, n)
           v == Vector(m)
           k == n - Start(m, i)
           r == RestVector(m, n)
           d == Drop(v[i], k)
           c == FlattenSeq(SubSeq(v, i + 1, Len(v)))
           h == RestHeader(m, n)
           a == RestAttrs(m, n)
           q == RestData(m, n)
           p == FlattenSeq(SubSeq(v, 1, i - 1))
<1>1. /\ i \in 1 .. Len(v) /\ k \in 0 .. Len(v[i]) /\ v[i] \in Seq(Byte)
      /\ r \in Seq(Seq(Byte)) /\ Len(r) = Len(v)
      /\ r[i] = d
      /\ \A j \in 1 .. Len(v) : j # i => r[j] = v[j]
      /\ \A j \in i + 1 .. Len(v) + 1 : SubSeq(r, j, Len(r)) = SubSeq(v, j, Len(v))
  BY RestVectorIs
<1>2. v \in Seq(Seq(Byte)) /\ Len(v) \in Nat /\ Len(v) >= 2 /\ (m \in WithAttrs => Len(v) >= 3)
  BY VectorType, LengthsType
<1>3. /\ h = (IF i = 1 THEN r[1] ELSE <<>>)
      /\ a = (IF m \in WithAttrs /\ i <= 2 THEN r[2] ELSE <<>>)
      /\ q = FlattenSeq(SubSeq(r, DataFrom(m, i), Len(r)))
  BY DEF RestHeader, RestAttrs, RestData
<1>4. p \in Seq(Byte) /\ Bytes(m) = p \o (v[i] \o c) /\ c \in Seq(Byte)
  BY <1>1, <1>2, FlattenSplit, FlattenFrom DEF Bytes
<1>5. n = Len(p) + k
  <2>1. Len(p) = Start(m, i)
    BY DEF Start
  <2>2. Len(p) \in Nat /\ n \in Nat
    BY <1>4, BytesType
  <2> QED BY <2>1, <2>2
<1>6. d \in Seq(Byte)
  BY <1>1, DropType
<1> HIDE DEF i, v, k, r, c, h, a, q, p
<1>7. FlattenSeq(SubSeq(r, i, Len(r))) = d \o c
  <2>1. FlattenSeq(SubSeq(r, i, Len(r))) = r[i] \o FlattenSeq(SubSeq(r, i + 1, Len(r)))
    BY <1>1, FlattenFrom
  <2>2. i + 1 \in i + 1 .. Len(v) + 1
    BY <1>1, <1>2
  <2>3. SubSeq(r, i + 1, Len(r)) = SubSeq(v, i + 1, Len(v))
    BY <2>2, <1>1
  <2> QED BY <2>1, <2>3, <1>1 DEF c
<1> HIDE DEF d
<1>8. <<>> \in Seq(Byte) /\ <<>> \o <<>> = <<>> /\ <<>> \o (d \o c) = d \o c /\ d \o <<>> = d
      /\ <<>> \o d = d /\ <<>> \o (d \o c) = d \o c
  <2>1. <<>> \in Seq(Byte) /\ d \o c \in Seq(Byte)
    BY <1>4, <1>6, ConcatProperties
  <2> QED BY <2>1, <1>6, ConcatEmptySeq
<1>9. /\ h \in Seq(Byte) /\ a \in Seq(Byte) /\ q \in Seq(Byte)
      /\ (h \o a) \o q = d \o c
  <2>1. CASE i >= 3 \/ (i = 2 /\ m \notin WithAttrs)
    <3>1. DataFrom(m, i) = i /\ h = <<>> /\ a = <<>>
      BY <2>1, <1>1, <1>2, <1>3 DEF DataFrom
    <3>2. q = d \o c
      BY <3>1, <1>3, <1>7
    <3> QED BY <3>1, <3>2, <1>4, <1>6, <1>8, ConcatProperties
  <2>2. CASE i = 1 /\ m \notin WithAttrs
    <3>1. DataFrom(m, i) = i + 1 /\ h = d /\ a = <<>>
      BY <2>2, <1>1, <1>3 DEF DataFrom
    <3>2. q = c
      <4>1. i + 1 \in i + 1 .. Len(v) + 1
        BY <1>1, <1>2
      <4> QED BY <4>1, <3>1, <1>1, <1>3 DEF c
    <3> QED BY <3>1, <3>2, <1>4, <1>6, <1>8
  <2>3. CASE i = 2 /\ m \in WithAttrs
    <3>1. DataFrom(m, i) = i + 1 /\ h = <<>> /\ a = d
      BY <2>3, <1>1, <1>3 DEF DataFrom
    <3>2. q = c
      <4>1. i + 1 \in i + 1 .. Len(v) + 1
        BY <1>1, <1>2
      <4> QED BY <4>1, <3>1, <1>1, <1>3 DEF c
    <3> QED BY <3>1, <3>2, <1>4, <1>6, <1>8
  <2>4. CASE i = 1 /\ m \in WithAttrs
    <3> DEFINE e == FlattenSeq(SubSeq(v, 3, Len(v)))
    <3>1. DataFrom(m, i) = 3 /\ h = d /\ a = v[2]
      <4>1. 2 \in 1 .. Len(v) /\ 2 # i
        BY <2>4, <1>2
      <4> QED BY <4>1, <2>4, <1>1, <1>3 DEF DataFrom
    <3>2. q = e
      <4>1. 3 \in i + 1 .. Len(v) + 1
        BY <1>2, <2>4
      <4> QED BY <4>1, <3>1, <1>1, <1>3
    <3>3. v[2] \in Seq(Byte) /\ e \in Seq(Byte) /\ c = v[2] \o e
      <4>1. 2 \in 1 .. Len(v) /\ 2 + 1 = 3 /\ i + 1 = 2
        BY <1>2, <2>4
      <4>2. /\ v[2] \in Seq(Byte) /\ FlattenSeq(SubSeq(v, 2 + 1, Len(v))) \in Seq(Byte)
            /\ FlattenSeq(SubSeq(v, 2, Len(v))) = v[2] \o FlattenSeq(SubSeq(v, 2 + 1, Len(v)))
        BY <4>1, <1>2, FlattenFrom
      <4> QED BY <4>1, <4>2 DEF c
    <3>4. (d \o v[2]) \o e = d \o (v[2] \o e)
      <4> DEFINE b == v[2]
      <4> HIDE DEF b, e
      <4>1. b \in Seq(Byte) /\ e \in Seq(Byte)
        BY <3>3 DEF b
      <4>2. (d \o b) \o e = d \o (b \o e)
        BY <4>1, <1>6, ConcatAssociative
      <4> QED BY <4>2 DEF b
    <3> QED BY <3>1, <3>2, <3>3, <3>4, <1>6
  <2>5. i = 1 \/ i = 2 \/ i >= 3
    BY <1>1, <1>2
  <2> QED BY <2>1, <2>2, <2>3, <2>4, <2>5
<1>10. Take(Bytes(m), n) \o (d \o c) = Bytes(m)
  <2> DEFINE b == v[i]
             t == Take(b, k)
  <2>1. b \in Seq(Byte) /\ k \in 0 .. Len(b) /\ t \o d = b /\ t \in Seq(Byte)
    <3>1. v[i] \in Seq(Byte) /\ k \in 0 .. Len(v[i])
      BY <1>1
    <3> QED BY <3>1, TakeDrop, TakeType DEF d
  <2> HIDE DEF b, t
  <2>2. /\ b \o c \in Seq(Byte) /\ Len(b \o c) = Len(b) + Len(c) /\ Len(b) \in Nat /\ Len(c) \in Nat
        /\ k \in 0 .. Len(b \o c)
    <3>1. /\ b \o c \in Seq(Byte) /\ Len(b \o c) = Len(b) + Len(c) /\ Len(b) \in Nat /\ Len(c) \in Nat
      BY <2>1, <1>4, ConcatProperties
    <3> QED BY <3>1, <2>1
  <2>3. Take(p \o (b \o c), Len(p) + k) = p \o Take(b \o c, k)
    BY <2>2, <1>4, TakeOfConcat
  <2>4. Take(b \o c, k) = t
    BY <2>1, <1>4, TakeOfFirst DEF t
  <2>5. (p \o t) \o (d \o c) = p \o (b \o c)
    <3> DEFINE w == d \o c
    <3>1. w \in Seq(Byte)
      BY <1>4, <1>6, ConcatProperties
    <3>2. p \in Seq(Byte) /\ t \in Seq(Byte) /\ d \in Seq(Byte) /\ c \in Seq(Byte)
      BY <2>1, <1>4, <1>6
    <3>3. (t \o d) \o c = t \o w
      BY <3>2, ConcatAssociative, SMTT(60)
    <3> HIDE DEF w
    <3>4. (p \o t) \o w = p \o (t \o w)
      BY <3>1, <3>2, ConcatAssociative, SMTT(60)
    <3> QED BY <3>3, <3>4, <2>1 DEF w
  <2> QED BY <2>3, <2>4, <2>5, <1>4, <1>5 DEF b
<1> QED BY <1>9, <1>10 DEF h, a, q

(* If the socket takes the header and the attributes of a message, what is *)
(* queued of them is empty.                                                *)
HeadersTaken == FirstPart >= HeaderLength + AttrLength

LEMMA RestIsData ==
  ASSUME HeadersTaken,
         NEW m \in Messages, NEW n \in 0 .. Len(Bytes(m)), n >= FirstPart
  PROVE  RestHeader(m, n) = <<>> /\ RestAttrs(m, n) = <<>>
<1> DEFINE i == StopPiece(m, n)
           v == Vector(m)
           k == n - Start(m, i)
           r == RestVector(m, n)
<1>1. /\ i \in 1 .. Len(v) /\ k \in 0 .. Len(v[i]) /\ v[i] \in Seq(Byte)
      /\ r[i] = Drop(v[i], k)
      /\ \A j \in 1 .. Len(v) : j # i => r[j] = v[j]
  BY RestVectorIs
<1>2. /\ v \in Seq(Seq(Byte)) /\ Len(v) \in Nat /\ Len(v) >= 2
      /\ Len(v[1]) = HeaderLength
      /\ (m \in WithAttrs => Len(v) >= 3 /\ Len(v[2]) = AttrLength)
  <2>1. /\ v \in Seq(Seq(Byte)) /\ Len(v) = Len(Lengths(m))
        /\ \A j \in 1 .. Len(Lengths(m)) : Len(v[j]) = Lengths(m)[j]
    BY VectorType
  <2>2. /\ Len(Lengths(m)) \in Nat /\ Len(Lengths(m)) >= 2
        /\ Lengths(m)[1] = HeaderLength
        /\ m \in WithAttrs => Len(Lengths(m)) >= 3 /\ Lengths(m)[2] = AttrLength
    BY LengthsType
  <2>3. 1 \in 1 .. Len(Lengths(m)) /\ (m \in WithAttrs => 2 \in 1 .. Len(Lengths(m)))
    BY <2>2
  <2> QED BY <2>1, <2>2, <2>3
<1>3. HeaderLength \in Nat /\ AttrLength \in Nat /\ FirstPart \in Nat /\ n \in Nat
      /\ n >= HeaderLength + AttrLength
  <2>1. HeaderLength \in Nat /\ AttrLength \in Nat /\ FirstPart \in Nat /\ n \in Nat
    BY BytesType, WriteAssumption
  <2> QED BY <2>1 DEF HeadersTaken
<1>4. Start(m, 1) = 0 /\ Start(m, 2) = HeaderLength
  <2>1. 1 \in 1 .. Len(v) /\ 1 + 1 = 2
    BY <1>2
  <2> QED BY <2>1, <1>2, <1>3, StartStep
<1>5. n - Start(m, i) = k
  OBVIOUS
<1>6. RestHeader(m, n) = <<>>
  <2>1. CASE i # 1
    BY <2>1 DEF RestHeader
  <2>2. CASE i = 1
    <3> DEFINE b == v[1]
    <3>1. k = Len(b) /\ k \in Nat /\ b \in Seq(Byte)
      BY <2>2, <1>1, <1>2, <1>3, <1>4
    <3> HIDE DEF b, k
    <3>2. Drop(b, k) = <<>>
      BY <3>1, DropAll
    <3>3. RestHeader(m, n) = r[1] /\ r[1] = Drop(b, k)
      BY <2>2, <1>1 DEF RestHeader, b
    <3> QED BY <3>2, <3>3
  <2> QED BY <2>1, <2>2
<1>7. RestAttrs(m, n) = <<>>
  <2>1. CASE m \notin WithAttrs \/ ~(i <= 2)
    BY <2>1 DEF RestAttrs
  <2>2. CASE m \in WithAttrs /\ i = 1
    <3>1. AttrLength = 0
      BY <2>2, <1>1, <1>2, <1>3, <1>4
    <3>2. 2 \in 1 .. Len(v) /\ 2 # i
      BY <2>2, <1>2
    <3>3. v[2] \in Seq(Byte) /\ Len(v[2]) = 0
      BY <2>2, <3>1, <3>2, <1>2
    <3>4. v[2] = <<>>
      BY <3>3, EmptySeq
    <3>5. RestAttrs(m, n) = r[2]
      BY <2>2 DEF RestAttrs
    <3> QED BY <3>2, <3>4, <3>5, <1>1
  <2>3. CASE m \in WithAttrs /\ i = 2
    <3> DEFINE b == v[2]
    <3>1. k = Len(b) /\ k \in Nat /\ b \in Seq(Byte)
      BY <2>3, <1>1, <1>2, <1>3, <1>4
    <3> HIDE DEF b, k
    <3>2. Drop(b, k) = <<>>
      BY <3>1, DropAll
    <3>3. RestAttrs(m, n) = r[2] /\ r[2] = Drop(b, k)
      BY <2>3, <1>1 DEF RestAttrs, b
    <3> QED BY <3>2, <3>3
  <2>4. i = 1 \/ i = 2 \/ ~(i <= 2)
    BY <1>1, <1>2
  <2> QED BY <2>1, <2>2, <2>3, <2>4
<1> QED BY <1>6, <1>7
-----------------------------------------------------------------------------
(* The write callbacks.                                                    *)
LEMMA AddCallbackEffect ==
  ASSUME NEW s \in Seq(Slot), NEW e \in Slot
  PROVE  /\ AddCallback(s, e) \in Seq(Slot)
         /\ InList(AddCallback(s, e), e)
         /\ \A i \in 1 .. Len(s) : s[i].func # "none" =>
              i \in 1 .. Len(AddCallback(s, e)) /\ AddCallback(s, e)[i] = s[i]
         /\ \A x : InList(AddCallback(s, e), x) => x = e \/ InList(s, x)
<1> DEFINE free == {i \in 1 .. Len(s) : s[i].func = "none"}
           t == AddCallback(s, e)
<1>1. Len(s) \in Nat /\ DOMAIN s = 1 .. Len(s) /\ \A i \in 1 .. Len(s) : s[i] \in Slot
  OBVIOUS
<1>2. CASE free = {}
  <2>1. t = Append(s, e)
    BY <1>2, Zenon DEF AddCallback
  <2>2. /\ t \in Seq(Slot) /\ Len(t) = Len(s) + 1
        /\ \A i \in 1 .. Len(s) : t[i] = s[i]
        /\ t[Len(s) + 1] = e
    BY <2>1, AppendProperties
  <2> HIDE DEF t, free
  <2>3. DOMAIN t = 1 .. Len(s) + 1 /\ Len(s) + 1 \in 1 .. Len(s) + 1
        /\ \A i \in 1 .. Len(s) + 1 : i \in 1 .. Len(s) \/ i = Len(s) + 1
    BY <1>1, <2>2
  <2>4. InList(t, e)
    BY <2>2, <2>3 DEF InList
  <2>5. \A x : InList(t, x) => x = e \/ InList(s, x)
    BY <1>1, <2>2, <2>3 DEF InList
  <2>6. \A i \in 1 .. Len(s) : i \in 1 .. Len(t)
    BY <1>1, <2>2
  <2> QED BY <2>2, <2>4, <2>5, <2>6 DEF t
<1>3. CASE free # {}
  <2> DEFINE k == CHOOSE i \in free : \A j \in free : i <= j
  <2>1. k \in free
    <3>1. free \subseteq Nat
      BY <1>1
    <3> HIDE DEF free
    <3>2. \E i \in free : \A j \in free : i <= j
      BY <1>3, <3>1, LeastNat
    <3> QED BY <3>2
  <2>2. t = [s EXCEPT ![k] = e]
    BY <1>3, Zenon DEF AddCallback
  <2>3. k \in 1 .. Len(s) /\ s[k].func = "none"
    BY <2>1
  <2> HIDE DEF k, t, free
  <2>4. /\ t \in Seq(Slot) /\ Len(t) = Len(s)
        /\ \A i \in 1 .. Len(s) : t[i] = IF i = k THEN e ELSE s[i]
    BY <2>2, <2>3, ExceptSeq
  <2>5. DOMAIN t = 1 .. Len(s)
    BY <2>4
  <2>6. InList(t, e)
    BY <2>3, <2>4, <2>5 DEF InList
  <2>7. \A x : InList(t, x) => x = e \/ InList(s, x)
    BY <1>1, <2>4, <2>5 DEF InList
  <2>8. \A i \in 1 .. Len(s) : s[i].func # "none" => i \in 1 .. Len(t) /\ t[i] = s[i]
    BY <2>3, <2>4
  <2> QED BY <2>4, <2>6, <2>7, <2>8 DEF t
<1> QED BY <1>2, <1>3

(* A list of callbacks after some were removed: the slots keep their data, *)
(* and a slot is freed only if it is a wakeup or has the data of one.      *)
Freed(s, t) ==
  /\ t \in Seq(Slot) /\ Len(t) = Len(s)
  /\ \A i \in 1 .. Len(s) :
       /\ t[i].data = s[i].data
       /\ t[i].func = s[i].func \/ t[i].func = "none"
       /\ s[i].func = "user" /\ (\A j \in 1 .. Len(s) : s[j].func = "wake" => s[j].data # s[i].data)
            => t[i].func = "user"

LEMMA RemoveCallbackEffect ==
  ASSUME NEW s \in Seq(Slot), NEW t, Freed(s, t), NEW h \in 1 .. Len(s), IsWake(s[h])
  PROVE  Freed(s, RemoveCallback(t, s[h]))
<1> DEFINE hits == {i \in 1 .. Len(t) : t[i].func = s[h].func \/ t[i].data = s[h].data}
           u == RemoveCallback(t, s[h])
           l == Len(s)
<1>1. /\ t \in Seq(Slot) /\ Len(t) = l /\ l \in Nat
      /\ \A i \in 1 .. l :
           /\ t[i].data = s[i].data
           /\ t[i].func = s[i].func \/ t[i].func = "none"
           /\ s[i].func = "user" /\ (\A j \in 1 .. l : s[j].func = "wake" => s[j].data # s[i].data)
                => t[i].func = "user"
  BY DEF Freed
<1>2. h \in 1 .. l /\ s[h].func = "wake" /\ \A i \in 1 .. l : s[i] \in Slot /\ t[i] \in Slot
  BY <1>1 DEF IsWake
<1>3. CASE hits = {}
  <2>1. u = t
    BY <1>3, Zenon DEF RemoveCallback
  <2> QED BY <2>1
<1>4. CASE hits # {}
  <2> DEFINE k == CHOOSE i \in hits : \A j \in hits : i <= j
  <2>1. k \in hits
    <3>1. hits \subseteq Nat
      BY <1>1
    <3> HIDE DEF hits
    <3>2. \E i \in hits : \A j \in hits : i <= j
      BY <1>4, <3>1, LeastNat
    <3> QED BY <3>2
  <2>2. u = [t EXCEPT ![k].func = "none"]
    BY <1>4, Zenon DEF RemoveCallback
  <2>3. k \in 1 .. l /\ (t[k].func = "wake" \/ s[k].data = s[h].data)
    BY <2>1, <1>1, <1>2
  <2> HIDE DEF k, hits
  <2>4. u = [t EXCEPT ![k] = [t[k] EXCEPT !.func = "none"]]
    BY <2>2
  <2> DEFINE e == [t[k] EXCEPT !.func = "none"]
  <2>5. e \in Slot /\ e.func = "none" /\ e.data = t[k].data
    <3>1. t[k] \in Slot
      BY <1>2, <2>3
    <3> QED BY <3>1 DEF Slot
  <2> HIDE DEF e
  <2>6. /\ u \in Seq(Slot) /\ Len(u) = l
        /\ \A i \in 1 .. l : u[i] = IF i = k THEN e ELSE t[i]
    <3>1. u = [t EXCEPT ![k] = e] /\ k \in 1 .. Len(t)
      BY <2>4, <2>3, <1>1 DEF e
    <3> HIDE DEF u, l
    <3>2. u \in Seq(Slot) /\ Len(u) = Len(t) /\ \A i \in 1 .. Len(t) : u[i] = IF i = k THEN e ELSE t[i]
      BY <1>1, <2>5, <3>1, ExceptSeq
    <3> QED BY <3>2, <1>1
  <2> HIDE DEF u
  <2>7. ASSUME NEW i \in 1 .. l
        PROVE  /\ u[i].data = s[i].data
               /\ u[i].func = s[i].func \/ u[i].func = "none"
    BY <1>1, <2>3, <2>5, <2>6
  <2>8. ASSUME NEW i \in 1 .. l, s[i].func = "user",
               \A j \in 1 .. l : s[j].func = "wake" => s[j].data # s[i].data
        PROVE  u[i].func = "user"
    <3>1. t[i].func = "user"
      BY <1>1, <2>8
    <3>2. s[h].data # s[i].data
      BY <1>2, <2>8
    <3>3. i # k
      BY <2>3, <3>1, <3>2
    <3> QED BY <3>1, <3>3, <2>6
  <2>9. Freed(s, u)
    BY <2>6, <2>7, <2>8 DEF Freed
  <2> QED BY <2>9 DEF u
<1> QED BY <1>3, <1>4

(* The callbacks are called one after the other. *)
Waking(s) ==
  CHOOSE f : f = [i \in 0 .. Len(s) |->
                    IF i = 0 THEN s
                    ELSE IF IsWake(s[i]) THEN RemoveCallback(f[i - 1], s[i])
                    ELSE f[i - 1]]

LEMMA WakingExists ==
  ASSUME NEW s, Len(s) \in Nat
  PROVE  \E f : f = [i \in 0 .. Len(s) |->
                       IF i = 0 THEN s
                       ELSE IF IsWake(s[i]) THEN RemoveCallback(f[i - 1], s[i])
                       ELSE f[i - 1]]
<1> DEFINE next(i, a) == IF IsWake(s[i]) THEN RemoveCallback(a, s[i]) ELSE a
           P(n) == \E f : f = [i \in 0 .. n |-> IF i = 0 THEN s ELSE next(i, f[i - 1])]
           T == {n \in Nat : ~P(n)}
<1> HIDE DEF next
<1>1. P(0)
  <2> DEFINE f == [i \in 0 .. 0 |-> s]
  <2>1. \A i \in 0 .. 0 : i = 0
    OBVIOUS
  <2>2. f = [i \in 0 .. 0 |-> IF i = 0 THEN s ELSE next(i, f[i - 1])]
    BY <2>1
  <2> HIDE DEF f
  <2> QED BY <2>2
<1>2. ASSUME NEW n \in Nat, P(n) PROVE P(n + 1)
  <2>1. PICK f : f = [i \in 0 .. n |-> IF i = 0 THEN s ELSE next(i, f[i - 1])]
    BY <1>2
  <2> DEFINE g == [i \in 0 .. n + 1 |-> IF i = n + 1 THEN next(i, f[i - 1]) ELSE f[i]]
  <2>2. ASSUME NEW i \in 0 .. n + 1
        PROVE  g[i] = IF i = 0 THEN s ELSE next(i, g[i - 1])
    <3>1. i # 0 => i - 1 \in 0 .. n + 1 /\ i - 1 # n + 1 /\ g[i - 1] = f[i - 1]
      OBVIOUS
    <3>2. CASE i = n + 1
      BY <3>1, <3>2
    <3>3. CASE i # n + 1
      <4>1. i \in 0 .. n /\ g[i] = f[i]
        BY <3>3
      <4>2. f[i] = IF i = 0 THEN s ELSE next(i, f[i - 1])
        BY <4>1, <2>1, Zenon
      <4> QED BY <3>1, <4>1, <4>2
    <3> QED BY <3>2, <3>3
  <2>3. \A i \in 0 .. n + 1 : g[i] = IF i = 0 THEN s ELSE next(i, g[i - 1])
    BY <2>2
  <2>4. g = [i \in 0 .. n + 1 |-> g[i]]
    OBVIOUS
  <2> HIDE DEF g
  <2>5. g = [i \in 0 .. n + 1 |-> IF i = 0 THEN s ELSE next(i, g[i - 1])]
    BY <2>3, <2>4, Zenon
  <2> QED BY <2>5
<1>3. T = {}
  <2> HIDE DEF P
  <2> SUFFICES ASSUME T # {} PROVE FALSE
    OBVIOUS
  <2>1. PICK n \in T : \A m \in T : n <= m
    BY LeastNat
  <2>2. n # 0 /\ n \in Nat
    BY <1>1, <2>1
  <2>3. n - 1 \in Nat /\ ~(n <= n - 1)
    BY <2>2
  <2>4. P(n - 1)
    BY <2>1, <2>3
  <2>5. P((n - 1) + 1) /\ (n - 1) + 1 = n
    BY <1>2, <2>2, <2>3, <2>4
  <2> QED BY <2>1, <2>5
<1>4. P(Len(s))
  <2> HIDE DEF P
  <2> QED BY <1>3
<1> QED BY <1>4, Zenon DEF next

LEMMA AfterWakeEffect ==
  ASSUME NEW s \in Seq(Slot)
  PROVE  Freed(s, AfterWake(s))
<1> DEFINE f == Waking(s)
           P(n) == n \in 0 .. Len(s) => Freed(s, f[n])
           T == {n \in Nat : ~P(n)}
<1>1. Len(s) \in Nat
  OBVIOUS
<1>2. f = [i \in 0 .. Len(s) |->
             IF i = 0 THEN s
             ELSE IF IsWake(s[i]) THEN RemoveCallback(f[i - 1], s[i])
             ELSE f[i - 1]]
  BY <1>1, WakingExists, Zenon DEF Waking
<1>3. AfterWake(s) = f[Len(s)]
  BY Zenon DEF AfterWake, Waking
<1> HIDE DEF f
<1>4. P(0)
  <2>1. f[0] = s
    <3>1. 0 \in 0 .. Len(s)
      BY <1>1
    <3> QED BY <1>2, <3>1, Zenon
  <2>2. Freed(s, s)
    BY DEF Freed
  <2> QED BY <2>1, <2>2
<1>5. ASSUME NEW n \in Nat, n # 0, P(n - 1) PROVE P(n)
  <2>1. HAVE n \in 0 .. Len(s)
  <2>2. n \in 1 .. Len(s) /\ n - 1 \in 0 .. Len(s)
    BY <1>1, <1>5, <2>1
  <2>3. Freed(s, f[n - 1])
    BY <1>5, <2>2
  <2>4. f[n] = IF IsWake(s[n]) THEN RemoveCallback(f[n - 1], s[n]) ELSE f[n - 1]
    BY <1>2, <1>5, <2>1, Zenon
  <2>5. IsWake(s[n]) => Freed(s, RemoveCallback(f[n - 1], s[n]))
    BY <2>2, <2>3, RemoveCallbackEffect
  <2> QED BY <2>3, <2>4, <2>5
<1>6. T = {}
  <2> HIDE DEF P
  <2> SUFFICES ASSUME T # {} PROVE FALSE
    OBVIOUS
  <2>1. PICK n \in T : \A m \in T : n <= m
    BY LeastNat
  <2>2. n # 0 /\ n \in Nat
    BY <1>4, <2>1
  <2>3. n - 1 \in Nat /\ ~(n <= n - 1)
    BY <2>2
  <2>4. P(n - 1)
    BY <2>1, <2>3
  <2> QED BY <1>5, <2>1, <2>2, <2>4
<1>7. P(Len(s))
  <2> HIDE DEF P
  <2> QED BY <1>1, <1>6
<1>8. Len(s) \in 0 .. Len(s)
  BY <1>1
<1> QED BY <1>3, <1>7, <1>8
-----------------------------------------------------------------------------
(* The steps of a connection.                                              *)
Conns ==
  [closed : BOOLEAN, failed : BOOLEAN, pending : BOOLEAN, notify : BOOLEAN,
   header : Seq(Byte), attrs : Seq(Byte), data : Seq(Byte),
   buffer : {"unset", "null", "held", "returned"}, callbacks : Seq(Slot)]

LEMMA DrainedEffect ==
  ASSUME NEW c \in Conns
  PROVE  /\ Drained(c) \in Conns
         /\ Drained(c).pending = FALSE /\ Drained(c).notify = FALSE
         /\ Drained(c).closed = c.closed /\ Drained(c).failed = c.failed
         /\ Drained(c).callbacks = AfterWake(c.callbacks)
<1>1. AfterWake(c.callbacks) \in Seq(Slot)
  <2>1. c.callbacks \in Seq(Slot)
    BY DEF Conns
  <2> QED BY <2>1, AfterWakeEffect DEF Freed
<1> DEFINE w == AfterWake(c.callbacks)
<1>2. Drained(c) = [c EXCEPT !.pending = FALSE, !.notify = FALSE, !.callbacks = w]
  BY DEF Drained
<1> HIDE DEF w
<1>3. w \in Seq(Slot)
  BY <1>1 DEF w
<1>4. /\ Drained(c) \in Conns
      /\ Drained(c).pending = FALSE /\ Drained(c).notify = FALSE
      /\ Drained(c).closed = c.closed /\ Drained(c).failed = c.failed
      /\ Drained(c).callbacks = w
  BY <1>2, <1>3 DEF Conns
<1> QED BY <1>4 DEF w

LEMMA FailedConnEffect ==
  ASSUME NEW c \in Conns
  PROVE  /\ FailedConn(c) \in Conns
         /\ FailedConn(c).pending = FALSE /\ FailedConn(c).notify = FALSE
         /\ FailedConn(c).closed = TRUE /\ FailedConn(c).failed = TRUE
         /\ FailedConn(c).callbacks = AfterWake(c.callbacks)
<1> DEFINE d == Drained(c)
<1>1. d \in Conns /\ d.pending = FALSE /\ d.notify = FALSE /\ d.callbacks = AfterWake(c.callbacks)
  BY DrainedEffect
<1>2. FailedConn(c) = [d EXCEPT !.failed = TRUE, !.closed = TRUE]
  BY DEF FailedConn
<1> HIDE DEF d
<1> QED BY <1>1, <1>2 DEF Conns

LEMMA QueueRemainingEffect ==
  ASSUME NEW c \in Conns, NEW m \in Messages, NEW n \in 0 .. Len(Bytes(m))
  PROVE  /\ QueueRemaining(c, m, n) \in Conns
         /\ QueueRemaining(c, m, n).pending = TRUE /\ QueueRemaining(c, m, n).notify = TRUE
         /\ QueueRemaining(c, m, n).closed = c.closed /\ QueueRemaining(c, m, n).failed = c.failed
         /\ QueueRemaining(c, m, n).callbacks = c.callbacks
         /\ QueueRemaining(c, m, n).header = RestHeader(m, n)
         /\ QueueRemaining(c, m, n).attrs = RestAttrs(m, n)
         /\ QueueRemaining(c, m, n).data = RestData(m, n)
<1> DEFINE h == RestHeader(m, n)
           a == RestAttrs(m, n)
           q == RestData(m, n)
<1>1. QueueRemaining(c, m, n) =
        [c EXCEPT !.header = h, !.attrs = a, !.data = q, !.buffer = "held", !.notify = TRUE, !.pending = TRUE]
  BY Zenon DEF QueueRemaining, RestHeader, RestAttrs, RestData, RestVector
<1>2. h \in Seq(Byte) /\ a \in Seq(Byte) /\ q \in Seq(Byte)
  BY RestIsExact
<1> HIDE DEF h, a, q
<1>3. /\ QueueRemaining(c, m, n) \in Conns
      /\ QueueRemaining(c, m, n).pending = TRUE /\ QueueRemaining(c, m, n).notify = TRUE
      /\ QueueRemaining(c, m, n).closed = c.closed /\ QueueRemaining(c, m, n).failed = c.failed
      /\ QueueRemaining(c, m, n).callbacks = c.callbacks
      /\ QueueRemaining(c, m, n).header = h
      /\ QueueRemaining(c, m, n).attrs = a
      /\ QueueRemaining(c, m, n).data = q
  BY <1>1, <1>2, ZenonT(90) DEF Conns
<1> QED BY <1>3 DEF h, a, q
-----------------------------------------------------------------------------
(* The types.  A writer that waits has a message.                          *)
TypeInv ==
  /\ TypeOK
  /\ closes \subseteq {"last", "shared"}
  /\ \A w \in Writers : pc[w] # "idle" => msg[w] \in Messages

LEMMA WokenByType ==
  ASSUME NEW s \in Seq(Slot)
  PROVE  WokenBy(s) \subseteq Nat
<1>1. \A i \in 1 .. Len(s) : s[i].data \in Nat
  <2>1. \A i \in 1 .. Len(s) : s[i] \in Slot
    OBVIOUS
  <2> QED BY <2>1 DEF Slot
<1> QED BY <1>1 DEF WokenBy

LEMMA ConnIsConn ==
  ASSUME TypeInv
  PROVE  /\ conn \in Conns /\ conn.callbacks \in Seq(Slot)
         /\ conn.header \in Seq(Byte) /\ conn.attrs \in Seq(Byte) /\ conn.data \in Seq(Byte)
BY DEF TypeInv, TypeOK, Conns

(* The connection fails and its waiters are woken. *)
Fails ==
  /\ conn' \in Conns /\ conn'.failed = TRUE /\ conn'.closed = TRUE
  /\ conn'.pending = FALSE /\ conn'.notify = FALSE
  /\ conn'.callbacks = AfterWake(conn.callbacks)
  /\ signaled' = signaled \cup WokenBy(conn.callbacks) /\ signaled' \subseteq Nat
  /\ UNCHANGED <<wire, accepted>>

LEMMA WriteFailedEffect ==
  ASSUME TypeInv, WriteFailed
  PROVE  Fails
<1> DEFINE f == FailedConn(conn)
<1>1. /\ f \in Conns /\ f.pending = FALSE /\ f.notify = FALSE
      /\ f.closed = TRUE /\ f.failed = TRUE
      /\ f.callbacks = AfterWake(conn.callbacks)
  BY ConnIsConn, FailedConnEffect
<1>2. conn' = [f EXCEPT !.buffer = "null"] /\ UNCHANGED <<wire, accepted>>
      /\ signaled' = signaled \cup WokenBy(conn.callbacks)
  BY DEF WriteFailed
<1> HIDE DEF f
<1>3. /\ conn' \in Conns /\ conn'.failed = TRUE /\ conn'.closed = TRUE
      /\ conn'.pending = FALSE /\ conn'.notify = FALSE
      /\ conn'.callbacks = AfterWake(conn.callbacks)
  BY <1>1, <1>2 DEF Conns
<1>4. signaled' \subseteq Nat
  <2>1. signaled \subseteq Nat
    BY DEF TypeInv, TypeOK
  <2> QED BY <2>1, <1>2, ConnIsConn, WokenByType
<1> QED BY <1>2, <1>3, <1>4 DEF Fails

LEMMA FailedEffect ==
  ASSUME TypeInv, conn' = FailedConn(conn), UNCHANGED <<wire, accepted>>,
         signaled' = signaled \cup WokenBy(conn.callbacks)
  PROVE  Fails
<1>1. signaled' \subseteq Nat
  <2>1. signaled \subseteq Nat
    BY DEF TypeInv, TypeOK
  <2> QED BY <2>1, ConnIsConn, WokenByType
<1> QED BY <1>1, ConnIsConn, FailedConnEffect DEF Fails

(* The message m is accepted: n bytes of it are on the wire, and the rest  *)
(* is queued.                                                              *)
Accepts(m, n) ==
  /\ peer = "up" /\ ~conn.failed
  /\ m \in Messages /\ n \in 0 .. Len(Bytes(m)) /\ n >= FirstPart
  /\ wire' = wire \o Take(Bytes(m), n)
  /\ accepted' = Append(accepted, m)
  /\ conn' = IF n = Len(Bytes(m)) THEN conn ELSE QueueRemaining(conn, m, n)
  /\ UNCHANGED signaled

LEMMA WriteEffect ==
  ASSUME TypeInv, NEW m \in Messages, Write(m)
  PROVE  (\E n : Accepts(m, n)) \/ ((peer = "down" \/ conn.failed) /\ Fails)
<1>1. CASE (peer = "down" \/ conn.failed) /\ WriteFailed
  BY <1>1, WriteFailedEffect
<1>2. CASE /\ peer = "up" /\ ~conn.failed
           /\ \E n \in FirstPart .. Len(Bytes(m)) :
                /\ wire' = wire \o Take(Bytes(m), n)
                /\ conn' = IF n = Len(Bytes(m)) THEN conn ELSE QueueRemaining(conn, m, n)
           /\ accepted' = Append(accepted, m)
           /\ UNCHANGED signaled
  <2>1. PICK n \in FirstPart .. Len(Bytes(m)) :
           /\ wire' = wire \o Take(Bytes(m), n)
           /\ conn' = IF n = Len(Bytes(m)) THEN conn ELSE QueueRemaining(conn, m, n)
    BY <1>2
  <2>2. n \in 0 .. Len(Bytes(m)) /\ n >= FirstPart
    BY BytesType, WriteAssumption
  <2> QED BY <1>2, <2>1, <2>2 DEF Accepts
<1> QED BY <1>1, <1>2 DEF Write

(* What an accepted write does to the types. *)
LEMMA AcceptsTypes ==
  ASSUME TypeInv, NEW m, NEW n, Accepts(m, n)
  PROVE  /\ conn' \in Conns /\ wire' \in Seq(Byte) /\ accepted' \in Seq(Messages)
         /\ signaled' \subseteq Nat
         /\ conn'.callbacks = conn.callbacks
         /\ conn'.closed = conn.closed /\ conn'.failed = conn.failed
         /\ n # Len(Bytes(m)) => conn'.pending /\ conn'.notify
<1>1. /\ m \in Messages /\ n \in 0 .. Len(Bytes(m))
      /\ wire' = wire \o Take(Bytes(m), n)
      /\ accepted' = Append(accepted, m)
      /\ conn' = IF n = Len(Bytes(m)) THEN conn ELSE QueueRemaining(conn, m, n)
      /\ signaled' = signaled
  BY DEF Accepts
<1>2. wire \in Seq(Byte) /\ accepted \in Seq(Messages) /\ signaled \subseteq Nat
  BY DEF TypeInv, TypeOK
<1>3. Take(Bytes(m), n) \in Seq(Byte)
  BY <1>1, BytesType, TakeType
<1>4. wire' \in Seq(Byte)
  BY <1>1, <1>2, <1>3, ConcatProperties
<1>5. accepted' \in Seq(Messages)
  BY <1>1, <1>2, AppendProperties
<1>6. CASE n = Len(Bytes(m))
  BY <1>1, <1>2, <1>4, <1>5, <1>6, ConnIsConn
<1>7. CASE n # Len(Bytes(m))
  BY <1>1, <1>2, <1>4, <1>5, <1>7, ConnIsConn, QueueRemainingEffect
<1> QED BY <1>6, <1>7

LEMMA WriteTypes ==
  ASSUME TypeInv, NEW m \in Messages, Write(m)
  PROVE  /\ conn' \in Conns /\ wire' \in Seq(Byte) /\ accepted' \in Seq(Messages)
         /\ signaled' \subseteq Nat
<1>1. CASE \E n : Accepts(m, n)
  <2>1. PICK n : Accepts(m, n)
    BY <1>1
  <2> QED BY <2>1, AcceptsTypes
<1>2. CASE Fails
  BY <1>2 DEF Fails, TypeInv, TypeOK
<1> QED BY <1>1, <1>2, WriteEffect

(* The types of the variables that make up TypeInv. *)
LEMMA TypesSuffice ==
  ASSUME conn' \in Conns, peer' \in {"up", "down"}, wire' \in Seq(Byte),
         pc' \in [Writers -> {"idle", "poll", "cond"}],
         msg' \in [Writers -> Messages \union {NoMessage}],
         cond' \in [Writers -> Nat], signaled' \subseteq Nat, nextCond' \in Nat,
         unsent' \subseteq Messages, accepted' \in Seq(Messages),
         closes' \subseteq {"last", "shared"},
         \A w \in Writers : pc'[w] # "idle" => msg'[w] \in Messages
  PROVE  TypeInv'
BY DEF TypeInv, TypeOK, Conns

LEMMA TypesNow ==
  ASSUME TypeInv
  PROVE  /\ conn \in Conns /\ peer \in {"up", "down"} /\ wire \in Seq(Byte)
         /\ pc \in [Writers -> {"idle", "poll", "cond"}]
         /\ msg \in [Writers -> Messages \union {NoMessage}]
         /\ cond \in [Writers -> Nat] /\ signaled \subseteq Nat /\ nextCond \in Nat
         /\ unsent \subseteq Messages /\ accepted \in Seq(Messages)
         /\ closes \subseteq {"last", "shared"}
         /\ \A w \in Writers : pc[w] # "idle" => msg[w] \in Messages
BY DEF TypeInv, TypeOK, Conns

LEMMA TypesInit ==
  ASSUME Init
  PROVE  TypeInv
<1>1. conn \in Conns
  BY DEF Init, Conns
<1>2. closes \subseteq {"last", "shared"} /\ unsent \subseteq Messages
  BY WriteAssumption DEF Init
<1> QED BY <1>1, <1>2 DEF Init, TypeInv, TypeOK, Conns

(* A writer that starts to wait. *)
LEMMA BlockTypes ==
  ASSUME TypeInv, NEW w \in Writers, Block(w)
  PROVE  /\ conn' \in Conns
         /\ pc' \in [Writers -> {"idle", "poll", "cond"}]
         /\ cond' \in [Writers -> Nat] /\ nextCond' \in Nat
         /\ \A x \in Writers : x # w => pc'[x] = pc[x]
         /\ pc'[w] # "idle"
<1>1. CASE w \in Pollers
  BY <1>1, TypesNow DEF Block
<1>2. CASE w \notin Pollers
  <2> DEFINE t == AddCallback(conn.callbacks, [func |-> "wake", data |-> nextCond])
  <2>1. t \in Seq(Slot)
    <3>1. [func |-> "wake", data |-> nextCond] \in Slot
      BY TypesNow DEF Slot
    <3> QED BY <3>1, ConnIsConn, AddCallbackEffect
  <2>2. /\ pc' = [pc EXCEPT ![w] = "cond"]
        /\ cond' = [cond EXCEPT ![w] = nextCond]
        /\ nextCond' = nextCond + 1
        /\ conn' = [conn EXCEPT !.callbacks = t]
    BY <1>2 DEF Block
  <2> HIDE DEF t
  <2>3. conn' \in Conns
    BY <2>1, <2>2, TypesNow DEF Conns
  <2> QED BY <2>2, <2>3, TypesNow
<1> QED BY <1>1, <1>2

LEMMA ProceedTypes ==
  ASSUME TypeInv, NEW w \in Writers, pc[w] # "idle", Proceed(w), UNCHANGED <<closes, peer, unsent>>
  PROVE  TypeInv'
<1>1. /\ pc' = [pc EXCEPT ![w] = "idle"]
      /\ msg' = [msg EXCEPT ![w] = NoMessage]
      /\ cond' = [cond EXCEPT ![w] = 0]
      /\ nextCond' = nextCond
  BY DEF Proceed, GiveUp
<1>2. msg[w] \in Messages
  BY DEF TypeInv
<1>3. /\ conn' \in Conns /\ wire' \in Seq(Byte) /\ accepted' \in Seq(Messages)
      /\ signaled' \subseteq Nat
  <2>1. CASE Open \/ msg[w] \in Raw
    <3>1. Write(msg[w])
      BY <2>1 DEF Proceed
    <3> QED BY <3>1, <1>2, WriteTypes
  <2>2. CASE ~(Open \/ msg[w] \in Raw)
    BY <2>2, TypesNow DEF Proceed
  <2> QED BY <2>1, <2>2
<1>4. /\ pc' \in [Writers -> {"idle", "poll", "cond"}]
      /\ msg' \in [Writers -> Messages \union {NoMessage}]
      /\ cond' \in [Writers -> Nat]
      /\ \A x \in Writers : pc'[x] # "idle" => msg'[x] \in Messages
  BY <1>1, TypesNow
<1> QED BY <1>1, <1>3, <1>4, TypesNow, TypesSuffice

LEMMA WriteCallTypes ==
  ASSUME TypeInv, NEW w \in Writers, NEW m \in Messages, WriteCall(w, m)
  PROVE  TypeInv'
<1>1. unsent' \subseteq Messages /\ UNCHANGED <<closes, peer>>
  BY TypesNow DEF WriteCall
<1>2. CASE Open /\ conn.pending
  <2>1. msg' = [msg EXCEPT ![w] = m] /\ Block(w) /\ UNCHANGED <<wire, signaled, accepted>>
    BY <1>2 DEF WriteCall, Block
  <2>2. /\ msg' \in [Writers -> Messages \union {NoMessage}]
        /\ \A x \in Writers : x # w => msg'[x] = msg[x]
        /\ msg'[w] = m
    BY <2>1, TypesNow
  <2> QED BY <1>1, <2>1, <2>2, BlockTypes, TypesNow, TypesSuffice
<1>3. CASE ~(Open /\ conn.pending)
  <2>1. UNCHANGED <<pc, msg, cond, nextCond>>
    BY <1>3 DEF WriteCall
  <2>2. /\ conn' \in Conns /\ wire' \in Seq(Byte) /\ accepted' \in Seq(Messages)
        /\ signaled' \subseteq Nat
    <3>1. CASE Open
      <4>1. Write(m)
        BY <1>3, <3>1 DEF WriteCall
      <4> QED BY <4>1, WriteTypes
    <3>2. CASE ~Open
      BY <1>3, <3>2, TypesNow DEF WriteCall
    <3> QED BY <3>1, <3>2
  <2> QED BY <1>1, <2>1, <2>2, TypesNow, TypesSuffice
<1> QED BY <1>2, <1>3

LEMMA ReturnTypes ==
  ASSUME TypeInv, NEW w \in Writers, PollReturn(w) \/ CondReturn(w)
  PROVE  TypeInv'
<1>1. pc[w] # "idle" /\ UNCHANGED <<closes, peer, unsent>>
  BY DEF PollReturn, CondReturn
<1>2. CASE Proceed(w)
  BY <1>1, <1>2, ProceedTypes
<1>3. CASE Block(w) /\ UNCHANGED msg
  <2>1. UNCHANGED <<wire, signaled, accepted>>
    BY <1>3 DEF Block
  <2>2. \A x \in Writers : pc'[x] # "idle" => msg'[x] \in Messages
    <3>1. msg[w] \in Messages
      BY <1>1, TypesNow
    <3> QED BY <3>1, <1>3, BlockTypes, TypesNow
  <2> QED BY <1>1, <1>3, <2>1, <2>2, BlockTypes, TypesNow, TypesSuffice
<1> QED BY <1>2, <1>3 DEF PollReturn, CondReturn

LEMMA ReplyTypes ==
  ASSUME TypeInv, NEW m \in Direct, Reply(m)
  PROVE  TypeInv'
<1>1. /\ unsent' \subseteq Messages /\ m \in Messages
      /\ UNCHANGED <<closes, peer, pc, msg, cond, signaled, nextCond>>
  BY TypesNow DEF Reply, Messages
<1>2. CASE peer = "up"
  <2>1. wire' = wire \o Bytes(m) /\ accepted' = Append(accepted, m) /\ UNCHANGED conn
    BY <1>2 DEF Reply
  <2>2. wire' \in Seq(Byte)
    BY <1>1, <2>1, TypesNow, BytesType, ConcatProperties
  <2>3. accepted' \in Seq(Messages)
    BY <1>1, <2>1, TypesNow, AppendProperties
  <2> QED BY <1>1, <2>1, <2>2, <2>3, TypesNow, TypesSuffice
<1>3. CASE peer # "up"
  <2>1. conn' = [conn EXCEPT !.closed = TRUE] /\ UNCHANGED <<wire, accepted>>
    BY <1>3 DEF Reply
  <2>2. conn' \in Conns
    BY <2>1, TypesNow DEF Conns
  <2> QED BY <1>1, <2>1, <2>2, TypesNow, TypesSuffice
<1> QED BY <1>2, <1>3

LEMMA PartWrittenTypes ==
  ASSUME TypeInv, NEW k \in 1 .. 3, NEW n \in 0 .. Len(Queued(k)), PartWritten(k, n)
  PROVE  TypeInv'
<1>1. /\ wire' = (wire \o Before(k)) \o Take(Queued(k), n)
      /\ conn' = Shortened(k, n)
      /\ UNCHANGED <<closes, peer, pc, msg, cond, signaled, nextCond, unsent, accepted>>
  BY DEF PartWritten
<1>2. Queued(k) \in Seq(Byte) /\ Before(k) \in Seq(Byte)
  <2>1. k = 1 \/ k = 2 \/ k = 3
    OBVIOUS
  <2>2. Queued(k) \in Seq(Byte)
    BY <2>1, ConnIsConn DEF Queued
  <2>3. Before(k) \in Seq(Byte)
    BY ConnIsConn, EmptySeq, ConcatProperties DEF Before
  <2> QED BY <2>2, <2>3
<1>3. Take(Queued(k), n) \in Seq(Byte) /\ Drop(Queued(k), n) \in Seq(Byte)
  BY <1>2, TakeType, DropType
<1>4. wire' \in Seq(Byte)
  BY <1>1, <1>2, <1>3, TypesNow, ConcatProperties
<1>5. conn' \in Conns
  <2> DEFINE d == Drop(Queued(k), n)
  <2>1. \/ conn' = [conn EXCEPT !.header = d]
        \/ conn' = [conn EXCEPT !.attrs = d]
        \/ conn' = [conn EXCEPT !.data = d]
    <3>1. CASE k = 1
      <4>1. Queued(k) = conn.header /\ Shortened(k, n) = [conn EXCEPT !.header = Drop(conn.header, n)]
        BY <3>1 DEF Queued, Shortened
      <4> QED BY <4>1, <1>1
    <3>2. CASE k = 2
      <4>1. Queued(k) = conn.attrs /\ Shortened(k, n) = [conn EXCEPT !.attrs = Drop(conn.attrs, n)]
        BY <3>2 DEF Queued, Shortened
      <4> QED BY <4>1, <1>1
    <3>3. CASE k = 3
      <4>1. Queued(k) = conn.data /\ Shortened(k, n) = [conn EXCEPT !.data = Drop(conn.data, n)]
        BY <3>3 DEF Queued, Shortened
      <4> QED BY <4>1, <1>1
    <3> QED BY <3>1, <3>2, <3>3
  <2>2. d \in Seq(Byte) /\ conn \in Conns
    BY <1>3, TypesNow
  <2> HIDE DEF d
  <2> QED BY <2>1, <2>2 DEF Conns
<1> QED BY <1>1, <1>4, <1>5, TypesNow, TypesSuffice

LEMMA AllWrittenTypes ==
  ASSUME TypeInv, AllWritten
  PROVE  /\ TypeInv'
         /\ conn'.pending = FALSE /\ conn'.notify = FALSE
         /\ conn'.closed = conn.closed /\ conn'.failed = conn.failed
         /\ conn'.callbacks = AfterWake(conn.callbacks)
<1> DEFINE d == Drained(conn)
<1>1. /\ d \in Conns /\ d.pending = FALSE /\ d.notify = FALSE
      /\ d.closed = conn.closed /\ d.failed = conn.failed
      /\ d.callbacks = AfterWake(conn.callbacks)
  BY TypesNow, DrainedEffect
<1>2. /\ wire' = wire \o Remainder
      /\ conn' = [d EXCEPT !.buffer = "returned"]
      /\ signaled' = signaled \cup WokenBy(conn.callbacks)
      /\ UNCHANGED <<closes, peer, pc, msg, cond, nextCond, unsent, accepted>>
  BY DEF AllWritten
<1> HIDE DEF d
<1>3. conn' \in Conns /\ conn'.pending = FALSE /\ conn'.notify = FALSE
      /\ conn'.closed = conn.closed /\ conn'.failed = conn.failed
      /\ conn'.callbacks = AfterWake(conn.callbacks)
  BY <1>1, <1>2 DEF Conns
<1>4. wire' \in Seq(Byte)
  <2>1. conn.header \o conn.attrs \in Seq(Byte)
    BY ConnIsConn, ConcatProperties
  <2>2. Remainder \in Seq(Byte)
    BY <2>1, ConnIsConn, ConcatProperties DEF Remainder
  <2> QED BY <2>2, <1>2, TypesNow, ConcatProperties
<1>5. signaled' \subseteq Nat
  BY <1>2, ConnIsConn, TypesNow, WokenByType
<1> QED BY <1>2, <1>3, <1>4, <1>5, TypesNow, TypesSuffice

(* A step after which the connection has failed. *)
FailStep == QueuedWriteFails \/ ReadFails \/ CloseLast

LEMMA FailStepEffect ==
  ASSUME TypeInv, FailStep
  PROVE  Fails /\ TypeInv' /\ UNCHANGED <<closes, peer, pc, msg, cond, nextCond, unsent>>
<1>1. UNCHANGED <<closes, peer, pc, msg, cond, nextCond, unsent>>
  BY DEF FailStep, QueuedWriteFails, ReadFails, CloseLast
<1>2. ASSUME QueuedWriteFails PROVE Fails
  BY <1>2, WriteFailedEffect DEF QueuedWriteFails
<1>3. ASSUME ReadFails \/ CloseLast PROVE Fails
  BY <1>3, FailedEffect DEF ReadFails, CloseLast
<1>4. Fails
  BY <1>2, <1>3 DEF FailStep
<1>5. TypeInv'
  BY <1>1, <1>4, TypesNow, TypesSuffice DEF Fails
<1> QED BY <1>1, <1>4, <1>5

(* A step that leaves the bytes alone. *)
QuietStep == PeerGoes \/ CloseShared \/ Register \/ Unregister

LEMMA QuietStepTypes ==
  ASSUME TypeInv, QuietStep
  PROVE  /\ TypeInv'
         /\ UNCHANGED <<closes, wire, pc, msg, cond, signaled, nextCond, unsent, accepted>>
         /\ conn'.failed = conn.failed /\ conn'.pending = conn.pending /\ conn'.notify = conn.notify
         /\ conn'.header = conn.header /\ conn'.attrs = conn.attrs /\ conn'.data = conn.data
<1>1. UNCHANGED <<closes, wire, pc, msg, cond, signaled, nextCond, unsent, accepted>>
      /\ peer' \in {"up", "down"}
  BY TypesNow DEF QuietStep, PeerGoes, CloseShared, Register, Unregister
<1>2. /\ conn' \in Conns
      /\ conn'.failed = conn.failed /\ conn'.pending = conn.pending /\ conn'.notify = conn.notify
      /\ conn'.header = conn.header /\ conn'.attrs = conn.attrs /\ conn'.data = conn.data
  <2>1. CASE PeerGoes
    BY <2>1, TypesNow DEF PeerGoes
  <2>2. CASE CloseShared
    BY <2>2, TypesNow DEF CloseShared, Conns
  <2>3. CASE Register
    <3>1. PICK d \in UserData :
             conn' = [conn EXCEPT !.callbacks = AddCallback(@, [func |-> "user", data |-> d])]
      BY <2>3 DEF Register
    <3> DEFINE t == AddCallback(conn.callbacks, [func |-> "user", data |-> d])
    <3>2. t \in Seq(Slot)
      <4>1. [func |-> "user", data |-> d] \in Slot
        BY WriteAssumption DEF Slot
      <4> QED BY <4>1, ConnIsConn, AddCallbackEffect
    <3>3. conn' = [conn EXCEPT !.callbacks = t]
      BY <3>1
    <3> HIDE DEF t
    <3> QED BY <3>2, <3>3, TypesNow DEF Conns
  <2>4. CASE Unregister
    <3>1. PICK i \in 1 .. Len(conn.callbacks) :
             conn' = [conn EXCEPT !.callbacks[i].func = "none"]
      BY <2>4 DEF Unregister
    <3> DEFINE e == [conn.callbacks[i] EXCEPT !.func = "none"]
               t == [conn.callbacks EXCEPT ![i] = e]
    <3>2. e \in Slot
      <4>1. conn.callbacks[i] \in Slot
        BY ConnIsConn
      <4> QED BY <4>1 DEF Slot
    <3>3. t \in Seq(Slot)
      <4> HIDE DEF e
      <4> QED BY <3>2, ConnIsConn, ExceptSeq
    <3>4. conn' = [conn EXCEPT !.callbacks = t]
      BY <3>1, TypesNow DEF Conns
    <3> HIDE DEF t
    <3> QED BY <3>3, <3>4, TypesNow DEF Conns
  <2> QED BY <2>1, <2>2, <2>3, <2>4 DEF QuietStep
<1> QED BY <1>1, <1>2, TypesNow, TypesSuffice

LEMMA TypesStep ==
  ASSUME TypeInv, [Next]_vars
  PROVE  TypeInv'
<1>1. CASE UNCHANGED vars
  BY <1>1, TypesNow, TypesSuffice DEF vars
<1>2. CASE Next
  BY <1>2, WriteCallTypes, ReturnTypes, ReplyTypes, PartWrittenTypes, AllWrittenTypes,
     FailStepEffect, QuietStepTypes DEF Next, FailStep, QuietStep
<1> QED BY <1>1, <1>2
-----------------------------------------------------------------------------
(* The bytes.  CMWriteQueuedData does not reset the length of a header or  *)
(* of attributes that were written completely, a reply to a format query   *)
(* does not wait, and a raw write is not kept from a connection that was   *)
(* closed while it waited: the bytes are right as long as the socket takes *)
(* the header and the attributes at once, no query arrives while a write   *)
(* is pending, and whoever writes raw messages does not share the          *)
(* connection with somebody who closes it.                                 *)
RawApart == \A a \in Applications : "shared" \in a.closes => a.messages \cap Raw = {}

NoRawIfShared ==
  "shared" \in closes =>
    unsent \cap Raw = {} /\ \A w \in Writers : pc[w] # "idle" => msg[w] \notin Raw

ByteInv ==
  /\ WireExact
  /\ conn.pending => conn.header = <<>> /\ conn.attrs = <<>>
  /\ conn.notify => conn.pending
  /\ conn.closed /\ ~conn.failed => peer = "down" \/ "shared" \in closes

StreamOf(s) == FlattenSeq([i \in 1 .. Len(s) |-> Bytes(s[i])])

LEMMA StreamType ==
  ASSUME NEW s \in Seq(Messages)
  PROVE  /\ [i \in 1 .. Len(s) |-> Bytes(s[i])] \in Seq(Seq(Byte))
         /\ StreamOf(s) \in Seq(Byte)
<1>1. Len(s) \in Nat /\ \A i \in 1 .. Len(s) : Bytes(s[i]) \in Seq(Byte)
  BY BytesType
<1>2. [i \in 1 .. Len(s) |-> Bytes(s[i])] \in Seq(Seq(Byte))
  BY <1>1
<1> QED BY <1>2, FlattenType DEF StreamOf

LEMMA StreamAppend ==
  ASSUME NEW s \in Seq(Messages), NEW m \in Messages
  PROVE  StreamOf(Append(s, m)) = StreamOf(s) \o Bytes(m)
<1> DEFINE t == Append(s, m)
           a == [i \in 1 .. Len(s) |-> Bytes(s[i])]
           b == [i \in 1 .. Len(t) |-> Bytes(t[i])]
           e == Bytes(m)
<1>1. /\ t \in Seq(Messages) /\ Len(t) = Len(s) + 1 /\ Len(s) \in Nat
      /\ \A i \in 1 .. Len(s) : t[i] = s[i]
      /\ t[Len(s) + 1] = m
  BY AppendProperties
<1>2. a \in Seq(Seq(Byte)) /\ b \in Seq(Seq(Byte)) /\ e \in Seq(Byte)
  BY <1>1, StreamType, BytesType
<1>3. Len(a) = Len(s) /\ Len(b) = Len(s) + 1
  BY <1>1
<1>4. /\ \A i \in 1 .. Len(s) : a[i] = Bytes(s[i]) /\ b[i] = a[i]
      /\ b[Len(s) + 1] = e
  <2>1. \A i \in 1 .. Len(s) + 1 : b[i] = Bytes(t[i])
    BY <1>1
  <2>2. \A i \in 1 .. Len(s) : i \in 1 .. Len(s) + 1
    BY <1>1
  <2>3. Len(s) + 1 \in 1 .. Len(s) + 1
    BY <1>1
  <2> QED BY <1>1, <2>1, <2>2, <2>3
<1> HIDE DEF a, b, e
<1>5. b = Append(a, e)
  <2> DEFINE c == Append(a, e)
  <2>1. /\ c \in Seq(Seq(Byte)) /\ Len(c) = Len(a) + 1
        /\ \A i \in 1 .. Len(a) : c[i] = a[i]
        /\ c[Len(a) + 1] = e
    BY <1>2, AppendProperties
  <2> HIDE DEF c
  <2>2. \A i \in 1 .. Len(s) + 1 : i \in 1 .. Len(s) \/ i = Len(s) + 1
    BY <1>1
  <2>3. \A i \in 1 .. Len(b) : b[i] = c[i]
    BY <1>3, <1>4, <2>1, <2>2
  <2>4. b = c
    BY <1>2, <1>3, <2>1, <2>3, SeqEqual
  <2> QED BY <2>4 DEF c
<1>6. Append(a, e) = a \o <<e>> /\ <<e>> \in Seq(Seq(Byte))
  BY <1>2, AppendIsConcat
<1>7. FlattenSeq(b) = FlattenSeq(a) \o FlattenSeq(<<e>>)
  BY <1>2, <1>5, <1>6, FlattenConcat
<1>8. FlattenSeq(<<e>>) = e
  BY <1>2, FlattenOne
<1> QED BY <1>7, <1>8 DEF StreamOf, a, b, e

LEMMA StreamNow ==
  Stream = StreamOf(accepted) /\ Stream' = StreamOf(accepted')
BY DEF Stream, StreamOf

LEMMA RemainderType ==
  ASSUME TypeInv
  PROVE  Remainder \in Seq(Byte)
<1>1. conn.header \o conn.attrs \in Seq(Byte)
  BY ConnIsConn, ConcatProperties
<1> QED BY <1>1, ConnIsConn, ConcatProperties DEF Remainder

(* Nothing is queued: the wire is the stream. *)
LEMMA WireNow ==
  ASSUME TypeInv, WireExact, ~conn.failed
  PROVE  /\ ~conn.pending => wire = Stream
         /\ conn.pending => wire \o Remainder = Stream
<1>1. wire \in Seq(Byte) /\ wire \o <<>> = wire
  BY TypesNow, ConcatEmptySeq
<1> QED BY <1>1 DEF WireExact

LEMMA AcceptsExact ==
  ASSUME TypeInv, ByteInv, HeadersTaken, ~conn.pending,
         NEW m, NEW n, Accepts(m, n), UNCHANGED <<closes, peer>>
  PROVE  ByteInv'
<1>1. /\ m \in Messages /\ n \in 0 .. Len(Bytes(m)) /\ n >= FirstPart
      /\ wire' = wire \o Take(Bytes(m), n)
      /\ accepted' = Append(accepted, m)
      /\ conn' = IF n = Len(Bytes(m)) THEN conn ELSE QueueRemaining(conn, m, n)
      /\ ~conn.failed /\ peer = "up"
  BY DEF Accepts
<1>2. wire = Stream /\ wire \in Seq(Byte) /\ accepted \in Seq(Messages)
  BY <1>1, WireNow, TypesNow DEF ByteInv
<1>3. Stream' = wire \o Bytes(m) /\ Bytes(m) \in Seq(Byte) /\ Len(Bytes(m)) \in Nat
  BY <1>1, <1>2, StreamNow, StreamAppend, BytesType
<1>4. wire' \in Seq(Byte)
  BY AcceptsTypes
<1>5. CASE n = Len(Bytes(m))
  <2>1. Take(Bytes(m), n) = Bytes(m)
    BY <1>3, <1>5, SubSeqFull DEF Take
  <2>2. wire' = Stream' /\ conn' = conn /\ ~conn'.pending /\ wire' \o <<>> = wire'
    BY <1>1, <1>3, <1>4, <1>5, <2>1, ConcatEmptySeq
  <2>3. WireExact'
    BY <2>2 DEF WireExact
  <2> QED BY <2>2, <2>3 DEF ByteInv
<1>6. CASE n # Len(Bytes(m))
  <2> DEFINE h == RestHeader(m, n)
             a == RestAttrs(m, n)
             q == RestData(m, n)
             r == (h \o a) \o q
             t == Take(Bytes(m), n)
  <2>1. /\ conn'.pending = TRUE /\ conn'.failed = conn.failed /\ conn'.closed = conn.closed
        /\ conn'.header = h /\ conn'.attrs = a /\ conn'.data = q
    <3>1. conn' = QueueRemaining(conn, m, n)
      BY <1>1, <1>6
    <3>2. conn \in Conns /\ m \in Messages /\ n \in 0 .. Len(Bytes(m))
      BY <1>1, TypesNow
    <3>3. /\ QueueRemaining(conn, m, n).pending = TRUE
          /\ QueueRemaining(conn, m, n).closed = conn.closed
          /\ QueueRemaining(conn, m, n).failed = conn.failed
          /\ QueueRemaining(conn, m, n).header = h
          /\ QueueRemaining(conn, m, n).attrs = a
          /\ QueueRemaining(conn, m, n).data = q
      <4>1. QueueRemaining(conn, m, n).pending = TRUE
        BY <3>2, QueueRemainingEffect, ZenonT(60)
      <4>2. QueueRemaining(conn, m, n).closed = conn.closed
        BY <3>2, QueueRemainingEffect, ZenonT(60)
      <4>3. QueueRemaining(conn, m, n).failed = conn.failed
        BY <3>2, QueueRemainingEffect, ZenonT(60)
      <4>4. QueueRemaining(conn, m, n).header = RestHeader(m, n)
        BY <3>2, QueueRemainingEffect, ZenonT(60)
      <4>5. QueueRemaining(conn, m, n).attrs = RestAttrs(m, n)
        BY <3>2, QueueRemainingEffect, ZenonT(60)
      <4>6. QueueRemaining(conn, m, n).data = RestData(m, n)
        BY <3>2, QueueRemainingEffect, ZenonT(60)
      <4> QED BY <4>1, <4>2, <4>3, <4>4, <4>5, <4>6
    <3> QED BY <3>1, <3>3, Zenon
  <2>2. h = <<>> /\ a = <<>>
    BY <1>1, RestIsData
  <2>3. h \in Seq(Byte) /\ a \in Seq(Byte) /\ q \in Seq(Byte) /\ t \o r = Bytes(m)
    BY <1>1, RestIsExact
  <2>4. t \in Seq(Byte)
    BY <1>1, <1>3, TakeType
  <2> HIDE DEF h, a, q, t
  <2>5. r \in Seq(Byte)
    BY <2>3, ConcatProperties
  <2>6. Remainder' = r
    BY <2>1 DEF Remainder
  <2> HIDE DEF r
  <2>7. (wire \o t) \o r = wire \o (t \o r)
    BY <1>2, <2>4, <2>5, ConcatAssociative
  <2>8. wire' \o Remainder' = Stream'
    BY <1>1, <1>3, <2>3, <2>6, <2>7 DEF t
  <2>9. WireExact'
    BY <2>1, <2>8 DEF WireExact
  <2> QED BY <2>1, <2>2, <2>9 DEF ByteInv
<1> QED BY <1>5, <1>6

(* What a step may do to the bytes. *)
Quiet ==
  /\ UNCHANGED <<wire, accepted, closes>>
  /\ conn'.failed = conn.failed /\ conn'.pending = conn.pending /\ conn'.notify = conn.notify
  /\ conn'.header = conn.header /\ conn'.attrs = conn.attrs /\ conn'.data = conn.data
  /\ conn'.closed => conn.closed \/ peer' = "down" \/ "shared" \in closes
  /\ peer' = peer \/ peer' = "down"

Outcome ==
  \/ ~conn.pending /\ (\E m, n : Accepts(m, n)) /\ UNCHANGED <<closes, peer>>
  \/ peer = "up" /\ \E m \in Direct : Reply(m)
  \/ \E k \in 1 .. 3 : \E n \in 0 .. Len(Queued(k)) : PartWritten(k, n)
  \/ AllWritten
  \/ Fails /\ UNCHANGED <<closes, peer>>
  \/ Quiet

LEMMA QuietCallbacks ==
  ASSUME TypeInv, UNCHANGED <<wire, accepted, closes, peer>>, NEW t,
         conn' = [conn EXCEPT !.callbacks = t]
  PROVE  Quiet
<1>1. conn'.failed = conn.failed /\ conn'.pending = conn.pending /\ conn'.notify = conn.notify
      /\ conn'.header = conn.header /\ conn'.attrs = conn.attrs /\ conn'.data = conn.data
      /\ conn'.closed = conn.closed
  BY TypesNow DEF Conns
<1> QED BY <1>1 DEF Quiet

LEMMA BlockOutcome ==
  ASSUME TypeInv, NEW w \in Writers, Block(w), UNCHANGED <<closes, peer>>
  PROVE  Outcome
<1>1. UNCHANGED <<wire, accepted>>
  BY DEF Block
<1>2. CASE w \in Pollers
  <2>1. conn' = conn
    BY <1>2 DEF Block
  <2> QED BY <1>1, <2>1 DEF Outcome, Quiet
<1>3. CASE w \notin Pollers
  <2> DEFINE t == AddCallback(conn.callbacks, [func |-> "wake", data |-> nextCond])
  <2>1. conn' = [conn EXCEPT !.callbacks = t]
    BY <1>3 DEF Block
  <2> HIDE DEF t
  <2> QED BY <1>1, <2>1, QuietCallbacks DEF Outcome
<1> QED BY <1>2, <1>3

LEMMA WriteOutcome ==
  ASSUME TypeInv, NEW m \in Messages, Write(m), UNCHANGED <<closes, peer>>,
         peer = "up" /\ ~conn.failed => ~conn.pending
  PROVE  Outcome
<1>1. CASE \E n : Accepts(m, n)
  <2>1. ~conn.pending
    BY <1>1 DEF Accepts
  <2> QED BY <1>1, <2>1 DEF Outcome
<1>2. CASE Fails
  BY <1>2 DEF Outcome
<1> QED BY <1>1, <1>2, WriteEffect

LEMMA ProceedOutcome ==
  ASSUME TypeInv, ByteInv, NoRawIfShared, NEW w \in Writers,
         pc[w] # "idle", ~MustWait, Proceed(w), UNCHANGED <<closes, peer>>
  PROVE  Outcome
<1>1. msg[w] \in Messages
  BY TypesNow
<1>2. CASE Open \/ msg[w] \in Raw
  <2>1. Write(msg[w])
    BY <1>2 DEF Proceed
  <2>2. peer = "up" /\ ~conn.failed => ~conn.pending
    <3>1. CASE Open
      BY <3>1 DEF Open, MustWait
    <3>2. CASE ~Open
      <4>1. msg[w] \in Raw
        BY <1>2, <3>2
      <4>2. "shared" \notin closes
        BY <4>1 DEF NoRawIfShared
      <4> QED BY <3>2, <4>2 DEF ByteInv, Open
    <3> QED BY <3>1, <3>2
  <2> QED BY <1>1, <2>1, <2>2, WriteOutcome
<1>3. CASE ~(Open \/ msg[w] \in Raw)
  BY <1>3 DEF Proceed, Outcome, Quiet
<1> QED BY <1>2, <1>3

LEMMA StepOutcome ==
  ASSUME TypeInv, ByteInv, NoRawIfShared, [Next]_vars
  PROVE  Outcome
<1>1. CASE UNCHANGED vars
  BY <1>1 DEF vars, Outcome, Quiet
<1>2. ASSUME NEW w \in Writers, NEW m \in Messages, WriteCall(w, m) PROVE Outcome
  <2>1. UNCHANGED <<closes, peer>>
    BY <1>2 DEF WriteCall
  <2>2. CASE Open /\ conn.pending
    BY <1>2, <2>1, <2>2, BlockOutcome DEF WriteCall
  <2>3. CASE Open /\ ~conn.pending
    BY <1>2, <2>1, <2>3, WriteOutcome DEF WriteCall
  <2>4. CASE ~Open
    BY <1>2, <2>1, <2>4 DEF WriteCall, Outcome, Quiet
  <2> QED BY <2>2, <2>3, <2>4
<1>3. ASSUME NEW w \in Writers, PollReturn(w) PROVE Outcome
  BY <1>3, ProceedOutcome DEF PollReturn
<1>4. ASSUME NEW w \in Writers, CondReturn(w) PROVE Outcome
  <2>1. pc[w] # "idle" /\ UNCHANGED <<closes, peer>>
    BY <1>4 DEF CondReturn
  <2>2. CASE MustWait
    BY <1>4, <2>1, <2>2, BlockOutcome DEF CondReturn
  <2>3. CASE ~MustWait
    BY <1>4, <2>1, <2>3, ProceedOutcome DEF CondReturn
  <2> QED BY <2>2, <2>3
<1>5. ASSUME NEW m \in Direct, Reply(m) PROVE Outcome
  <2>1. CASE peer = "up"
    BY <1>5, <2>1 DEF Outcome
  <2>2. CASE peer # "up"
    <3>1. /\ conn' = [conn EXCEPT !.closed = TRUE]
          /\ UNCHANGED <<wire, accepted, closes, peer>>
      BY <1>5, <2>2 DEF Reply
    <3>2. peer = "down"
      BY <2>2, TypesNow
    <3>3. conn'.failed = conn.failed /\ conn'.pending = conn.pending /\ conn'.notify = conn.notify
          /\ conn'.header = conn.header /\ conn'.attrs = conn.attrs /\ conn'.data = conn.data
      BY <3>1, TypesNow DEF Conns
    <3> QED BY <3>1, <3>2, <3>3 DEF Outcome, Quiet
  <2> QED BY <2>1, <2>2
<1>6. CASE (\E k \in 1 .. 3 : \E n \in 0 .. Len(Queued(k)) : PartWritten(k, n)) \/ AllWritten
  BY <1>6, Zenon DEF Outcome
<1>7. CASE FailStep
  BY <1>7, FailStepEffect DEF Outcome
<1>8. CASE QuietStep
  <2>1. /\ UNCHANGED <<wire, accepted, closes>>
        /\ conn'.failed = conn.failed /\ conn'.pending = conn.pending /\ conn'.notify = conn.notify
        /\ conn'.header = conn.header /\ conn'.attrs = conn.attrs /\ conn'.data = conn.data
    BY <1>8, QuietStepTypes
  <2>2. peer' = peer \/ peer' = "down"
    BY <1>8 DEF QuietStep, PeerGoes, CloseShared, Register, Unregister
  <2>3. conn'.closed => conn.closed \/ "shared" \in closes
    <3>1. CASE PeerGoes
      BY <3>1 DEF PeerGoes
    <3>2. CASE CloseShared
      BY <3>2 DEF CloseShared
    <3>3. CASE Register
      <4>1. \E t : conn' = [conn EXCEPT !.callbacks = t]
        BY <3>3 DEF Register
      <4> QED BY <4>1, TypesNow DEF Conns
    <3>4. CASE Unregister
      <4>1. PICK i : conn' = [conn EXCEPT !.callbacks[i].func = "none"]
        BY <3>4 DEF Unregister
      <4> QED BY <4>1, TypesNow DEF Conns
    <3> QED BY <1>8, <3>1, <3>2, <3>3, <3>4 DEF QuietStep
  <2>4. Quiet
    BY <2>1, <2>2, <2>3 DEF Quiet
  <2> QED BY <2>4 DEF Outcome
<1>9. CASE Next
  BY <1>9, <1>2, <1>3, <1>4, <1>5, <1>6, <1>7, <1>8 DEF Next, FailStep, QuietStep
<1> QED BY <1>1, <1>9

LEMMA RemainderIsData ==
  ASSUME TypeInv, ByteInv, conn.pending
  PROVE  Remainder = conn.data
<1>1. conn.header = <<>> /\ conn.attrs = <<>> /\ conn.data \in Seq(Byte)
  BY ConnIsConn DEF ByteInv
<1>2. <<>> \o <<>> = <<>> /\ <<>> \o conn.data = conn.data
  BY <1>1, ConcatEmptySeq
<1> QED BY <1>1, <1>2 DEF Remainder

(* The step writes the first n bytes of what is queued. *)
LEMMA PartWrittenIs ==
  ASSUME TypeInv, ByteInv, NEW k \in 1 .. 3, NEW n \in 0 .. Len(Queued(k)), PartWritten(k, n)
  PROVE  /\ conn.pending /\ ~conn.failed /\ peer = "up"
         /\ n \in 1 .. Len(conn.data) - 1
         /\ wire' = wire \o Take(conn.data, n)
         /\ conn' = [conn EXCEPT !.data = Drop(conn.data, n)]
         /\ UNCHANGED <<closes, peer, accepted>>
<1>1. /\ Writable /\ peer = "up"
      /\ n < Len(Queued(k)) /\ Len(Before(k)) + n > 0
      /\ wire' = (wire \o Before(k)) \o Take(Queued(k), n)
      /\ conn' = Shortened(k, n)
      /\ UNCHANGED <<closes, peer, accepted>>
  BY DEF PartWritten
<1>2. /\ conn.pending /\ ~conn.failed /\ conn.header = <<>> /\ conn.attrs = <<>>
      /\ conn.data \in Seq(Byte) /\ Len(conn.data) \in Nat /\ wire \in Seq(Byte)
  BY <1>1, ConnIsConn, TypesNow DEF ByteInv, Writable
<1>3. n \in Nat /\ n < Len(Queued(k))
  <2>1. k = 1 \/ k = 2 \/ k = 3
    OBVIOUS
  <2>2. Len(Queued(k)) \in Nat
    BY <2>1, ConnIsConn DEF Queued
  <2> QED BY <1>1, <2>2
<1>4. k = 3
  <2>1. k = 1 => Queued(k) = conn.header
    BY DEF Queued
  <2>2. k = 2 => Queued(k) = conn.attrs
    BY DEF Queued
  <2>3. Len(<<>>) = 0
    OBVIOUS
  <2>4. k = 1 \/ k = 2 \/ k = 3
    OBVIOUS
  <2> QED BY <1>2, <1>3, <2>1, <2>2, <2>3, <2>4
<1>5. Queued(k) = conn.data /\ Before(k) = <<>> /\ Shortened(k, n) = [conn EXCEPT !.data = Drop(conn.data, n)]
  <2>1. Queued(k) = conn.data
    BY <1>4 DEF Queued
  <2>2. Before(k) = <<>>
    <3>1. <<>> \o <<>> = <<>>
      BY EmptySeq, ConcatEmptySeq
    <3> QED BY <1>2, <1>4, <3>1 DEF Before
  <2>3. Shortened(k, n) = [conn EXCEPT !.data = Drop(conn.data, n)]
    BY <1>4 DEF Shortened
  <2> QED BY <2>1, <2>2, <2>3
<1>6. wire \o <<>> = wire /\ Len(<<>>) = 0
  BY <1>2, ConcatEmptySeq
<1> QED BY <1>1, <1>2, <1>3, <1>5, <1>6

LEMMA PartWrittenExact ==
  ASSUME TypeInv, ByteInv, NEW k \in 1 .. 3, NEW n \in 0 .. Len(Queued(k)), PartWritten(k, n)
  PROVE  ByteInv'
<1> DEFINE q == conn.data
           t == Take(q, n)
           d == Drop(q, n)
<1>1. /\ conn.pending /\ ~conn.failed /\ peer = "up"
      /\ n \in 1 .. Len(q) - 1
      /\ wire' = wire \o t
      /\ conn' = [conn EXCEPT !.data = d]
      /\ UNCHANGED <<closes, peer, accepted>>
  BY PartWrittenIs
<1>2. q \in Seq(Byte) /\ Len(q) \in Nat /\ wire \in Seq(Byte) /\ wire \o q = Stream
      /\ conn.header = <<>> /\ conn.attrs = <<>>
  <2>1. q \in Seq(Byte) /\ wire \in Seq(Byte)
    BY ConnIsConn, TypesNow
  <2>2. Remainder = q
    BY <1>1, RemainderIsData
  <2>3. wire \o Remainder = Stream
    BY <1>1, WireNow DEF ByteInv
  <2>4. conn.header = <<>> /\ conn.attrs = <<>>
    BY <1>1 DEF ByteInv
  <2> QED BY <2>1, <2>2, <2>3, <2>4
<1>3. t \o d = q /\ t \in Seq(Byte) /\ d \in Seq(Byte)
  <2>1. n \in 0 .. Len(q)
    BY <1>1, <1>2
  <2> HIDE DEF q
  <2> QED BY <1>2, <2>1, TakeDrop, TakeType, DropType
<1> HIDE DEF t, d
<1>4. conn'.header = <<>> /\ conn'.attrs = <<>> /\ conn'.data = d
      /\ conn'.pending = conn.pending /\ conn'.notify = conn.notify
      /\ conn'.closed = conn.closed /\ conn'.failed = conn.failed
  BY <1>1, <1>2, TypesNow DEF Conns
<1>5. Remainder' = d
  <2>1. <<>> \o <<>> = <<>> /\ <<>> \o d = d
    BY <1>3, EmptySeq, ConcatEmptySeq
  <2> QED BY <1>4, <2>1 DEF Remainder
<1>6. (wire \o t) \o d = Stream
  <2> HIDE DEF q
  <2>1. wire \in Seq(Byte) /\ t \in Seq(Byte) /\ d \in Seq(Byte)
    BY <1>2, <1>3
  <2>2. (wire \o t) \o d = wire \o (t \o d)
    BY <2>1, ConcatAssociative
  <2> QED BY <2>2, <1>2, <1>3
<1>7. Stream' = Stream
  BY <1>1, StreamNow
<1>8. WireExact'
  BY <1>1, <1>4, <1>5, <1>6, <1>7 DEF WireExact
<1> QED BY <1>1, <1>4, <1>8 DEF ByteInv

LEMMA AllWrittenExact ==
  ASSUME TypeInv, ByteInv, AllWritten
  PROVE  ByteInv' /\ conn.pending /\ wire' = Stream
<1>1. /\ conn.pending /\ ~conn.failed /\ peer = "up"
      /\ wire' = wire \o Remainder /\ UNCHANGED <<closes, peer, accepted>>
  BY DEF AllWritten, Writable, ByteInv
<1>2. conn'.pending = FALSE /\ conn'.notify = FALSE
      /\ conn'.closed = conn.closed /\ conn'.failed = conn.failed /\ TypeInv'
  BY AllWrittenTypes
<1>3. wire' = Stream /\ Stream' = Stream
  BY <1>1, WireNow, StreamNow DEF ByteInv
<1>4. wire' \o <<>> = wire'
  BY <1>2, ConcatEmptySeq DEF TypeInv, TypeOK
<1>5. WireExact'
  BY <1>2, <1>3, <1>4 DEF WireExact
<1> QED BY <1>1, <1>2, <1>3, <1>5 DEF ByteInv

LEMMA ReplyExact ==
  ASSUME RepliesWait, TypeInv, ByteInv, NEW m \in Direct, Reply(m), peer = "up"
  PROVE  ByteInv' /\ ~conn.pending /\ ~conn.failed /\ wire = Stream
<1>1. /\ ~conn.pending /\ ~conn.failed
      /\ wire' = wire \o Bytes(m) /\ accepted' = Append(accepted, m)
      /\ UNCHANGED <<conn, closes, peer>>
  BY DEF Reply
<1>2. wire = Stream /\ m \in Messages /\ accepted \in Seq(Messages)
  BY <1>1, WireNow, TypesNow DEF ByteInv, Messages
<1>3. wire' = Stream'
  BY <1>1, <1>2, StreamNow, StreamAppend
<1>4. wire' \o <<>> = wire'
  <2>1. TypeInv'
    BY ReplyTypes
  <2> QED BY <2>1, ConcatEmptySeq DEF TypeInv, TypeOK
<1>5. WireExact'
  BY <1>1, <1>3, <1>4 DEF WireExact
<1> QED BY <1>1, <1>2, <1>5 DEF ByteInv

LEMMA QuietExact ==
  ASSUME TypeInv, ByteInv, Quiet
  PROVE  ByteInv'
<1>1. Remainder' = Remainder /\ Stream' = Stream
  BY StreamNow DEF Quiet, Remainder
<1>2. WireExact'
  BY <1>1 DEF Quiet, ByteInv, WireExact
<1>3. conn'.closed /\ ~conn'.failed => peer' = "down" \/ "shared" \in closes'
  BY DEF Quiet, ByteInv
<1> QED BY <1>2, <1>3 DEF Quiet, ByteInv

LEMMA BytesStep ==
  ASSUME HeadersTaken, RepliesWait, TypeInv, ByteInv, Outcome
  PROVE  ByteInv'
<1>1. CASE ~conn.pending /\ (\E m, n : Accepts(m, n)) /\ UNCHANGED <<closes, peer>>
  BY <1>1, AcceptsExact
<1>2. CASE peer = "up" /\ \E m \in Direct : Reply(m)
  BY <1>2, ReplyExact
<1>3. CASE \E k \in 1 .. 3 : \E n \in 0 .. Len(Queued(k)) : PartWritten(k, n)
  BY <1>3, PartWrittenExact
<1>4. CASE AllWritten
  BY <1>4, AllWrittenExact
<1>5. CASE Fails
  BY <1>5 DEF Fails, ByteInv, WireExact
<1>6. CASE Quiet
  BY <1>6, QuietExact
<1> QED BY <1>1, <1>2, <1>3, <1>4, <1>5, <1>6 DEF Outcome

(* The raw messages of a connection that nobody else closes. *)
LEMMA NoRawKept ==
  ASSUME TypeInv, NoRawIfShared, closes' = closes, unsent' \subseteq unsent,
         \A w \in Writers : pc'[w] # "idle" => (pc[w] # "idle" /\ msg'[w] = msg[w]) \/ msg'[w] \in unsent
  PROVE  NoRawIfShared'
BY DEF NoRawIfShared

LEMMA NoRawProceed ==
  ASSUME TypeInv, NoRawIfShared, closes' = closes, unsent' = unsent,
         NEW w \in Writers, pc[w] # "idle", Proceed(w) \/ (Block(w) /\ UNCHANGED msg)
  PROVE  NoRawIfShared'
<1>1. CASE Proceed(w)
  <2>1. pc' = [pc EXCEPT ![w] = "idle"] /\ msg' = [msg EXCEPT ![w] = NoMessage]
    BY <1>1 DEF Proceed, GiveUp
  <2>2. \A x \in Writers : pc'[x] # "idle" => pc[x] # "idle" /\ msg'[x] = msg[x]
    BY <2>1, TypesNow
  <2> QED BY <2>2, NoRawKept
<1>2. CASE Block(w) /\ UNCHANGED msg
  <2>1. \A x \in Writers : pc'[x] # "idle" => pc[x] # "idle" /\ msg'[x] = msg[x]
    BY <1>2, BlockTypes
  <2> QED BY <2>1, NoRawKept
<1> QED BY <1>1, <1>2

LEMMA NoRawStep ==
  ASSUME TypeInv, NoRawIfShared, [Next]_vars
  PROVE  NoRawIfShared'
<1>1. CASE UNCHANGED <<closes, pc, msg>> /\ unsent' \subseteq unsent
  BY <1>1, NoRawKept
<1>2. ASSUME NEW w \in Writers, NEW m \in Messages, WriteCall(w, m) PROVE NoRawIfShared'
  <2>1. closes' = closes /\ unsent' \subseteq unsent /\ m \in unsent
    BY <1>2 DEF WriteCall
  <2>2. CASE Open /\ conn.pending
    <3>1. msg' = [msg EXCEPT ![w] = m] /\ Block(w)
      BY <1>2, <2>2 DEF WriteCall
    <3>2. \A x \in Writers : x # w => pc'[x] = pc[x] /\ msg'[x] = msg[x]
      BY <3>1, BlockTypes, TypesNow
    <3>3. msg'[w] \in unsent
      BY <2>1, <3>1, TypesNow
    <3> QED BY <2>1, <3>2, <3>3, NoRawKept
  <2>3. CASE ~(Open /\ conn.pending)
    BY <1>1, <1>2, <2>1, <2>3 DEF WriteCall
  <2> QED BY <2>2, <2>3
<1>3. ASSUME NEW w \in Writers, PollReturn(w) \/ CondReturn(w) PROVE NoRawIfShared'
  <2>1. pc[w] # "idle" /\ closes' = closes /\ unsent' = unsent
        /\ (Proceed(w) \/ (Block(w) /\ UNCHANGED msg))
    BY <1>3 DEF PollReturn, CondReturn
  <2> QED BY <2>1, NoRawProceed
<1>4. ASSUME NEW m \in Direct, Reply(m) PROVE NoRawIfShared'
  BY <1>1, <1>4 DEF Reply
<1>5. ASSUME NEW k, NEW n, PartWritten(k, n) PROVE NoRawIfShared'
  BY <1>1, <1>5 DEF PartWritten
<1>6. CASE AllWritten
  BY <1>1, <1>6 DEF AllWritten
<1>7. CASE FailStep \/ QuietStep
  BY <1>1, <1>7, FailStepEffect, QuietStepTypes DEF FailStep, QuietStep
<1>8. CASE UNCHANGED vars
  BY <1>1, <1>8 DEF vars
<1> QED BY <1>2, <1>3, <1>4, <1>5, <1>6, <1>7, <1>8 DEF Next, FailStep, QuietStep
-----------------------------------------------------------------------------
BytesOK == TypeInv /\ ByteInv /\ NoRawIfShared

LEMMA BytesInit ==
  ASSUME RawApart, Init
  PROVE  BytesOK
<1>1. TypeInv
  BY TypesInit
<1>2. conn.failed = FALSE /\ conn.pending = FALSE /\ conn.notify = FALSE /\ conn.closed = FALSE
      /\ wire = <<>> /\ accepted = <<>>
  BY DEF Init
<1>3. Stream = <<>> /\ wire \o <<>> = <<>>
  <2>1. [i \in 1 .. Len(<<>>) |-> Bytes(<<>>[i])] = <<>>
    OBVIOUS
  <2>2. FlattenSeq(<<>>) = <<>>
    BY DEF FlattenSeq
  <2>3. <<>> \o <<>> = <<>>
    BY EmptySeq, ConcatEmptySeq
  <2> QED BY <1>2, <2>1, <2>2, <2>3 DEF Stream
<1>4. ByteInv
  BY <1>2, <1>3 DEF ByteInv, WireExact
<1>5. NoRawIfShared
  BY DEF Init, RawApart, NoRawIfShared
<1> QED BY <1>1, <1>4, <1>5 DEF BytesOK

LEMMA BytesOKStep ==
  ASSUME HeadersTaken, RepliesWait, BytesOK, [Next]_vars
  PROVE  BytesOK' /\ Outcome
<1>1. TypeInv'
  BY TypesStep DEF BytesOK
<1>2. NoRawIfShared'
  BY NoRawStep DEF BytesOK
<1>3. Outcome
  BY StepOutcome DEF BytesOK
<1>4. ByteInv'
  BY <1>3, BytesStep DEF BytesOK
<1> QED BY <1>1, <1>2, <1>3, <1>4 DEF BytesOK

(* While the connection works, what the transport has taken and what is    *)
(* queued are together the accepted messages, whole and in order           *)
(* (INT_CMwrite_raw_notify, queue_remaining_write, CMWriteQueuedData),     *)
(* wherever the socket stops taking bytes after the header and the         *)
(* attributes of a message.                                                *)
THEOREM WriteIsExact == HeadersTaken /\ RepliesWait /\ RawApart => (Spec => []Exact)
<1> SUFFICES ASSUME HeadersTaken, RepliesWait, RawApart
             PROVE  Spec => []Exact
  OBVIOUS
<1>1. Init => BytesOK
  BY BytesInit
<1>2. BytesOK /\ [Next]_vars => BytesOK'
  BY BytesOKStep
<1>3. BytesOK => Exact
  BY DEF BytesOK, TypeInv, ByteInv, Exact
<1> QED BY <1>1, <1>2, <1>3, PTL DEF Spec
-----------------------------------------------------------------------------
(* The refinement of the byte stream.                                      *)
LEMMA PrefixOfConcat ==
  ASSUME NEW S, NEW s \in Seq(S), NEW t \in Seq(S)
  PROVE  IsPrefix(s, s \o t)
<1>1. Len(s) \in Nat /\ Len(t) \in Nat /\ Len(s \o t) = Len(s) + Len(t)
  BY ConcatProperties
<1>2. Take(s \o t, Len(s)) = Take(s, Len(s))
  <2>1. Len(s) \in 0 .. Len(s)
    BY <1>1
  <2> QED BY <2>1, TakeOfFirst
<1>3. Len(s) <= Len(s \o t)
  BY <1>1
<1> QED BY <1>2, <1>3 DEF IsPrefix, Take

LEMMA PromiseStream ==
  \A s : Promise!Stream(s) = StreamOf(s)
BY Zenon DEF Promise!Stream, StreamOf, Promise!FlattenSeq, FlattenSeq

(* The bytes on the wire grow, and never past what was accepted. *)
LEMMA WireFlows ==
  ASSUME BytesOK', ~conn'.failed, wire \in Seq(Byte), NEW t \in Seq(Byte), wire' = wire \o t
  PROVE  Promise!Flows
<1>1. IsPrefix(wire, wire')
  BY PrefixOfConcat
<1>2. IsPrefix(wire', Stream')
  <2> DEFINE r == IF conn'.pending THEN Remainder' ELSE <<>>
  <2>1. wire' \in Seq(Byte) /\ wire' \o r = Stream'
    BY DEF BytesOK, TypeInv, TypeOK, ByteInv, WireExact
  <2>2. r \in Seq(Byte)
    <3>1. conn'.header \in Seq(Byte) /\ conn'.attrs \in Seq(Byte) /\ conn'.data \in Seq(Byte)
      BY DEF BytesOK, TypeInv, TypeOK
    <3>2. conn'.header \o conn'.attrs \in Seq(Byte)
      BY <3>1, ConcatProperties
    <3>3. Remainder' \in Seq(Byte)
      BY <3>1, <3>2, ConcatProperties DEF Remainder
    <3> QED BY <3>3, EmptySeq
  <2> HIDE DEF r
  <2> QED BY <2>1, <2>2, PrefixOfConcat
<1> QED BY <1>1, <1>2, PromiseStream, StreamNow DEF Promise!Flows, Promise!IsPrefix, IsPrefix

LEMMA PromiseInit ==
  ASSUME Init
  PROVE  Promise!Init
<1>1. accepted = <<>> /\ wire = <<>> /\ peer = "up" /\ conn.failed = FALSE
  BY DEF Init
<1> QED BY <1>1 DEF Promise!Init

LEMMA AcceptIsPromised ==
  ASSUME BytesOK', wire \in Seq(Byte), NEW m \in Messages, NEW t \in Seq(Byte),
         peer = "up", ~conn.failed, peer' = peer, conn'.failed = conn.failed,
         accepted' = Append(accepted, m), wire' = wire \o t
  PROVE  Promise!Accept
<1>1. Promise!Flows
  BY WireFlows
<1>2. ~(peer = "down" \/ conn.failed)
  OBVIOUS
<1>3. (peer = "down" \/ conn.failed)' = (peer = "down" \/ conn.failed)
  OBVIOUS
<1> QED BY <1>1, <1>2, <1>3 DEF Promise!Accept

(* The queue moves: more of the stream is on the wire. *)
LEMMA MoveIsPromised ==
  ASSUME BytesOK, BytesOK', conn.pending, NEW t \in Seq(Byte), wire' = wire \o t,
         peer = "up", ~conn.failed, peer' = peer, conn'.failed = conn.failed,
         accepted' = accepted, t = <<>> \/ Remainder # <<>>
  PROVE  Promise!Next \/ UNCHANGED Promise!vars
<1>1. Promise!Flows
  BY WireFlows, TypesNow DEF BytesOK
<1>2. wire \in Seq(Byte) /\ Remainder \in Seq(Byte) /\ wire \o Remainder = Stream
  BY TypesNow, RemainderType, WireNow DEF BytesOK, ByteInv
<1>3. ~(peer = "down" \/ conn.failed) /\ ~(peer = "down" \/ conn.failed)'
  OBVIOUS
<1>4. (peer = "down" \/ conn.failed)' = (peer = "down" \/ conn.failed)
  BY <1>3
<1>5. CASE t = <<>>
  <2>1. wire' = wire
    BY <1>2, <1>5, ConcatEmptySeq
  <2> QED BY <2>1, <1>4 DEF Promise!vars
<1>6. CASE t # <<>>
  <2>1. wire' # wire
    BY <1>2, <1>6, ConcatEqualIffEmpty
  <2>2. wire # Stream
    <3>1. Remainder # <<>>
      BY <1>6
    <3> DEFINE r == Remainder
    <3> HIDE DEF r
    <3>2. wire \o r = wire <=> r = <<>>
      BY <1>2, ConcatEqualIffEmpty, SMTT(60) DEF r
    <3> QED BY <1>2, <3>1, <3>2 DEF r
  <2>3. Stream = Promise!Stream(accepted)
    BY PromiseStream, StreamNow
  <2> QED BY <1>1, <1>3, <1>4, <2>1, <2>2, <2>3 DEF Promise!Deliver, Promise!Next
<1> QED BY <1>5, <1>6

LEMMA BreakIsPromised ==
  ASSUME UNCHANGED <<wire, accepted>>,
         peer' = "down" \/ conn'.failed \/ UNCHANGED <<peer, conn.failed>>
  PROVE  Promise!Next \/ UNCHANGED Promise!vars
<1>1. CASE UNCHANGED <<peer, conn.failed>>
  BY <1>1 DEF Promise!vars
<1>2. CASE peer' = "down" \/ conn'.failed
  <2>1. (peer = "down" \/ conn.failed)' = TRUE
    BY <1>2
  <2> QED BY <2>1 DEF Promise!Break, Promise!Next
<1> QED BY <1>1, <1>2

LEMMA PromiseStep ==
  ASSUME RepliesWait, BytesOK, BytesOK', Outcome
  PROVE  Promise!Next \/ UNCHANGED Promise!vars
<1>1. ASSUME NEW m, NEW n, Accepts(m, n), UNCHANGED <<closes, peer>>
      PROVE  Promise!Accept
  <2>1. /\ m \in Messages /\ n \in 0 .. Len(Bytes(m)) /\ peer = "up" /\ ~conn.failed
        /\ wire' = wire \o Take(Bytes(m), n)
        /\ accepted' = Append(accepted, m)
    BY <1>1 DEF Accepts
  <2>2. Take(Bytes(m), n) \in Seq(Byte)
    BY <2>1, BytesType, TakeType
  <2>3. conn'.failed = conn.failed
    BY <1>1, AcceptsTypes DEF BytesOK
  <2>4. wire \in Seq(Byte)
    BY TypesNow DEF BytesOK
  <2> QED BY <1>1, <2>1, <2>2, <2>3, <2>4, AcceptIsPromised
<1>2. ASSUME NEW m \in Direct, Reply(m), peer = "up"
      PROVE  Promise!Accept
  <2>1. /\ m \in Messages /\ ~conn.failed
        /\ wire' = wire \o Bytes(m) /\ accepted' = Append(accepted, m)
        /\ UNCHANGED <<conn, peer>>
    BY <1>2 DEF Reply, Messages
  <2>2. Bytes(m) \in Seq(Byte) /\ wire \in Seq(Byte) /\ conn'.failed = conn.failed
    BY <2>1, BytesType, TypesNow DEF BytesOK
  <2> QED BY <1>2, <2>1, <2>2, AcceptIsPromised
<1>3. ASSUME NEW k \in 1 .. 3, NEW n \in 0 .. Len(Queued(k)), PartWritten(k, n)
      PROVE  Promise!Next \/ UNCHANGED Promise!vars
  <2>1. /\ conn.pending /\ ~conn.failed /\ peer = "up"
        /\ n \in 1 .. Len(conn.data) - 1
        /\ wire' = wire \o Take(conn.data, n)
        /\ conn' = [conn EXCEPT !.data = Drop(conn.data, n)]
        /\ UNCHANGED <<closes, peer, accepted>>
    BY <1>3, PartWrittenIs DEF BytesOK
  <2>2. conn.data \in Seq(Byte) /\ Len(conn.data) \in Nat
    BY ConnIsConn DEF BytesOK
  <2>3. Take(conn.data, n) \in Seq(Byte)
    <3>1. n \in 0 .. Len(conn.data)
      BY <2>1, <2>2
    <3> QED BY <2>2, <3>1, TakeType
  <2>4. Remainder # <<>>
    <3>1. Remainder = conn.data
      BY <2>1, RemainderIsData DEF BytesOK
    <3>2. Len(<<>>) = 0 /\ Len(conn.data) # 0
      BY <2>1, <2>2
    <3> QED BY <3>1, <3>2
  <2>5. conn'.failed = conn.failed
    BY <2>1, TypesNow DEF Conns, BytesOK
  <2> QED BY <2>1, <2>3, <2>4, <2>5, MoveIsPromised
<1>4. CASE AllWritten
  <2>1. /\ conn.pending /\ ~conn.failed /\ peer = "up"
        /\ wire' = wire \o Remainder /\ UNCHANGED <<peer, accepted>>
    BY <1>4 DEF AllWritten, Writable, ByteInv, BytesOK
  <2>2. Remainder \in Seq(Byte) /\ conn'.failed = conn.failed
    BY <1>4, RemainderType, AllWrittenTypes DEF BytesOK
  <2> DEFINE r == Remainder
  <2>3. r = <<>> \/ Remainder # <<>>
    OBVIOUS
  <2> HIDE DEF r
  <2>4. r \in Seq(Byte) /\ wire' = wire \o r
    BY <2>1, <2>2 DEF r
  <2> QED BY <2>1, <2>2, <2>3, <2>4, MoveIsPromised
<1>5. CASE Fails
  BY <1>5, BreakIsPromised DEF Fails
<1>6. CASE Quiet
  BY <1>6, BreakIsPromised DEF Quiet
<1> QED BY <1>1, <1>2, <1>3, <1>4, <1>5, <1>6 DEF Outcome, Promise!Next

(* The connection is the byte stream that evpath.h promises (473, 541):    *)
(* every step of the write side is a step of ByteStream or leaves it as it *)
(* is.                                                                     *)
THEOREM StreamIsKept == HeadersTaken /\ RepliesWait /\ RawApart => (Spec => ImplementsByteStream)
<1> SUFFICES ASSUME HeadersTaken, RepliesWait, RawApart
             PROVE  Spec => ImplementsByteStream
  OBVIOUS
<1>1. Init => BytesOK /\ Promise!Init
  BY BytesInit, PromiseInit
<1>2. BytesOK /\ [Next]_vars => BytesOK'
  BY BytesOKStep
<1>3. BytesOK /\ BytesOK' /\ [Next]_vars => [Promise!Next]_(Promise!vars)
  BY BytesOKStep, PromiseStep
<1> QED BY <1>1, <1>2, <1>3, PTL DEF Spec, ImplementsByteStream, Promise!Spec
-----------------------------------------------------------------------------
(* The callbacks.                                                          *)
CallInv ==
  /\ WaitersListed
  /\ nextCond # 0
  /\ \A i \in 1 .. Len(conn.callbacks) :
       /\ conn.callbacks[i].func = "wake" => conn.callbacks[i].data # 0
       /\ conn.callbacks[i].func = "user" => conn.callbacks[i].data \in UserData

(* The client data of the application is no number of a condition:         *)
(* remove_pending_write_callback stops at the first slot that has the      *)
(* function or the data it looks for.                                      *)
NoNumbers == UserData \subseteq {0}

SameWaits ==
  \A x \in Writers : pc'[x] = "cond" => pc[x] = "cond" /\ cond'[x] = cond[x]

(* The callbacks are called: all that wait are signaled. *)
LEMMA WakeKeeps ==
  ASSUME NoNumbers, TypeInv, CallInv, SameWaits, UNCHANGED nextCond,
         conn'.callbacks = AfterWake(conn.callbacks),
         signaled' = signaled \cup WokenBy(conn.callbacks)
  PROVE  CallInv' /\ UserKept
<1> DEFINE s == conn.callbacks
           t == AfterWake(s)
<1>1. s \in Seq(Slot) /\ Freed(s, t)
  BY ConnIsConn, AfterWakeEffect
<1>2. conn'.callbacks = t
  OBVIOUS
<1> HIDE DEF t
<1>3. WaitersListed'
  <2> SUFFICES ASSUME NEW w \in Writers, pc'[w] = "cond"
               PROVE  cond'[w] \in signaled'
    BY DEF WaitersListed
  <2>1. pc[w] = "cond" /\ cond'[w] = cond[w]
    BY DEF SameWaits
  <2>2. CASE cond[w] \in signaled
    BY <2>1, <2>2
  <2>3. CASE cond[w] \notin signaled
    <3>1. PICK i \in 1 .. Len(s) : s[i] = [func |-> "wake", data |-> cond[w]]
      BY <2>1, <2>3 DEF CallInv, WaitersListed
    <3>2. IsWake(s[i]) /\ s[i].data = cond[w]
      BY <3>1 DEF IsWake
    <3>3. cond[w] \in WokenBy(s)
      BY <3>2 DEF WokenBy
    <3> QED BY <2>1, <3>3
  <2> QED BY <2>2, <2>3
<1>4. /\ Len(t) = Len(s)
      /\ \A i \in 1 .. Len(s) : t[i].data = s[i].data /\ (t[i].func = s[i].func \/ t[i].func = "none")
  BY <1>1 DEF Freed
<1>5. \A i \in 1 .. Len(s) :
        /\ s[i].func = "wake" => s[i].data # 0
        /\ s[i].func = "user" => s[i].data \in UserData
  BY DEF CallInv
<1>6. \A i \in 1 .. Len(t) :
        /\ t[i].func = "wake" => t[i].data # 0
        /\ t[i].func = "user" => t[i].data \in UserData
  <2> SUFFICES ASSUME NEW i \in 1 .. Len(t)
               PROVE  /\ t[i].func = "wake" => t[i].data # 0
                      /\ t[i].func = "user" => t[i].data \in UserData
    OBVIOUS
  <2>1. i \in 1 .. Len(s)
    BY <1>4
  <2> QED BY <2>1, <1>4, <1>5
<1>7. CallInv'
  BY <1>2, <1>3, <1>6 DEF CallInv
<1>8. ASSUME HasUser(conn) PROVE HasUser(conn')
  <2>1. PICK i \in 1 .. Len(s) : s[i].func = "user"
    BY <1>8 DEF HasUser
  <2>2. s[i].data = 0
    BY <2>1, <1>5 DEF NoNumbers
  <2>3. \A j \in 1 .. Len(s) : s[j].func = "wake" => s[j].data # s[i].data
    BY <2>2, <1>5
  <2>4. t[i].func = "user" /\ i \in 1 .. Len(t)
    BY <1>1, <2>1, <2>3 DEF Freed
  <2> QED BY <2>4, <1>2 DEF HasUser
<1> QED BY <1>7, <1>8 DEF UserKept

LEMMA SameKeeps ==
  ASSUME TypeInv, CallInv, SameWaits, UNCHANGED <<nextCond, signaled>>,
         conn'.callbacks = conn.callbacks, conn.pending => conn'.pending
  PROVE  CallInv' /\ UserKept
<1>1. WaitersListed'
  <2> SUFFICES ASSUME NEW w \in Writers, pc'[w] = "cond", cond'[w] \notin signaled'
               PROVE  /\ conn'.pending
                      /\ \E i \in 1 .. Len(conn'.callbacks) :
                           conn'.callbacks[i] = [func |-> "wake", data |-> cond'[w]]
    BY DEF WaitersListed
  <2>1. pc[w] = "cond" /\ cond'[w] = cond[w] /\ cond[w] \notin signaled
    BY DEF SameWaits
  <2> QED BY <2>1 DEF CallInv, WaitersListed
<1> QED BY <1>1 DEF CallInv, UserKept, HasUser

(* A callback is added, of a writer that starts to wait or of the          *)
(* application.                                                            *)
LEMMA AddKeeps ==
  ASSUME TypeInv, CallInv, UNCHANGED signaled, NEW e \in Slot,
         conn'.callbacks = AddCallback(conn.callbacks, e),
         conn'.pending = conn.pending, nextCond' # 0,
         e.func = "wake" => e.data # 0, e.func = "user" => e.data \in UserData,
         \A x \in Writers : pc'[x] = "cond" =>
           \/ pc[x] = "cond" /\ cond'[x] = cond[x]
           \/ conn.pending /\ e = [func |-> "wake", data |-> cond'[x]]
  PROVE  CallInv' /\ UserKept
<1> DEFINE s == conn.callbacks
           t == AddCallback(s, e)
<1>1. /\ s \in Seq(Slot) /\ t \in Seq(Slot)
      /\ InList(t, e)
      /\ \A i \in 1 .. Len(s) : s[i].func # "none" => i \in 1 .. Len(t) /\ t[i] = s[i]
      /\ \A x : InList(t, x) => x = e \/ InList(s, x)
  BY ConnIsConn, AddCallbackEffect
<1>2. conn'.callbacks = t
  OBVIOUS
<1> HIDE DEF t
<1>3. DOMAIN s = 1 .. Len(s) /\ DOMAIN t = 1 .. Len(t)
  BY <1>1
<1>4. WaitersListed'
  <2> SUFFICES ASSUME NEW w \in Writers, pc'[w] = "cond", cond'[w] \notin signaled'
               PROVE  /\ conn'.pending
                      /\ \E i \in 1 .. Len(t) : t[i] = [func |-> "wake", data |-> cond'[w]]
    BY <1>2 DEF WaitersListed
  <2>1. CASE pc[w] = "cond" /\ cond'[w] = cond[w]
    <3>1. conn.pending /\ \E i \in 1 .. Len(s) : s[i] = [func |-> "wake", data |-> cond[w]]
      BY <2>1 DEF CallInv, WaitersListed
    <3>2. PICK i \in 1 .. Len(s) : s[i] = [func |-> "wake", data |-> cond[w]]
      BY <3>1
    <3>3. s[i].func # "none"
      BY <3>2
    <3> QED BY <1>1, <2>1, <3>1, <3>2, <3>3
  <2>2. CASE conn.pending /\ e = [func |-> "wake", data |-> cond'[w]]
    BY <1>1, <1>3, <2>2 DEF InList
  <2> QED BY <2>1, <2>2
<1>5. \A i \in 1 .. Len(t) :
        /\ t[i].func = "wake" => t[i].data # 0
        /\ t[i].func = "user" => t[i].data \in UserData
  <2> SUFFICES ASSUME NEW i \in 1 .. Len(t)
               PROVE  /\ t[i].func = "wake" => t[i].data # 0
                      /\ t[i].func = "user" => t[i].data \in UserData
    OBVIOUS
  <2>1. InList(t, t[i])
    BY <1>3 DEF InList
  <2>2. CASE t[i] = e
    BY <2>2
  <2>3. CASE InList(s, t[i])
    <3>1. PICK j \in 1 .. Len(s) : s[j] = t[i]
      BY <1>3, <2>3 DEF InList
    <3> QED BY <3>1 DEF CallInv
  <2> QED BY <1>1, <2>1, <2>2, <2>3
<1>6. CallInv'
  BY <1>2, <1>4, <1>5 DEF CallInv
<1>7. ASSUME HasUser(conn) PROVE HasUser(conn')
  <2>1. PICK i \in 1 .. Len(s) : s[i].func = "user"
    BY <1>7 DEF HasUser
  <2>2. i \in 1 .. Len(t) /\ t[i] = s[i]
    BY <1>1, <2>1
  <2> QED BY <1>2, <2>1, <2>2 DEF HasUser
<1> QED BY <1>6, <1>7 DEF UserKept

LEMMA UnregisterKeeps ==
  ASSUME TypeInv, CallInv, Unregister
  PROVE  CallInv' /\ UserKept
<1> DEFINE s == conn.callbacks
           t == conn'.callbacks
<1>1. PICK k \in 1 .. Len(s) :
         s[k].func = "user" /\ conn' = [conn EXCEPT !.callbacks[k].func = "none"]
  BY DEF Unregister
<1>2. s \in Seq(Slot)
  BY ConnIsConn
<1>3. /\ Len(t) = Len(s)
      /\ \A i \in 1 .. Len(s) : i # k => t[i] = s[i]
      /\ t[k].func = "none"
      /\ conn'.pending = conn.pending
  <2> DEFINE e == [s[k] EXCEPT !.func = "none"]
  <2>1. conn' = [conn EXCEPT !.callbacks = [s EXCEPT ![k] = e]]
    BY <1>1, TypesNow DEF Conns
  <2>2. e \in Slot /\ e.func = "none"
    <3>1. s[k] \in Slot
      BY <1>2
    <3> QED BY <3>1 DEF Slot
  <2> HIDE DEF e
  <2>3. t = [s EXCEPT ![k] = e] /\ conn'.pending = conn.pending
    BY <2>1, TypesNow DEF Conns
  <2> HIDE DEF s, t
  <2>4. Len(t) = Len(s) /\ \A i \in 1 .. Len(s) : t[i] = IF i = k THEN e ELSE s[i]
    BY <1>2, <2>2, <2>3, ExceptSeq
  <2> QED BY <2>2, <2>3, <2>4
<1>4. UNCHANGED <<pc, cond, signaled, nextCond>>
  BY DEF Unregister
<1>5. WaitersListed'
  <2> SUFFICES ASSUME NEW w \in Writers, pc'[w] = "cond", cond'[w] \notin signaled'
               PROVE  /\ conn'.pending
                      /\ \E i \in 1 .. Len(t) : t[i] = [func |-> "wake", data |-> cond'[w]]
    BY DEF WaitersListed
  <2>1. conn.pending /\ \E i \in 1 .. Len(s) : s[i] = [func |-> "wake", data |-> cond[w]]
    BY <1>4 DEF CallInv, WaitersListed
  <2>2. PICK i \in 1 .. Len(s) : s[i] = [func |-> "wake", data |-> cond[w]]
    BY <2>1
  <2>3. i # k
    BY <1>1, <2>2
  <2> QED BY <1>3, <1>4, <2>1, <2>2, <2>3
<1>6. \A i \in 1 .. Len(t) :
        /\ t[i].func = "wake" => t[i].data # 0
        /\ t[i].func = "user" => t[i].data \in UserData
  BY <1>3 DEF CallInv
<1> QED BY <1>4, <1>5, <1>6 DEF CallInv, UserKept

LEMMA BlockKeeps ==
  ASSUME TypeInv, CallInv, NEW w \in Writers, Block(w), conn.pending
  PROVE  CallInv' /\ UserKept
<1>1. CASE w \in Pollers
  <2>1. pc' = [pc EXCEPT ![w] = "poll"] /\ UNCHANGED <<conn, cond, nextCond, signaled>>
    BY <1>1 DEF Block
  <2>2. SameWaits
    BY <2>1, TypesNow DEF SameWaits
  <2> QED BY <2>1, <2>2, SameKeeps
<1>2. CASE w \notin Pollers
  <2> DEFINE e == [func |-> "wake", data |-> nextCond]
             t == AddCallback(conn.callbacks, e)
  <2>1. /\ pc' = [pc EXCEPT ![w] = "cond"]
        /\ cond' = [cond EXCEPT ![w] = nextCond]
        /\ nextCond' = nextCond + 1
        /\ conn' = [conn EXCEPT !.callbacks = t]
        /\ UNCHANGED signaled
    BY <1>2 DEF Block
  <2>2. e \in Slot /\ e.func = "wake" /\ e.data = nextCond
    BY TypesNow DEF Slot
  <2>3. nextCond \in Nat /\ nextCond # 0 /\ nextCond' # 0
    BY <2>1, TypesNow DEF CallInv
  <2>4. \A x \in Writers : pc'[x] = "cond" =>
           \/ pc[x] = "cond" /\ cond'[x] = cond[x]
           \/ conn.pending /\ e = [func |-> "wake", data |-> cond'[x]]
    BY <2>1, TypesNow
  <2> HIDE DEF e, t
  <2>5. conn'.callbacks = t /\ conn'.pending = conn.pending
    BY <2>1, TypesNow DEF Conns
  <2> QED BY <2>1, <2>2, <2>3, <2>4, <2>5, AddKeeps DEF t
<1> QED BY <1>1, <1>2

LEMMA WriteKeeps ==
  ASSUME NoNumbers, TypeInv, CallInv, NEW m \in Messages, Write(m), SameWaits, UNCHANGED nextCond
  PROVE  CallInv' /\ UserKept
<1>1. CASE \E n : Accepts(m, n)
  <2>1. PICK n : Accepts(m, n)
    BY <1>1
  <2>2. conn'.callbacks = conn.callbacks /\ (n # Len(Bytes(m)) => conn'.pending)
    BY <2>1, AcceptsTypes
  <2>3. UNCHANGED signaled /\ (n = Len(Bytes(m)) => conn' = conn)
    BY <2>1 DEF Accepts
  <2> QED BY <2>2, <2>3, SameKeeps
<1>2. CASE Fails
  BY <1>2, WakeKeeps DEF Fails
<1> QED BY <1>1, <1>2, WriteEffect

LEMMA ProceedKeeps ==
  ASSUME NoNumbers, TypeInv, CallInv, NEW w \in Writers, pc[w] # "idle", Proceed(w)
  PROVE  CallInv' /\ UserKept
<1>1. SameWaits /\ UNCHANGED nextCond
  <2>1. /\ pc' = [pc EXCEPT ![w] = "idle"] /\ cond' = [cond EXCEPT ![w] = 0]
        /\ UNCHANGED nextCond
    BY DEF Proceed, GiveUp
  <2> QED BY <2>1, TypesNow DEF SameWaits
<1>2. msg[w] \in Messages
  BY TypesNow
<1>3. CASE Open \/ msg[w] \in Raw
  BY <1>1, <1>2, <1>3, WriteKeeps DEF Proceed
<1>4. CASE ~(Open \/ msg[w] \in Raw)
  BY <1>1, <1>4, SameKeeps DEF Proceed
<1> QED BY <1>3, <1>4

LEMMA CallStep ==
  ASSUME NoNumbers, TypeInv, CallInv, [Next]_vars
  PROVE  CallInv' /\ UserKept
<1>1. CASE UNCHANGED vars
  <2>1. SameWaits /\ UNCHANGED <<nextCond, signaled, conn>>
    BY <1>1 DEF vars, SameWaits
  <2> QED BY <2>1, SameKeeps
<1>2. ASSUME NEW w \in Writers, NEW m \in Messages, WriteCall(w, m) PROVE CallInv' /\ UserKept
  <2>1. CASE Open /\ conn.pending
    BY <1>2, <2>1, BlockKeeps DEF WriteCall
  <2>2. CASE ~(Open /\ conn.pending)
    <3>1. UNCHANGED <<pc, cond, nextCond>>
      BY <1>2, <2>2 DEF WriteCall
    <3>2. SameWaits
      BY <3>1 DEF SameWaits
    <3>3. CASE Open
      BY <1>2, <2>2, <3>1, <3>2, <3>3, WriteKeeps DEF WriteCall
    <3>4. CASE ~Open
      BY <1>2, <2>2, <3>1, <3>2, <3>4, SameKeeps DEF WriteCall
    <3> QED BY <3>3, <3>4
  <2> QED BY <2>1, <2>2
<1>3. ASSUME NEW w \in Writers, PollReturn(w) PROVE CallInv' /\ UserKept
  BY <1>3, ProceedKeeps DEF PollReturn
<1>4. ASSUME NEW w \in Writers, CondReturn(w) PROVE CallInv' /\ UserKept
  <2>1. CASE MustWait
    BY <1>4, <2>1, BlockKeeps DEF CondReturn, MustWait
  <2>2. CASE ~MustWait
    BY <1>4, <2>2, ProceedKeeps DEF CondReturn
  <2> QED BY <2>1, <2>2
<1>5. ASSUME NEW m \in Direct, Reply(m) PROVE CallInv' /\ UserKept
  <2>1. UNCHANGED <<pc, cond, nextCond, signaled>>
        /\ (conn' = conn \/ conn' = [conn EXCEPT !.closed = TRUE])
    BY <1>5 DEF Reply
  <2>2. SameWaits /\ conn'.callbacks = conn.callbacks /\ conn'.pending = conn.pending
    BY <2>1, TypesNow DEF SameWaits, Conns
  <2> QED BY <2>1, <2>2, SameKeeps
<1>6. ASSUME NEW k \in 1 .. 3, NEW n, PartWritten(k, n) PROVE CallInv' /\ UserKept
  <2>1. UNCHANGED <<pc, cond, nextCond, signaled>> /\ conn' = Shortened(k, n)
    BY <1>6 DEF PartWritten
  <2>2. conn'.callbacks = conn.callbacks /\ conn'.pending = conn.pending
    <3>1. k = 1 \/ k = 2 \/ k = 3
      OBVIOUS
    <3>2. \/ Shortened(k, n) = [conn EXCEPT !.header = Drop(@, n)]
          \/ Shortened(k, n) = [conn EXCEPT !.attrs = Drop(@, n)]
          \/ Shortened(k, n) = [conn EXCEPT !.data = Drop(@, n)]
      BY <3>1 DEF Shortened
    <3> QED BY <2>1, <3>2, TypesNow DEF Conns
  <2>3. SameWaits
    BY <2>1 DEF SameWaits
  <2> QED BY <2>1, <2>2, <2>3, SameKeeps
<1>7. CASE AllWritten
  <2>1. /\ UNCHANGED <<pc, cond, nextCond>>
        /\ signaled' = signaled \cup WokenBy(conn.callbacks)
    BY <1>7 DEF AllWritten
  <2>2. SameWaits
    BY <2>1 DEF SameWaits
  <2> QED BY <1>7, <2>1, <2>2, AllWrittenTypes, WakeKeeps
<1>8. CASE FailStep
  <2>1. Fails /\ UNCHANGED <<pc, cond, nextCond>>
    BY <1>8, FailStepEffect
  <2>2. SameWaits
    BY <2>1 DEF SameWaits
  <2> QED BY <2>1, <2>2, WakeKeeps DEF Fails
<1>9. CASE PeerGoes \/ CloseShared
  <2>1. UNCHANGED <<pc, cond, nextCond, signaled>>
        /\ (conn' = conn \/ conn' = [conn EXCEPT !.closed = TRUE])
    BY <1>9 DEF PeerGoes, CloseShared
  <2>2. SameWaits /\ conn'.callbacks = conn.callbacks /\ conn'.pending = conn.pending
    BY <2>1, TypesNow DEF SameWaits, Conns
  <2> QED BY <2>1, <2>2, SameKeeps
<1>10. CASE Register
  <2>1. PICK d \in UserData :
           conn' = [conn EXCEPT !.callbacks = AddCallback(@, [func |-> "user", data |-> d])]
    BY <1>10 DEF Register
  <2> DEFINE e == [func |-> "user", data |-> d]
             t == AddCallback(conn.callbacks, e)
  <2>2. UNCHANGED <<pc, cond, nextCond, signaled>> /\ nextCond # 0
    BY <1>10 DEF Register, CallInv
  <2>3. e \in Slot /\ e.func = "user" /\ e.data \in UserData
    BY WriteAssumption DEF Slot
  <2>4. conn' = [conn EXCEPT !.callbacks = t]
    BY <2>1
  <2> HIDE DEF e, t
  <2>5. conn'.callbacks = t /\ conn'.pending = conn.pending
    BY <2>4, TypesNow DEF Conns
  <2> QED BY <2>2, <2>3, <2>5, AddKeeps DEF t
<1>11. CASE Unregister
  BY <1>11, UnregisterKeeps
<1> QED BY <1>1, <1>2, <1>3, <1>4, <1>5, <1>6, <1>7, <1>8, <1>9, <1>10, <1>11 DEF Next, FailStep

LEMMA CallInit ==
  ASSUME Init
  PROVE  TypeInv /\ CallInv
<1>1. CallInv
  BY DEF Init, CallInv, WaitersListed
<1> QED BY <1>1, TypesInit

(* Nobody who waits for the connection is forgotten: a thread whose        *)
(* condition is not signaled yet is in the callbacks of a connection with  *)
(* a pending write, whatever is added, removed or called in the same slots *)
(* (add_pending_write_callback, cm_wake_any_pending_write), and the        *)
(* callback of the application leaves the list only by its unregistration. *)
THEOREM NobodyForgotten == NoNumbers => (Spec => CallbacksKept)
<1> SUFFICES ASSUME NoNumbers
             PROVE  Spec => CallbacksKept
  OBVIOUS
<1> DEFINE I == TypeInv /\ CallInv
<1>1. Init => I
  BY CallInit
<1>2. I /\ [Next]_vars => I'
  BY CallStep, TypesStep
<1>3. I /\ [Next]_vars => [WaitersListed' /\ UserKept]_vars
  BY CallStep DEF CallInv
<1> HIDE DEF I
<1> QED BY <1>1, <1>2, <1>3, PTL DEF Spec, CallbacksKept
===============================================================================
