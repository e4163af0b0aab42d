---------------------------- MODULE CMReadProofs ----------------------------
(***************************************************************************)
(* Proofs about the reading side of cm.c, for every set of connections and *)
(* every set of programs in which a handler that waits is the last of its  *)
(* connection: the boundaries of the messages and the pool of buffers.     *)
(***************************************************************************)
EXTENDS CMRead, ListLemmas

-----------------------------------------------------------------------------
(* Streams of messages.                                                    *)

LEMMA SentType ==
  ASSUME program \in Programs, NEW c \in Connections
  PROVE  /\ program.sent[c] \in Seq(Messages) /\ Len(program.sent[c]) \in Nat
         /\ Sent(c) = 1 .. Len(program.sent[c])
         /\ \A k \in Sent(c) :
              /\ Message(c, k) \in Messages
              /\ Message(c, k).words \in Nat /\ Message(c, k).words >= 1
              /\ HeaderLength(Message(c, k).kind) \in 1 .. 4
              /\ Message(c, k).words >= HeaderLength(Message(c, k).kind)
              /\ Message(c, k).kind \in {"data", "converted", "event"} =>
                   Message(c, k).words >= HeaderBuffer
<1>1. program.sent[c] \in Seq(Messages)
  BY ReadAssumption
<1>2. Len(program.sent[c]) \in Nat /\ Sent(c) = 1 .. Len(program.sent[c])
  BY <1>1, LenProperties DEF Sent
<1>3. ASSUME NEW k \in Sent(c)
      PROVE  /\ Message(c, k) \in Messages
             /\ Message(c, k).words \in Nat /\ Message(c, k).words >= 1
             /\ HeaderLength(Message(c, k).kind) \in 1 .. 4
             /\ Message(c, k).words >= HeaderLength(Message(c, k).kind)
             /\ Message(c, k).kind \in {"data", "converted", "event"} =>
                  Message(c, k).words >= HeaderBuffer
  <2>1. Message(c, k) \in Messages
    BY <1>1, <1>2, <1>3, ElementOfSeq DEF Message
  <2>2. Message(c, k).kind \in Kinds /\ Message(c, k).words \in Nat
    BY <2>1 DEF Messages
  <2>3. HeaderLength(Message(c, k).kind) \in 1 .. 4
    BY <2>2 DEF HeaderLength, Kinds
  <2>4. /\ Message(c, k).words >= HeaderLength(Message(c, k).kind)
        /\ Message(c, k).kind \in {"data", "converted", "event"} =>
             Message(c, k).words >= HeaderBuffer
    BY <1>3, SizeAssumption DEF Message, Sent
  <2> QED BY <2>1, <2>2, <2>3, <2>4
<1> QED BY <1>1, <1>2, <1>3

Words(c, k) == {k} \X (1 .. Message(c, k).words)

LEMMA BeforeFinite ==
  ASSUME program \in Programs, NEW c \in Connections, NEW k \in Nat,
         k <= Len(program.sent[c]) + 1
  PROVE  IsFiniteSet(Before(c, k))
<1> DEFINE J == 1 .. k - 1
           f == [j \in J |-> Words(c, j)]
           S == {Words(c, j) : j \in J}
<1>1. IsFiniteSet(J)
  BY FS_Interval
<1>2. f \in Surjection(J, S)
  BY Fun_IsSurj
<1>3. IsFiniteSet(S)
  BY <1>1, <1>2, FS_Surjection
<1>4. ASSUME NEW j \in J PROVE IsFiniteSet(Words(c, j))
  <2>1. j \in Sent(c)
    BY SentType
  <2>2. IsFiniteSet({j}) /\ IsFiniteSet(1 .. Message(c, j).words)
    <3>1. Message(c, j).words \in Int /\ 1 \in Int
      BY <2>1, SentType
    <3> QED BY <3>1, FS_Interval, FS_Singleton
  <2> QED BY <2>2, FS_Product DEF Words
<1>5. \A T \in S : IsFiniteSet(T)
  BY <1>4
<1>6. IsFiniteSet(UNION S)
  <2> HIDE DEF S
  <2> QED BY <1>3, <1>5, FS_UNION
<1> QED BY <1>6 DEF Before, Words

LEMMA StartType ==
  ASSUME program \in Programs, NEW c \in Connections, NEW k \in Nat,
         k <= Len(program.sent[c]) + 1
  PROVE  Start(c, k) \in Nat
BY BeforeFinite, FS_CardinalityType DEF Start

LEMMA StartFirst == \A c : Start(c, 1) = 0
<1>1. \A c : Before(c, 1) = {}
  BY DEF Before
<1> QED BY <1>1, FS_EmptySet DEF Start

(* The next message starts behind the words of this one.                    *)
LEMMA StartNext ==
  ASSUME program \in Programs, NEW c \in Connections, NEW k \in Sent(c)
  PROVE  Start(c, k + 1) = Start(c, k) + Message(c, k).words
<1> DEFINE W == Words(c, k)
           B == Before(c, k)
           n == Message(c, k).words
<1>1. /\ k \in Nat /\ k >= 1 /\ n \in Nat /\ Len(program.sent[c]) \in Nat
      /\ k <= Len(program.sent[c]) + 1
  BY SentType
<1>2. IsFiniteSet(B)
  BY <1>1, BeforeFinite
<1>3. IsFiniteSet(W) /\ Cardinality(W) = n
  <2>1. IsFiniteSet({k}) /\ Cardinality({k}) = 1
    BY FS_Singleton
  <2>2. IsFiniteSet(1 .. n) /\ Cardinality(1 .. n) = n
    <3> HIDE DEF n
    <3>1. n \in Int /\ 1 \in Int
      BY <1>1
    <3>2. IsFiniteSet(1 .. n) /\ Cardinality(1 .. n) = IF 1 > n THEN 0 ELSE n - 1 + 1
      BY <3>1, FS_Interval
    <3> QED BY <1>1, <3>2
  <2>3. IsFiniteSet(W) /\ Cardinality(W) = 1 * Cardinality(1 .. n)
    BY <2>1, <2>2, FS_Product DEF Words
  <2> HIDE DEF n, W
  <2> QED BY <1>1, <2>2, <2>3
<1>4. Before(c, k + 1) = B \cup W
  <2>1. 1 .. (k + 1) - 1 = (1 .. k - 1) \cup {k}
    BY <1>1
  <2> QED BY <2>1 DEF Before, Words
<1>5. B \cap W = {}
  <2>1. \A j \in 1 .. k - 1 : Words(c, j) \cap W = {}
    BY <1>1 DEF Words
  <2>2. B = UNION {Words(c, j) : j \in 1 .. k - 1}
    BY DEF Before, Words
  <2> HIDE DEF W
  <2> QED BY <2>1, <2>2
<1>6. Cardinality(B) \in Nat
  BY <1>2, FS_CardinalityType
<1> HIDE DEF B, W, n
<1>7. Cardinality(B \cup W) = Cardinality(B) + Cardinality(W) - Cardinality(B \cap W)
  BY <1>2, <1>3, FS_Union
<1>8. Cardinality(B \cup W) = Cardinality(B) + n
  <2>1. Cardinality(B \cap W) = 0
    BY <1>5, FS_EmptySet
  <2> QED BY <1>1, <1>3, <1>6, <1>7, <2>1
<1> QED BY <1>4, <1>8 DEF Start, B, n

LEMMA StartGrows ==
  ASSUME program \in Programs, NEW c \in Connections, NEW j \in Nat, NEW k \in Nat,
         j <= k, k <= Len(program.sent[c]) + 1
  PROVE  Start(c, j) <= Start(c, k)
<1>1. Before(c, j) \subseteq Before(c, k)
  <2>1. 1 .. j - 1 \subseteq 1 .. k - 1
    OBVIOUS
  <2> QED BY <2>1 DEF Before
<1>2. IsFiniteSet(Before(c, k))
  BY BeforeFinite
<1> QED BY <1>1, <1>2, FS_Subset DEF Start

(* No two messages start at the same word.                                  *)
LEMMA MessageThere ==
  ASSUME program \in Programs, NEW c \in Connections, NEW k \in Sent(c)
  PROVE  MessageAt(c, Start(c, k)) = k
<1>1. \A l \in Sent(c) : /\ l \in Nat /\ l + 1 <= Len(program.sent[c]) + 1
                         /\ Len(program.sent[c]) \in Nat /\ l + 1 \in Nat
  BY SentType
<1>2. ASSUME NEW i \in Sent(c), NEW l \in Sent(c), i < l PROVE Start(c, i) # Start(c, l)
  <2>1. Start(c, i + 1) = Start(c, i) + Message(c, i).words
    BY <1>2, StartNext
  <2>2. i + 1 <= l /\ l <= Len(program.sent[c]) + 1
    <3>1. i \in Nat /\ l \in Nat /\ Len(program.sent[c]) \in Nat
          /\ l + 1 <= Len(program.sent[c]) + 1
      BY <1>1, <1>2, Zenon
    <3> HIDE <1>1
    <3> QED BY <1>2, <3>1
  <2>3. Start(c, i + 1) <= Start(c, l)
    BY <1>1, <2>2, StartGrows
  <2>4. Start(c, i) \in Nat /\ Start(c, l) \in Nat
    BY <1>1, StartType
  <2>5. Message(c, i).words \in Nat /\ Message(c, i).words >= 1
    BY <1>2, SentType
  <2> QED BY <2>1, <2>3, <2>4, <2>5
<1>3. \A l \in Sent(c) : Start(c, l) = Start(c, k) => l = k
  <2> SUFFICES ASSUME NEW l \in Sent(c), Start(c, l) = Start(c, k), l # k PROVE FALSE
    OBVIOUS
  <2>1. l < k \/ k < l
    BY <1>1
  <2> QED BY <1>2, <2>1
<1> QED BY <1>3 DEF MessageAt

(* The reader is n words into message k: that message is on its way.        *)
LEMMA PartOfMessage ==
  ASSUME program \in Programs, NEW c \in Connections, NEW k \in Nat, NEW t \in Nat, NEW n \in Nat,
         k >= 1, k <= Len(program.sent[c]) + 1, t <= Length(c), t - n = Start(c, k)
  PROVE  /\ n > 0 => k \in Sent(c)
         /\ k \in Sent(c) => MessageAt(c, t - n) = k
         /\ k \notin Sent(c) => n = 0 /\ t = Length(c)
<1>1. Sent(c) = 1 .. Len(program.sent[c]) /\ Len(program.sent[c]) \in Nat
  BY SentType
<1>2. k \notin Sent(c) => k = Len(program.sent[c]) + 1
  BY <1>1
<1>3. k \notin Sent(c) => n = 0 /\ t = Length(c)
  <2>1. ASSUME k \notin Sent(c) PROVE t - n = Length(c)
    BY <1>2, <2>1 DEF Length
  <2>2. Length(c) \in Nat
    BY <1>1, StartType DEF Length
  <2> QED BY <2>1, <2>2
<1> QED BY <1>3, MessageThere
-----------------------------------------------------------------------------
(* The pool of buffers.                                                    *)
BufferSet == [size : Int, ref : Int, holds : Connections \X Nat]

LEMMA MaxIn ==
  ASSUME NEW n \in Nat, NEW S \in SUBSET (1 .. n), S # {}
  PROVE  Max(S) \in S
<1> DEFINE T == {m \in Nat : n - m \in S}
<1>1. T # {}
  <2>1. PICK x \in S : TRUE
    OBVIOUS
  <2>2. n - x \in Nat /\ n - (n - x) = x
    OBVIOUS
  <2>3. n - x \in T
    BY <2>1, <2>2
  <2> QED BY <2>3
<1>2. PICK m \in T : \A l \in T : m <= l
  BY <1>1, LeastNat
<1>3. ASSUME NEW y \in S PROVE n - m >= y
  <2>1. n - y \in Nat /\ n - (n - y) = y
    OBVIOUS
  <2>2. n - y \in T
    BY <2>1
  <2>3. m \in Nat /\ y \in Nat /\ m <= n - y
    BY <1>2, <2>2
  <2> QED BY <2>3
<1>4. \E x \in S : \A y \in S : x >= y
  BY <1>2, <1>3
<1> QED BY <1>4 DEF Max

LEMMA MaxOfTwo == \A a, b \in Int : Max({a, b}) \in Int
<1> TAKE a, b \in Int
<1>1. \E x \in {a, b} : \A y \in {a, b} : x >= y
  <2>1. CASE a >= b
    BY <2>1
  <2>2. CASE b >= a
    BY <2>2
  <2> QED BY <2>1, <2>2
<1>2. Max({a, b}) \in {a, b}
  BY <1>1 DEF Max
<1> QED BY <1>2

(* The buffer that is taken is free, or it is a new one.                    *)
LEMMA ChosenIn ==
  ASSUME NEW p \in Seq(BufferSet), NEW length
  PROVE  /\ Chosen(p, length) \in Nat \ {0}
         /\ Chosen(p, length) \in Free(p) \/ Chosen(p, length) = Len(p) + 1
<1>1. Len(p) \in Nat /\ DOMAIN p = 1 .. Len(p)
  BY LenProperties
<1> DEFINE big == {b \in Free(p) : p[b].size >= length}
<1>2. Free(p) \in SUBSET (1 .. Len(p))
  BY <1>1 DEF Free
<1>3. big \in SUBSET Free(p) /\ Fitting(p, length) \in SUBSET Free(p)
  BY DEF Fitting
<1>4. ASSUME NEW S \in SUBSET Free(p), S # {} PROVE Max(S) \in Free(p)
  BY <1>1, <1>2, <1>4, MaxIn
<1>5. \/ Chosen(p, length) \in Free(p)
      \/ Chosen(p, length) = Len(p) + 1
  <2>1. Chosen(p, length) = IF Fitting(p, length) # {} THEN Max(Fitting(p, length))
                            ELSE IF big # {} THEN Max(big)
                            ELSE IF Free(p) # {} THEN Max(Free(p))
                            ELSE Len(p) + 1
    BY DEF Chosen
  <2> HIDE DEF big
  <2> QED BY <1>3, <1>4, <2>1
<1> QED BY <1>1, <1>2, <1>5

(* What becomes of a pool p: buffer b is handed out for message m; d is     *)
(* added to the references of b.                                            *)
HandedOut(p, q, b, m) ==
  /\ q \in Seq(BufferSet) /\ b \in DOMAIN q /\ b \in Nat \ {0}
  /\ q[b].ref = 1 /\ q[b].holds = m
  /\ \A x \in Nat : x # b => /\ x \in DOMAIN q <=> x \in DOMAIN p
                             /\ x \in DOMAIN p => q[x] = p[x]
  /\ b \in DOMAIN p => p[b].ref <= 0

Counted(p, q, b, d) ==
  /\ q \in Seq(BufferSet) /\ DOMAIN q = DOMAIN p
  /\ \A x \in DOMAIN p : /\ q[x].holds = p[x].holds
                         /\ q[x].ref = IF x = b THEN p[x].ref + d ELSE p[x].ref

(* Buffer b of pool p is replaced by r, or r is put behind all others.      *)
LEMMA PutStep ==
  ASSUME NEW p \in Seq(BufferSet), NEW b \in Nat \ {0}, NEW r \in BufferSet, NEW m, NEW q,
         \/ b \in DOMAIN p /\ p[b].ref <= 0
         \/ b = Len(p) + 1,
         q = IF b > Len(p) THEN Append(p, r) ELSE [p EXCEPT ![b] = r],
         r.ref = 1, r.holds = m
  PROVE  HandedOut(p, q, b, m)
<1>1. Len(p) \in Nat /\ DOMAIN p = 1 .. Len(p) /\ \A x \in DOMAIN p : p[x] \in BufferSet
  BY LenProperties, ElementOfSeq
<1>2. ASSUME b = Len(p) + 1 PROVE HandedOut(p, q, b, m)
  <2>1. q = Append(p, r)
    <3> DEFINE x == Append(p, r)
               y == [p EXCEPT ![b] = r]
    <3>1. q = IF b > Len(p) THEN x ELSE y
      OBVIOUS
    <3> HIDE DEF x, y
    <3>2. q = x
      BY <1>1, <1>2, <3>1
    <3> QED BY <3>2 DEF x
  <2>2. /\ q \in Seq(BufferSet) /\ Len(q) = Len(p) + 1
        /\ \A i \in 1 .. Len(p) : q[i] = p[i]
        /\ q[Len(p) + 1] = r
    BY <2>1, AppendProperties
  <2>3. DOMAIN q = 1 .. Len(p) + 1
    BY <2>2, LenProperties
  <2> QED BY <1>1, <1>2, <2>2, <2>3 DEF HandedOut
<1>3. ASSUME b \in DOMAIN p, p[b].ref <= 0 PROVE HandedOut(p, q, b, m)
  <2>1. q = [p EXCEPT ![b] = r]
    <3> DEFINE x == Append(p, r)
               y == [p EXCEPT ![b] = r]
    <3>1. q = IF b > Len(p) THEN x ELSE y
      OBVIOUS
    <3> HIDE DEF x, y
    <3>2. q = y
      BY <1>1, <1>3, <3>1
    <3> QED BY <3>2 DEF y
  <2>2. q \in Seq(BufferSet) /\ DOMAIN q = DOMAIN p /\ q[b] = r
        /\ \A x \in DOMAIN p : x # b => q[x] = p[x]
    BY <1>3, <2>1
  <2> QED BY <1>1, <1>3, <2>2 DEF HandedOut
<1> QED BY <1>2, <1>3

LEMMA GetStep ==
  ASSUME NEW p \in Seq(BufferSet), NEW length \in Int, NEW m \in Connections \X Nat
  PROVE  HandedOut(p, GetDataBuf(p, length, m), Chosen(p, length), m)
<1> DEFINE b == Chosen(p, length)
           size == IF b \in Fitting(p, length) THEN p[b].size ELSE length
           new == [size |-> size, ref |-> 1, holds |-> m]
<1>1. b \in Nat \ {0} /\ (b \in Free(p) \/ b = Len(p) + 1)
  BY ChosenIn
<1>2. b \in Free(p) => b \in DOMAIN p /\ p[b].ref <= 0
  BY DEF Free
<1>3. new \in BufferSet
  <2>1. b \in Fitting(p, length) => b \in DOMAIN p
    BY DEF Fitting, Free
  <2>2. \A x \in DOMAIN p : p[x] \in BufferSet
    BY ElementOfSeq, LenProperties
  <2>3. b \in Fitting(p, length) => p[b].size \in Int
    BY <2>1, <2>2 DEF BufferSet
  <2>4. size \in Int
    BY <2>3
  <2> HIDE DEF size
  <2> QED BY <2>4 DEF BufferSet
<1>4. PICK r : r = new
  OBVIOUS
<1>5. r \in BufferSet /\ r.ref = 1 /\ r.holds = m
  BY <1>3, <1>4
<1>6. GetDataBuf(p, length, m) = IF b > Len(p) THEN Append(p, r) ELSE [p EXCEPT ![b] = r]
  BY <1>4 DEF GetDataBuf
<1>7. HandedOut(p, GetDataBuf(p, length, m), b, m)
  <2> HIDE DEF b, new
  <2>1. (b \in DOMAIN p /\ p[b].ref <= 0) \/ b = Len(p) + 1
    BY <1>1, <1>2
  <2>2. b \in Nat \ {0}
    BY <1>1
  <2> QED BY <1>5, <1>6, <2>1, <2>2, PutStep
<1> QED BY <1>7

LEMMA CountStep ==
  ASSUME NEW p \in Seq(BufferSet), NEW b \in DOMAIN p, NEW d \in Int
  PROVE  Counted(p, [p EXCEPT ![b].ref = @ + d], b, d)
<1>1. DOMAIN p = 1 .. Len(p) /\ \A x \in DOMAIN p : p[x] \in BufferSet
  BY LenProperties, ElementOfSeq
<1>2. p[b] \in BufferSet /\ p[b].ref \in Int
  BY <1>1 DEF BufferSet
<1>3. PICK n : n = p[b].ref + d
  OBVIOUS
<1>4. n \in Int
  BY <1>2, <1>3
<1>5. PICK r : r = [p[b] EXCEPT !.ref = n]
  OBVIOUS
<1>6. r \in BufferSet /\ r.ref = n /\ r.holds = p[b].holds
  BY <1>2, <1>4, <1>5 DEF BufferSet
<1>7. PICK q : q = [p EXCEPT ![b] = r]
  OBVIOUS
<1>8. q \in Seq(BufferSet) /\ DOMAIN q = DOMAIN p /\ q[b] = r
      /\ \A x \in DOMAIN p : x # b => q[x] = p[x]
  BY <1>6, <1>7
<1>9. Counted(p, q, b, d)
  BY <1>3, <1>6, <1>8 DEF Counted
<1> QED BY <1>3, <1>5, <1>7, <1>9

(* A buffer that is made longer is the same buffer.                         *)
LEMMA ExtendStep ==
  ASSUME NEW p \in Seq(BufferSet), NEW b \in DOMAIN p, NEW length \in Int, NEW x
  PROVE  Counted(p, ExtendDataBuf(p, b, length), x, 0)
<1>1. DOMAIN p = 1 .. Len(p) /\ \A y \in DOMAIN p : p[y] \in BufferSet
  BY LenProperties, ElementOfSeq
<1>2. p[b] \in BufferSet /\ p[b].size \in Int
  BY <1>1 DEF BufferSet
<1>3. PICK n : n = Max({p[b].size, length})
  OBVIOUS
<1>4. n \in Int
  BY <1>2, <1>3, MaxOfTwo
<1>5. PICK r : r = [p[b] EXCEPT !.size = n]
  OBVIOUS
<1>6. r \in BufferSet /\ r.ref = p[b].ref /\ r.holds = p[b].holds
  BY <1>2, <1>4, <1>5 DEF BufferSet
<1>7. PICK q : q = [p EXCEPT ![b] = r]
  OBVIOUS
<1>8. q \in Seq(BufferSet) /\ DOMAIN q = DOMAIN p /\ q[b] = r
      /\ \A y \in DOMAIN p : y # b => q[y] = p[y]
  BY <1>6, <1>7
<1>9. \A y \in DOMAIN p : p[y].ref \in Int
  BY <1>1 DEF BufferSet
<1>10. Counted(p, q, x, 0)
  <2>1. ASSUME NEW y \in DOMAIN p
        PROVE  q[y].holds = p[y].holds /\ q[y].ref = IF y = x THEN p[y].ref + 0 ELSE p[y].ref
    <3>1. q[y].holds = p[y].holds /\ q[y].ref = p[y].ref
      BY <1>6, <1>8
    <3>2. p[y].ref + 0 = p[y].ref
      BY <1>9
    <3> QED BY <3>1, <3>2
  <2> QED BY <1>8, <2>1 DEF Counted
<1> QED BY <1>3, <1>5, <1>7, <1>10 DEF ExtendDataBuf

-----------------------------------------------------------------------------
(* The stack of frames.                                                    *)
FrameSet ==
  [conn : Connections \cup {NoConn}, pc : {"waits", "read", "act", "handler", "took"},
   full : Nat, end : Nat, buf : Nat, decode : Nat, first : BOOLEAN, msg : Nat, msgs : Nat,
   pass : SUBSET Connections]

(* The same call: only the connections it has still to visit differ.        *)
Alike(f, g) ==
  /\ g.conn = f.conn /\ g.pc = f.pc /\ g.full = f.full /\ g.end = f.end
  /\ g.buf = f.buf /\ g.decode = f.decode /\ g.msg = f.msg

Rests(fs, gs, n) == gs \in Seq(FrameSet) /\ \A i \in 1 .. n : Alike(fs[i], gs[i])

Replaced(fs, gs, g) ==
  /\ Rests(fs, gs, Len(fs) - 1) /\ Len(gs) = Len(fs)
  /\ g \in FrameSet /\ gs[Len(gs)] = g

Popped(fs, gs) == Rests(fs, gs, Len(fs) - 1) /\ Len(gs) = Len(fs) - 1

Pushed(fs, gs, g) ==
  /\ Rests(fs, gs, Len(fs)) /\ Len(gs) = Len(fs) + 1
  /\ g \in FrameSet /\ gs[Len(gs)] = g

Stack(fs) == fs \in Seq(FrameSet) /\ fs # <<>>

LEMMA StackType ==
  ASSUME NEW fs, Stack(fs)
  PROVE  /\ Len(fs) \in Nat /\ Len(fs) >= 1 /\ DOMAIN fs = 1 .. Len(fs)
         /\ \A i \in 1 .. Len(fs) : fs[i] \in FrameSet
         /\ fs[Len(fs)] \in FrameSet
<1>1. Len(fs) \in Nat /\ Len(fs) >= 1 /\ DOMAIN fs = 1 .. Len(fs)
  BY EmptySeq, LenProperties DEF Stack
<1>2. \A i \in 1 .. Len(fs) : fs[i] \in FrameSet
  BY ElementOfSeq DEF Stack
<1> QED BY <1>1, <1>2

LEMMA ReplaceTop ==
  ASSUME NEW fs, Stack(fs), NEW g \in FrameSet
  PROVE  Replaced(fs, [fs EXCEPT ![Len(fs)] = g], g)
<1>1. Len(fs) \in Nat /\ Len(fs) >= 1 /\ DOMAIN fs = 1 .. Len(fs)
  BY StackType
<1>2. PICK gs : gs = [fs EXCEPT ![Len(fs)] = g]
  OBVIOUS
<1>3. gs \in Seq(FrameSet) /\ Len(gs) = Len(fs) /\ gs[Len(fs)] = g
      /\ \A i \in 1 .. Len(fs) - 1 : gs[i] = fs[i]
  <2>1. fs \in Seq(FrameSet) /\ Len(fs) \in 1 .. Len(fs)
    BY <1>1 DEF Stack
  <2>2. /\ gs \in Seq(FrameSet) /\ Len(gs) = Len(fs)
        /\ \A j \in 1 .. Len(fs) : gs[j] = IF j = Len(fs) THEN g ELSE fs[j]
    BY <1>2, <2>1, ExceptSeq
  <2>3. \A i \in 1 .. Len(fs) - 1 : i \in 1 .. Len(fs) /\ i # Len(fs)
    <3>1. \A n \in Nat : \A i \in 1 .. n - 1 : i \in 1 .. n /\ i # n
      OBVIOUS
    <3> QED BY <1>1, <3>1, Zenon
  <2>4. gs[Len(fs)] = g
    BY <2>1, <2>2, Zenon
  <2>5. \A i \in 1 .. Len(fs) - 1 : gs[i] = fs[i]
    BY <2>2, <2>3, Zenon
  <2> QED BY <2>2, <2>4, <2>5, Zenon
<1>4. Replaced(fs, gs, g)
  BY <1>3 DEF Replaced, Rests, Alike
<1> QED BY <1>2, <1>4

LEMMA PopTop ==
  ASSUME NEW fs, Stack(fs)
  PROVE  Popped(fs, Front(fs))
<1>1. Len(fs) \in Nat /\ Len(fs) >= 1 /\ fs \in Seq(FrameSet)
  BY StackType DEF Stack
<1>2. /\ Front(fs) \in Seq(FrameSet) /\ Len(Front(fs)) = Len(fs) - 1
      /\ \A i \in 1 .. Len(fs) - 1 : Front(fs)[i] = fs[i]
  <2>1. PICK n \in Nat : n = Len(fs) - 1
    BY <1>1
  <2>2. \A i \in 1 .. n : fs[i] \in FrameSet
    BY <1>1, <2>1, StackType
  <2>3. /\ SubSeq(fs, 1, n) \in Seq(FrameSet)
        /\ Len(SubSeq(fs, 1, n)) = IF 1 <= n THEN n - 1 + 1 ELSE 0
        /\ \A i \in 1 .. n - 1 + 1 : SubSeq(fs, 1, n)[i] = fs[1 + i - 1]
    BY <2>1, <2>2, SubSeqProperties
  <2>4. Front(fs) = SubSeq(fs, 1, n)
    BY <2>1 DEF Front
  <2>5. Len(SubSeq(fs, 1, n)) = n
    BY <2>1, <2>3
  <2>6. \A i \in 1 .. n : SubSeq(fs, 1, n)[i] = fs[i]
    BY <2>1, <2>3
  <2> QED BY <2>1, <2>3, <2>4, <2>5, <2>6
<1> QED BY <1>2 DEF Popped, Rests, Alike

LEMMA AppendTop ==
  ASSUME NEW fs \in Seq(FrameSet), NEW gs \in Seq(FrameSet), NEW n \in Nat, Rests(fs, gs, n),
         Len(gs) = n, NEW g \in FrameSet
  PROVE  /\ Rests(fs, Append(gs, g), n) /\ Len(Append(gs, g)) = n + 1
         /\ Append(gs, g)[n + 1] = g
<1>1. /\ Append(gs, g) \in Seq(FrameSet) /\ Len(Append(gs, g)) = n + 1
      /\ \A i \in 1 .. n : Append(gs, g)[i] = gs[i]
      /\ Append(gs, g)[n + 1] = g
  BY AppendProperties
<1> QED BY <1>1 DEF Rests

LEMMA VoidStep ==
  ASSUME NEW fs, Stack(fs)
  PROVE  /\ Stack(Void(fs)) /\ Len(Void(fs)) = Len(fs)
         /\ Rests(fs, Void(fs), Len(fs))
<1>1. PICK gs : gs = Void(fs)
  OBVIOUS
<1>2. /\ Len(fs) \in Nat /\ Len(fs) >= 1 /\ DOMAIN fs = 1 .. Len(fs)
      /\ \A i \in 1 .. Len(fs) : fs[i] \in FrameSet
  BY StackType
<1>3. \A i \in 1 .. Len(fs) : gs[i] = [fs[i] EXCEPT !.pass = {}]
  BY <1>1, <1>2 DEF Void
<1>4. \A i \in 1 .. Len(fs) : gs[i] \in FrameSet /\ Alike(fs[i], gs[i])
  <2> SUFFICES ASSUME NEW i \in 1 .. Len(fs) PROVE gs[i] \in FrameSet /\ Alike(fs[i], gs[i])
    OBVIOUS
  <2>1. PICK f : f = fs[i]
    OBVIOUS
  <2>2. f \in FrameSet /\ gs[i] = [f EXCEPT !.pass = {}]
    BY <1>2, <1>3, <2>1
  <2>3. gs[i] \in FrameSet /\ Alike(f, gs[i])
    BY <2>2 DEF FrameSet, Alike
  <2> QED BY <2>1, <2>3
<1>5. gs = [i \in 1 .. Len(fs) |-> gs[i]]
  BY <1>1, <1>2 DEF Void
<1>6. gs \in Seq(FrameSet) /\ Len(gs) = Len(fs)
  BY <1>2, <1>4, <1>5, IsASeq
<1>7. Stack(gs) /\ Len(gs) = Len(fs) /\ Rests(fs, gs, Len(fs))
  <2>1. gs # <<>>
    BY <1>2, <1>6, EmptySeq
  <2> QED BY <1>4, <1>6, <2>1 DEF Stack, Rests
<1> QED BY <1>1, <1>7

(* The frame with which the loop goes on behind a message.                  *)
Fresh(f, g) ==
  /\ g \in FrameSet /\ g.conn = f.conn /\ g.pc = "read" /\ g.full = 0 /\ g.end = 0
  /\ g.buf = 0 /\ g.decode = 0 /\ g.msg = 0

LEMMA ConsumedStep ==
  ASSUME NEW fs, Stack(fs), NEW p, NEW vs, vs \in {fs, Void(fs)}, Consumed(vs, p)
  PROVE  /\ pool' = ReturnDataBuf(p, fs[Len(fs)].buf) /\ abort' = FALSE
         /\ \/ Popped(fs, frames')
            \/ \E g \in FrameSet : Fresh(fs[Len(fs)], g) /\ Replaced(fs, frames', g)
<1> DEFINE f == vs[Len(vs)]
           g == [Frame(f.conn) EXCEPT !.first = f.first, !.msgs = f.msgs + 1]
<1>1. /\ Len(fs) \in Nat /\ Len(fs) >= 1 /\ \A i \in 1 .. Len(fs) : fs[i] \in FrameSet
      /\ Len(fs) \in 1 .. Len(fs)
  BY StackType
<1>2. Stack(vs) /\ Len(vs) = Len(fs) /\ Rests(fs, vs, Len(fs))
  <2>1. ASSUME vs = Void(fs) PROVE Stack(vs) /\ Len(vs) = Len(fs) /\ Rests(fs, vs, Len(fs))
    BY <2>1, VoidStep
  <2>2. ASSUME vs = fs PROVE Stack(vs) /\ Len(vs) = Len(fs) /\ Rests(fs, vs, Len(fs))
    BY <2>2 DEF Stack, Rests, Alike
  <2> QED BY <2>1, <2>2
<1>3. f \in FrameSet /\ Alike(fs[Len(fs)], f)
  BY <1>1, <1>2, StackType DEF Rests
<1>4. g \in FrameSet /\ Fresh(fs[Len(fs)], g)
  <2>1. PICK h : h = f
    OBVIOUS
  <2>2. h \in FrameSet /\ h.conn \in Connections \cup {NoConn} /\ h.first \in BOOLEAN
        /\ h.msgs + 1 \in Nat /\ h.conn = fs[Len(fs)].conn
    BY <1>3, <2>1 DEF FrameSet, Alike
  <2>3. g = [Frame(h.conn) EXCEPT !.first = h.first, !.msgs = h.msgs + 1]
    BY <2>1
  <2> HIDE DEF g, f
  <2>4. g \in FrameSet /\ g.conn = h.conn /\ g.pc = "read" /\ g.full = 0 /\ g.end = 0
        /\ g.buf = 0 /\ g.decode = 0 /\ g.msg = 0
    BY <2>2, <2>3 DEF Frame, FrameSet
  <2> QED BY <2>2, <2>4 DEF Fresh
<1>5. Last(vs) = f
  BY DEF Last
<1>6. pool' = ReturnDataBuf(p, f.buf) /\ abort' = FALSE
      /\ frames' \in {Front(vs), Append(Front(vs), g)}
  BY <1>5 DEF Consumed
<1>7. Popped(fs, Front(vs))
  <2>1. Popped(vs, Front(vs))
    BY <1>2, PopTop
  <2>2. \A i \in 1 .. Len(fs) - 1 : i \in 1 .. Len(fs)
    BY <1>1
  <2> QED BY <1>2, <2>1, <2>2 DEF Popped, Rests, Alike
<1>8. ASSUME frames' = Append(Front(vs), g) PROVE Replaced(fs, frames', g)
  <2> HIDE DEF g, f
  <2>1. PICK n \in Nat : n = Len(fs) - 1
    BY <1>1
  <2>2. fs \in Seq(FrameSet) /\ Front(vs) \in Seq(FrameSet) /\ Rests(fs, Front(vs), n)
        /\ Len(Front(vs)) = n
    BY <1>7, <2>1 DEF Popped, Rests, Stack
  <2>3. /\ Rests(fs, frames', n) /\ Len(frames') = n + 1
        /\ frames'[n + 1] = g
    BY <1>4, <1>8, <2>2, AppendTop
  <2>4. n + 1 = Len(fs)
    BY <1>1, <2>1
  <2> QED BY <1>4, <2>1, <2>3, <2>4 DEF Replaced
<1>9. f.buf = fs[Len(fs)].buf
  BY <1>3 DEF Alike
<1> QED BY <1>4, <1>6, <1>7, <1>8, <1>9

-----------------------------------------------------------------------------
(* The inductive invariant.                                                *)

MarkSet == [full : Nat, end : Nat, buf : Nat]

HeldSet == [buf : Nat \ {0}, msg : Connections \X Nat]

ReadType ==
  /\ program \in Programs
  /\ arrived \in [Connections -> Nat] /\ taken \in [Connections -> Nat]
  /\ saved \in [Connections -> MarkSet]
  /\ Stack(frames)
  /\ pool \in Seq(BufferSet)
  /\ kept \subseteq HeldSet
  /\ handled \in [Connections -> Seq(Nat)]

(* A frame above the bottom reads, or is about a message that was           *)
(* dispatched, of which it has the buffer; one that is not on top waits.    *)
FrameOK(f, hd) ==
  /\ f.conn \in Connections
  /\ f.pc \in {"read", "act"} => f.msg = 0 /\ f.decode = 0
  /\ f.pc \notin {"read", "act"} =>
       /\ f.msg \in Sent(f.conn) /\ f.msg <= Len(hd[f.conn]) /\ f.buf # 0
       /\ f.pc = "waits" => Message(f.conn, f.msg).does = "waits"

StackOK(fs, hd) ==
  /\ fs[1].conn = NoConn /\ fs[1].pc = "waits"
  /\ fs[1].buf = 0 /\ fs[1].decode = 0 /\ fs[1].msg = 0
  /\ \A i \in 2 .. Len(fs) : FrameOK(fs[i], hd)
  /\ \A i \in 1 .. Len(fs) - 1 : fs[i].pc = "waits"

TopOK(fs, fl) ==
  LET f == fs[Len(fs)] IN
  f.pc = "act" => f.full = f.end /\ f.end >= 1 /\ f.conn \notin fl

(* How far the reader is: q.end words into message n, of which it wants     *)
(* q.full; it asks for no word of the message behind.                       *)
PartOK(c, q, t, n) ==
  /\ t - q.end = Start(c, n) /\ q.end <= q.full
  /\ q.full <= IF n \in Sent(c) THEN Message(c, n).words ELSE 1
  /\ q.buf # 0 => q.full >= HeaderBuffer
  /\ q.end >= HeaderBuffer => q.buf # 0

Reads(fs, c) == fs[Len(fs)].pc \in {"read", "act"} /\ fs[Len(fs)].conn = c

On(fs, c) == \E i \in DOMAIN fs : fs[i].conn = c

(* The call on top is about c, and it or its handler runs.                  *)
Busy(fs, c) == fs[Len(fs)].pc # "waits" /\ fs[Len(fs)].conn = c

Blank(q) == q.full <= 1 /\ q.end = 0 /\ q.buf = 0

StreamOK(c) ==
  /\ taken[c] <= arrived[c] /\ arrived[c] <= Length(c)
  /\ Len(handled[c]) <= Len(program.sent[c])
  /\ \A k \in DOMAIN handled[c] : handled[c][k] = k
  /\ c \in failed => Spoiled(c)

MarksOK(fs, sv, fl, t, n, c) ==
  c \notin fl =>
    /\ Reads(fs, c) => PartOK(c, fs[Len(fs)], t, n)
    /\ ~Reads(fs, c) => PartOK(c, sv[c], t, n)
    /\ Busy(fs, c) => Blank(sv[c])

(* One buffer b, for which at most one frame or connection is responsible.  *)
Uses(f, b) == f.buf = b \/ f.decode = b

Owned(fs, sv, b) ==
  \/ \E i \in DOMAIN fs : Uses(fs[i], b)
  \/ \E c \in Connections : sv[c].buf = b

Kept(kp, b) == \E k \in kp : k.buf = b

One(x) == IF x THEN 1 ELSE 0

OneOwner(fs, sv, b) ==
  /\ \A i, j \in DOMAIN fs : Uses(fs[i], b) /\ Uses(fs[j], b) => i = j
  /\ \A i \in DOMAIN fs : ~(fs[i].buf = b /\ fs[i].decode = b)
  /\ \A c, d \in Connections : sv[c].buf = b /\ sv[d].buf = b => c = d
  /\ \A c \in Connections : \A i \in DOMAIN fs : ~(sv[c].buf = b /\ Uses(fs[i], b))

(* Nothing else has the buffer that the application or an event keeps,      *)
(* except the handler that gave it away.                                    *)
KeptApart(fs, sv, kp, b) ==
  Kept(kp, b) =>
    /\ \A i \in DOMAIN fs : Uses(fs[i], b) => fs[i].pc = "took"
    /\ \A c \in Connections : sv[c].buf # b

Counts(fs, sv, kp, pl, fl, b) ==
  /\ Owned(fs, sv, b) \/ Kept(kp, b) => b \in DOMAIN pl
  /\ b \in DOMAIN pl =>
       /\ pl[b].ref >= One(Owned(fs, sv, b)) + One(Kept(kp, b))
       /\ fl = {} => pl[b].ref = One(Owned(fs, sv, b)) + One(Kept(kp, b))

Contents(fs, sv, kp, pl, hd, fl, b) ==
  /\ \A i \in DOMAIN fs :
       /\ fs[i].msg # 0 /\ RecordIn(fs[i]) = b => pl[b].holds = <<fs[i].conn, fs[i].msg>>
       /\ fs[i].msg = 0 /\ fs[i].buf = b /\ fs[i].conn \notin fl =>
            pl[b].holds = <<fs[i].conn, Len(hd[fs[i].conn]) + 1>>
  /\ \A c \in Connections : sv[c].buf = b /\ c \notin fl => pl[b].holds = <<c, Len(hd[c]) + 1>>
  /\ \A k \in kp : k.buf = b => k.msg = pl[b].holds

BufferOK(fs, sv, kp, pl, hd, fl, b) ==
  /\ OneOwner(fs, sv, b)
  /\ KeptApart(fs, sv, kp, b)
  /\ Counts(fs, sv, kp, pl, fl, b)
  /\ Contents(fs, sv, kp, pl, hd, fl, b)

Inv ==
  /\ ReadType
  /\ StackOK(frames, handled) /\ TopOK(frames, failed)
  /\ \A c \in Connections :
       StreamOK(c) /\ MarksOK(frames, saved, failed, taken[c], Len(handled[c]) + 1, c)
  /\ \A b \in Nat \ {0} : BufferOK(frames, saved, kept, pool, handled, failed, b)

-----------------------------------------------------------------------------
(* One buffer, through each thing that can happen to it.                   *)
LEMMA ReplacedFacts ==
  ASSUME NEW fs, NEW gs, NEW g, Stack(fs), Replaced(fs, gs, g)
  PROVE  /\ Stack(gs) /\ Len(gs) = Len(fs) /\ DOMAIN fs = 1 .. Len(fs) /\ DOMAIN gs = 1 .. Len(fs)
         /\ gs[Len(fs)] = g /\ Len(fs) \in 1 .. Len(fs)
         /\ \A i \in 1 .. Len(fs) : i # Len(fs) => Alike(fs[i], gs[i])
<1>1. Len(fs) \in Nat /\ Len(fs) >= 1 /\ DOMAIN fs = 1 .. Len(fs)
  BY StackType
<1>2. gs \in Seq(FrameSet) /\ Len(gs) = Len(fs) /\ gs[Len(fs)] = g
      /\ \A i \in 1 .. Len(fs) - 1 : Alike(fs[i], gs[i])
  BY DEF Replaced, Rests
<1>3. gs # <<>> /\ DOMAIN gs = 1 .. Len(fs)
  BY <1>1, <1>2, EmptySeq, LenProperties
<1>4. \A n \in Nat : \A i \in 1 .. n : i # n => i \in 1 .. n - 1
  OBVIOUS
<1>5. Len(fs) \in 1 .. Len(fs)
  BY <1>1
<1>6. \A i \in 1 .. Len(fs) : i # Len(fs) => Alike(fs[i], gs[i])
  BY <1>1, <1>2, <1>4, Zenon
<1>7. Stack(gs)
  BY <1>2, <1>3 DEF Stack
<1> QED BY <1>1, <1>2, <1>3, <1>5, <1>6, <1>7, Zenon

LEMMA PoppedFacts ==
  ASSUME NEW fs, NEW gs, Stack(fs), Popped(fs, gs), Len(fs) >= 2
  PROVE  /\ Stack(gs) /\ DOMAIN fs = 1 .. Len(fs) /\ Len(gs) \in Nat /\ Len(fs) = Len(gs) + 1
         /\ DOMAIN gs = 1 .. Len(gs) /\ Len(gs) \in 1 .. Len(gs)
         /\ Len(fs) \in DOMAIN fs /\ \A i \in DOMAIN fs : i # Len(fs) => i \in DOMAIN gs
         /\ \A i \in DOMAIN gs : i \in DOMAIN fs /\ i # Len(fs) /\ Alike(fs[i], gs[i])
<1>1. Len(fs) \in Nat /\ DOMAIN fs = 1 .. Len(fs)
  BY StackType
<1>2. gs \in Seq(FrameSet) /\ Len(gs) = Len(fs) - 1 /\ \A i \in 1 .. Len(gs) : Alike(fs[i], gs[i])
  BY DEF Popped, Rests
<1>3. DOMAIN gs = 1 .. Len(gs) /\ Len(gs) \in Nat
  BY <1>2, LenProperties
<1>4. Len(fs) = Len(gs) + 1 /\ Len(gs) >= 1
  BY <1>1, <1>2
<1>5. gs # <<>>
  BY <1>2, <1>3, <1>4, EmptySeq
<1>6. \A i \in 1 .. Len(gs) : i \in 1 .. Len(fs) /\ i # Len(fs)
  BY <1>1, <1>3, <1>4
<1>7. Len(gs) \in 1 .. Len(gs)
  BY <1>3, <1>4
<1>8. Stack(gs)
  BY <1>2, <1>5 DEF Stack
<1>9. Len(fs) \in 1 .. Len(fs) /\ \A i \in 1 .. Len(fs) : i # Len(fs) => i \in 1 .. Len(gs)
  BY <1>1, <1>3, <1>4
<1> QED BY <1>1, <1>2, <1>3, <1>4, <1>6, <1>7, <1>8, <1>9, Zenon

LEMMA PushedFacts ==
  ASSUME NEW fs, NEW gs, NEW g, Stack(fs), Pushed(fs, gs, g)
  PROVE  /\ Stack(gs) /\ DOMAIN fs = 1 .. Len(fs) /\ Len(fs) \in Nat /\ Len(gs) = Len(fs) + 1
         /\ DOMAIN gs = 1 .. Len(gs) /\ Len(gs) \in DOMAIN gs
         /\ gs[Len(gs)] = g /\ \A i \in DOMAIN gs : i # Len(gs) => i \in DOMAIN fs
         /\ \A i \in DOMAIN fs : i \in DOMAIN gs /\ i # Len(gs) /\ Alike(fs[i], gs[i])
<1>1. Len(fs) \in Nat /\ DOMAIN fs = 1 .. Len(fs)
  BY StackType
<1>2. gs \in Seq(FrameSet) /\ Len(gs) = Len(fs) + 1 /\ \A i \in 1 .. Len(fs) : Alike(fs[i], gs[i])
      /\ gs[Len(gs)] = g
  BY DEF Pushed, Rests
<1>3. DOMAIN gs = 1 .. Len(gs) /\ Len(gs) \in Nat
  BY <1>2, LenProperties
<1>4. Len(gs) >= 1
  BY <1>1, <1>2
<1>5. gs # <<>>
  BY <1>2, <1>3, <1>4, EmptySeq
<1>6. \A i \in 1 .. Len(fs) : i \in 1 .. Len(gs) /\ i # Len(gs)
  BY <1>1, <1>2
<1>7. \A i \in 1 .. Len(gs) : i # Len(gs) => i \in 1 .. Len(fs)
  BY <1>1, <1>2
<1>8. Len(gs) \in 1 .. Len(gs)
  BY <1>3, <1>4
<1> QED BY <1>1, <1>2, <1>3, <1>5, <1>6, <1>7, <1>8 DEF Stack

(* The pool is as it was, as far as references and contents go.             *)
Unmoved(p, q, b) ==
  /\ b \in DOMAIN q <=> b \in DOMAIN p
  /\ b \in DOMAIN p => q[b].ref = p[b].ref /\ q[b].holds = p[b].holds

(* A frame that has to do with buffer b as before.                          *)
SameFor(f, g, b) ==
  /\ g.conn = f.conn /\ g.msg = f.msg
  /\ g.buf = b <=> f.buf = b
  /\ g.decode = b <=> f.decode = b
  /\ RecordIn(g) = b => RecordIn(f) = b
  /\ f.pc = "took" => g.pc = "took"

LEMMA AlikeSame == ASSUME NEW f, NEW g, NEW b, Alike(f, g) PROVE SameFor(f, g, b)
BY DEF Alike, SameFor, RecordIn

LEMMA BufferSame ==
  ASSUME NEW fs, NEW gs, NEW sv, NEW kp, NEW kq, NEW p, NEW q, NEW hd, NEW fl, NEW fm,
         NEW b \in Nat \ {0},
         BufferOK(fs, sv, kp, p, hd, fl, b),
         Unmoved(p, q, b), fl \subseteq fm, DOMAIN gs = DOMAIN fs,
         \A k : k.buf = b => (k \in kq <=> k \in kp),
         \A i \in DOMAIN fs : SameFor(fs[i], gs[i], b)
  PROVE  BufferOK(gs, sv, kq, q, hd, fm, b)
<1>1. \A i \in DOMAIN fs : Uses(gs[i], b) <=> Uses(fs[i], b)
  BY DEF SameFor, Uses
<1>2. /\ OneOwner(fs, sv, b) /\ KeptApart(fs, sv, kp, b) /\ Counts(fs, sv, kp, p, fl, b)
      /\ Contents(fs, sv, kp, p, hd, fl, b)
  BY DEF BufferOK
<1>3. OneOwner(gs, sv, b)
  <2>1. \A i, j \in DOMAIN gs : Uses(gs[i], b) /\ Uses(gs[j], b) => i = j
    BY <1>1, <1>2 DEF OneOwner
  <2>2. \A i \in DOMAIN gs : ~(gs[i].buf = b /\ gs[i].decode = b)
    BY <1>2 DEF OneOwner, SameFor
  <2>3. \A c \in Connections : \A i \in DOMAIN gs : ~(sv[c].buf = b /\ Uses(gs[i], b))
    BY <1>1, <1>2 DEF OneOwner
  <2> QED BY <1>2, <2>1, <2>2, <2>3 DEF OneOwner
<1>4. Kept(kq, b) <=> Kept(kp, b)
  BY DEF Kept
<1>5. KeptApart(gs, sv, kq, b)
  <2>1. ASSUME NEW i \in DOMAIN gs, Uses(gs[i], b), Kept(kq, b) PROVE gs[i].pc = "took"
    <3>1. i \in DOMAIN fs /\ Uses(fs[i], b)
      BY <1>1, <2>1
    <3>2. fs[i].pc = "took"
      BY <1>2, <1>4, <2>1, <3>1 DEF KeptApart
    <3> QED BY <3>1, <3>2 DEF SameFor
  <2>2. Kept(kq, b) => \A c \in Connections : sv[c].buf # b
    BY <1>2, <1>4 DEF KeptApart
  <2> QED BY <2>1, <2>2 DEF KeptApart
<1>6. Owned(gs, sv, b) <=> Owned(fs, sv, b)
  BY <1>1 DEF Owned
<1>7. Counts(gs, sv, kq, q, fm, b)
  <2>1. /\ One(Owned(gs, sv, b)) = One(Owned(fs, sv, b))
        /\ One(Kept(kq, b)) = One(Kept(kp, b))
    BY <1>4, <1>6 DEF One
  <2>2. fm = {} => fl = {}
    OBVIOUS
  <2> QED BY <1>2, <1>4, <1>6, <2>1, <2>2 DEF Counts, Unmoved
<1>8. Owned(fs, sv, b) \/ Kept(kp, b) => q[b].holds = p[b].holds
  BY <1>2 DEF Counts, Unmoved
<1>9. Contents(gs, sv, kq, q, hd, fm, b)
  <2>1. ASSUME NEW i \in DOMAIN gs
        PROVE  /\ gs[i].msg # 0 /\ RecordIn(gs[i]) = b => q[b].holds = <<gs[i].conn, gs[i].msg>>
               /\ gs[i].msg = 0 /\ gs[i].buf = b /\ gs[i].conn \notin fm =>
                    q[b].holds = <<gs[i].conn, Len(hd[gs[i].conn]) + 1>>
    <3>1. i \in DOMAIN fs /\ gs[i].conn = fs[i].conn /\ gs[i].msg = fs[i].msg
          /\ (gs[i].buf = b <=> fs[i].buf = b) /\ (RecordIn(gs[i]) = b => RecordIn(fs[i]) = b)
      BY DEF SameFor
    <3>2. RecordIn(fs[i]) = b \/ fs[i].buf = b => q[b].holds = p[b].holds
      BY <1>8, <3>1 DEF Owned, Uses, RecordIn
    <3> QED BY <1>2, <3>1, <3>2 DEF Contents
  <2>2. ASSUME NEW c \in Connections, sv[c].buf = b, c \notin fm
        PROVE  q[b].holds = <<c, Len(hd[c]) + 1>>
    <3>1. q[b].holds = p[b].holds
      BY <1>8, <2>2 DEF Owned
    <3> QED BY <1>2, <2>2, <3>1 DEF Contents
  <2>3. ASSUME NEW k \in kq, k.buf = b PROVE k.msg = q[b].holds
    <3>1. k \in kp
      BY <2>3
    <3>2. q[b].holds = p[b].holds
      BY <1>8, <2>3, <3>1 DEF Kept
    <3> QED BY <1>2, <2>3, <3>1, <3>2 DEF Contents
  <2> QED BY <2>1, <2>2, <2>3 DEF Contents
<1> QED BY <1>3, <1>5, <1>7, <1>9 DEF BufferOK

(* The frame on top changes, not what it has to do with b.                  *)
LEMMA BufferBeside ==
  ASSUME NEW fs, NEW gs, NEW g, NEW sv, NEW kp, NEW kq, NEW p, NEW q, NEW hd, NEW fl, NEW fm,
         NEW b \in Nat \ {0},
         BufferOK(fs, sv, kp, p, hd, fl, b),
         Unmoved(p, q, b), fl \subseteq fm,
         \A k : k.buf = b => (k \in kq <=> k \in kp),
         Stack(fs), Replaced(fs, gs, g), SameFor(fs[Len(fs)], g, b)
  PROVE  BufferOK(gs, sv, kq, q, hd, fm, b)
<1>1. /\ DOMAIN fs = 1 .. Len(fs) /\ DOMAIN gs = 1 .. Len(fs) /\ gs[Len(fs)] = g
      /\ \A i \in 1 .. Len(fs) : i # Len(fs) => Alike(fs[i], gs[i])
  BY ReplacedFacts
<1>2. ASSUME NEW i \in DOMAIN fs PROVE SameFor(fs[i], gs[i], b)
  <2>1. CASE i = Len(fs)
    BY <1>1, <2>1, Zenon
  <2>2. CASE i # Len(fs)
    BY <1>1, <2>2, AlikeSame, Zenon
  <2> QED BY <2>1, <2>2
<1>3. DOMAIN gs = DOMAIN fs
  BY <1>1, Zenon
<1> QED BY <1>2, <1>3, BufferSame

(* A call returns in the middle of a message: what the frame on top has     *)
(* belongs to the connection.                                               *)
LEMMA BufferParked ==
  ASSUME NEW fs, NEW gs, NEW sv, NEW sw, NEW kp, NEW p, NEW q, NEW hd, NEW fl, NEW b \in Nat \ {0},
         NEW c \in Connections, NEW n, n = Len(fs),
         BufferOK(fs, sv, kp, p, hd, fl, b), Unmoved(p, q, b),
         Stack(fs), Popped(fs, gs), Len(fs) >= 2,
         fs[n].conn = c, fs[n].decode = 0, fs[n].msg = 0, fs[n].pc # "took",
         sv[c].buf = 0, sw[c].buf = fs[n].buf,
         \A d \in Connections : d # c => sw[d] = sv[d]
  PROVE  BufferOK(gs, sw, kp, q, hd, fl, b)
<1>1. /\ n \in DOMAIN fs
      /\ \A i \in DOMAIN gs : i \in DOMAIN fs /\ i # n /\ Alike(fs[i], gs[i])
      /\ \A i \in DOMAIN fs : i # n => i \in DOMAIN gs
  <2>1. /\ Len(fs) \in DOMAIN fs /\ \A i \in DOMAIN fs : i # Len(fs) => i \in DOMAIN gs
        /\ \A i \in DOMAIN gs : i \in DOMAIN fs /\ i # Len(fs) /\ Alike(fs[i], gs[i])
    BY PoppedFacts
  <2> QED BY <2>1
<1>2. \A i \in DOMAIN gs : Uses(gs[i], b) <=> Uses(fs[i], b)
  BY <1>1 DEF Alike, Uses
<1>3. Uses(fs[n], b) <=> fs[n].buf = b
  BY DEF Uses
<1>4. \A d \in Connections : sw[d].buf = b <=> IF d = c THEN Uses(fs[n], b) ELSE sv[d].buf = b
  BY <1>3
<1>5. sv[c].buf # b
  OBVIOUS
<1>6. /\ OneOwner(fs, sv, b) /\ KeptApart(fs, sv, kp, b) /\ Counts(fs, sv, kp, p, fl, b)
      /\ Contents(fs, sv, kp, p, hd, fl, b)
  BY DEF BufferOK
<1>7. OneOwner(gs, sw, b)
  <2>1. \A i, j \in DOMAIN gs : Uses(gs[i], b) /\ Uses(gs[j], b) => i = j
    BY <1>1, <1>2, <1>6 DEF OneOwner
  <2>2. \A i \in DOMAIN gs : ~(gs[i].buf = b /\ gs[i].decode = b)
    BY <1>1, <1>6 DEF OneOwner, Alike
  <2>3. \A d, e \in Connections : sw[d].buf = b /\ sw[e].buf = b => d = e
    BY <1>1, <1>4, <1>6 DEF OneOwner
  <2>4. \A d \in Connections : \A i \in DOMAIN gs : ~(sw[d].buf = b /\ Uses(gs[i], b))
    BY <1>1, <1>2, <1>4, <1>6 DEF OneOwner
  <2> QED BY <2>1, <2>2, <2>3, <2>4 DEF OneOwner
<1>8. Owned(gs, sw, b) <=> Owned(fs, sv, b)
  <2>1. ASSUME Owned(gs, sw, b) PROVE Owned(fs, sv, b)
    BY <1>1, <1>2, <1>4, <2>1 DEF Owned
  <2>2. ASSUME Owned(fs, sv, b) PROVE Owned(gs, sw, b)
    BY <1>1, <1>2, <1>4, <1>5, <2>2 DEF Owned
  <2> QED BY <2>1, <2>2
<1>9. KeptApart(gs, sw, kp, b)
  <2>1. ASSUME NEW i \in DOMAIN gs, Uses(gs[i], b), Kept(kp, b) PROVE gs[i].pc = "took"
    BY <1>1, <1>2, <1>6, <2>1 DEF KeptApart, Alike
  <2>2. ASSUME NEW d \in Connections, Kept(kp, b) PROVE sw[d].buf # b
    BY <1>1, <1>4, <1>6, <2>2 DEF KeptApart
  <2> QED BY <2>1, <2>2 DEF KeptApart
<1>10. Counts(gs, sw, kp, q, fl, b)
  BY <1>6, <1>8 DEF Counts, Unmoved, One
<1>11. Owned(fs, sv, b) \/ Kept(kp, b) => q[b].holds = p[b].holds
  BY <1>6 DEF Counts, Unmoved
<1>12. Contents(gs, sw, kp, q, hd, fl, b)
  <2>1. ASSUME NEW i \in DOMAIN gs
        PROVE  /\ gs[i].msg # 0 /\ RecordIn(gs[i]) = b => q[b].holds = <<gs[i].conn, gs[i].msg>>
               /\ gs[i].msg = 0 /\ gs[i].buf = b /\ gs[i].conn \notin fl =>
                    q[b].holds = <<gs[i].conn, Len(hd[gs[i].conn]) + 1>>
    <3>1. i \in DOMAIN fs /\ gs[i].conn = fs[i].conn /\ gs[i].buf = fs[i].buf
          /\ gs[i].msg = fs[i].msg /\ RecordIn(gs[i]) = RecordIn(fs[i])
      BY <1>1 DEF RecordIn, Alike
    <3>2. RecordIn(fs[i]) = b \/ fs[i].buf = b => q[b].holds = p[b].holds
      BY <1>11, <3>1 DEF Owned, Uses, RecordIn
    <3> QED BY <1>6, <3>1, <3>2 DEF Contents
  <2>2. ASSUME NEW d \in Connections, sw[d].buf = b, d \notin fl
        PROVE  q[b].holds = <<d, Len(hd[d]) + 1>>
    <3>1. CASE d = c
      BY <1>1, <1>3, <1>4, <1>6, <1>11, <2>2, <3>1 DEF Contents, Owned
    <3>2. CASE d # c
      BY <1>4, <1>6, <1>11, <2>2, <3>2 DEF Contents, Owned
    <3> QED BY <3>1, <3>2
  <2>3. ASSUME NEW k \in kp, k.buf = b PROVE k.msg = q[b].holds
    BY <1>6, <1>11, <2>3 DEF Contents, Kept
  <2> QED BY <2>1, <2>2, <2>3 DEF Contents
<1> QED BY <1>7, <1>9, <1>10, <1>12 DEF BufferOK

(* CMDataAvailable takes over what an earlier call saved.                   *)
LEMMA BufferResumed ==
  ASSUME NEW fs, NEW gs, NEW g, NEW sv, NEW sw, NEW kp, NEW p, NEW hd, NEW fl,
         NEW b \in Nat \ {0}, NEW c \in Connections,
         BufferOK(fs, sv, kp, p, hd, fl, b), Stack(fs), Pushed(fs, gs, g),
         g.conn = c, g.decode = 0, g.msg = 0, g.buf = sv[c].buf, sw[c].buf = 0,
         \A d \in Connections : d # c => sw[d] = sv[d]
  PROVE  BufferOK(gs, sw, kp, p, hd, fl, b)
<1>1. PICK n : n = Len(gs)
  OBVIOUS
<1>2. /\ n \in DOMAIN gs /\ gs[n] = g
      /\ \A i \in DOMAIN gs : i # n => i \in DOMAIN fs
      /\ \A i \in DOMAIN fs : i \in DOMAIN gs /\ i # n /\ Alike(fs[i], gs[i])
  <2>1. Stack(fs) /\ Pushed(fs, gs, g)
    OBVIOUS
  <2>2. /\ Len(gs) \in DOMAIN gs /\ gs[Len(gs)] = g
        /\ \A i \in DOMAIN gs : i # Len(gs) => i \in DOMAIN fs
        /\ \A i \in DOMAIN fs : i \in DOMAIN gs /\ i # Len(gs) /\ Alike(fs[i], gs[i])
    BY <2>1, PushedFacts
  <2> QED BY <1>1, <2>2, Zenon
<1>3. \A i \in DOMAIN fs : Uses(gs[i], b) <=> Uses(fs[i], b)
  BY <1>2 DEF Alike, Uses
<1>4. Uses(gs[n], b) <=> sv[c].buf = b
  BY <1>2 DEF Uses
<1>5. \A d \in Connections : sw[d].buf = b <=> d # c /\ sv[d].buf = b
  OBVIOUS
<1>6. /\ OneOwner(fs, sv, b) /\ KeptApart(fs, sv, kp, b) /\ Counts(fs, sv, kp, p, fl, b)
      /\ Contents(fs, sv, kp, p, hd, fl, b)
  BY DEF BufferOK
<1>7. OneOwner(gs, sw, b)
  <2>1. \A i, j \in DOMAIN gs : Uses(gs[i], b) /\ Uses(gs[j], b) => i = j
    BY <1>2, <1>3, <1>4, <1>6 DEF OneOwner
  <2>2. \A i \in DOMAIN gs : ~(gs[i].buf = b /\ gs[i].decode = b)
    BY <1>2, <1>6 DEF OneOwner, Alike
  <2>3. \A d, e \in Connections : sw[d].buf = b /\ sw[e].buf = b => d = e
    BY <1>5, <1>6 DEF OneOwner
  <2>4. \A d \in Connections : \A i \in DOMAIN gs : ~(sw[d].buf = b /\ Uses(gs[i], b))
    BY <1>2, <1>3, <1>4, <1>5, <1>6 DEF OneOwner
  <2> QED BY <2>1, <2>2, <2>3, <2>4 DEF OneOwner
<1>8. Owned(gs, sw, b) <=> Owned(fs, sv, b)
  <2>1. ASSUME Owned(gs, sw, b) PROVE Owned(fs, sv, b)
    BY <1>2, <1>3, <1>4, <1>5, <2>1 DEF Owned
  <2>2. ASSUME Owned(fs, sv, b) PROVE Owned(gs, sw, b)
    BY <1>2, <1>3, <1>4, <1>5, <2>2 DEF Owned
  <2> QED BY <2>1, <2>2
<1>9. KeptApart(gs, sw, kp, b)
  <2>1. ASSUME NEW i \in DOMAIN gs, Uses(gs[i], b), Kept(kp, b) PROVE gs[i].pc = "took"
    BY <1>2, <1>3, <1>4, <1>6, <2>1 DEF KeptApart, Alike
  <2>2. ASSUME NEW d \in Connections, Kept(kp, b) PROVE sw[d].buf # b
    BY <1>5, <1>6, <2>2 DEF KeptApart
  <2> QED BY <2>1, <2>2 DEF KeptApart
<1>10. Counts(gs, sw, kp, p, fl, b)
  BY <1>6, <1>8 DEF Counts, One
<1>11. Contents(gs, sw, kp, p, hd, fl, b)
  <2>1. ASSUME NEW i \in DOMAIN fs
        PROVE  /\ gs[i].msg # 0 /\ RecordIn(gs[i]) = b => p[b].holds = <<gs[i].conn, gs[i].msg>>
               /\ gs[i].msg = 0 /\ gs[i].buf = b /\ gs[i].conn \notin fl =>
                    p[b].holds = <<gs[i].conn, Len(hd[gs[i].conn]) + 1>>
    <3>1. gs[i].conn = fs[i].conn /\ gs[i].buf = fs[i].buf
          /\ gs[i].msg = fs[i].msg /\ RecordIn(gs[i]) = RecordIn(fs[i])
      BY <1>2 DEF RecordIn, Alike
    <3> QED BY <1>6, <3>1 DEF Contents
  <2>2. g.buf = b /\ c \notin fl => p[b].holds = <<c, Len(hd[c]) + 1>>
    BY <1>6 DEF Contents
  <2>3. ASSUME NEW i \in DOMAIN gs
        PROVE  /\ gs[i].msg # 0 /\ RecordIn(gs[i]) = b => p[b].holds = <<gs[i].conn, gs[i].msg>>
               /\ gs[i].msg = 0 /\ gs[i].buf = b /\ gs[i].conn \notin fl =>
                    p[b].holds = <<gs[i].conn, Len(hd[gs[i].conn]) + 1>>
    <3>1. CASE i = n
      BY <1>2, <2>2, <3>1
    <3>2. CASE i # n
      BY <1>2, <2>1, <3>2
    <3> QED BY <3>1, <3>2
  <2>4. \A d \in Connections : sw[d].buf = b /\ d \notin fl => p[b].holds = <<d, Len(hd[d]) + 1>>
    BY <1>5, <1>6 DEF Contents
  <2>5. \A k \in kp : k.buf = b => k.msg = p[b].holds
    BY <1>6 DEF Contents
  <2> QED BY <2>3, <2>4, <2>5 DEF Contents
<1> QED BY <1>7, <1>9, <1>10, <1>11 DEF BufferOK

(* A buffer is handed out to the frame on top, to read the message into or  *)
(* to decode it into.                                                       *)
LEMMA BufferTaken ==
  ASSUME NEW fs, NEW gs, NEW f, NEW g, NEW sv, NEW kp, NEW p, NEW q, NEW hd, NEW fl, NEW m,
         NEW x \in Nat \ {0}, NEW b \in Nat \ {0},
         BufferOK(fs, sv, kp, p, hd, fl, b), p \in Seq(BufferSet), HandedOut(p, q, x, m),
         Stack(fs), f = fs[Len(fs)], Replaced(fs, gs, g),
         g.conn = f.conn, g.msg = f.msg, f.pc # "took",
         \/ /\ f.msg = 0 /\ f.buf = 0 /\ f.decode = 0 /\ g.buf = x /\ g.decode = 0
            /\ m = <<f.conn, Len(hd[f.conn]) + 1>>
         \/ /\ f.msg # 0 /\ f.decode = 0 /\ g.buf = f.buf /\ g.decode = x
            /\ m = <<f.conn, f.msg>>
  PROVE  BufferOK(gs, sv, kp, q, hd, fl, b)
<1>1. /\ OneOwner(fs, sv, b) /\ KeptApart(fs, sv, kp, b) /\ Counts(fs, sv, kp, p, fl, b)
      /\ Contents(fs, sv, kp, p, hd, fl, b)
  BY DEF BufferOK
<1>2. CASE b # x
  <2>1. Unmoved(p, q, b)
    BY <1>2 DEF HandedOut, Unmoved
  <2>2. SameFor(f, g, b)
    BY <1>2 DEF SameFor, RecordIn
  <2>3. fl \subseteq fl /\ \A k : k.buf = b => (k \in kp <=> k \in kp)
    OBVIOUS
  <2>4. SameFor(fs[Len(fs)], g, b)
    BY <2>2
  <2> QED BY <2>1, <2>3, <2>4, BufferBeside
<1>3. CASE b = x
  <2>1. \A y \in DOMAIN p : p[y].ref \in Int
    <3>1. \A y \in DOMAIN p : p[y] \in BufferSet
      BY ElementOfSeq, LenProperties
    <3> QED BY <3>1 DEF BufferSet
  <2>2. ~Owned(fs, sv, b) /\ ~Kept(kp, b)
    <3>1. ASSUME Owned(fs, sv, b) \/ Kept(kp, b) PROVE FALSE
      <4>1. b \in DOMAIN p /\ p[b].ref >= One(Owned(fs, sv, b)) + One(Kept(kp, b))
        BY <1>1, <3>1 DEF Counts
      <4>2. One(Owned(fs, sv, b)) + One(Kept(kp, b)) >= 1
        BY <3>1 DEF One
      <4>3. p[b].ref <= 0
        BY <1>3, <4>1 DEF HandedOut
      <4>4. p[b].ref \in Int /\ One(Owned(fs, sv, b)) \in Int /\ One(Kept(kp, b)) \in Int
        BY <2>1, <4>1 DEF One
      <4> QED BY <4>1, <4>2, <4>3, <4>4
    <3> QED BY <3>1
  <2>3. PICK n : n = Len(fs)
    OBVIOUS
  <2>4. /\ DOMAIN gs = DOMAIN fs /\ n \in DOMAIN fs /\ gs[n] = g
        /\ \A i \in DOMAIN fs : i # n => Alike(fs[i], gs[i])
    <3>1. /\ DOMAIN fs = 1 .. Len(fs) /\ DOMAIN gs = 1 .. Len(fs) /\ gs[Len(fs)] = g
          /\ Len(fs) \in 1 .. Len(fs)
          /\ \A i \in 1 .. Len(fs) : i # Len(fs) => Alike(fs[i], gs[i])
      BY ReplacedFacts
    <3> QED BY <2>3, <3>1, Zenon
  <2>5. \A i \in DOMAIN gs : Uses(gs[i], b) => i = n
    <3> SUFFICES ASSUME NEW i \in DOMAIN gs, Uses(gs[i], b), i # n PROVE FALSE
      OBVIOUS
    <3>1. i \in DOMAIN fs /\ Alike(fs[i], gs[i])
      BY <2>4
    <3> QED BY <2>2, <3>1 DEF Alike, Uses, Owned
  <2>6. \A c \in Connections : sv[c].buf # b
    BY <2>2 DEF Owned
  <2>7. Uses(g, b) /\ ~(g.buf = b /\ g.decode = b)
    <3>1. f.buf # b
      BY <2>2, <2>3, <2>4 DEF Owned, Uses
    <3> QED BY <1>3, <3>1 DEF Uses
  <2>8. OneOwner(gs, sv, b)
    <3>1. \A i \in DOMAIN gs : ~(gs[i].buf = b /\ gs[i].decode = b)
      BY <2>4, <2>5, <2>7 DEF Uses
    <3> QED BY <2>5, <2>6, <3>1 DEF OneOwner
  <2>9. KeptApart(gs, sv, kp, b)
    BY <2>2 DEF KeptApart
  <2>10. b \in DOMAIN q /\ q[b].ref = 1 /\ q[b].holds = m
    BY <1>3 DEF HandedOut
  <2>11. Counts(gs, sv, kp, q, fl, b)
    <3>1. Owned(gs, sv, b)
      BY <2>4, <2>7 DEF Owned
    <3> QED BY <2>2, <2>10, <3>1 DEF Counts, One
  <2>12. Contents(gs, sv, kp, q, hd, fl, b)
    <3>1. ASSUME NEW i \in DOMAIN gs
          PROVE  /\ gs[i].msg # 0 /\ RecordIn(gs[i]) = b => q[b].holds = <<gs[i].conn, gs[i].msg>>
                 /\ gs[i].msg = 0 /\ gs[i].buf = b /\ gs[i].conn \notin fl =>
                      q[b].holds = <<gs[i].conn, Len(hd[gs[i].conn]) + 1>>
      <4>1. RecordIn(gs[i]) = b \/ gs[i].buf = b => Uses(gs[i], b)
        BY DEF RecordIn, Uses
      <4>2. RecordIn(gs[i]) = b \/ gs[i].buf = b => gs[i] = g
        BY <2>4, <2>5, <4>1
      <4>3. g.msg = 0 => m = <<g.conn, Len(hd[g.conn]) + 1>>
        OBVIOUS
      <4>4. g.msg # 0 => m = <<g.conn, g.msg>>
        OBVIOUS
      <4> QED BY <2>10, <4>2, <4>3, <4>4
    <3>2. \A k \in kp : k.buf # b
      BY <2>2 DEF Kept
    <3> QED BY <2>6, <3>1, <3>2 DEF Contents
  <2> QED BY <2>8, <2>9, <2>11, <2>12 DEF BufferOK
<1> QED BY <1>2, <1>3

(* The message that was read is the one that is dispatched.                 *)
LEMMA BufferDispatched ==
  ASSUME NEW fs, NEW gs, NEW f, NEW g, NEW sv, NEW kp, NEW p, NEW hd, NEW he, NEW fl,
         NEW c \in Connections, NEW b \in Nat \ {0},
         BufferOK(fs, sv, kp, p, hd, fl, b),
         Stack(fs), f = fs[Len(fs)], Replaced(fs, gs, g),
         f.conn = c, c \notin fl, f.msg = 0, f.decode = 0, f.pc # "took",
         g.conn = c, g.buf = f.buf, g.decode = 0, g.msg = Len(hd[c]) + 1, g.msg # 0,
         \A d : d # c => he[d] = hd[d], sv[c].buf = 0,
         \A i \in DOMAIN fs : i # Len(fs) => fs[i].msg # 0 \/ fs[i].buf = 0
  PROVE  BufferOK(gs, sv, kp, p, he, fl, b)
<1>1. PICK n : n = Len(fs)
  OBVIOUS
<1>2. /\ DOMAIN gs = DOMAIN fs /\ n \in DOMAIN fs /\ gs[n] = g
      /\ \A i \in DOMAIN fs : i # n => Alike(fs[i], gs[i])
  <2>1. /\ DOMAIN fs = 1 .. Len(fs) /\ DOMAIN gs = 1 .. Len(fs) /\ gs[Len(fs)] = g
        /\ Len(fs) \in 1 .. Len(fs)
        /\ \A i \in 1 .. Len(fs) : i # Len(fs) => Alike(fs[i], gs[i])
    BY ReplacedFacts
  <2> QED BY <1>1, <2>1, Zenon
<1>3. /\ OneOwner(fs, sv, b) /\ KeptApart(fs, sv, kp, b) /\ Counts(fs, sv, kp, p, fl, b)
      /\ Contents(fs, sv, kp, p, hd, fl, b)
  BY DEF BufferOK
<1>4. f = fs[n]
  BY <1>1
<1>5. \A i \in DOMAIN fs : /\ gs[i].buf = fs[i].buf /\ gs[i].decode = fs[i].decode
                           /\ gs[i].conn = fs[i].conn
                           /\ fs[i].pc = "took" => gs[i].pc = "took"
                           /\ i # n => gs[i].msg = fs[i].msg
  <2> SUFFICES ASSUME NEW i \in DOMAIN fs
               PROVE  /\ gs[i].buf = fs[i].buf /\ gs[i].decode = fs[i].decode
                      /\ gs[i].conn = fs[i].conn
                      /\ fs[i].pc = "took" => gs[i].pc = "took"
                      /\ i # n => gs[i].msg = fs[i].msg
    OBVIOUS
  <2>1. CASE i = n
    BY <1>2, <1>4, <2>1
  <2>2. CASE i # n
    BY <1>2, <2>2 DEF Alike
  <2> QED BY <2>1, <2>2
<1>6. \A i \in DOMAIN fs : Uses(gs[i], b) <=> Uses(fs[i], b)
  BY <1>5 DEF Uses
<1>7. OneOwner(gs, sv, b)
  BY <1>2, <1>3, <1>5, <1>6 DEF OneOwner
<1>8. KeptApart(gs, sv, kp, b)
  BY <1>2, <1>3, <1>5, <1>6 DEF KeptApart
<1>9. Owned(gs, sv, b) <=> Owned(fs, sv, b)
  BY <1>2, <1>6 DEF Owned
<1>10. Counts(gs, sv, kp, p, fl, b)
  BY <1>3, <1>9 DEF Counts, One
<1>11. Contents(gs, sv, kp, p, he, fl, b)
  <2>1. ASSUME NEW i \in DOMAIN gs
        PROVE  /\ gs[i].msg # 0 /\ RecordIn(gs[i]) = b => p[b].holds = <<gs[i].conn, gs[i].msg>>
               /\ gs[i].msg = 0 /\ gs[i].buf = b /\ gs[i].conn \notin fl =>
                    p[b].holds = <<gs[i].conn, Len(he[gs[i].conn]) + 1>>
    <3>1. CASE i = n
      <4>1. gs[i] = g /\ g.msg # 0
        BY <1>2, <3>1
      <4>2. RecordIn(g) = f.buf
        BY DEF RecordIn
      <4>3. f.buf = b => p[b].holds = <<c, Len(hd[c]) + 1>>
        BY <1>2, <1>3, <1>4 DEF Contents
      <4> QED BY <4>1, <4>2, <4>3
    <3>2. CASE i # n
      <4>1. i \in DOMAIN fs /\ RecordIn(gs[i]) = RecordIn(fs[i])
        BY <1>2, <1>5 DEF RecordIn
      <4>2. fs[i].msg # 0 \/ fs[i].buf = 0
        BY <1>1, <3>2, <4>1
      <4>3. gs[i].buf = fs[i].buf /\ gs[i].conn = fs[i].conn /\ gs[i].msg = fs[i].msg
        BY <1>5, <3>2, <4>1
      <4>4. fs[i].msg # 0 /\ RecordIn(fs[i]) = b => p[b].holds = <<fs[i].conn, fs[i].msg>>
        BY <1>3, <4>1 DEF Contents
      <4> QED BY <4>1, <4>2, <4>3, <4>4
    <3> QED BY <3>1, <3>2
  <2>2. ASSUME NEW d \in Connections, sv[d].buf = b, d \notin fl
        PROVE  p[b].holds = <<d, Len(he[d]) + 1>>
    <3>1. d # c /\ he[d] = hd[d]
      BY <2>2
    <3> QED BY <1>3, <2>2, <3>1 DEF Contents
  <2> QED BY <1>3, <2>1, <2>2 DEF Contents
<1> QED BY <1>7, <1>8, <1>10, <1>11 DEF BufferOK

(* The handler gives its record away, or an event is submitted with it.     *)
LEMMA BufferKept ==
  ASSUME NEW fs, NEW gs, NEW f, NEW g, NEW sv, NEW kp, NEW kq, NEW p, NEW q, NEW hd, NEW fl,
         NEW e, NEW y \in Nat \ {0}, NEW b \in Nat \ {0},
         BufferOK(fs, sv, kp, p, hd, fl, b), p \in Seq(BufferSet), Counted(p, q, y, 1),
         Stack(fs), f = fs[Len(fs)], Replaced(fs, gs, g),
         f.pc # "took", f.msg # 0, RecordIn(f) = y,
         g.conn = f.conn, g.buf = f.buf, g.decode = f.decode, g.msg = f.msg, g.pc = "took",
         e.buf = y, e.msg = <<f.conn, f.msg>>, kq = kp \cup {e}
  PROVE  BufferOK(gs, sv, kq, q, hd, fl, b)
<1>1. /\ OneOwner(fs, sv, b) /\ KeptApart(fs, sv, kp, b) /\ Counts(fs, sv, kp, p, fl, b)
      /\ Contents(fs, sv, kp, p, hd, fl, b)
  BY DEF BufferOK
<1>2. SameFor(f, g, b)
  BY DEF SameFor, RecordIn
<1>3. \A z \in DOMAIN p : p[z].ref \in Int
  <2>1. \A z \in DOMAIN p : p[z] \in BufferSet
    BY ElementOfSeq, LenProperties
  <2> QED BY <2>1 DEF BufferSet
<1>4. CASE b # y
  <2>1. Unmoved(p, q, b)
    BY <1>4 DEF Counted, Unmoved
  <2>2. fl \subseteq fl /\ \A k : k.buf = b => (k \in kq <=> k \in kp)
    BY <1>4
  <2>3. SameFor(fs[Len(fs)], g, b)
    BY <1>2
  <2> QED BY <2>1, <2>2, <2>3, BufferBeside
<1>5. CASE b = y
  <2>1. PICK n : n = Len(fs)
    OBVIOUS
  <2>2. /\ DOMAIN gs = DOMAIN fs /\ n \in DOMAIN fs /\ gs[n] = g
        /\ \A i \in DOMAIN fs : i # n => Alike(fs[i], gs[i])
    <3>1. /\ DOMAIN fs = 1 .. Len(fs) /\ DOMAIN gs = 1 .. Len(fs) /\ gs[Len(fs)] = g
          /\ Len(fs) \in 1 .. Len(fs)
          /\ \A i \in 1 .. Len(fs) : i # Len(fs) => Alike(fs[i], gs[i])
      BY ReplacedFacts
    <3> QED BY <2>1, <3>1, Zenon
  <2>3. f = fs[n]
    BY <2>1
  <2>4. Uses(f, b) /\ Uses(g, b)
    BY <1>5 DEF RecordIn, Uses
  <2>5. ~Kept(kp, b)
    BY <1>1, <2>2, <2>3, <2>4 DEF KeptApart
  <2>6. \A i \in DOMAIN fs : i # n => ~Uses(fs[i], b)
    BY <1>1, <2>2, <2>3, <2>4 DEF OneOwner
  <2>7. \A i \in DOMAIN gs : i # n => ~Uses(gs[i], b)
    BY <2>2, <2>6 DEF Alike, Uses
  <2>8. \A c \in Connections : sv[c].buf # b
    BY <1>1, <2>2, <2>3, <2>4 DEF OneOwner
  <2>9. OneOwner(gs, sv, b)
    <3>1. ~(g.buf = b /\ g.decode = b)
      BY <1>1, <2>2, <2>3 DEF OneOwner
    <3>2. \A i \in DOMAIN gs : ~(gs[i].buf = b /\ gs[i].decode = b)
      BY <2>2, <2>7, <3>1 DEF Uses
    <3> QED BY <2>7, <2>8, <3>2 DEF OneOwner
  <2>10. KeptApart(gs, sv, kq, b)
    BY <2>2, <2>7, <2>8 DEF KeptApart
  <2>11. Owned(gs, sv, b) /\ Owned(fs, sv, b)
    BY <2>2, <2>3, <2>4 DEF Owned
  <2>12. Kept(kq, b)
    BY <1>5 DEF Kept
  <2>13. /\ b \in DOMAIN p /\ b \in DOMAIN q /\ q[b].ref = p[b].ref + 1
         /\ q[b].holds = p[b].holds
    BY <1>1, <1>5, <2>11 DEF Counts, Counted
  <2>14. Counts(gs, sv, kq, q, fl, b)
    <3>1. p[b].ref >= 1 /\ (fl = {} => p[b].ref = 1)
      BY <1>1, <2>5, <2>11, <2>13 DEF Counts, One
    <3>2. p[b].ref \in Int
      BY <1>3, <2>13
    <3>3. One(Owned(gs, sv, b)) = 1 /\ One(Kept(kq, b)) = 1
      BY <2>11, <2>12 DEF One
    <3>4. q[b].ref >= 1 + 1 /\ (fl = {} => q[b].ref = 1 + 1)
      BY <2>13, <3>1, <3>2
    <3> QED BY <2>13, <3>3, <3>4 DEF Counts
  <2>15. Contents(gs, sv, kq, q, hd, fl, b)
    <3>1. p[b].holds = <<f.conn, f.msg>>
      BY <1>1, <1>5, <2>2, <2>3 DEF Contents
    <3>2. ASSUME NEW i \in DOMAIN gs
          PROVE  /\ gs[i].msg # 0 /\ RecordIn(gs[i]) = b => q[b].holds = <<gs[i].conn, gs[i].msg>>
                 /\ gs[i].msg = 0 /\ gs[i].buf = b /\ gs[i].conn \notin fl =>
                      q[b].holds = <<gs[i].conn, Len(hd[gs[i].conn]) + 1>>
      <4>1. RecordIn(gs[i]) = b \/ gs[i].buf = b => Uses(gs[i], b)
        BY DEF RecordIn, Uses
      <4>2. RecordIn(gs[i]) = b \/ gs[i].buf = b => gs[i] = g
        BY <2>2, <2>7, <4>1
      <4> QED BY <2>13, <3>1, <4>2
    <3>3. ASSUME NEW k \in kq, k.buf = b PROVE k.msg = q[b].holds
      <4>1. k = e
        BY <2>5, <3>3 DEF Kept
      <4> QED BY <2>13, <3>1, <4>1
    <3> QED BY <2>8, <3>2, <3>3 DEF Contents
  <2> QED BY <2>9, <2>10, <2>14, <2>15 DEF BufferOK
<1> QED BY <1>4, <1>5

(* The application or a stone is done with a buffer.                        *)
LEMMA BufferUnkept ==
  ASSUME NEW fs, NEW sv, NEW kp \in SUBSET HeldSet, NEW p, NEW q, NEW hd, NEW fl,
         NEW k \in kp, NEW b \in Nat \ {0},
         BufferOK(fs, sv, kp, p, hd, fl, b), p \in Seq(BufferSet), Counted(p, q, k.buf, -1)
  PROVE  BufferOK(fs, sv, kp \ {k}, q, hd, fl, b)
<1>1. /\ OneOwner(fs, sv, b) /\ KeptApart(fs, sv, kp, b) /\ Counts(fs, sv, kp, p, fl, b)
      /\ Contents(fs, sv, kp, p, hd, fl, b)
  BY DEF BufferOK
<1>2. \A z \in DOMAIN p : p[z].ref \in Int
  <2>1. \A z \in DOMAIN p : p[z] \in BufferSet
    BY ElementOfSeq, LenProperties
  <2> QED BY <2>1 DEF BufferSet
<1>3. CASE b # k.buf
  <2>1. Unmoved(p, q, b)
    BY <1>3 DEF Counted, Unmoved
  <2>2. fl \subseteq fl /\ \A l : l.buf = b => (l \in kp \ {k} <=> l \in kp)
    BY <1>3
  <2>3. \A i \in DOMAIN fs : SameFor(fs[i], fs[i], b)
    BY DEF SameFor
  <2> QED BY <2>1, <2>2, <2>3, BufferSame
<1>4. CASE b = k.buf
  <2>1. ~Kept(kp \ {k}, b)
    <3> SUFFICES ASSUME NEW l \in kp, l # k, l.buf = b PROVE FALSE
      BY DEF Kept
    <3>1. l.msg = p[b].holds /\ k.msg = p[b].holds
      BY <1>1, <1>4 DEF Contents
    <3>2. l = [buf |-> l.buf, msg |-> l.msg] /\ k = [buf |-> k.buf, msg |-> k.msg]
      BY DEF HeldSet
    <3> QED BY <1>4, <3>1, <3>2
  <2>2. Kept(kp, b)
    BY <1>4 DEF Kept
  <2>3. /\ b \in DOMAIN p /\ b \in DOMAIN q /\ q[b].ref = p[b].ref + (-1)
        /\ q[b].holds = p[b].holds
    BY <1>1, <1>4, <2>2 DEF Counts, Counted
  <2>4. KeptApart(fs, sv, kp \ {k}, b)
    BY <2>1 DEF KeptApart
  <2>5. Counts(fs, sv, kp \ {k}, q, fl, b)
    <3>1. PICK o \in Int : o = One(Owned(fs, sv, b))
      BY DEF One
    <3>2. One(Kept(kp, b)) = 1 /\ One(Kept(kp \ {k}, b)) = 0
      BY <2>1, <2>2 DEF One
    <3>3. p[b].ref >= o + 1 /\ (fl = {} => p[b].ref = o + 1)
      BY <1>1, <2>3, <3>1, <3>2 DEF Counts
    <3>4. p[b].ref \in Int
      BY <1>2, <2>3
    <3>5. q[b].ref >= o + 0 /\ (fl = {} => q[b].ref = o + 0)
      BY <2>3, <3>1, <3>3, <3>4
    <3> QED BY <2>3, <3>1, <3>2, <3>5 DEF Counts
  <2>6. Contents(fs, sv, kp \ {k}, q, hd, fl, b)
    BY <1>1, <2>3 DEF Contents
  <2> QED BY <1>1, <2>4, <2>5, <2>6 DEF BufferOK
<1> QED BY <1>3, <1>4

(* The frame on top goes, or begins anew, and the buffers it has go back to *)
(* the pool; when a connection fails they may be lost instead.              *)
Dropped(fs, gs) ==
  \/ Popped(fs, gs)
  \/ \E g \in FrameSet : Fresh(fs[Len(fs)], g) /\ Replaced(fs, gs, g)

Left(f, p, q, fl, fm, b) ==
  /\ b \in DOMAIN q <=> b \in DOMAIN p
  /\ b \in DOMAIN p =>
       /\ q[b].holds = p[b].holds /\ q[b].ref \in Int
       /\ q[b].ref >= p[b].ref - One(Uses(f, b))
       /\ fm = {} => q[b].ref = p[b].ref - One(Uses(f, b))
  /\ fl \subseteq fm

LEMMA BufferLeft ==
  ASSUME NEW fs, NEW gs, NEW f, NEW sv, NEW kp, NEW p, NEW q, NEW hd, NEW fl, NEW fm,
         NEW b \in Nat \ {0},
         BufferOK(fs, sv, kp, p, hd, fl, b), p \in Seq(BufferSet), Left(f, p, q, fl, fm, b),
         Stack(fs), Len(fs) >= 2, f = fs[Len(fs)], Dropped(fs, gs)
  PROVE  BufferOK(gs, sv, kp, q, hd, fm, b)
<1>1. PICK n : n = Len(fs)
  OBVIOUS
<1>2. /\ n \in DOMAIN fs
      /\ \A i \in DOMAIN fs : i # n => i \in DOMAIN gs
      /\ \A i \in DOMAIN gs : i # n => i \in DOMAIN fs /\ Alike(fs[i], gs[i])
      /\ n \in DOMAIN gs => gs[n].buf = 0 /\ gs[n].decode = 0 /\ gs[n].msg = 0
  <2>1. CASE Popped(fs, gs)
    <3>1. /\ Len(fs) \in DOMAIN fs /\ \A i \in DOMAIN fs : i # Len(fs) => i \in DOMAIN gs
          /\ \A i \in DOMAIN gs : i \in DOMAIN fs /\ i # Len(fs) /\ Alike(fs[i], gs[i])
      BY <2>1, PoppedFacts
    <3> QED BY <1>1, <3>1, Zenon
  <2>2. ASSUME NEW g \in FrameSet, Fresh(fs[Len(fs)], g), Replaced(fs, gs, g)
        PROVE  /\ n \in DOMAIN fs
               /\ \A i \in DOMAIN fs : i # n => i \in DOMAIN gs
               /\ \A i \in DOMAIN gs : i # n => i \in DOMAIN fs /\ Alike(fs[i], gs[i])
               /\ n \in DOMAIN gs => gs[n].buf = 0 /\ gs[n].decode = 0 /\ gs[n].msg = 0
    <3>1. /\ DOMAIN fs = 1 .. Len(fs) /\ DOMAIN gs = 1 .. Len(fs) /\ gs[Len(fs)] = g
          /\ Len(fs) \in 1 .. Len(fs)
          /\ \A i \in 1 .. Len(fs) : i # Len(fs) => Alike(fs[i], gs[i])
      BY <2>2, ReplacedFacts
    <3>2. g.buf = 0 /\ g.decode = 0 /\ g.msg = 0
      BY <2>2 DEF Fresh
    <3> QED BY <1>1, <3>1, <3>2, Zenon
  <2> QED BY <2>1, <2>2 DEF Dropped
<1>3. f = fs[n]
  BY <1>1
<1>4. /\ OneOwner(fs, sv, b) /\ KeptApart(fs, sv, kp, b) /\ Counts(fs, sv, kp, p, fl, b)
      /\ Contents(fs, sv, kp, p, hd, fl, b)
  BY DEF BufferOK
<1>5. \A i \in DOMAIN gs : Uses(gs[i], b) => i # n /\ i \in DOMAIN fs /\ Uses(fs[i], b)
  BY <1>2 DEF Uses, Alike
<1>6. \A i \in DOMAIN fs : i # n => (Uses(gs[i], b) <=> Uses(fs[i], b))
  BY <1>2 DEF Uses, Alike
<1>7. OneOwner(gs, sv, b)
  <2>1. ASSUME NEW i \in DOMAIN gs, gs[i].buf = b, gs[i].decode = b PROVE FALSE
    <3>1. i \in DOMAIN fs /\ Alike(fs[i], gs[i])
      BY <1>2, <1>5, <2>1 DEF Uses
    <3> QED BY <1>4, <2>1, <3>1 DEF OneOwner, Alike
  <2>2. \A i, j \in DOMAIN gs : Uses(gs[i], b) /\ Uses(gs[j], b) => i = j
    BY <1>4, <1>5 DEF OneOwner
  <2>3. \A c \in Connections : \A i \in DOMAIN gs : ~(sv[c].buf = b /\ Uses(gs[i], b))
    BY <1>4, <1>5 DEF OneOwner
  <2> QED BY <1>4, <2>1, <2>2, <2>3 DEF OneOwner
<1>8. KeptApart(gs, sv, kp, b)
  <2>1. ASSUME NEW i \in DOMAIN gs, Uses(gs[i], b), Kept(kp, b) PROVE gs[i].pc = "took"
    BY <1>2, <1>4, <1>5, <2>1 DEF KeptApart, Alike
  <2> QED BY <1>4, <2>1 DEF KeptApart
<1>9. /\ Uses(f, b) => Owned(fs, sv, b) /\ ~Owned(gs, sv, b)
      /\ ~Uses(f, b) => (Owned(gs, sv, b) <=> Owned(fs, sv, b))
  <2>1. Uses(f, b) => Owned(fs, sv, b)
    BY <1>2, <1>3 DEF Owned
  <2>2. ASSUME Uses(f, b), NEW i \in DOMAIN gs, Uses(gs[i], b) PROVE FALSE
    BY <1>2, <1>3, <1>4, <1>5, <2>2 DEF OneOwner
  <2>3. ASSUME Uses(f, b), NEW c \in Connections, sv[c].buf = b PROVE FALSE
    BY <1>2, <1>3, <1>4, <2>3 DEF OneOwner
  <2>4. Owned(gs, sv, b) => Owned(fs, sv, b)
    BY <1>5 DEF Owned
  <2>5. ASSUME ~Uses(f, b), Owned(fs, sv, b) PROVE Owned(gs, sv, b)
    BY <1>2, <1>3, <1>6, <2>5 DEF Owned
  <2> QED BY <2>1, <2>2, <2>3, <2>4, <2>5 DEF Owned
<1>10. \A z \in DOMAIN p : p[z].ref \in Int
  <2>1. \A z \in DOMAIN p : p[z] \in BufferSet
    BY ElementOfSeq, LenProperties
  <2> QED BY <2>1 DEF BufferSet
<1>11. One(Owned(gs, sv, b)) = One(Owned(fs, sv, b)) - One(Uses(f, b))
  BY <1>9 DEF One
<1>12. Counts(gs, sv, kp, q, fm, b)
  <2>1. Owned(gs, sv, b) \/ Kept(kp, b) => b \in DOMAIN q
    BY <1>4, <1>9 DEF Counts, Left
  <2>2. ASSUME b \in DOMAIN q
        PROVE  /\ q[b].ref >= One(Owned(gs, sv, b)) + One(Kept(kp, b))
               /\ fm = {} => q[b].ref = One(Owned(gs, sv, b)) + One(Kept(kp, b))
    <3>1. PICK o \in Int : o = One(Owned(fs, sv, b))
      BY DEF One
    <3>2. PICK u \in Int : u = One(Uses(f, b))
      BY DEF One
    <3>3. PICK v \in Int : v = One(Kept(kp, b))
      BY DEF One
    <3>4. b \in DOMAIN p /\ p[b].ref \in Int
      BY <1>10, <2>2 DEF Left
    <3>5. p[b].ref >= o + v /\ (fl = {} => p[b].ref = o + v)
      BY <1>4, <3>1, <3>3, <3>4 DEF Counts
    <3>6. /\ q[b].ref \in Int /\ q[b].ref >= p[b].ref - u
          /\ fm = {} => q[b].ref = p[b].ref - u
          /\ fm = {} => fl = {}
      BY <3>2, <3>4 DEF Left
    <3>7. q[b].ref >= (o - u) + v /\ (fm = {} => q[b].ref = (o - u) + v)
      BY <3>4, <3>5, <3>6
    <3> QED BY <1>11, <3>1, <3>2, <3>3, <3>7
  <2> QED BY <2>1, <2>2 DEF Counts
<1>13. Owned(fs, sv, b) \/ Kept(kp, b) => q[b].holds = p[b].holds
  BY <1>4 DEF Counts, Left
<1>14. Contents(gs, sv, kp, q, hd, fm, b)
  <2>1. ASSUME NEW i \in DOMAIN gs
        PROVE  /\ gs[i].msg # 0 /\ RecordIn(gs[i]) = b => q[b].holds = <<gs[i].conn, gs[i].msg>>
               /\ gs[i].msg = 0 /\ gs[i].buf = b /\ gs[i].conn \notin fm =>
                    q[b].holds = <<gs[i].conn, Len(hd[gs[i].conn]) + 1>>
    <3>1. CASE i = n
      BY <1>2, <3>1
    <3>2. CASE i # n
      <4>1. i \in DOMAIN fs /\ gs[i].conn = fs[i].conn /\ gs[i].buf = fs[i].buf
            /\ gs[i].msg = fs[i].msg /\ RecordIn(gs[i]) = RecordIn(fs[i])
        BY <1>2, <3>2 DEF RecordIn, Alike
      <4>2. RecordIn(fs[i]) = b \/ fs[i].buf = b => q[b].holds = p[b].holds
        BY <1>13, <4>1 DEF Owned, Uses, RecordIn
      <4>3. fs[i].conn \notin fm => fs[i].conn \notin fl
        BY DEF Left
      <4> QED BY <1>4, <4>1, <4>2, <4>3 DEF Contents
    <3> QED BY <3>1, <3>2
  <2>2. ASSUME NEW d \in Connections, sv[d].buf = b, d \notin fm
        PROVE  q[b].holds = <<d, Len(hd[d]) + 1>>
    BY <1>4, <1>13, <2>2 DEF Contents, Owned, Left
  <2>3. ASSUME NEW k \in kp, k.buf = b PROVE k.msg = q[b].holds
    BY <1>4, <1>13, <2>3 DEF Contents, Kept
  <2> QED BY <2>1, <2>2, <2>3 DEF Contents
<1> QED BY <1>7, <1>8, <1>12, <1>14 DEF BufferOK

-----------------------------------------------------------------------------
(* The stack, through what can happen to it.                                *)
Grows(hd, he) == \A c \in Connections : Len(hd[c]) \in Nat /\ Len(he[c]) \in Nat /\ Len(he[c]) >= Len(hd[c])

LEMMA FrameKept ==
  ASSUME program \in Programs, NEW f, NEW g, NEW hd, NEW he, FrameOK(f, hd), Alike(f, g), Grows(hd, he)
  PROVE  FrameOK(g, he)
<1>1. f.conn \in Connections
  BY DEF FrameOK
<1>2. ASSUME f.pc \notin {"read", "act"} PROVE f.msg <= Len(he[f.conn])
  <2>1. f.msg \in Sent(f.conn) /\ f.msg <= Len(hd[f.conn])
    BY <1>2 DEF FrameOK
  <2>2. f.msg \in Nat
    BY <1>1, <2>1, SentType
  <2>3. Len(hd[f.conn]) \in Nat /\ Len(he[f.conn]) \in Nat /\ Len(he[f.conn]) >= Len(hd[f.conn])
    BY <1>1 DEF Grows
  <2> QED BY <2>1, <2>2, <2>3
<1> QED BY <1>2 DEF FrameOK, Alike

LEMMA StackReplaced ==
  ASSUME program \in Programs, NEW fs, NEW gs, NEW g, NEW hd, NEW he, Stack(fs), StackOK(fs, hd),
         Replaced(fs, gs, g), Grows(hd, he), g.conn = fs[Len(fs)].conn,
         IF Len(fs) = 1 THEN g.pc = "waits" /\ g.buf = 0 /\ g.decode = 0 /\ g.msg = 0
         ELSE FrameOK(g, he)
  PROVE  /\ Stack(gs) /\ StackOK(gs, he) /\ gs[Len(gs)] = g /\ Len(gs) = Len(fs)
         /\ \A c : On(gs, c) => On(fs, c)
<1>1. /\ Stack(gs) /\ Len(gs) = Len(fs) /\ DOMAIN fs = 1 .. Len(fs) /\ DOMAIN gs = 1 .. Len(fs)
      /\ gs[Len(fs)] = g /\ Len(fs) \in 1 .. Len(fs)
      /\ \A i \in 1 .. Len(fs) : i # Len(fs) => Alike(fs[i], gs[i])
  BY ReplacedFacts
<1>2. Len(fs) \in Nat /\ Len(fs) >= 1
  BY StackType
<1>3. PICK n \in Nat : n = Len(fs) /\ n >= 1
  BY <1>2
<1>4. gs[n] = g /\ \A i \in 1 .. n : i # n => Alike(fs[i], gs[i])
  BY <1>1, <1>3, Zenon
<1>5. \A i \in 2 .. n : FrameOK(fs[i], hd)
  BY <1>3 DEF StackOK
<1>6. \A i \in 2 .. n : FrameOK(gs[i], he)
  <2> SUFFICES ASSUME NEW i \in 2 .. n PROVE FrameOK(gs[i], he)
    OBVIOUS
  <2>1. i \in 1 .. n /\ n # 1
    BY <1>3
  <2>2. CASE i = n
    BY <1>3, <1>4, <2>1, <2>2
  <2>3. CASE i # n
    BY <1>4, <1>5, <2>1, <2>3, FrameKept
  <2> QED BY <2>2, <2>3
<1>7. /\ gs[1].conn = NoConn /\ gs[1].pc = "waits"
      /\ gs[1].buf = 0 /\ gs[1].decode = 0 /\ gs[1].msg = 0
  <2>1. /\ fs[1].conn = NoConn /\ fs[1].pc = "waits"
        /\ fs[1].buf = 0 /\ fs[1].decode = 0 /\ fs[1].msg = 0
    BY DEF StackOK
  <2>2. CASE n = 1
    BY <1>3, <1>4, <2>1, <2>2
  <2>3. CASE n # 1
    <3>1. Alike(fs[1], gs[1])
      BY <1>3, <1>4, <2>3
    <3> QED BY <2>1, <3>1 DEF Alike
  <2> QED BY <2>2, <2>3
<1>8. \A i \in 1 .. n - 1 : gs[i].pc = "waits"
  <2>1. \A i \in 1 .. n - 1 : i \in 1 .. n /\ i # n
    OBVIOUS
  <2>2. \A i \in 1 .. n - 1 : fs[i].pc = "waits"
    BY <1>3 DEF StackOK
  <2> QED BY <1>4, <2>1, <2>2 DEF Alike
<1>9. StackOK(gs, he)
  <2>1. Len(gs) = n
    BY <1>1, <1>3
  <2> QED BY <1>6, <1>7, <1>8, <2>1 DEF StackOK
<1>10. ASSUME NEW c, On(gs, c) PROVE On(fs, c)
  <2>1. PICK i \in 1 .. n : gs[i].conn = c
    BY <1>1, <1>3, <1>10 DEF On
  <2>2. fs[i].conn = c
    <3>1. CASE i = n
      BY <1>3, <1>4, <2>1, <3>1
    <3>2. CASE i # n
      BY <1>4, <2>1, <3>2 DEF Alike
    <3> QED BY <3>1, <3>2
  <2>3. i \in DOMAIN fs
    BY <1>1, <1>3
  <2> QED BY <2>2, <2>3 DEF On
<1> QED BY <1>1, <1>9, <1>10

LEMMA StackPopped ==
  ASSUME program \in Programs, NEW fs, NEW gs, NEW hd, NEW he, Stack(fs), StackOK(fs, hd),
         Popped(fs, gs), Len(fs) >= 2, Grows(hd, he)
  PROVE  /\ Stack(gs) /\ StackOK(gs, he) /\ gs[Len(gs)].pc = "waits"
         /\ \A c : On(gs, c) => On(fs, c)
         /\ \A c \in Connections : On(gs, c) =>
              \E k \in Sent(c) : k <= Len(hd[c]) /\ Message(c, k).does = "waits"
<1>1. /\ Stack(gs) /\ DOMAIN fs = 1 .. Len(fs) /\ Len(gs) \in Nat /\ Len(fs) = Len(gs) + 1
      /\ DOMAIN gs = 1 .. Len(gs) /\ Len(gs) \in 1 .. Len(gs)
      /\ \A i \in DOMAIN gs : i \in DOMAIN fs /\ i # Len(fs) /\ Alike(fs[i], gs[i])
  BY PoppedFacts
<1>2. PICK n \in Nat : n = Len(gs)
  BY <1>1
<1>3. n \in 1 .. n /\ Len(fs) = n + 1 /\ \A i \in 1 .. n : i \in DOMAIN fs /\ Alike(fs[i], gs[i])
  BY <1>1, <1>2, Zenon
<1>4. \A i \in 1 .. n : fs[i].pc = "waits"
  <2>1. \A i \in 1 .. n : i \in 1 .. (n + 1) - 1
    OBVIOUS
  <2> QED BY <1>3, <2>1 DEF StackOK
<1>5. \A i \in 2 .. n : FrameOK(fs[i], hd) /\ FrameOK(gs[i], he)
  <2> SUFFICES ASSUME NEW i \in 2 .. n PROVE FrameOK(fs[i], hd) /\ FrameOK(gs[i], he)
    OBVIOUS
  <2>1. i \in 2 .. n + 1 /\ i \in 1 .. n
    OBVIOUS
  <2>2. FrameOK(fs[i], hd)
    BY <1>3, <2>1 DEF StackOK
  <2> QED BY <1>3, <2>1, <2>2, FrameKept
<1>6. Alike(fs[1], gs[1])
  BY <1>3
<1>7. \A i \in 1 .. n : gs[i].pc = "waits"
  BY <1>3, <1>4 DEF Alike
<1>8. StackOK(gs, he)
  <2>1. \A i \in 1 .. n - 1 : gs[i].pc = "waits"
    BY <1>7
  <2> QED BY <1>2, <1>5, <1>6, <2>1 DEF StackOK, Alike
<1>9. ASSUME NEW c, On(gs, c)
      PROVE  /\ On(fs, c)
             /\ c \in Connections =>
                  \E k \in Sent(c) : k <= Len(hd[c]) /\ Message(c, k).does = "waits"
  <2>1. PICK i \in 1 .. n : gs[i].conn = c
    BY <1>1, <1>2, <1>9 DEF On
  <2>2. fs[i].conn = c /\ i \in DOMAIN fs
    BY <1>3, <2>1 DEF Alike
  <2>3. ASSUME c \in Connections PROVE i \in 2 .. n
    <3>1. i # 1
      BY <1>6, <2>1, <2>3, ReadAssumption DEF StackOK, Alike
    <3> QED BY <3>1
  <2>4. ASSUME c \in Connections
        PROVE  \E k \in Sent(c) : k <= Len(hd[c]) /\ Message(c, k).does = "waits"
    <3>1. FrameOK(fs[i], hd) /\ fs[i].pc = "waits"
      BY <1>4, <1>5, <2>3, <2>4
    <3>2. fs[i].msg \in Sent(c) /\ fs[i].msg <= Len(hd[c]) /\ Message(c, fs[i].msg).does = "waits"
      BY <2>2, <3>1 DEF FrameOK
    <3> QED BY <3>2
  <2> QED BY <2>2, <2>4 DEF On
<1> QED BY <1>1, <1>2, <1>3, <1>7, <1>8, <1>9

LEMMA StackPushed ==
  ASSUME program \in Programs, NEW fs, NEW gs, NEW g, NEW hd, Stack(fs), StackOK(fs, hd),
         Pushed(fs, gs, g), Grows(hd, hd), FrameOK(g, hd), fs[Len(fs)].pc = "waits"
  PROVE  /\ Stack(gs) /\ StackOK(gs, hd) /\ gs[Len(gs)] = g
         /\ \A c : On(gs, c) => On(fs, c) \/ c = g.conn
<1>1. /\ Stack(gs) /\ DOMAIN fs = 1 .. Len(fs) /\ Len(fs) \in Nat /\ Len(gs) = Len(fs) + 1
      /\ DOMAIN gs = 1 .. Len(gs) /\ gs[Len(gs)] = g
      /\ \A i \in DOMAIN gs : i # Len(gs) => i \in DOMAIN fs
      /\ \A i \in DOMAIN fs : i \in DOMAIN gs /\ i # Len(gs) /\ Alike(fs[i], gs[i])
  BY PushedFacts
<1>2. PICK n \in Nat : n = Len(fs) /\ n >= 1
  BY StackType
<1>3. Len(gs) = n + 1 /\ gs[n + 1] = g /\ \A i \in 1 .. n : Alike(fs[i], gs[i])
  BY <1>1, <1>2
<1>4. \A i \in 1 .. n : fs[i].pc = "waits"
  <2>1. \A i \in 1 .. n - 1 : fs[i].pc = "waits"
    BY <1>2 DEF StackOK
  <2>2. \A i \in 1 .. n : i = n \/ i \in 1 .. n - 1
    OBVIOUS
  <2> QED BY <1>2, <2>1, <2>2
<1>5. \A i \in 2 .. n + 1 : FrameOK(gs[i], hd)
  <2> SUFFICES ASSUME NEW i \in 2 .. n + 1 PROVE FrameOK(gs[i], hd)
    OBVIOUS
  <2>1. i = n + 1 \/ (i \in 2 .. n /\ i \in 1 .. n)
    OBVIOUS
  <2>2. \A j \in 2 .. n : FrameOK(fs[j], hd)
    BY <1>2 DEF StackOK
  <2> QED BY <1>3, <2>1, <2>2, FrameKept
<1>6. Alike(fs[1], gs[1])
  BY <1>2, <1>3
<1>7. StackOK(gs, hd)
  <2>1. \A i \in 1 .. (n + 1) - 1 : gs[i].pc = "waits"
    BY <1>3, <1>4 DEF Alike
  <2> QED BY <1>3, <1>5, <1>6, <2>1 DEF StackOK, Alike
<1>8. ASSUME NEW c, On(gs, c) PROVE On(fs, c) \/ c = g.conn
  BY <1>1, <1>8 DEF On, Alike
<1> QED BY <1>1, <1>7, <1>8

-----------------------------------------------------------------------------
(* What holds of the frame on top.                                          *)
LEMMA TopFacts ==
  ASSUME Inv
  PROVE  /\ program \in Programs /\ Stack(frames) /\ StackOK(frames, handled)
         /\ Depth = Len(frames) /\ Top = frames[Len(frames)] /\ Top \in FrameSet
         /\ Depth \in Nat /\ Depth >= 1
         /\ Grows(handled, handled)
         /\ Top.conn \in Connections => On(frames, Top.conn)
         /\ Depth = 1 => Top.pc = "waits" /\ Top.conn = NoConn /\ Top.buf = 0 /\ Top.msg = 0
         /\ Depth # 1 => Depth >= 2 /\ FrameOK(Top, handled) /\ Top.conn \in Connections
         /\ \A i \in DOMAIN frames : i # Len(frames) => frames[i].msg # 0 \/ frames[i].buf = 0
<1>1. program \in Programs /\ Stack(frames) /\ StackOK(frames, handled)
      /\ handled \in [Connections -> Seq(Nat)]
  BY DEF Inv, ReadType
<1>2. /\ Len(frames) \in Nat /\ Len(frames) >= 1 /\ DOMAIN frames = 1 .. Len(frames)
      /\ frames[Len(frames)] \in FrameSet
  BY <1>1, StackType
<1>3. PICK n \in Nat : n = Len(frames) /\ n >= 1
  BY <1>2
<1>4. Depth = n /\ Top = frames[n] /\ Top \in FrameSet
  BY <1>2, <1>3 DEF Top, Depth
<1>5. \A i \in 2 .. n : FrameOK(frames[i], handled)
  BY <1>1, <1>3 DEF StackOK
<1>6. n # 1 => n >= 2 /\ FrameOK(Top, handled) /\ Top.conn \in Connections
  <2>1. n # 1 => n \in 2 .. n
    BY <1>3
  <2> QED BY <1>4, <1>5, <2>1 DEF FrameOK
<1>7. n = 1 => Top.pc = "waits" /\ Top.conn = NoConn /\ Top.buf = 0 /\ Top.msg = 0
  BY <1>1, <1>4 DEF StackOK
<1>8. Grows(handled, handled)
  <2>1. \A c \in Connections : Len(handled[c]) \in Nat
    BY <1>1, LenProperties
  <2> QED BY <2>1 DEF Grows
<1>9. Top.conn \in Connections => On(frames, Top.conn)
  <2>1. n \in DOMAIN frames
    BY <1>2, <1>3
  <2> QED BY <1>4, <2>1 DEF On
<1>10. ASSUME NEW i \in DOMAIN frames, i # n PROVE frames[i].msg # 0 \/ frames[i].buf = 0
  <2>1. i = 1 \/ i \in 2 .. n
    BY <1>2, <1>3, <1>10
  <2>2. i \in 1 .. n - 1
    BY <1>2, <1>3, <1>10
  <2>3. frames[1].buf = 0 /\ frames[i].pc = "waits"
    BY <1>1, <1>3, <2>2 DEF StackOK
  <2>4. ASSUME i \in 2 .. n PROVE frames[i].msg # 0
    <3>1. frames[i].msg \in Sent(frames[i].conn) /\ frames[i].conn \in Connections
      BY <1>5, <2>3, <2>4 DEF FrameOK
    <3>2. Sent(frames[i].conn) = 1 .. Len(program.sent[frames[i].conn])
      BY <1>1, <3>1, SentType
    <3>3. 0 \notin 1 .. Len(program.sent[frames[i].conn])
      OBVIOUS
    <3> QED BY <3>1, <3>2, <3>3, Zenon
  <2> QED BY <2>1, <2>3, <2>4
<1> QED BY <1>1, <1>3, <1>4, <1>6, <1>7, <1>8, <1>9, <1>10

LEMMA StreamFacts ==
  ASSUME Inv, NEW c \in Connections
  PROVE  /\ program \in Programs
         /\ Len(handled[c]) \in Nat /\ Len(handled[c]) + 1 \in Nat \ {0}
         /\ Len(program.sent[c]) \in Nat /\ Len(handled[c]) + 1 <= Len(program.sent[c]) + 1
         /\ taken[c] \in Nat /\ arrived[c] \in Nat /\ Length(c) \in Nat
         /\ taken[c] <= arrived[c] /\ arrived[c] <= Length(c)
         /\ saved[c].full \in Nat /\ saved[c].end \in Nat /\ saved[c].buf \in Nat
         /\ saved[c] \in MarkSet
         /\ Len(handled[c]) + 1 \in Sent(c) <=> Len(handled[c]) + 1 <= Len(program.sent[c])
<1>1. /\ program \in Programs /\ taken \in [Connections -> Nat] /\ arrived \in [Connections -> Nat]
      /\ saved \in [Connections -> MarkSet] /\ handled \in [Connections -> Seq(Nat)]
      /\ StreamOK(c)
  BY DEF Inv, ReadType
<1>2. Len(handled[c]) \in Nat
  BY <1>1, LenProperties
<1>3. Len(program.sent[c]) \in Nat /\ Sent(c) = 1 .. Len(program.sent[c])
  BY <1>1, SentType
<1>4. Len(handled[c]) <= Len(program.sent[c]) /\ taken[c] <= arrived[c] /\ arrived[c] <= Length(c)
  BY <1>1 DEF StreamOK
<1>5. Length(c) \in Nat
  BY <1>1, <1>3, StartType DEF Length
<1>6. taken[c] \in Nat /\ arrived[c] \in Nat /\ saved[c] \in MarkSet
  BY <1>1
<1>7. saved[c].full \in Nat /\ saved[c].end \in Nat /\ saved[c].buf \in Nat
  BY <1>6 DEF MarkSet
<1>8. Len(handled[c]) + 1 \in Sent(c) <=> Len(handled[c]) + 1 <= Len(program.sent[c])
  BY <1>2, <1>3
<1>9. Len(handled[c]) + 1 \in Nat \ {0} /\ Len(handled[c]) + 1 <= Len(program.sent[c]) + 1
  BY <1>2, <1>3, <1>4
<1> QED BY <1>1, <1>2, <1>3, <1>4, <1>5, <1>6, <1>7, <1>8, <1>9

(* A reader that has nothing of a message is where the message starts.      *)
LEMMA BlankPart ==
  ASSUME program \in Programs, NEW c \in Connections, NEW q, NEW n \in Nat \ {0}, NEW t \in Nat,
         q.full \in Nat, Blank(q), t = Start(c, n)
  PROVE  PartOK(c, q, t, n)
<1>1. n \in Sent(c) => Message(c, n).words \in Nat /\ Message(c, n).words >= 1
  BY SentType
<1>2. q.full <= 1 /\ q.end = 0 /\ q.buf = 0
  BY DEF Blank
<1>3. t - q.end = Start(c, n) /\ q.end <= q.full
  BY <1>2
<1>4. q.full <= IF n \in Sent(c) THEN Message(c, n).words ELSE 1
  BY <1>1, <1>2
<1>5. ~(q.end >= HeaderBuffer)
  BY <1>2 DEF HeaderBuffer
<1> QED BY <1>2, <1>3, <1>4, <1>5 DEF PartOK

(* What CMact_on_data looks at is the next message of the connection.       *)
LEMMA CurrentIs ==
  ASSUME Inv, Top.pc = "act"
  PROVE  LET c == Top.conn
             n == Len(handled[c]) + 1
         IN /\ Depth >= 2 /\ c \in Connections /\ c \notin failed /\ n \in Sent(c) /\ n \in Nat \ {0}
            /\ Current = n /\ Top.msg = 0 /\ Top.decode = 0 /\ Blank(saved[c])
            /\ Message(c, n) \in Messages /\ Message(c, n).words \in Nat
            /\ taken[c] - Top.end = Start(c, n) /\ Start(c, n) \in Nat
            /\ taken[c] \in Nat /\ Top.end \in Nat /\ Top.end = Top.full
            /\ Top.end <= Message(c, n).words
            /\ HeaderLength(Message(c, n).kind) \in 1 .. 4
            /\ HeaderLength(Message(c, n).kind) <= Message(c, n).words
            /\ Message(c, n).kind \in {"data", "converted", "event"} =>
                 Message(c, n).words >= HeaderBuffer
            /\ Top.buf # 0 => Top.full >= HeaderBuffer
            /\ Top.end >= HeaderBuffer => Top.buf # 0
            /\ \A b \in Nat \ {0} : Top.buf = b => pool[b].holds = <<c, n>>
<1> DEFINE c == Top.conn
           n == Len(handled[c]) + 1
<1>1. /\ program \in Programs /\ Top = frames[Len(frames)] /\ Top \in FrameSet
      /\ Depth = Len(frames) /\ Depth >= 2 /\ FrameOK(Top, handled) /\ c \in Connections
      /\ Depth \in Nat /\ Stack(frames) /\ On(frames, c)
  <2>1. Depth # 1
    BY TopFacts
  <2> QED BY <2>1, TopFacts
<1>2. /\ c \notin failed /\ Top.full = Top.end /\ Top.end >= 1
      /\ MarksOK(frames, saved, failed, taken[c], n, c)
  BY <1>1 DEF Inv, TopOK
<1>3. Reads(frames, c) /\ Busy(frames, c)
  BY <1>1 DEF Reads, Busy
<1>4. PartOK(c, Top, taken[c], n) /\ Blank(saved[c])
  BY <1>1, <1>2, <1>3 DEF MarksOK
<1>5. Top.msg = 0 /\ Top.decode = 0
  BY <1>1 DEF FrameOK
<1>6. Top.end \in Nat /\ Top.full \in Nat /\ Top.buf \in Nat
  BY <1>1 DEF FrameSet
<1>7. /\ n \in Nat \ {0} /\ taken[c] \in Nat /\ n <= Len(program.sent[c]) + 1
      /\ taken[c] <= Length(c)
  <2>1. /\ taken[c] \in Nat /\ arrived[c] \in Nat /\ Length(c) \in Nat
        /\ taken[c] <= arrived[c] /\ arrived[c] <= Length(c)
    BY <1>1, StreamFacts
  <2>2. n \in Nat \ {0} /\ n <= Len(program.sent[c]) + 1
    BY <1>1, StreamFacts
  <2> QED BY <2>1, <2>2
<1> HIDE DEF n, c
<1>8. taken[c] - Top.end = Start(c, n)
  BY <1>4 DEF PartOK
<1>9. n \in Sent(c) /\ MessageAt(c, taken[c] - Top.end) = n
  <2>1. n \in Nat /\ n >= 1 /\ Top.end > 0
    BY <1>2, <1>6, <1>7
  <2>2. /\ Top.end > 0 => n \in Sent(c)
        /\ n \in Sent(c) => MessageAt(c, taken[c] - Top.end) = n
    BY <1>1, <1>6, <1>7, <1>8, <2>1, PartOfMessage
  <2> QED BY <2>1, <2>2
<1>10. Current = n
  BY <1>9 DEF Current, c
<1>11. /\ Message(c, n) \in Messages /\ Message(c, n).words \in Nat
       /\ HeaderLength(Message(c, n).kind) \in 1 .. 4
       /\ Message(c, n).words >= HeaderLength(Message(c, n).kind)
       /\ Message(c, n).kind \in {"data", "converted", "event"} =>
            Message(c, n).words >= HeaderBuffer
  BY <1>1, <1>9, SentType
<1>12. Top.end <= Message(c, n).words
  BY <1>2, <1>4, <1>9 DEF PartOK
<1>13. Start(c, n) \in Nat
  BY <1>1, <1>7, StartType
<1>14. (Top.buf # 0 => Top.full >= HeaderBuffer) /\ (Top.end >= HeaderBuffer => Top.buf # 0)
  BY <1>4 DEF PartOK
<1>15. ASSUME NEW b \in Nat \ {0}, Top.buf = b PROVE pool[b].holds = <<c, n>>
  <2>1. Contents(frames, saved, kept, pool, handled, failed, b)
    BY DEF Inv, BufferOK
  <2>2. Len(frames) \in DOMAIN frames
    BY <1>1, StackType
  <2> QED BY <1>1, <1>2, <1>5, <1>15, <2>1, <2>2 DEF Contents, n, c
<1>16. Message(c, n).words >= HeaderLength(Message(c, n).kind) <=>
       HeaderLength(Message(c, n).kind) <= Message(c, n).words
  BY <1>11
<1>17. /\ Depth >= 2 /\ c \in Connections /\ c \notin failed /\ n \in Sent(c) /\ n \in Nat \ {0}
       /\ Current = n /\ Top.msg = 0 /\ Top.decode = 0 /\ Blank(saved[c])
       /\ Message(c, n) \in Messages /\ Message(c, n).words \in Nat
       /\ taken[c] - Top.end = Start(c, n) /\ Start(c, n) \in Nat
       /\ taken[c] \in Nat /\ Top.end \in Nat /\ Top.end = Top.full
       /\ Top.end <= Message(c, n).words
       /\ HeaderLength(Message(c, n).kind) \in 1 .. 4
       /\ HeaderLength(Message(c, n).kind) <= Message(c, n).words
       /\ Message(c, n).kind \in {"data", "converted", "event"} =>
            Message(c, n).words >= HeaderBuffer
       /\ Top.buf # 0 => Top.full >= HeaderBuffer
       /\ Top.end >= HeaderBuffer => Top.buf # 0
       /\ \A b \in Nat \ {0} : Top.buf = b => pool[b].holds = <<c, n>>
  BY <1>1, <1>2, <1>4, <1>5, <1>6, <1>7, <1>8, <1>9, <1>10, <1>11, <1>12, <1>13, <1>14, <1>15,
     <1>16, Zenon
<1> QED BY <1>17 DEF c, n

-----------------------------------------------------------------------------
(* The steps.                                                              *)
LEMMA NextInv ==
  ASSUME program' = program, ReadType', StackOK(frames', handled'), TopOK(frames', failed'),
         \A c \in Connections : StreamOK(c)',
         \A c \in Connections :
           MarksOK(frames', saved', failed', taken'[c], Len(handled'[c]) + 1, c),
         \A b \in Nat \ {0} : BufferOK(frames', saved', kept', pool', handled', failed', b)
  PROVE  Inv'
<1>1. StackOK(frames, handled)'
  BY DEF StackOK, FrameOK, Sent, Message
<1>2. ASSUME NEW c \in Connections
      PROVE  MarksOK(frames, saved, failed, taken[c], Len(handled[c]) + 1, c)'
  <2>1. MarksOK(frames', saved', failed', taken'[c], Len(handled'[c]) + 1, c)
    OBVIOUS
  <2> QED BY <2>1 DEF MarksOK, PartOK, Start, Before, Message, Sent
<1> QED BY <1>1, <1>2 DEF Inv

(* What the peer has sent and what was dispatched of it.                    *)
LEMMA StreamStep ==
  ASSUME Inv, program' = program, ended \subseteq ended', NEW c \in Connections,
         taken'[c] <= arrived'[c], arrived'[c] <= Length(c),
         c \in failed' => c \in failed \/ Spoiled(c),
         \/ handled'[c] = handled[c]
         \/ /\ c \notin failed' /\ Len(handled[c]) + 1 \in Sent(c)
            /\ handled'[c] = Append(handled[c], Len(handled[c]) + 1)
  PROVE  StreamOK(c)'
<1>1. StreamOK(c)
  BY DEF Inv
<1>2. Length(c)' = Length(c) /\ Sent(c)' = Sent(c) /\ \A k : Message(c, k)' = Message(c, k)
  BY DEF Length, Start, Before, Message, Sent
<1>3. ASSUME c \in failed' PROVE Spoiled(c)'
  <2>1. Spoiled(c)
    BY <1>1, <1>3 DEF StreamOK
  <2>2. handled'[c] = handled[c]
    BY <1>3
  <2> QED BY <1>2, <2>1, <2>2 DEF Spoiled
<1>4. Len(handled'[c]) <= Len(program.sent[c]) /\ \A k \in DOMAIN handled'[c] : handled'[c][k] = k
  <2>1. CASE handled'[c] = handled[c]
    BY <1>1, <2>1 DEF StreamOK
  <2>2. CASE /\ Len(handled[c]) + 1 \in Sent(c)
             /\ handled'[c] = Append(handled[c], Len(handled[c]) + 1)
    <3>1. PICK h : h = handled[c]
      OBVIOUS
    <3>2. h \in Seq(Nat)
      BY <3>1 DEF Inv, ReadType
    <3>3. PICK n \in Nat : n = Len(h)
      BY <3>2, LenProperties
    <3>4. PICK g : g = Append(h, n + 1)
      OBVIOUS
    <3>5. /\ g \in Seq(Nat) /\ Len(g) = n + 1 /\ \A i \in 1 .. n : g[i] = h[i]
          /\ g[n + 1] = n + 1
      BY <3>2, <3>3, <3>4, AppendProperties
    <3>6. DOMAIN g = 1 .. n + 1 /\ DOMAIN h = 1 .. n
      BY <3>2, <3>3, <3>5, LenProperties
    <3>7. \A k \in 1 .. n : h[k] = k
      BY <1>1, <3>1, <3>6 DEF StreamOK
    <3>8. \A k \in 1 .. n + 1 : g[k] = k
      <4>1. \A k \in 1 .. n + 1 : k = n + 1 \/ k \in 1 .. n
        OBVIOUS
      <4> QED BY <3>5, <3>7, <4>1
    <3>9. n + 1 <= Len(program.sent[c])
      <4>1. n + 1 \in Sent(c)
        BY <2>2, <3>1, <3>3
      <4>2. Sent(c) = 1 .. Len(program.sent[c]) /\ Len(program.sent[c]) \in Nat
        BY SentType DEF Inv, ReadType
      <4> QED BY <4>1, <4>2
    <3>10. handled'[c] = g
      BY <2>2, <3>1, <3>3, <3>4
    <3> QED BY <3>5, <3>6, <3>8, <3>9, <3>10
  <2> QED BY <2>1, <2>2
<1> QED BY <1>2, <1>3, <1>4 DEF StreamOK

(* The frame on top changes its state, and nothing else happens.            *)
LEMMA TopChanges ==
  ASSUME Inv, NEW g, Replaced(frames, frames', g),
         UNCHANGED <<program, arrived, ended, taken, saved, failed, pool, kept, handled>>,
         g.conn = Top.conn, g.buf = Top.buf, g.decode = Top.decode, g.msg = Top.msg,
         g.pc # "act", Top.pc # "took", Depth = 1 => g.pc = "waits",
         g.pc = "read" <=> Top.pc \in {"read", "act"},
         g.pc = "waits" /\ Depth # 1 => Message(Top.conn, Top.msg).does = "waits",
         Top.pc = "waits" /\ g.pc # "waits" /\ Top.conn \notin failed => Blank(saved[Top.conn]),
         g.pc = "read" /\ Top.conn \notin failed =>
           PartOK(Top.conn, g, taken[Top.conn], Len(handled[Top.conn]) + 1)
  PROVE  Inv'
<1>1. /\ program \in Programs /\ Stack(frames) /\ StackOK(frames, handled)
      /\ Depth = Len(frames) /\ Top = frames[Len(frames)]
      /\ Grows(handled, handled)
      /\ Depth # 1 => FrameOK(Top, handled)
      /\ Depth = 1 => Top.pc = "waits"
  BY TopFacts
<1>2. g \in FrameSet
  BY DEF Replaced
<1>3. g.pc \in {"read", "act"} <=> Top.pc \in {"read", "act"}
  OBVIOUS
<1>4. g.conn = frames[Len(frames)].conn
  BY <1>1
<1>5. IF Len(frames) = 1 THEN g.pc = "waits" /\ g.buf = 0 /\ g.decode = 0 /\ g.msg = 0
      ELSE FrameOK(g, handled)
  <2>1. CASE Len(frames) = 1
    BY <1>1, <2>1 DEF StackOK
  <2>2. CASE Len(frames) # 1
    <3>1. FrameOK(Top, handled)
      BY <1>1, <2>2
    <3> QED BY <1>1, <1>3, <2>2, <3>1 DEF FrameOK
  <2> QED BY <2>1, <2>2
<1>6. /\ Stack(frames') /\ StackOK(frames', handled) /\ frames'[Len(frames')] = g
      /\ \A c : On(frames', c) => On(frames, c)
  BY <1>1, <1>4, <1>5, StackReplaced
<1>7. ReadType'
  BY <1>6 DEF Inv, ReadType
<1>8. TopOK(frames', failed')
  BY <1>6 DEF TopOK
<1>9. ASSUME NEW c \in Connections PROVE StreamOK(c)'
  BY StreamFacts, StreamStep
<1>10. ASSUME NEW c \in Connections
       PROVE  MarksOK(frames', saved', failed', taken'[c], Len(handled'[c]) + 1, c)
  <2>1. MarksOK(frames, saved, failed, taken[c], Len(handled[c]) + 1, c)
    BY DEF Inv
  <2>2. Reads(frames', c) <=> Reads(frames, c)
    BY <1>1, <1>3, <1>6 DEF Reads
  <2>3. ASSUME Reads(frames', c), c \notin failed
        PROVE  PartOK(c, g, taken[c], Len(handled[c]) + 1)
    BY <1>6, <2>3 DEF Reads
  <2>4. ASSUME Busy(frames', c), c \notin failed PROVE Blank(saved[c])
    <3>1. g.pc # "waits" /\ g.conn = c /\ Top.conn = c
      BY <1>6, <2>4 DEF Busy
    <3>2. CASE Top.pc = "waits"
      BY <2>4, <3>1, <3>2
    <3>3. CASE Top.pc # "waits"
      BY <1>1, <2>1, <2>4, <3>1, <3>3 DEF MarksOK, Busy
    <3> QED BY <3>2, <3>3
  <2> QED BY <1>6, <2>1, <2>2, <2>3, <2>4 DEF MarksOK
<1>11. ASSUME NEW b \in Nat \ {0}
       PROVE  BufferOK(frames', saved', kept', pool', handled', failed', b)
  <2>1. BufferOK(frames, saved, kept, pool, handled, failed, b)
    BY DEF Inv
  <2>2. SameFor(frames[Len(frames)], g, b)
    BY <1>1 DEF SameFor, RecordIn
  <2>3. Unmoved(pool, pool, b) /\ failed \subseteq failed
        /\ \A k : k.buf = b => (k \in kept <=> k \in kept)
    BY DEF Unmoved
  <2>4. BufferOK(frames', saved, kept, pool, handled, failed, b)
    BY <1>1, <2>1, <2>2, <2>3, BufferBeside
  <2> QED BY <2>4
<1>12. program' = program /\ handled' = handled
  OBVIOUS
<1> QED BY <1>6, <1>7, <1>8, <1>9, <1>10, <1>11, <1>12, NextInv

LEMMA PollStep == ASSUME Inv, Poll PROVE Inv'
<1>1. /\ Stack(frames) /\ Depth = Len(frames) /\ Top = frames[Len(frames)] /\ Top \in FrameSet
      /\ Depth # 1 => FrameOK(Top, handled)
  BY TopFacts
<1>2. PICK ready \in SUBSET Connections :
        frames' = [Void(frames) EXCEPT ![Depth].pass = ready]
  BY DEF Poll
<1>3. PICK vs : vs = Void(frames)
  OBVIOUS
<1>4. Stack(vs) /\ Len(vs) = Len(frames) /\ Rests(frames, vs, Len(frames))
  BY <1>1, <1>3, VoidStep
<1>5. PICK v : v = vs[Len(frames)]
  OBVIOUS
<1>6. v \in FrameSet /\ Alike(Top, v)
  <2>1. Len(frames) \in 1 .. Len(frames)
    BY <1>1, StackType
  <2> QED BY <1>1, <1>4, <1>5, <2>1, StackType DEF Rests
<1>7. PICK g : g = [v EXCEPT !.pass = ready]
  OBVIOUS
<1>8. /\ g \in FrameSet /\ g.conn = Top.conn /\ g.pc = Top.pc /\ g.buf = Top.buf
      /\ g.decode = Top.decode /\ g.msg = Top.msg
  BY <1>6, <1>7 DEF FrameSet, Alike
<1>9. frames' = [vs EXCEPT ![Len(vs)] = g]
  BY <1>1, <1>2, <1>3, <1>4, <1>5, <1>7
<1>10. Replaced(vs, frames', g)
  BY <1>4, <1>8, <1>9, ReplaceTop
<1>11. Replaced(frames, frames', g)
  <2>1. \A i \in 1 .. Len(frames) - 1 : i \in 1 .. Len(frames)
    BY <1>1, StackType
  <2> QED BY <1>4, <1>10, <2>1 DEF Replaced, Rests, Alike
<1>12. Top.pc = "waits"
  BY DEF Poll
<1>13. /\ g.conn = Top.conn /\ g.buf = Top.buf /\ g.decode = Top.decode /\ g.msg = Top.msg
       /\ g.pc = "waits"
  BY <1>8, <1>12
<1>14. Depth # 1 => Message(Top.conn, Top.msg).does = "waits"
  BY <1>1, <1>12 DEF FrameOK
<1>15. UNCHANGED <<program, arrived, ended, taken, saved, failed, pool, kept, handled>>
  BY DEF Poll
<1> QED BY <1>11, <1>12, <1>13, <1>14, <1>15, TopChanges

LEMMA SetTopIs ==
  ASSUME Inv, NEW g \in FrameSet, SetTop(g)
  PROVE  Replaced(frames, frames', g)
<1>1. Stack(frames) /\ Depth = Len(frames)
  BY TopFacts
<1>2. frames' = [frames EXCEPT ![Len(frames)] = g]
  BY <1>1 DEF SetTop
<1> QED BY <1>1, <1>2, ReplaceTop

LEMMA HandlerWaitsStep == ASSUME Inv, HandlerWaits PROVE Inv'
<1>1. PICK f : f = Top
  OBVIOUS
<1>2. f \in FrameSet /\ f.pc = "handler"
  BY <1>1, TopFacts DEF HandlerWaits
<1>3. PICK g : g = [f EXCEPT !.pc = "waits"]
  OBVIOUS
<1>4. g \in FrameSet /\ g.conn = f.conn /\ g.buf = f.buf /\ g.decode = f.decode /\ g.msg = f.msg
      /\ g.pc = "waits"
  BY <1>2, <1>3 DEF FrameSet
<1>5. Replaced(frames, frames', g)
  BY <1>1, <1>3, <1>4, SetTopIs DEF HandlerWaits
<1>6. Message(Top.conn, Top.msg).does = "waits"
  BY DEF HandlerWaits, HandlerMessage
<1>7. UNCHANGED <<program, arrived, ended, taken, saved, failed, pool, kept, handled>>
  BY DEF HandlerWaits
<1> QED BY <1>1, <1>2, <1>4, <1>5, <1>6, <1>7, TopChanges

LEMMA WaitEndsStep ==
  ASSUME Inv, WaitEnds, Top.conn \notin failed => Blank(saved[Top.conn]) PROVE Inv'
<1>1. PICK f : f = Top
  OBVIOUS
<1>2. f \in FrameSet /\ f.pc = "waits" /\ Depth # 1
  BY <1>1, TopFacts DEF WaitEnds
<1>3. PICK g : g = [f EXCEPT !.pc = "handler"]
  OBVIOUS
<1>4. g \in FrameSet /\ g.conn = f.conn /\ g.buf = f.buf /\ g.decode = f.decode /\ g.msg = f.msg
      /\ g.pc = "handler"
  BY <1>2, <1>3 DEF FrameSet
<1>5. Replaced(frames, frames', g)
  BY <1>1, <1>3, <1>4, SetTopIs DEF WaitEnds
<1>6. UNCHANGED <<program, arrived, ended, taken, saved, failed, pool, kept, handled>>
  BY DEF WaitEnds
<1>7. Top.conn \notin failed => Blank(saved[Top.conn])
  OBVIOUS
<1> QED BY <1>7, <1>1, <1>2, <1>4, <1>5, <1>6, TopChanges

LEMMA ReadMoreStep == ASSUME Inv, ReadMore PROVE Inv'
<1>1. PICK f : f = Top
  OBVIOUS
<1>2. PICK c : c = f.conn
  OBVIOUS
<1>3. PICK n : n = Len(handled[c]) + 1
  OBVIOUS
<1>4. PICK m : m = Message(c, n)
  OBVIOUS
<1>5. f \in FrameSet /\ f.pc = "act" /\ Depth # 1
  BY <1>1, TopFacts DEF ReadMore
<1>6. /\ c \in Connections /\ c \notin failed /\ n \in Sent(c)
      /\ Current = n /\ m.words \in Nat
      /\ taken[c] - f.end = Start(c, n)
      /\ f.end \in Nat /\ f.end = f.full /\ f.end <= m.words
      /\ HeaderLength(m.kind) \in 1 .. 4 /\ HeaderLength(m.kind) <= m.words
      /\ f.buf # 0 => f.full >= HeaderBuffer
      /\ f.end >= HeaderBuffer => f.buf # 0
  BY <1>1, <1>2, <1>3, <1>4, <1>5, CurrentIs
<1>7. PICK k : k = Missing(f, m)
  OBVIOUS
<1>8. k > 0 /\ SetTop([f EXCEPT !.full = f.full + k, !.pc = "read"])
  BY <1>1, <1>2, <1>4, <1>6, <1>7 DEF ReadMore
<1>9. k \in Nat /\ f.full + k \in Nat /\ f.full + k <= m.words /\ f.end <= f.full + k
  <2>1. k = IF f.end < HeaderLength(m.kind) THEN HeaderLength(m.kind) - f.end ELSE m.words - f.end
    BY <1>7 DEF Missing
  <2>2. PICK h \in Nat : h = HeaderLength(m.kind) /\ h <= m.words
    BY <1>6
  <2> QED BY <1>6, <1>8, <2>1, <2>2
<1>10. PICK g : g = [f EXCEPT !.full = f.full + k, !.pc = "read"]
  OBVIOUS
<1>11. /\ g \in FrameSet /\ g.conn = f.conn /\ g.buf = f.buf /\ g.decode = f.decode
       /\ g.msg = f.msg /\ g.pc = "read" /\ g.full = f.full + k /\ g.end = f.end
  BY <1>5, <1>9, <1>10 DEF FrameSet
<1>12. Replaced(frames, frames', g)
  BY <1>8, <1>10, <1>11, SetTopIs
<1>13. PartOK(c, g, taken[c], n)
  <2>1. g.full <= IF n \in Sent(c) THEN Message(c, n).words ELSE 1
    BY <1>4, <1>6, <1>9, <1>11
  <2>2. g.buf # 0 => g.full >= HeaderBuffer
    BY <1>6, <1>9, <1>11 DEF HeaderBuffer
  <2> QED BY <1>6, <1>9, <1>11, <2>1, <2>2 DEF PartOK
<1>14. UNCHANGED <<program, arrived, ended, taken, saved, failed, pool, kept, handled>>
  BY DEF ReadMore
<1>15. PartOK(Top.conn, g, taken[Top.conn], Len(handled[Top.conn]) + 1)
  BY <1>1, <1>2, <1>3, <1>13
<1> QED BY <1>1, <1>5, <1>11, <1>12, <1>14, <1>15, TopChanges

(* Nothing happens to the stack and to the buffers.                         *)
LEMMA QuietStep ==
  ASSUME Inv, UNCHANGED <<program, taken, saved, failed, frames, pool, kept, handled>>,
         ended \subseteq ended', arrived' \in [Connections -> Nat],
         \A c \in Connections : arrived[c] <= arrived'[c] /\ arrived'[c] <= Length(c)
  PROVE  Inv'
<1>1. ReadType'
  BY DEF Inv, ReadType
<1>2. StackOK(frames', handled') /\ TopOK(frames', failed')
  BY DEF Inv
<1>3. ASSUME NEW c \in Connections PROVE StreamOK(c)'
  <2>1. arrived[c] <= arrived'[c] /\ arrived'[c] <= Length(c)
    OBVIOUS
  <2>2. arrived[c] \in Nat /\ arrived'[c] \in Nat /\ taken[c] \in Nat /\ taken[c] <= arrived[c]
    BY StreamFacts
  <2>3. taken'[c] <= arrived'[c]
    BY <2>1, <2>2
  <2> QED BY <2>1, <2>3, StreamStep
<1>4. ASSUME NEW c \in Connections
      PROVE  MarksOK(frames', saved', failed', taken'[c], Len(handled'[c]) + 1, c)
  BY DEF Inv
<1>5. ASSUME NEW b \in Nat \ {0}
      PROVE  BufferOK(frames', saved', kept', pool', handled', failed', b)
  BY DEF Inv
<1>6. program' = program
  OBVIOUS
<1> QED BY <1>1, <1>2, <1>3, <1>4, <1>5, <1>6, NextInv

LEMMA PeerSteps ==
  ASSUME Inv, \/ HandlerSignals
              \/ \E c \in Connections : Arrive(c) \/ PeerDies(c)
  PROVE  Inv'
<1>1. arrived \in [Connections -> Nat]
  BY DEF Inv, ReadType
<1>2. \A c \in Connections : arrived[c] \in Nat /\ Length(c) \in Nat /\ arrived[c] <= Length(c)
  BY StreamFacts
<1>3. CASE HandlerSignals
  BY <1>1, <1>2, <1>3, QuietStep DEF HandlerSignals
<1>4. ASSUME NEW d \in Connections, Arrive(d) PROVE Inv'
  <2>1. arrived' = [arrived EXCEPT ![d] = arrived[d] + 1] /\ arrived[d] < Length(d)
    BY <1>4 DEF Arrive
  <2>2. arrived' \in [Connections -> Nat]
    BY <1>1, <2>1
  <2>3. ASSUME NEW c \in Connections PROVE arrived[c] <= arrived'[c] /\ arrived'[c] <= Length(c)
    BY <1>1, <1>2, <2>1
  <2> QED BY <1>4, <2>2, <2>3, QuietStep DEF Arrive
<1>5. ASSUME NEW d \in Connections, PeerDies(d) PROVE Inv'
  <2>1. ended \subseteq ended'
    BY <1>5 DEF PeerDies
  <2> QED BY <1>1, <1>2, <1>5, <2>1, QuietStep DEF PeerDies
<1> QED BY <1>3, <1>4, <1>5

LEMMA DataAvailableStep ==
  ASSUME Inv, NEW c \in Connections, DataAvailable(c)
  PROVE  Inv'
<1>1. /\ program \in Programs /\ Stack(frames) /\ StackOK(frames, handled)
      /\ Depth = Len(frames) /\ Top = frames[Len(frames)] /\ Top \in FrameSet
      /\ Grows(handled, handled) /\ Len(frames) \in Nat
  BY TopFacts
<1>2. Top.pc = "waits" /\ saved' = [saved EXCEPT ![c] = Idle]
      /\ UNCHANGED <<program, arrived, ended, taken, failed, pool, kept, handled>>
  BY DEF DataAvailable
<1>3. PICK f : f = Top
  OBVIOUS
<1>4. PICK g0 : g0 = [f EXCEPT !.pass = f.pass \ {c}]
  OBVIOUS
<1>5. g0 \in FrameSet /\ Alike(Top, g0)
  BY <1>1, <1>3, <1>4 DEF FrameSet, Alike
<1>6. PICK fs : fs = [frames EXCEPT ![Len(frames)] = g0]
  OBVIOUS
<1>7. Replaced(frames, fs, g0)
  BY <1>1, <1>5, <1>6, ReplaceTop
<1>8. PICK g : g = Resumed(c)
  OBVIOUS
<1>9. saved \in [Connections -> MarkSet] /\ saved[c] \in MarkSet
  BY DEF Inv, ReadType
<1>10. PICK s : s = saved[c]
  OBVIOUS
<1>11. /\ g \in FrameSet /\ g.conn = c /\ g.pc = "read" /\ g.full = s.full /\ g.end = s.end
       /\ g.buf = s.buf /\ g.decode = 0 /\ g.msg = 0
  <2>1. s.full \in Nat /\ s.end \in Nat /\ s.buf \in Nat
    BY <1>9, <1>10 DEF MarkSet
  <2>2. g = [Frame(c) EXCEPT !.full = s.full, !.end = s.end, !.buf = s.buf]
    BY <1>8, <1>10 DEF Resumed
  <2> QED BY <2>1, <2>2 DEF Frame, FrameSet
<1>12. frames' = Append(fs, g)
  BY <1>1, <1>3, <1>4, <1>6, <1>8 DEF DataAvailable
<1>13. Pushed(frames, frames', g)
  <2>1. /\ fs \in Seq(FrameSet) /\ Len(fs) = Len(frames) /\ fs[Len(frames)] = g0
        /\ \A i \in 1 .. Len(frames) : i # Len(frames) => Alike(frames[i], fs[i])
    BY <1>1, <1>7, ReplacedFacts DEF Stack
  <2>2. Rests(frames, fs, Len(frames))
    BY <1>1, <1>5, <2>1 DEF Rests
  <2>3. /\ Rests(frames, frames', Len(frames)) /\ Len(frames') = Len(frames) + 1
        /\ frames'[Len(frames) + 1] = g
    BY <1>1, <1>11, <1>12, <2>1, <2>2, AppendTop DEF Stack
  <2> QED BY <1>11, <2>3 DEF Pushed
<1>14. FrameOK(g, handled)
  BY <1>11 DEF FrameOK
<1>15. /\ Stack(frames') /\ StackOK(frames', handled) /\ frames'[Len(frames')] = g
       /\ \A d : On(frames', d) => On(frames, d) \/ d = g.conn
  <2>1. frames[Len(frames)].pc = "waits"
    BY <1>1, <1>2
  <2> QED BY <1>1, <1>13, <1>14, <2>1, StackPushed
<1>16. /\ saved' \in [Connections -> MarkSet] /\ saved'[c] = Idle
       /\ \A d \in Connections : d # c => saved'[d] = saved[d]
  BY <1>2, <1>9 DEF Idle, MarkSet
<1>17. ReadType'
  BY <1>2, <1>15, <1>16 DEF Inv, ReadType
<1>18. TopOK(frames', failed')
  BY <1>11, <1>15 DEF TopOK
<1>19. ASSUME NEW d \in Connections PROVE StreamOK(d)'
  BY <1>2, StreamFacts, StreamStep
<1>20. ASSUME NEW d \in Connections
       PROVE  MarksOK(frames', saved', failed', taken'[d], Len(handled'[d]) + 1, d)
  <2>1. MarksOK(frames, saved, failed, taken[d], Len(handled[d]) + 1, d)
    BY DEF Inv
  <2>2. ~Reads(frames, d) /\ (Reads(frames', d) <=> d = c)
    BY <1>1, <1>2, <1>11, <1>15 DEF Reads
  <2>3. CASE d = c
    <3>1. d \notin failed => PartOK(c, s, taken[c], Len(handled[c]) + 1)
      BY <1>10, <2>1, <2>2, <2>3 DEF MarksOK
    <3>2. d \notin failed => PartOK(c, g, taken[c], Len(handled[c]) + 1)
      BY <1>11, <3>1 DEF PartOK
    <3>3. Blank(saved'[c])
      BY <1>16 DEF Blank, Idle
    <3> QED BY <1>2, <1>15, <2>2, <2>3, <3>2, <3>3 DEF MarksOK
  <2>4. CASE d # c
    <3>1. ~Busy(frames', d)
      BY <1>11, <1>15, <2>4 DEF Busy
    <3> QED BY <1>2, <1>11, <1>15, <1>16, <2>1, <2>2, <2>4, <3>1 DEF MarksOK
  <2> QED BY <2>3, <2>4
<1>21. ASSUME NEW b \in Nat \ {0}
       PROVE  BufferOK(frames', saved', kept', pool', handled', failed', b)
  <2>1. BufferOK(frames, saved, kept, pool, handled, failed, b)
    BY DEF Inv
  <2>2. g.buf = saved[c].buf /\ saved'[c].buf = 0
    BY <1>10, <1>11, <1>16 DEF Idle
  <2>3. BufferOK(frames', saved', kept, pool, handled, failed, b)
    BY <1>1, <1>11, <1>13, <1>16, <2>1, <2>2, BufferResumed
  <2> QED BY <1>2, <2>3
<1>22. program' = program /\ handled' = handled
  BY <1>2
<1> QED BY <1>15, <1>17, <1>18, <1>19, <1>20, <1>21, <1>22, NextInv

(* The call on top returns, or its loop goes on with the next message.      *)
LEMMA DroppedStep ==
  ASSUME Inv, Depth >= 2, Dropped(frames, frames'), NEW c, c = Top.conn,
         UNCHANGED <<program, arrived, ended, taken, saved>>,
         pool' \in Seq(BufferSet), kept' \subseteq HeldSet,
         failed \subseteq failed', handled' \in [Connections -> Seq(Nat)],
         \A d \in Connections : d \in failed' => d \in failed \/ Spoiled(d),
         \/ handled' = handled
         \/ /\ c \notin failed' /\ Len(handled[c]) + 1 \in Sent(c)
            /\ handled' = [handled EXCEPT ![c] = Append(handled[c], Len(handled[c]) + 1)],
         c \notin failed' => Blank(saved[c]) /\ taken[c] = Start(c, Len(handled'[c]) + 1),
         \A b \in Nat \ {0} : BufferOK(frames', saved', kept', pool', handled', failed', b)
  PROVE  Inv'
<1>1. /\ program \in Programs /\ Stack(frames) /\ StackOK(frames, handled)
      /\ Depth = Len(frames) /\ Top = frames[Len(frames)] /\ Top \in FrameSet
      /\ c \in Connections /\ Len(frames) >= 2
  <2>1. Depth # 1
    BY TopFacts
  <2> QED BY <2>1, TopFacts
<1>2. handled \in [Connections -> Seq(Nat)]
  BY DEF Inv, ReadType
<1>3. ASSUME NEW d \in Connections
      PROVE  /\ Len(handled[d]) \in Nat /\ Len(handled'[d]) \in Nat
             /\ Len(handled'[d]) >= Len(handled[d])
             /\ \/ handled'[d] = handled[d]
                \/ /\ d = c /\ d \notin failed' /\ Len(handled[d]) + 1 \in Sent(d)
                   /\ handled'[d] = Append(handled[d], Len(handled[d]) + 1)
  <2>1. Len(handled[d]) \in Nat /\ handled[d] \in Seq(Nat)
    BY <1>2, LenProperties
  <2>2. CASE handled'[d] = handled[d]
    BY <2>1, <2>2
  <2>3. CASE handled'[d] # handled[d]
    <3>1. /\ d = c /\ d \notin failed' /\ Len(handled[d]) + 1 \in Sent(d)
          /\ handled'[d] = Append(handled[d], Len(handled[d]) + 1)
      BY <1>1, <1>2, <2>3
    <3>2. Len(handled[d]) + 1 \in Nat
      BY <2>1
    <3>3. Len(Append(handled[d], Len(handled[d]) + 1)) = Len(handled[d]) + 1
      BY <2>1, <3>2, AppendProperties
    <3> QED BY <2>1, <3>1, <3>3
  <2> QED BY <2>2, <2>3
<1>4. Grows(handled, handled')
  BY <1>3 DEF Grows
<1>5. /\ Stack(frames') /\ StackOK(frames', handled')
      /\ \A d : On(frames', d) => On(frames, d)
      /\ \/ frames'[Len(frames')].pc = "waits"
         \/ Fresh(Top, frames'[Len(frames')])
  <2>1. CASE Popped(frames, frames')
    BY <1>1, <1>4, <2>1, StackPopped
  <2>2. ASSUME NEW g \in FrameSet, Fresh(Top, g), Replaced(frames, frames', g)
        PROVE  /\ Stack(frames') /\ StackOK(frames', handled') /\ frames'[Len(frames')] = g
               /\ \A d : On(frames', d) => On(frames, d)
    <3>1. g.conn = frames[Len(frames)].conn
      BY <1>1, <2>2 DEF Fresh
    <3>2. Len(frames) # 1 /\ FrameOK(g, handled')
      BY <1>1, <2>2 DEF Fresh, FrameOK
    <3> QED BY <1>1, <1>4, <2>2, <3>1, <3>2, StackReplaced
  <2> QED BY <1>1, <2>1, <2>2 DEF Dropped
<1>6. ReadType'
  BY <1>5 DEF Inv, ReadType
<1>7. TopOK(frames', failed')
  BY <1>5 DEF TopOK, Fresh
<1>8. ASSUME NEW d \in Connections PROVE StreamOK(d)'
  <2>1. \/ handled'[d] = handled[d]
        \/ /\ d \notin failed' /\ Len(handled[d]) + 1 \in Sent(d)
           /\ handled'[d] = Append(handled[d], Len(handled[d]) + 1)
    BY <1>3
  <2>2. taken'[d] <= arrived'[d] /\ arrived'[d] <= Length(d)
    BY StreamFacts
  <2>3. program' = program /\ ended \subseteq ended' /\ (d \in failed' => d \in failed \/ Spoiled(d))
    OBVIOUS
  <2> QED BY <2>1, <2>2, <2>3, StreamStep
<1>9. ASSUME NEW d \in Connections
      PROVE  MarksOK(frames', saved', failed', taken'[d], Len(handled'[d]) + 1, d)
  <2>1. MarksOK(frames, saved, failed, taken[d], Len(handled[d]) + 1, d)
    BY DEF Inv
  <2>2. taken[d] \in Nat /\ Len(handled'[d]) + 1 \in Nat \ {0}
    BY <1>3, StreamFacts
  <2>3. CASE d = c
    <3> SUFFICES ASSUME c \notin failed'
                 PROVE  MarksOK(frames', saved', failed', taken[c], Len(handled'[c]) + 1, c)
      BY <2>3 DEF MarksOK
    <3>1. Blank(saved[c]) /\ taken[c] = Start(c, Len(handled'[c]) + 1) /\ saved[c].full \in Nat
      BY <1>1, StreamFacts
    <3>2. PartOK(c, saved[c], taken[c], Len(handled'[c]) + 1)
      BY <1>1, <2>2, <2>3, <3>1, BlankPart
    <3>3. ASSUME Reads(frames', c)
          PROVE  PartOK(c, frames'[Len(frames')], taken[c], Len(handled'[c]) + 1)
      <4>1. Fresh(Top, frames'[Len(frames')])
        BY <1>5, <3>3 DEF Reads
      <4>2. Blank(frames'[Len(frames')]) /\ frames'[Len(frames')].full \in Nat
        BY <4>1 DEF Fresh, Blank
      <4> QED BY <1>1, <2>2, <2>3, <3>1, <4>2, BlankPart
    <3> QED BY <3>1, <3>2, <3>3 DEF MarksOK
  <2>4. CASE d # c
    <3>1. ~Reads(frames, d) /\ ~Reads(frames', d) /\ ~Busy(frames', d)
      BY <1>1, <1>5, <2>4 DEF Reads, Busy, Fresh
    <3>2. handled'[d] = handled[d]
      BY <1>3, <2>4
    <3> QED BY <1>5, <2>1, <3>1, <3>2 DEF MarksOK
  <2> QED BY <2>3, <2>4
<1>10. program' = program
  OBVIOUS
<1> QED BY <1>5, <1>6, <1>7, <1>8, <1>9, <1>10, NextInv

(* The frame that reads has a buffer once more is wanted than fits into the *)
(* header buffer.                                                           *)
LEMMA SpaceFacts ==
  ASSUME Inv, Reading
  PROVE  LET c == Top.conn
             n == Len(handled[c]) + 1
             w == WithSpace(Started(Top))
             f == w.frame
         IN /\ Depth >= 2 /\ c \in Connections /\ c \notin failed
            /\ f \in FrameSet /\ f.conn = c /\ f.decode = 0 /\ f.msg = 0 /\ f.pc = "read"
            /\ f.full >= 1 /\ f.end <= f.full
            /\ taken[c] - f.end = Start(c, n)
            /\ f.full <= IF n \in Sent(c) THEN Message(c, n).words ELSE 1
            /\ f.buf # 0 <=> f.full >= HeaderBuffer
            /\ w.pool \in Seq(BufferSet)
            /\ \E fs : /\ Replaced(frames, fs, f)
                       /\ fs = [frames EXCEPT ![Depth] = f]
                       /\ \A b \in Nat \ {0} :
                            BufferOK(fs, saved, kept, w.pool, handled, failed, b)
<1>1. /\ program \in Programs /\ Stack(frames) /\ Depth = Len(frames) /\ Top = frames[Len(frames)]
      /\ Top \in FrameSet /\ Depth >= 2 /\ FrameOK(Top, handled) /\ Top.conn \in Connections
      /\ Top.pc = "read" /\ Top.conn \notin failed
  <2>1. Top.pc = "read" /\ Top.conn \notin failed
    BY DEF Reading
  <2>2. Depth # 1
    BY <2>1, TopFacts
  <2> QED BY <2>1, <2>2, TopFacts
<1>2. PICK t : t = Top
  OBVIOUS
<1>3. PICK c : c = t.conn
  OBVIOUS
<1>4. PICK n : n = Len(handled[c]) + 1
  OBVIOUS
<1>5. c \in Connections /\ c \notin failed /\ t \in FrameSet /\ t.msg = 0 /\ t.decode = 0 /\ t.pc = "read"
  BY <1>1, <1>2, <1>3 DEF FrameOK
<1>6. /\ n \in Nat /\ n >= 1 /\ n <= Len(program.sent[c]) + 1 /\ taken[c] \in Nat
      /\ taken[c] <= Length(c)
  <2>1. /\ n \in Nat \ {0} /\ n <= Len(program.sent[c]) + 1 /\ taken[c] \in Nat
        /\ arrived[c] \in Nat /\ Length(c) \in Nat
        /\ taken[c] <= arrived[c] /\ arrived[c] <= Length(c)
    BY <1>4, <1>5, StreamFacts
  <2> QED BY <2>1
<1>7. PartOK(c, t, taken[c], n)
  <2>1. MarksOK(frames, saved, failed, taken[c], n, c)
    BY <1>4, <1>5 DEF Inv
  <2>2. Reads(frames, c)
    BY <1>1, <1>2, <1>3 DEF Reads
  <2> QED BY <1>1, <1>2, <1>5, <2>1, <2>2 DEF MarksOK
<1>8. /\ taken[c] - t.end = Start(c, n) /\ t.end <= t.full
      /\ t.full <= IF n \in Sent(c) THEN Message(c, n).words ELSE 1
      /\ t.buf # 0 => t.full >= HeaderBuffer
      /\ t.end >= HeaderBuffer => t.buf # 0
  BY <1>7 DEF PartOK
<1>9. t.full \in Nat /\ t.end \in Nat /\ t.buf \in Nat
  BY <1>5 DEF FrameSet
<1>10. PICK s : s = Started(t)
  OBVIOUS
<1>11. /\ s \in FrameSet /\ s.conn = c /\ s.decode = 0 /\ s.msg = 0 /\ s.pc = "read"
       /\ s.buf = t.buf /\ s.end = t.end /\ s.full = IF t.full = 0 THEN 1 ELSE t.full
  <2>1. CASE t.full = 0
    <3>1. s = [t EXCEPT !.full = 1, !.end = 0, !.first = TRUE]
      BY <1>10, <2>1 DEF Started
    <3>2. t.end = 0
      BY <1>8, <1>9, <2>1
    <3> QED BY <1>3, <1>5, <2>1, <3>1, <3>2 DEF FrameSet
  <2>2. CASE t.full # 0
    <3>1. s = t
      BY <1>10, <2>2 DEF Started
    <3> QED BY <1>3, <1>5, <2>2, <3>1
  <2> QED BY <2>1, <2>2
<1>12. /\ s.full \in Nat /\ s.full >= 1 /\ s.end <= s.full /\ taken[c] - s.end = Start(c, n)
       /\ s.full <= IF n \in Sent(c) THEN Message(c, n).words ELSE 1
       /\ s.buf # 0 => s.full >= HeaderBuffer
  <2>1. n \in Sent(c) => Message(c, n).words \in Nat /\ Message(c, n).words >= 1
    BY <1>1, <1>5, SentType
  <2>2. s.full \in Nat /\ s.full >= 1 /\ s.end <= s.full /\ taken[c] - s.end = Start(c, n)
    BY <1>8, <1>9, <1>11
  <2>3. s.full <= IF n \in Sent(c) THEN Message(c, n).words ELSE 1
    BY <1>8, <1>11, <2>1
  <2>4. s.buf # 0 => s.full >= HeaderBuffer
    BY <1>8, <1>11 DEF HeaderBuffer
  <2> QED BY <2>2, <2>3, <2>4
<1>13. pool \in Seq(BufferSet)
  BY DEF Inv, ReadType
<1>14. PICK w : w = WithSpace(s)
  OBVIOUS
<1>15. \A b : SameFor(t, s, b)
  <2>1. s.conn = t.conn /\ s.msg = t.msg /\ s.buf = t.buf /\ s.decode = t.decode /\ t.pc # "took"
    BY <1>3, <1>5, <1>11
  <2>2. RecordIn(s) = RecordIn(t)
    BY <2>1 DEF RecordIn
  <2> QED BY <2>1, <2>2 DEF SameFor
<1>16. /\ w.frame \in FrameSet /\ w.frame.conn = c /\ w.frame.decode = 0 /\ w.frame.msg = 0
       /\ w.frame.pc = "read" /\ w.frame.full = s.full /\ w.frame.end = s.end
       /\ w.frame.buf # 0 <=> s.full >= HeaderBuffer
       /\ w.pool \in Seq(BufferSet)
       /\ \A fs : Replaced(frames, fs, w.frame) =>
            \A b \in Nat \ {0} : BufferOK(fs, saved, kept, w.pool, handled, failed, b)
  <2>0. ASSUME NEW b \in Nat \ {0} PROVE BufferOK(frames, saved, kept, pool, handled, failed, b)
    BY DEF Inv
  <2>1. CASE s.full < HeaderBuffer
    <3>1. w.frame = s /\ w.pool = pool
      BY <1>14, <2>1 DEF WithSpace
    <3>2. s.buf = 0 /\ ~(s.full >= HeaderBuffer)
      BY <1>12, <2>1 DEF HeaderBuffer
    <3>3. ASSUME NEW fs, Replaced(frames, fs, s), NEW b \in Nat \ {0}
          PROVE  BufferOK(fs, saved, kept, pool, handled, failed, b)
      <4>1. SameFor(frames[Len(frames)], s, b)
        BY <1>1, <1>2, <1>15
      <4>2. Unmoved(pool, pool, b) /\ failed \subseteq failed
            /\ \A k : k.buf = b => (k \in kept <=> k \in kept)
        BY DEF Unmoved
      <4> QED BY <1>1, <2>0, <3>3, <4>1, <4>2, BufferBeside
    <3> QED BY <1>11, <1>13, <3>1, <3>2, <3>3
  <2>2. CASE s.full >= HeaderBuffer /\ s.buf # 0
    <3>1. w.frame = s /\ w.pool = ExtendDataBuf(pool, s.buf, s.full)
      BY <1>12, <1>14, <2>2 DEF WithSpace, HeaderBuffer
    <3>2. s.buf \in DOMAIN pool
      <4>1. s.buf \in Nat \ {0}
        BY <1>9, <1>11, <2>2
      <4>2. Counts(frames, saved, kept, pool, failed, s.buf)
        BY <2>0, <4>1 DEF BufferOK
      <4>3. Len(frames) \in DOMAIN frames
        BY <1>1, StackType
      <4>4. Owned(frames, saved, s.buf)
        BY <1>1, <1>2, <1>11, <4>3 DEF Owned, Uses
      <4> QED BY <4>2, <4>4 DEF Counts
    <3>3. Counted(pool, w.pool, 0, 0)
      BY <1>12, <1>13, <3>1, <3>2, ExtendStep
    <3>4. w.pool \in Seq(BufferSet)
      BY <3>3 DEF Counted
    <3>5. ASSUME NEW fs, Replaced(frames, fs, s), NEW b \in Nat \ {0}
          PROVE  BufferOK(fs, saved, kept, w.pool, handled, failed, b)
      <4>1. SameFor(frames[Len(frames)], s, b)
        BY <1>1, <1>2, <1>15
      <4>2. Unmoved(pool, w.pool, b)
        BY <3>3 DEF Unmoved, Counted
      <4>3. failed \subseteq failed /\ \A k : k.buf = b => (k \in kept <=> k \in kept)
        OBVIOUS
      <4> QED BY <1>1, <2>0, <3>5, <4>1, <4>2, <4>3, BufferBeside
    <3> QED BY <1>11, <2>2, <3>1, <3>4, <3>5
  <2>3. CASE s.full >= HeaderBuffer /\ s.buf = 0
    <3>1. PICK x : x = Chosen(pool, s.full)
      OBVIOUS
    <3>2. PICK m : m = <<c, MessageAt(c, taken[c] - s.end)>>
      OBVIOUS
    <3>3. /\ w.frame = [s EXCEPT !.buf = x]
          /\ w.pool = GetDataBuf(pool, s.full, m)
      BY <1>11, <1>12, <1>14, <2>3, <3>1, <3>2 DEF WithSpace, HeaderBuffer
    <3>4. m = <<c, n>>
      <4>1. n \in Sent(c)
        BY <1>12, <2>3 DEF HeaderBuffer
      <4>2. s.end \in Nat
        BY <1>9, <1>11
      <4>3. MessageAt(c, taken[c] - s.end) = n
        BY <1>1, <1>5, <1>6, <1>12, <4>1, <4>2, PartOfMessage
      <4> QED BY <3>2, <4>3
    <3>5. m \in Connections \X Nat
      BY <1>5, <1>6, <3>4
    <3>6. HandedOut(pool, w.pool, x, m)
      BY <1>12, <1>13, <3>1, <3>3, <3>5, GetStep
    <3>7. x \in Nat \ {0} /\ w.pool \in Seq(BufferSet)
      BY <3>6 DEF HandedOut
    <3>8. PICK g : g = w.frame
      OBVIOUS
    <3>9. /\ g \in FrameSet /\ g.conn = c /\ g.decode = 0 /\ g.msg = 0 /\ g.pc = "read"
          /\ g.full = s.full /\ g.end = s.end /\ g.buf = x
      BY <1>11, <3>3, <3>7, <3>8 DEF FrameSet
    <3>10. ASSUME NEW fs, Replaced(frames, fs, g), NEW b \in Nat \ {0}
           PROVE  BufferOK(fs, saved, kept, w.pool, handled, failed, b)
      <4>1. /\ t = frames[Len(frames)] /\ t.pc # "took" /\ t.msg = 0 /\ t.buf = 0 /\ t.decode = 0
            /\ g.conn = t.conn /\ g.msg = t.msg /\ g.buf = x /\ g.decode = 0
            /\ m = <<t.conn, Len(handled[t.conn]) + 1>>
        BY <1>1, <1>2, <1>3, <1>4, <1>5, <1>11, <2>3, <3>4, <3>9
      <4>2. BufferOK(frames, saved, kept, pool, handled, failed, b)
        BY <2>0
      <4> QED BY <1>1, <1>13, <3>6, <3>7, <3>10, <4>1, <4>2, BufferTaken
    <3> QED BY <2>3, <3>7, <3>8, <3>9, <3>10
  <2>4. s.full < HeaderBuffer \/ s.full >= HeaderBuffer
    BY <1>12 DEF HeaderBuffer
  <2> QED BY <2>1, <2>2, <2>3, <2>4
<1>17. PICK fs : fs = [frames EXCEPT ![Len(frames)] = w.frame]
  OBVIOUS
<1>18. Replaced(frames, fs, w.frame)
  BY <1>1, <1>16, <1>17, ReplaceTop
<1>19. /\ Depth >= 2 /\ c \in Connections /\ c \notin failed
       /\ w.frame \in FrameSet /\ w.frame.conn = c /\ w.frame.decode = 0 /\ w.frame.msg = 0
       /\ w.frame.pc = "read"
       /\ w.frame.full >= 1 /\ w.frame.end <= w.frame.full
       /\ taken[c] - w.frame.end = Start(c, n)
       /\ w.frame.full <= IF n \in Sent(c) THEN Message(c, n).words ELSE 1
       /\ w.frame.buf # 0 <=> w.frame.full >= HeaderBuffer
       /\ w.pool \in Seq(BufferSet)
       /\ \E gs : /\ Replaced(frames, gs, w.frame)
                  /\ gs = [frames EXCEPT ![Depth] = w.frame]
                  /\ \A b \in Nat \ {0} :
                       BufferOK(gs, saved, kept, w.pool, handled, failed, b)
  <2>1. \A b \in Nat \ {0} : BufferOK(fs, saved, kept, w.pool, handled, failed, b)
    BY <1>16, <1>18
  <2>2. fs = [frames EXCEPT ![Depth] = w.frame]
    BY <1>1, <1>17
  <2>3. w.frame.full = s.full /\ w.frame.end = s.end
    BY <1>16
  <2> QED BY <1>1, <1>5, <1>12, <1>16, <1>18, <2>1, <2>2, <2>3, Zenon
<1> QED BY <1>2, <1>3, <1>4, <1>10, <1>14, <1>19

(* All that was asked for was there.                                        *)
LEMMA ReadAllStep ==
  ASSUME Inv, Read, NEW c, c = Top.conn,
         arrived[c] - taken[c] >= WithSpace(Started(Top)).frame.full - WithSpace(Started(Top)).frame.end
  PROVE  Inv'
<1>1. PICK w : w = WithSpace(Started(Top))
  OBVIOUS
<1>2. PICK f : f = w.frame
  OBVIOUS
<1>3. PICK n : n = Len(handled[c]) + 1
  OBVIOUS
<1>4. PICK fs : /\ Replaced(frames, fs, f) /\ fs = [frames EXCEPT ![Depth] = f]
                /\ \A b \in Nat \ {0} : BufferOK(fs, saved, kept, w.pool, handled, failed, b)
  BY <1>1, <1>2, SpaceFacts DEF Read
<1>5. /\ Depth >= 2 /\ c \in Connections /\ c \notin failed
      /\ f \in FrameSet /\ f.conn = c /\ f.decode = 0 /\ f.msg = 0 /\ f.pc = "read"
      /\ f.full >= 1 /\ f.end <= f.full
      /\ taken[c] - f.end = Start(c, n)
      /\ f.full <= IF n \in Sent(c) THEN Message(c, n).words ELSE 1
      /\ f.buf # 0 <=> f.full >= HeaderBuffer
      /\ w.pool \in Seq(BufferSet)
  BY <1>1, <1>2, <1>3, SpaceFacts DEF Read
<1>6. f.full \in Nat /\ f.end \in Nat
  BY <1>5 DEF FrameSet
<1>7. /\ program \in Programs /\ Stack(frames) /\ StackOK(frames, handled)
      /\ Depth = Len(frames) /\ Top = frames[Len(frames)] /\ Grows(handled, handled)
  BY TopFacts
<1>8. /\ taken[c] \in Nat /\ arrived[c] \in Nat /\ Length(c) \in Nat /\ arrived[c] <= Length(c)
      /\ taken \in [Connections -> Nat]
  BY <1>5, StreamFacts DEF Inv, ReadType
<1>9. /\ pool' = w.pool
      /\ taken' = [taken EXCEPT ![c] = taken[c] + (f.full - f.end)]
      /\ SetTop([f EXCEPT !.end = f.full, !.pc = "act"])
      /\ UNCHANGED <<saved, program, arrived, ended, failed, kept, handled>>
  <2>1. arrived[c] - taken[c] >= f.full - f.end
    BY <1>1, <1>2
  <2>2. ~(arrived[c] - taken[c] < f.full - f.end)
    BY <1>6, <1>8, <2>1
  <2> QED BY <1>1, <1>2, <2>1, <2>2 DEF Read
<1>10. PICK g : g = [f EXCEPT !.end = f.full, !.pc = "act"]
  OBVIOUS
<1>11. /\ g \in FrameSet /\ g.conn = c /\ g.decode = 0 /\ g.msg = 0 /\ g.pc = "act"
       /\ g.full = f.full /\ g.end = f.full /\ g.buf = f.buf
  BY <1>5, <1>6, <1>10 DEF FrameSet
<1>12. Replaced(frames, frames', g)
  BY <1>9, <1>10, <1>11, SetTopIs
<1>13. Replaced(fs, frames', g) /\ Stack(fs) /\ fs[Len(fs)] = f
  <2>1. /\ Stack(fs) /\ Len(fs) = Len(frames) /\ fs[Len(frames)] = f
        /\ Len(frames) \in Nat /\ Len(frames) >= 1
    BY <1>4, <1>7, ReplacedFacts, StackType
  <2>2. frames' = [fs EXCEPT ![Len(fs)] = g]
    <3>1. frames' = [frames EXCEPT ![Len(frames)] = g]
      BY <1>7, <1>9, <1>10 DEF SetTop
    <3>2. fs = [frames EXCEPT ![Len(frames)] = f]
      BY <1>4, <1>7
    <3> QED BY <2>1, <3>1, <3>2
  <2> QED BY <1>11, <2>1, <2>2, ReplaceTop
<1>14. FrameOK(g, handled) /\ g.conn = frames[Len(frames)].conn /\ Len(frames) # 1
  BY <1>5, <1>7, <1>11 DEF FrameOK
<1>15. /\ Stack(frames') /\ StackOK(frames', handled) /\ frames'[Len(frames')] = g
       /\ \A d : On(frames', d) => On(frames, d)
  BY <1>7, <1>12, <1>14, StackReplaced
<1>16. /\ taken' \in [Connections -> Nat] /\ taken'[c] = taken[c] + (f.full - f.end)
       /\ \A d \in Connections : d # c => taken'[d] = taken[d]
  BY <1>5, <1>6, <1>8, <1>9
<1>17. ReadType'
  BY <1>5, <1>9, <1>15, <1>16 DEF Inv, ReadType
<1>18. TopOK(frames', failed')
  BY <1>5, <1>9, <1>11, <1>15 DEF TopOK
<1>19. ASSUME NEW d \in Connections PROVE StreamOK(d)'
  <2>1. taken'[d] <= arrived'[d]
    <3>1. CASE d = c
      BY <1>1, <1>2, <1>6, <1>8, <1>9, <1>16, <3>1
    <3>2. CASE d # c
      BY <1>9, <1>16, <3>2, StreamFacts
    <3> QED BY <3>1, <3>2
  <2> QED BY <1>9, <2>1, StreamFacts, StreamStep
<1>20. ASSUME NEW d \in Connections
       PROVE  MarksOK(frames', saved', failed', taken'[d], Len(handled'[d]) + 1, d)
  <2>1. MarksOK(frames, saved, failed, taken[d], Len(handled[d]) + 1, d)
    BY DEF Inv
  <2>2. Reads(frames', d) <=> d = c
    BY <1>11, <1>15 DEF Reads
  <2>3. CASE d = c
    <3>1. PartOK(c, g, taken'[c], n)
      <4>1. taken'[c] - g.end = Start(c, n)
        BY <1>5, <1>6, <1>8, <1>11, <1>16
      <4>2. g.end <= g.full
        BY <1>6, <1>11
      <4> QED BY <1>5, <1>11, <4>1, <4>2 DEF PartOK
    <3>2. Blank(saved[c])
      <4>1. Busy(frames, c)
        BY <1>7 DEF Busy, Read, Reading
      <4> QED BY <1>5, <2>1, <2>3, <4>1 DEF MarksOK
    <3> QED BY <1>3, <1>9, <1>15, <2>2, <2>3, <3>1, <3>2 DEF MarksOK
  <2>4. CASE d # c
    <3>1. ~Reads(frames, d) /\ ~Busy(frames', d)
      BY <1>7, <1>11, <1>15, <2>4 DEF Reads, Busy
    <3> QED BY <1>9, <1>15, <1>16, <2>1, <2>2, <2>4, <3>1 DEF MarksOK
  <2> QED BY <2>3, <2>4
<1>21. ASSUME NEW b \in Nat \ {0}
       PROVE  BufferOK(frames', saved', kept', pool', handled', failed', b)
  <2>1. SameFor(fs[Len(fs)], g, b)
    <3>1. RecordIn(g) = RecordIn(f)
      BY <1>5, <1>11 DEF RecordIn
    <3> QED BY <1>5, <1>11, <1>13, <3>1 DEF SameFor
  <2>2. Unmoved(w.pool, w.pool, b) /\ failed \subseteq failed
        /\ \A k : k.buf = b => (k \in kept <=> k \in kept)
    BY DEF Unmoved
  <2>3. BufferOK(fs, saved, kept, w.pool, handled, failed, b)
    BY <1>4
  <2>4. BufferOK(frames', saved, kept, w.pool, handled, failed, b)
    BY <1>13, <2>1, <2>2, <2>3, BufferBeside
  <2> QED BY <1>9, <2>4
<1>22. program' = program /\ handled' = handled
  BY <1>9
<1> QED BY <1>15, <1>17, <1>18, <1>19, <1>20, <1>21, <1>22, NextInv

(* Less than was asked for was there: the call returns.                     *)
LEMMA ReadPartStep ==
  ASSUME Inv, Read, NEW c, c = Top.conn,
         arrived[c] - taken[c] < WithSpace(Started(Top)).frame.full - WithSpace(Started(Top)).frame.end
  PROVE  Inv'
<1>1. PICK w : w = WithSpace(Started(Top))
  OBVIOUS
<1>2. PICK f : f = w.frame
  OBVIOUS
<1>3. PICK n : n = Len(handled[c]) + 1
  OBVIOUS
<1>4. PICK fs : /\ Replaced(frames, fs, f) /\ fs = [frames EXCEPT ![Depth] = f]
                /\ \A b \in Nat \ {0} : BufferOK(fs, saved, kept, w.pool, handled, failed, b)
  BY <1>1, <1>2, SpaceFacts DEF Read
<1>5. /\ Depth >= 2 /\ c \in Connections /\ c \notin failed
      /\ f \in FrameSet /\ f.conn = c /\ f.decode = 0 /\ f.msg = 0 /\ f.pc = "read"
      /\ f.full >= 1 /\ f.end <= f.full
      /\ taken[c] - f.end = Start(c, n)
      /\ f.full <= IF n \in Sent(c) THEN Message(c, n).words ELSE 1
      /\ f.buf # 0 <=> f.full >= HeaderBuffer
      /\ w.pool \in Seq(BufferSet)
  BY <1>1, <1>2, <1>3, SpaceFacts DEF Read
<1>6. f.full \in Nat /\ f.end \in Nat /\ f.buf \in Nat
  BY <1>5 DEF FrameSet
<1>7. /\ program \in Programs /\ Stack(frames) /\ StackOK(frames, handled)
      /\ Depth = Len(frames) /\ Top = frames[Len(frames)] /\ Grows(handled, handled)
      /\ Top.pc = "read" /\ On(frames, c)
  BY <1>5, TopFacts DEF Read, Reading
<1>8. /\ taken[c] \in Nat /\ arrived[c] \in Nat /\ Length(c) \in Nat /\ arrived[c] <= Length(c)
      /\ taken[c] <= arrived[c] /\ n \in Nat \ {0} /\ n <= Len(program.sent[c]) + 1
      /\ taken \in [Connections -> Nat] /\ saved \in [Connections -> MarkSet]
      /\ Len(program.sent[c]) \in Nat
  BY <1>3, <1>5, StreamFacts DEF Inv, ReadType
<1>9. PICK h : h = arrived[c] - taken[c]
  OBVIOUS
<1>10. h \in Nat /\ h < f.full - f.end
  BY <1>1, <1>2, <1>8, <1>9
<1>11. /\ pool' = w.pool
       /\ taken' = [taken EXCEPT ![c] = taken[c] + h]
       /\ saved' = [saved EXCEPT ![c] = Saved([f EXCEPT !.end = f.end + h])]
       /\ Pop
       /\ UNCHANGED <<program, arrived, ended, failed, kept, handled>>
  <2>1. ~(h >= f.full - f.end)
    BY <1>6, <1>10
  <2> QED BY <1>1, <1>2, <1>9, <1>10, <2>1 DEF Read
<1>12. PICK s : s = Saved([f EXCEPT !.end = f.end + h])
  OBVIOUS
<1>13. /\ s \in MarkSet /\ s.full = f.full /\ s.end = f.end + h /\ s.buf = f.buf
       /\ s.full \in Nat /\ s.end \in Nat
  BY <1>5, <1>6, <1>10, <1>12 DEF Saved, FrameSet, MarkSet
<1>14. Popped(frames, frames')
  BY <1>7, <1>11, PopTop DEF Pop
<1>15. Popped(fs, frames') /\ Stack(fs) /\ fs[Len(fs)] = f /\ Len(fs) >= 2
  <2>1. /\ Stack(fs) /\ Len(fs) = Len(frames) /\ fs[Len(frames)] = f
        /\ \A i \in 1 .. Len(frames) : i # Len(frames) => Alike(frames[i], fs[i])
    BY <1>4, <1>7, ReplacedFacts
  <2>2. \A i \in 1 .. Len(frames) - 1 : i \in 1 .. Len(frames) /\ i # Len(frames)
    <3>1. \A k \in Nat : \A i \in 1 .. k - 1 : i \in 1 .. k /\ i # k
      OBVIOUS
    <3>2. Len(frames) \in Nat
      BY <1>7, StackType
    <3> QED BY <3>1, <3>2, Zenon
  <2>3. \A i \in 1 .. Len(frames) - 1 : Alike(fs[i], frames'[i])
    BY <1>14, <2>1, <2>2 DEF Popped, Rests, Alike
  <2> QED BY <1>5, <1>7, <1>14, <2>1, <2>3 DEF Popped, Rests
<1>16. /\ Stack(frames') /\ StackOK(frames', handled) /\ frames'[Len(frames')].pc = "waits"
       /\ \A d : On(frames', d) => On(frames, d)
       /\ \A d \in Connections : On(frames', d) =>
            \E k \in Sent(d) : k <= Len(handled[d]) /\ Message(d, k).does = "waits"
  <2>1. Len(frames) >= 2
    BY <1>5, <1>7
  <2> QED BY <1>7, <1>14, <2>1, StackPopped
<1>17. /\ taken' \in [Connections -> Nat] /\ taken'[c] = taken[c] + h
       /\ \A d \in Connections : d # c => taken'[d] = taken[d]
  BY <1>5, <1>8, <1>10, <1>11
<1>18. /\ saved' \in [Connections -> MarkSet] /\ saved'[c] = s
       /\ \A d \in Connections : d # c => saved'[d] = saved[d]
  BY <1>5, <1>8, <1>11, <1>12, <1>13
<1>19. ReadType'
  BY <1>5, <1>11, <1>16, <1>17, <1>18 DEF Inv, ReadType
<1>20. TopOK(frames', failed')
  BY <1>16 DEF TopOK
<1>21. taken'[c] = arrived[c]
  BY <1>8, <1>9, <1>17
<1>22. ASSUME NEW d \in Connections PROVE StreamOK(d)'
  <2>1. taken'[d] <= arrived'[d]
    <3>1. CASE d = c
      BY <1>8, <1>11, <1>21, <3>1
    <3>2. CASE d # c
      BY <1>11, <1>17, <3>2, StreamFacts
    <3> QED BY <3>1, <3>2
  <2> QED BY <1>11, <2>1, StreamFacts, StreamStep
<1>23. PartOK(c, s, taken'[c], n)
  <2>1. taken'[c] - s.end = Start(c, n)
    BY <1>5, <1>6, <1>8, <1>10, <1>13, <1>17
  <2>2. s.end <= s.full
    BY <1>6, <1>10, <1>13
  <2>3. s.end >= HeaderBuffer => s.buf # 0
    BY <1>5, <1>6, <1>13, <2>2 DEF HeaderBuffer
  <2> QED BY <1>5, <1>13, <2>1, <2>2, <2>3 DEF PartOK
<1>24. \A d : ~Reads(frames', d) /\ ~Busy(frames', d)
  BY <1>16 DEF Reads, Busy
<1>25. ASSUME NEW d \in Connections
       PROVE  MarksOK(frames', saved', failed', taken'[d], Len(handled'[d]) + 1, d)
  <2>1. MarksOK(frames, saved, failed, taken[d], Len(handled[d]) + 1, d)
    BY DEF Inv
  <2>3. CASE d = c
    BY <1>3, <1>11, <1>18, <1>23, <1>24, <2>3 DEF MarksOK
  <2>4. CASE d # c
    <3>1. ~Reads(frames, d)
      BY <1>7, <2>4 DEF Reads
    <3> QED BY <1>11, <1>16, <1>17, <1>18, <1>24, <2>1, <2>4, <3>1 DEF MarksOK
  <2> QED BY <2>3, <2>4
<1>26. ASSUME NEW b \in Nat \ {0}
       PROVE  BufferOK(frames', saved', kept', pool', handled', failed', b)
  <2>1. saved[c].buf = 0
    <3>1. Busy(frames, c)
      BY <1>7 DEF Busy
    <3> QED BY <1>5, <3>1 DEF Inv, MarksOK, Blank
  <2>2. saved'[c].buf = f.buf
    BY <1>13, <1>18
  <2>3. Unmoved(w.pool, w.pool, b)
    BY DEF Unmoved
  <2>4. BufferOK(fs, saved, kept, w.pool, handled, failed, b)
    BY <1>4
  <2>5. BufferOK(frames', saved', kept, w.pool, handled, failed, b)
    BY <1>5, <1>15, <1>18, <2>1, <2>2, <2>3, <2>4, BufferParked
  <2> QED BY <1>11, <2>5
<1>27. program' = program /\ handled' = handled
  BY <1>11
<1> QED BY <1>16, <1>19, <1>20, <1>22, <1>25, <1>26, <1>27, NextInv

LEMMA ReturnStep ==
  ASSUME NEW p \in Seq(BufferSet), NEW b \in Nat, b # 0 => b \in DOMAIN p
  PROVE  /\ ReturnDataBuf(p, b) \in Seq(BufferSet) /\ DOMAIN ReturnDataBuf(p, b) = DOMAIN p
         /\ \A x \in DOMAIN p : /\ ReturnDataBuf(p, b)[x].holds = p[x].holds /\ p[x].ref \in Int
                                /\ ReturnDataBuf(p, b)[x].ref = p[x].ref - One(x = b)
<1>1. DOMAIN p = 1 .. Len(p) /\ Len(p) \in Nat /\ \A x \in DOMAIN p : p[x] \in BufferSet
  BY LenProperties, ElementOfSeq
<1>2. \A x \in DOMAIN p : p[x].ref \in Int /\ x # 0
  BY <1>1 DEF BufferSet
<1>3. CASE b = 0
  <2>1. ReturnDataBuf(p, b) = p
    BY <1>3 DEF ReturnDataBuf
  <2>2. \A x \in DOMAIN p : p[x].ref = p[x].ref - One(x = b)
    BY <1>2, <1>3 DEF One
  <2> QED BY <1>2, <2>1, <2>2
<1>4. CASE b # 0
  <2>1. PICK n : n = p[b].ref - 1
    OBVIOUS
  <2>2. n \in Int /\ p[b] \in BufferSet
    BY <1>1, <1>2, <1>4, <2>1
  <2>3. PICK r : r = [p[b] EXCEPT !.ref = n]
    OBVIOUS
  <2>4. r \in BufferSet /\ r.ref = n /\ r.holds = p[b].holds
    BY <2>2, <2>3 DEF BufferSet
  <2>5. PICK q : q = [p EXCEPT ![b] = r]
    OBVIOUS
  <2>6. q \in Seq(BufferSet) /\ DOMAIN q = DOMAIN p /\ q[b] = r
        /\ \A x \in DOMAIN p : x # b => q[x] = p[x]
    BY <1>4, <2>4, <2>5
  <2>7. ReturnDataBuf(p, b) = q
    BY <1>4, <2>1, <2>3, <2>5 DEF ReturnDataBuf
  <2>8. ASSUME NEW x \in DOMAIN p
        PROVE  q[x].holds = p[x].holds /\ q[x].ref = p[x].ref - One(x = b)
    <3>1. CASE x = b
      BY <2>1, <2>4, <2>6, <3>1 DEF One
    <3>2. CASE x # b
      BY <1>2, <2>6, <3>2 DEF One
    <3> QED BY <3>1, <3>2
  <2> QED BY <1>2, <2>6, <2>7, <2>8
<1> QED BY <1>3, <1>4

(* A buffer that is in use is in the pool.                                  *)
LEMMA UsedThere ==
  ASSUME NEW fs, Stack(fs), NEW sv, NEW kp, NEW p, NEW hd, NEW fl,
         \A b \in Nat \ {0} : BufferOK(fs, sv, kp, p, hd, fl, b)
  PROVE  \A b \in Nat \ {0} : Uses(fs[Len(fs)], b) => b \in DOMAIN p
<1>1. Len(fs) \in DOMAIN fs
  BY StackType
<1> QED BY <1>1 DEF BufferOK, Counts, Owned

(* What drops the frame on top drops also what it has become meanwhile.     *)
LEMMA DroppedThrough ==
  ASSUME NEW fs, NEW hs, NEW gs, NEW h, Stack(fs), Replaced(fs, hs, h), h.conn = fs[Len(fs)].conn,
         Dropped(fs, gs)
  PROVE  /\ Dropped(hs, gs) /\ Stack(hs) /\ Len(hs) = Len(fs) /\ hs[Len(hs)] = h
         /\ Popped(fs, gs) => Popped(hs, gs)
<1>1. /\ Stack(hs) /\ Len(hs) = Len(fs) /\ hs[Len(fs)] = h
      /\ \A i \in 1 .. Len(fs) : i # Len(fs) => Alike(fs[i], hs[i])
  BY ReplacedFacts
<1>2. \A i \in 1 .. Len(fs) - 1 : i \in 1 .. Len(fs) /\ i # Len(fs)
  <2>1. \A k \in Nat : \A i \in 1 .. k - 1 : i \in 1 .. k /\ i # k
    OBVIOUS
  <2>2. Len(fs) \in Nat
    BY StackType
  <2> QED BY <2>1, <2>2, Zenon
<1>3. Rests(fs, gs, Len(fs) - 1) => Rests(hs, gs, Len(hs) - 1)
  <2> SUFFICES ASSUME Rests(fs, gs, Len(fs) - 1), NEW i \in 1 .. Len(fs) - 1
               PROVE  Alike(hs[i], gs[i])
    BY <1>1 DEF Rests
  <2>1. Alike(fs[i], hs[i]) /\ Alike(fs[i], gs[i])
    BY <1>1, <1>2 DEF Rests
  <2> QED BY <2>1 DEF Alike
<1>4. Popped(fs, gs) => Popped(hs, gs)
  BY <1>1, <1>3 DEF Popped
<1>5. ASSUME NEW g \in FrameSet, Fresh(fs[Len(fs)], g), Replaced(fs, gs, g)
      PROVE  Fresh(hs[Len(hs)], g) /\ Replaced(hs, gs, g)
  BY <1>1, <1>3, <1>5 DEF Fresh, Replaced
<1> QED BY <1>1, <1>4, <1>5 DEF Dropped

LEMMA ReadFailsStep == ASSUME Inv, ReadFails PROVE Inv'
<1>1. PICK c : c = Top.conn
  OBVIOUS
<1>2. PICK w : w = WithSpace(Started(Top))
  OBVIOUS
<1>3. PICK f : f = w.frame
  OBVIOUS
<1>4. PICK fs : /\ Replaced(frames, fs, f) /\ fs = [frames EXCEPT ![Depth] = f]
                /\ \A b \in Nat \ {0} : BufferOK(fs, saved, kept, w.pool, handled, failed, b)
  BY <1>2, <1>3, SpaceFacts DEF ReadFails
<1>5. /\ Depth >= 2 /\ c \in Connections /\ f.conn = c /\ w.pool \in Seq(BufferSet)
  BY <1>1, <1>2, <1>3, SpaceFacts DEF ReadFails
<1>6. Stack(frames) /\ Depth = Len(frames) /\ Top = frames[Len(frames)]
  BY TopFacts
<1>7. /\ pool' = w.pool /\ failed' = failed \cup {c} /\ frames' = Void(Front(frames)) /\ c \in ended
      /\ UNCHANGED <<program, arrived, ended, taken, saved, kept, handled>>
  BY <1>1, <1>2 DEF ReadFails
<1>8. Popped(frames, frames')
  <2>1. Popped(frames, Front(frames)) /\ Len(frames) >= 2
    BY <1>5, <1>6, PopTop
  <2>2. Stack(Front(frames))
    BY <1>6, <2>1, PoppedFacts
  <2>3. /\ Stack(frames') /\ Len(frames') = Len(Front(frames))
        /\ Rests(Front(frames), frames', Len(Front(frames)))
    BY <1>7, <2>2, VoidStep
  <2>4. Len(Front(frames)) = Len(frames) - 1
    BY <2>1 DEF Popped
  <2> QED BY <2>1, <2>3, <2>4 DEF Popped, Rests, Alike
<1>9. /\ Dropped(frames, frames') /\ Dropped(fs, frames') /\ Stack(fs) /\ Len(fs) >= 2
      /\ f = fs[Len(fs)]
  <2>1. Dropped(frames, frames')
    BY <1>8 DEF Dropped
  <2>2. f.conn = frames[Len(frames)].conn
    BY <1>1, <1>5, <1>6
  <2> QED BY <1>4, <1>5, <1>6, <2>1, <2>2, DroppedThrough
<1>10. ASSUME NEW b \in Nat \ {0}
       PROVE  BufferOK(frames', saved', kept', pool', handled', failed', b)
  <2>1. Left(f, w.pool, w.pool, failed, failed', b)
    <3>1. \A x \in DOMAIN w.pool : w.pool[x] \in BufferSet
      BY <1>5, LenProperties, ElementOfSeq
    <3>2. b \in DOMAIN w.pool => w.pool[b].ref \in Int
      BY <3>1 DEF BufferSet
    <3>3. b \in DOMAIN w.pool => w.pool[b].ref >= w.pool[b].ref - One(Uses(f, b))
      BY <3>2 DEF One
    <3>4. failed' # {} /\ failed \subseteq failed'
      BY <1>7
    <3> QED BY <3>2, <3>3, <3>4 DEF Left
  <2>2. BufferOK(fs, saved, kept, w.pool, handled, failed, b)
    BY <1>4
  <2>3. BufferOK(frames', saved, kept, w.pool, handled, failed', b)
    BY <1>5, <1>9, <2>1, <2>2, BufferLeft
  <2> QED BY <1>7, <2>3
<1>11. /\ kept \subseteq HeldSet /\ handled \in [Connections -> Seq(Nat)]
  BY DEF Inv, ReadType
<1>12. \A d \in Connections : d \in failed' => d \in failed \/ Spoiled(d)
  BY <1>7 DEF Spoiled
<1>13. c \in failed' /\ failed \subseteq failed'
  BY <1>7
<1> QED BY <1>1, <1>5, <1>7, <1>9, <1>10, <1>11, <1>12, <1>13, DroppedStep

LEMMA ReadAfterFailureStep == ASSUME Inv, ReadAfterFailure PROVE Inv'
<1>1. PICK c : c = Top.conn
  OBVIOUS
<1>2. /\ Stack(frames) /\ Depth = Len(frames) /\ Top = frames[Len(frames)]
      /\ Top.pc = "read" /\ c \in failed /\ Depth >= 2
  BY <1>1, TopFacts DEF ReadAfterFailure
<1>3. /\ UNCHANGED <<program, arrived, ended, taken, saved, failed, pool, kept, handled>>
      /\ frames' = Front(frames)
  BY DEF ReadAfterFailure, Pop
<1>4. Dropped(frames, frames')
  BY <1>2, <1>3, PopTop DEF Dropped
<1>5. /\ kept \subseteq HeldSet /\ handled \in [Connections -> Seq(Nat)] /\ pool \in Seq(BufferSet)
  BY DEF Inv, ReadType
<1>6. ASSUME NEW b \in Nat \ {0}
      PROVE  BufferOK(frames', saved', kept', pool', handled', failed', b)
  <2>1. Left(Top, pool, pool, failed, failed, b)
    <3>1. \A x \in DOMAIN pool : pool[x] \in BufferSet
      BY <1>5, LenProperties, ElementOfSeq
    <3>2. b \in DOMAIN pool => pool[b].ref \in Int
      BY <3>1 DEF BufferSet
    <3>3. b \in DOMAIN pool => pool[b].ref >= pool[b].ref - One(Uses(Top, b))
      BY <3>2 DEF One
    <3>4. failed # {}
      BY <1>2
    <3> QED BY <3>2, <3>3, <3>4 DEF Left
  <2>2. BufferOK(frames, saved, kept, pool, handled, failed, b)
    BY DEF Inv
  <2>3. Len(frames) >= 2
    BY <1>2
  <2>4. BufferOK(frames', saved, kept, pool, handled, failed, b)
    BY <1>2, <1>4, <1>5, <2>1, <2>2, <2>3, BufferLeft
  <2> QED BY <1>3, <2>4
<1>7. /\ failed \subseteq failed' /\ (\A d \in Connections : d \in failed' => d \in failed \/ Spoiled(d))
      /\ handled' = handled /\ c \in failed' /\ kept' \subseteq HeldSet
      /\ pool' \in Seq(BufferSet) /\ handled' \in [Connections -> Seq(Nat)]
  BY <1>2, <1>3, <1>5
<1> QED BY <1>1, <1>2, <1>3, <1>4, <1>6, <1>7, DroppedStep

(* The frame on top gives its only buffer back.                             *)
LEMMA GivenBack ==
  ASSUME NEW fs, NEW gs, NEW f, NEW sv, NEW kp, NEW p, NEW hd, NEW fl, NEW fm,
         \A b \in Nat \ {0} : BufferOK(fs, sv, kp, p, hd, fl, b), p \in Seq(BufferSet),
         Stack(fs), Len(fs) >= 2, f = fs[Len(fs)], f.buf \in Nat, f.decode = 0, Dropped(fs, gs),
         fl \subseteq fm
  PROVE  /\ ReturnDataBuf(p, f.buf) \in Seq(BufferSet)
         /\ \A b \in Nat \ {0} : BufferOK(gs, sv, kp, ReturnDataBuf(p, f.buf), hd, fm, b)
<1>1. PICK q : q = ReturnDataBuf(p, f.buf)
  OBVIOUS
<1>2. f.buf # 0 => f.buf \in DOMAIN p
  <2>1. f.buf # 0 => f.buf \in Nat \ {0} /\ Uses(f, f.buf)
    BY DEF Uses
  <2>2. \A b \in Nat \ {0} : Uses(f, b) => b \in DOMAIN p
    BY UsedThere
  <2> QED BY <2>1, <2>2
<1>3. /\ q \in Seq(BufferSet) /\ DOMAIN q = DOMAIN p
      /\ \A x \in DOMAIN p : /\ q[x].holds = p[x].holds /\ p[x].ref \in Int
                             /\ q[x].ref = p[x].ref - One(x = f.buf)
  <2>1. PICK y : y = f.buf
    OBVIOUS
  <2>2. y \in Nat /\ (y # 0 => y \in DOMAIN p) /\ q = ReturnDataBuf(p, y)
    BY <1>1, <1>2, <2>1
  <2>3. /\ q \in Seq(BufferSet) /\ DOMAIN q = DOMAIN p
        /\ \A x \in DOMAIN p : /\ q[x].holds = p[x].holds /\ p[x].ref \in Int
                               /\ q[x].ref = p[x].ref - One(x = y)
    BY <2>2, ReturnStep
  <2> QED BY <2>1, <2>3
<1>4. ASSUME NEW b \in Nat \ {0} PROVE BufferOK(gs, sv, kp, q, hd, fm, b)
  <2>1. One(Uses(f, b)) = One(b = f.buf)
    BY DEF One, Uses
  <2>2. b \in DOMAIN p => /\ q[b].ref \in Int /\ q[b].ref >= p[b].ref - One(Uses(f, b))
                          /\ q[b].ref = p[b].ref - One(Uses(f, b))
    <3> SUFFICES ASSUME b \in DOMAIN p
                 PROVE  /\ q[b].ref \in Int /\ q[b].ref >= p[b].ref - One(Uses(f, b))
                        /\ q[b].ref = p[b].ref - One(Uses(f, b))
      OBVIOUS
    <3>1. p[b].ref \in Int /\ q[b].ref = p[b].ref - One(Uses(f, b)) /\ One(Uses(f, b)) \in Int
      BY <1>3, <2>1 DEF One
    <3> QED BY <3>1
  <2>3. Left(f, p, q, fl, fm, b)
    BY <1>3, <2>2 DEF Left
  <2>4. BufferOK(fs, sv, kp, p, hd, fl, b)
    OBVIOUS
  <2> QED BY <2>3, <2>4, BufferLeft
<1> QED BY <1>1, <1>3, <1>4

LEMMA UnknownMessageStep == ASSUME Inv, UnknownMessage PROVE Inv'
<1>1. PICK c : c = Top.conn
  OBVIOUS
<1>2. PICK n : n = Len(handled[c]) + 1
  OBVIOUS
<1>3. Top.pc = "act"
  BY DEF UnknownMessage
<1>4. /\ Depth >= 2 /\ c \in Connections /\ n \in Sent(c) /\ n \in Nat \ {0} /\ Current = n
      /\ Top.decode = 0
  BY <1>1, <1>2, <1>3, CurrentIs
<1>5. Stack(frames) /\ Depth = Len(frames) /\ Top = frames[Len(frames)] /\ Top \in FrameSet
  BY TopFacts
<1>6. Top.buf \in Nat
  BY <1>5 DEF FrameSet
<1>7. /\ failed' = failed \cup {c} /\ Consumed(Void(frames), pool)
      /\ UNCHANGED <<program, arrived, ended, taken, saved, kept, handled>>
      /\ Unknown(c, n)
  BY <1>1, <1>4 DEF UnknownMessage
<1>8. pool' = ReturnDataBuf(pool, Top.buf) /\ Dropped(frames, frames')
  BY <1>5, <1>7, ConsumedStep DEF Dropped
<1>9. /\ kept \subseteq HeldSet /\ handled \in [Connections -> Seq(Nat)] /\ pool \in Seq(BufferSet)
      /\ \A b \in Nat \ {0} : BufferOK(frames, saved, kept, pool, handled, failed, b)
  BY DEF Inv, ReadType
<1>10. /\ pool' \in Seq(BufferSet)
       /\ \A b \in Nat \ {0} : BufferOK(frames', saved, kept, pool', handled, failed', b)
  <2>1. failed \subseteq failed' /\ Len(frames) >= 2
    BY <1>4, <1>5, <1>7
  <2> QED BY <1>4, <1>5, <1>6, <1>8, <1>9, <2>1, GivenBack
<1>11. ASSUME NEW b \in Nat \ {0}
       PROVE  BufferOK(frames', saved', kept', pool', handled', failed', b)
  BY <1>7, <1>10
<1>12. \A d \in Connections : d \in failed' => d \in failed \/ Spoiled(d)
  BY <1>2, <1>4, <1>7 DEF Spoiled, Unknown
<1>13. c \in failed' /\ failed \subseteq failed' /\ handled' = handled /\ kept' \subseteq HeldSet
       /\ handled' \in [Connections -> Seq(Nat)]
  BY <1>7, <1>9
<1> QED BY <1>1, <1>4, <1>7, <1>8, <1>10, <1>11, <1>12, <1>13, DroppedStep

(* The message is complete: the reader is where the next one starts.        *)
LEMMA CompleteFacts ==
  ASSUME Inv, Complete, NEW c, c = Top.conn, NEW n, n = Len(handled[c]) + 1
  PROVE  /\ Depth >= 2 /\ Depth = Len(frames) /\ c \in Connections /\ c \notin failed
         /\ n \in Sent(c) /\ n \in Nat \ {0} /\ Current = n
         /\ Top.pc = "act" /\ Top.msg = 0 /\ Top.decode = 0 /\ Top.buf \in Nat /\ Blank(saved[c])
         /\ taken[c] = Start(c, n + 1)
         /\ Message(c, n) \in Messages /\ Message(c, n).words \in Nat
         /\ Message(c, n).kind \in {"data", "converted", "event"} => Top.buf # 0
<1>1. Top.pc = "act"
  BY DEF Complete
<1>2. /\ Depth >= 2 /\ c \in Connections /\ c \notin failed /\ n \in Sent(c) /\ n \in Nat \ {0}
      /\ Current = n /\ Top.msg = 0 /\ Top.decode = 0 /\ Blank(saved[c])
      /\ Message(c, n) \in Messages /\ Message(c, n).words \in Nat
      /\ taken[c] - Top.end = Start(c, n) /\ Start(c, n) \in Nat
      /\ taken[c] \in Nat /\ Top.end \in Nat
      /\ Top.end <= Message(c, n).words
      /\ HeaderLength(Message(c, n).kind) \in 1 .. 4
      /\ HeaderLength(Message(c, n).kind) <= Message(c, n).words
      /\ Message(c, n).kind \in {"data", "converted", "event"} =>
           Message(c, n).words >= HeaderBuffer
      /\ Top.end >= HeaderBuffer => Top.buf # 0
  BY <1>1, CurrentIs
<1>3. Top \in FrameSet /\ Depth = Len(frames) /\ program \in Programs
  BY TopFacts
<1>4. Top.buf \in Nat
  BY <1>3 DEF FrameSet
<1>5. Top.end = Message(c, n).words
  <2>1. Missing(Top, Message(c, n)) = 0
    BY <1>2 DEF Complete
  <2>2. PICK l, w, e : l = HeaderLength(Message(c, n).kind) /\ w = Message(c, n).words /\ e = Top.end
    OBVIOUS
  <2>3. l \in Nat /\ w \in Nat /\ e \in Nat /\ (IF e < l THEN l - e ELSE w - e) = 0
    <3>1. l \in Nat /\ w \in Nat /\ e \in Nat
      BY <1>2, <2>2
    <3> QED BY <2>1, <2>2, <3>1 DEF Missing
  <2>4. e = w
    BY <2>3
  <2> QED BY <2>2, <2>4
<1>6. Start(c, n + 1) = Start(c, n) + Message(c, n).words
  BY <1>2, <1>3, StartNext
<1>7. taken[c] = Start(c, n + 1)
  BY <1>2, <1>5, <1>6
<1> QED BY <1>1, <1>2, <1>3, <1>4, <1>5, <1>7

(* The message is dispatched: the frame on top is about it from now on.     *)
LEMMA DispatchedFacts ==
  ASSUME Inv, Complete, Dispatched, NEW c, c = Top.conn, NEW n, n = Len(handled[c]) + 1
  PROVE  /\ handled' = [handled EXCEPT ![c] = Append(handled[c], n)]
         /\ handled' \in [Connections -> Seq(Nat)] /\ Len(handled'[c]) = n
         /\ \E g : /\ g.conn = c /\ g.buf = Top.buf /\ g.decode = 0 /\ g.msg = n /\ g.pc = "handler"
                  /\ \E fs : Replaced(frames, fs, g)
         /\ \A g : g.conn = c /\ g.buf = Top.buf /\ g.decode = 0 /\ g.msg = n =>
              \A fs : Replaced(frames, fs, g) =>
                \A b \in Nat \ {0} : BufferOK(fs, saved, kept, pool, handled', failed, b)
<1>1. /\ Depth >= 2 /\ Depth = Len(frames) /\ c \in Connections /\ c \notin failed
      /\ n \in Nat \ {0} /\ Current = n
      /\ Top.pc = "act" /\ Top.msg = 0 /\ Top.decode = 0 /\ Blank(saved[c])
  BY CompleteFacts
<1>2. /\ Stack(frames) /\ Top = frames[Len(frames)] /\ Top \in FrameSet
      /\ \A i \in DOMAIN frames : i # Len(frames) => frames[i].msg # 0 \/ frames[i].buf = 0
  BY TopFacts
<1>3. handled' = [handled EXCEPT ![c] = Append(handled[c], n)]
  BY <1>1 DEF Dispatched
<1>4. handled \in [Connections -> Seq(Nat)]
  BY DEF Inv, ReadType
<1>5. Append(handled[c], n) \in Seq(Nat) /\ Len(Append(handled[c], n)) = n
  <2>1. handled[c] \in Seq(Nat) /\ n \in Nat
    BY <1>1, <1>4
  <2> QED BY <2>1, AppendProperties
<1>6. handled' \in [Connections -> Seq(Nat)] /\ Len(handled'[c]) = n
      /\ \A d : d # c => handled'[d] = handled[d]
  <2>1. PICK h : h = Append(handled[c], n)
    OBVIOUS
  <2>2. handled' = [handled EXCEPT ![c] = h] /\ h \in Seq(Nat) /\ Len(h) = n
    BY <1>3, <1>5, <2>1
  <2>3. handled' \in [Connections -> Seq(Nat)] /\ handled'[c] = h
    BY <1>1, <1>4, <2>2
  <2>4. \A d : d # c => handled'[d] = handled[d]
    BY <2>2
  <2> QED BY <2>2, <2>3, <2>4
<1>7. PICK f : f = Top
  OBVIOUS
<1>8. PICK g : g = [f EXCEPT !.pc = "handler", !.msg = n]
  OBVIOUS
<1>9. /\ g \in FrameSet /\ g.conn = c /\ g.buf = f.buf /\ g.decode = 0 /\ g.msg = n
      /\ g.pc = "handler"
  <2>1. f \in FrameSet /\ f.conn = c /\ f.decode = 0 /\ n \in Nat
    BY <1>1, <1>2, <1>7
  <2> QED BY <1>8, <2>1 DEF FrameSet
<1>10. PICK fs : fs = [frames EXCEPT ![Len(frames)] = g]
  OBVIOUS
<1>11. Replaced(frames, fs, g)
  BY <1>2, <1>9, <1>10, ReplaceTop
<1>12. ASSUME NEW h, h.conn = c, h.buf = Top.buf, h.decode = 0, h.msg = n,
              NEW hs, Replaced(frames, hs, h), NEW b \in Nat \ {0}
       PROVE  BufferOK(hs, saved, kept, pool, handled', failed, b)
  <2>1. BufferOK(frames, saved, kept, pool, handled, failed, b)
    BY DEF Inv
  <2>2. /\ f = frames[Len(frames)] /\ f.conn = c /\ f.msg = 0 /\ f.decode = 0 /\ f.pc # "took"
        /\ h.buf = f.buf /\ h.msg = Len(handled[c]) + 1 /\ h.msg # 0 /\ saved[c].buf = 0
    BY <1>1, <1>2, <1>7, <1>12 DEF Blank
  <2> QED BY <1>1, <1>2, <1>6, <1>12, <2>1, <2>2, BufferDispatched
<1>13. \E x : /\ x.conn = c /\ x.buf = Top.buf /\ x.decode = 0 /\ x.msg = n /\ x.pc = "handler"
              /\ \E xs : Replaced(frames, xs, x)
  BY <1>7, <1>9, <1>11
<1> QED BY <1>3, <1>6, <1>12, <1>13, Zenon

LEMMA ActAtOnceStep == ASSUME Inv, ActAtOnce PROVE Inv'
<1>1. PICK c : c = Top.conn
  OBVIOUS
<1>2. PICK n : n = Len(handled[c]) + 1
  OBVIOUS
<1>3. /\ Complete /\ Dispatched /\ Consumed(frames, pool)
      /\ UNCHANGED <<program, arrived, ended, taken, saved, failed, kept>>
  BY DEF ActAtOnce
<1>4. /\ Depth >= 2 /\ Depth = Len(frames) /\ c \in Connections /\ c \notin failed
      /\ n \in Sent(c) /\ Blank(saved[c]) /\ taken[c] = Start(c, n + 1) /\ Top.buf \in Nat
  BY <1>1, <1>2, <1>3, CompleteFacts
<1>5. /\ handled' = [handled EXCEPT ![c] = Append(handled[c], n)]
      /\ handled' \in [Connections -> Seq(Nat)] /\ Len(handled'[c]) = n
  BY <1>1, <1>2, <1>3, DispatchedFacts
<1>6. PICK g, fs :
        /\ g.conn = c /\ g.buf = Top.buf /\ g.decode = 0 /\ Replaced(frames, fs, g)
        /\ \A b \in Nat \ {0} : BufferOK(fs, saved, kept, pool, handled', failed, b)
  BY <1>1, <1>2, <1>3, DispatchedFacts
<1>7. Stack(frames) /\ Top = frames[Len(frames)]
  BY TopFacts
<1>8. pool' = ReturnDataBuf(pool, g.buf) /\ Dropped(frames, frames')
  BY <1>3, <1>6, <1>7, ConsumedStep DEF Dropped
<1>9. Dropped(fs, frames') /\ Stack(fs) /\ Len(fs) >= 2 /\ g = fs[Len(fs)]
  BY <1>1, <1>4, <1>6, <1>7, <1>8, DroppedThrough
<1>10. kept \subseteq HeldSet /\ pool \in Seq(BufferSet)
  BY DEF Inv, ReadType
<1>11. /\ pool' \in Seq(BufferSet)
       /\ \A b \in Nat \ {0} : BufferOK(frames', saved, kept, pool', handled', failed, b)
  <2>1. g.buf \in Nat /\ failed \subseteq failed
    BY <1>4, <1>6
  <2> QED BY <1>6, <1>8, <1>9, <1>10, <2>1, GivenBack
<1>12. ASSUME NEW b \in Nat \ {0}
       PROVE  BufferOK(frames', saved', kept', pool', handled', failed', b)
  BY <1>3, <1>11
<1>13. /\ failed \subseteq failed' /\ (\A d \in Connections : d \in failed' => d \in failed \/ Spoiled(d))
       /\ kept' \subseteq HeldSet
       /\ c \notin failed' /\ Len(handled[c]) + 1 \in Sent(c)
       /\ handled' = [handled EXCEPT ![c] = Append(handled[c], Len(handled[c]) + 1)]
       /\ taken[c] = Start(c, Len(handled'[c]) + 1)
  BY <1>2, <1>3, <1>4, <1>5, <1>10
<1> QED BY <1>1, <1>3, <1>4, <1>5, <1>8, <1>11, <1>12, <1>13, DroppedStep

LEMMA SubmitEventStep == ASSUME Inv, SubmitEvent PROVE Inv'
<1>1. PICK c : c = Top.conn
  OBVIOUS
<1>2. PICK n : n = Len(handled[c]) + 1
  OBVIOUS
<1>3. PICK y : y = Top.buf
  OBVIOUS
<1>4. Complete /\ Dispatched /\ Message(Top.conn, Current).kind = "event"
  BY DEF SubmitEvent
<1>5. /\ Depth >= 2 /\ Depth = Len(frames) /\ c \in Connections /\ c \notin failed
      /\ n \in Sent(c) /\ n \in Nat \ {0} /\ Current = n /\ Blank(saved[c])
      /\ taken[c] = Start(c, n + 1) /\ y \in Nat \ {0}
  BY <1>1, <1>2, <1>3, <1>4, CompleteFacts
<1>6. /\ handled' = [handled EXCEPT ![c] = Append(handled[c], n)]
      /\ handled' \in [Connections -> Seq(Nat)] /\ Len(handled'[c]) = n
  BY <1>1, <1>2, <1>4, DispatchedFacts
<1>7. PICK e : e = [buf |-> y, msg |-> <<c, n>>]
  OBVIOUS
<1>8. PICK p : p = [pool EXCEPT ![y].ref = @ + 1]
  OBVIOUS
<1>9. /\ kept' = kept \cup {e} /\ Consumed(frames, p)
      /\ UNCHANGED <<program, arrived, ended, taken, saved, failed>>
  BY <1>1, <1>3, <1>5, <1>7, <1>8 DEF SubmitEvent
<1>10. PICK f, fs :
         /\ f.conn = c /\ f.buf = y /\ f.decode = 0 /\ f.msg = n /\ f.pc = "handler"
         /\ Replaced(frames, fs, f)
         /\ \A b \in Nat \ {0} : BufferOK(fs, saved, kept, pool, handled', failed, b)
  BY <1>1, <1>2, <1>3, <1>4, DispatchedFacts
<1>11. Stack(frames) /\ Top = frames[Len(frames)]
  BY TopFacts
<1>12. kept \subseteq HeldSet /\ pool \in Seq(BufferSet)
  BY DEF Inv, ReadType
<1>13. pool' = ReturnDataBuf(p, y) /\ Dropped(frames, frames')
  BY <1>3, <1>9, <1>11, ConsumedStep DEF Dropped
<1>14. Dropped(fs, frames') /\ Stack(fs) /\ Len(fs) = Len(frames) /\ f = fs[Len(fs)]
  BY <1>1, <1>10, <1>11, <1>13, DroppedThrough
<1>15. y \in DOMAIN pool
  <2>1. Uses(fs[Len(fs)], y)
    BY <1>10, <1>14 DEF Uses
  <2> QED BY <1>5, <1>10, <1>14, <2>1, UsedThere
<1>16. Counted(pool, p, y, 1) /\ p \in Seq(BufferSet)
  <2>1. Counted(pool, [pool EXCEPT ![y].ref = @ + 1], y, 1)
    <3>1. pool \in Seq(BufferSet) /\ y \in DOMAIN pool /\ 1 \in Int
      BY <1>12, <1>15
    <3> QED BY <3>1, CountStep, Zenon
  <2>2. Counted(pool, p, y, 1)
    BY <1>8, <2>1, Zenon
  <2> QED BY <2>2 DEF Counted
<1>17. PICK g : g = [f EXCEPT !.pc = "took"]
  OBVIOUS
<1>18. /\ g \in FrameSet /\ g.conn = c /\ g.buf = y /\ g.decode = 0 /\ g.msg = n /\ g.pc = "took"
  <2>1. f \in FrameSet
    BY <1>10 DEF Replaced
  <2> QED BY <1>10, <1>17, <2>1 DEF FrameSet
<1>19. PICK gs : gs = [fs EXCEPT ![Len(fs)] = g]
  OBVIOUS
<1>20. Replaced(fs, gs, g)
  BY <1>14, <1>18, <1>19, ReplaceTop
<1>21. ASSUME NEW b \in Nat \ {0} PROVE BufferOK(gs, saved, kept', p, handled', failed, b)
  <2>1. BufferOK(fs, saved, kept, pool, handled', failed, b)
    BY <1>10
  <2>2. /\ f.pc # "took" /\ f.msg # 0 /\ RecordIn(f) = y
        /\ g.conn = f.conn /\ g.buf = f.buf /\ g.decode = f.decode /\ g.msg = f.msg /\ g.pc = "took"
        /\ e.buf = y /\ e.msg = <<f.conn, f.msg>>
    BY <1>5, <1>7, <1>10, <1>18 DEF RecordIn
  <2> QED BY <1>5, <1>9, <1>12, <1>14, <1>16, <1>20, <2>1, <2>2, BufferKept
<1>22. Dropped(gs, frames') /\ Stack(gs) /\ Len(gs) >= 2 /\ g = gs[Len(gs)]
  <2>1. g.conn = fs[Len(fs)].conn /\ Len(fs) >= 2
    BY <1>5, <1>10, <1>14, <1>18
  <2> QED BY <1>14, <1>20, <2>1, DroppedThrough
<1>23. /\ pool' \in Seq(BufferSet)
       /\ \A b \in Nat \ {0} : BufferOK(frames', saved, kept', pool', handled', failed, b)
  <2>1. g.buf \in Nat /\ g.decode = 0 /\ failed \subseteq failed /\ pool' = ReturnDataBuf(p, g.buf)
    BY <1>5, <1>13, <1>18
  <2> QED BY <1>16, <1>21, <1>22, <2>1, GivenBack
<1>24. ASSUME NEW b \in Nat \ {0}
       PROVE  BufferOK(frames', saved', kept', pool', handled', failed', b)
  BY <1>9, <1>23
<1>25. kept' \subseteq HeldSet
  <2>1. e \in HeldSet
    BY <1>5, <1>7 DEF HeldSet
  <2> QED BY <1>9, <1>12, <2>1
<1>26. /\ failed \subseteq failed' /\ (\A d \in Connections : d \in failed' => d \in failed \/ Spoiled(d))
       /\ c \notin failed' /\ Len(handled[c]) + 1 \in Sent(c)
       /\ handled' = [handled EXCEPT ![c] = Append(handled[c], Len(handled[c]) + 1)]
       /\ taken[c] = Start(c, Len(handled'[c]) + 1)
  BY <1>2, <1>5, <1>6, <1>9
<1> QED BY <1>1, <1>5, <1>6, <1>9, <1>13, <1>23, <1>24, <1>25, <1>26, DroppedStep

(* A handler is called, or has given its record away.                       *)
LEMMA TopHandles ==
  ASSUME Inv, Depth >= 2, NEW g, Replaced(frames, frames', g), g.conn = Top.conn,
         g.pc \in {"handler", "took"}, FrameOK(g, handled'), NEW c, c = Top.conn,
         UNCHANGED <<program, arrived, ended, taken, saved, failed>>,
         pool' \in Seq(BufferSet), kept' \subseteq HeldSet,
         handled' \in [Connections -> Seq(Nat)],
         \/ handled' = handled /\ Top.pc \notin {"read", "act", "waits"}
         \/ /\ c \notin failed /\ Len(handled[c]) + 1 \in Sent(c) /\ Blank(saved[c])
            /\ handled' = [handled EXCEPT ![c] = Append(handled[c], Len(handled[c]) + 1)]
            /\ taken[c] = Start(c, Len(handled'[c]) + 1),
         \A b \in Nat \ {0} : BufferOK(frames', saved', kept', pool', handled', failed', b)
  PROVE  Inv'
<1>1. /\ program \in Programs /\ Stack(frames) /\ StackOK(frames, handled)
      /\ Depth = Len(frames) /\ Top = frames[Len(frames)] /\ Top \in FrameSet
      /\ c \in Connections /\ Len(frames) >= 2 /\ Len(frames) # 1
  <2>1. Depth # 1
    BY TopFacts
  <2> QED BY <2>1, TopFacts
<1>2. handled \in [Connections -> Seq(Nat)]
  BY DEF Inv, ReadType
<1>3. ASSUME NEW d \in Connections
      PROVE  /\ Len(handled[d]) \in Nat /\ Len(handled'[d]) \in Nat
             /\ Len(handled'[d]) >= Len(handled[d])
             /\ \/ handled'[d] = handled[d]
                \/ /\ d = c /\ d \notin failed' /\ Len(handled[d]) + 1 \in Sent(d)
                   /\ handled'[d] = Append(handled[d], Len(handled[d]) + 1)
  <2>1. Len(handled[d]) \in Nat /\ handled[d] \in Seq(Nat)
    BY <1>2, LenProperties
  <2>2. CASE handled'[d] = handled[d]
    BY <2>1, <2>2
  <2>3. CASE handled'[d] # handled[d]
    <3>1. /\ d = c /\ d \notin failed' /\ Len(handled[d]) + 1 \in Sent(d)
          /\ handled'[d] = Append(handled[d], Len(handled[d]) + 1)
      BY <1>1, <1>2, <2>3
    <3>2. Len(handled[d]) + 1 \in Nat
      BY <2>1
    <3>3. Len(Append(handled[d], Len(handled[d]) + 1)) = Len(handled[d]) + 1
      BY <2>1, <3>2, AppendProperties
    <3> QED BY <2>1, <3>1, <3>3
  <2> QED BY <2>2, <2>3
<1>4. Grows(handled, handled')
  BY <1>3 DEF Grows
<1>5. /\ Stack(frames') /\ StackOK(frames', handled') /\ frames'[Len(frames')] = g
      /\ \A d : On(frames', d) => On(frames, d)
  <2>1. g.conn = frames[Len(frames)].conn
    BY <1>1
  <2> QED BY <1>1, <1>4, <2>1, StackReplaced
<1>6. ReadType'
  BY <1>5 DEF Inv, ReadType
<1>7. TopOK(frames', failed')
  BY <1>5 DEF TopOK
<1>8. ASSUME NEW d \in Connections PROVE StreamOK(d)'
  <2>1. \/ handled'[d] = handled[d]
        \/ /\ d \notin failed' /\ Len(handled[d]) + 1 \in Sent(d)
           /\ handled'[d] = Append(handled[d], Len(handled[d]) + 1)
    BY <1>3
  <2>2. taken'[d] <= arrived'[d] /\ arrived'[d] <= Length(d)
    BY StreamFacts
  <2>3. program' = program /\ ended \subseteq ended' /\ (d \in failed' => d \in failed \/ Spoiled(d))
    OBVIOUS
  <2> QED BY <2>1, <2>2, <2>3, StreamStep
<1>9. ASSUME NEW d \in Connections
      PROVE  MarksOK(frames', saved', failed', taken'[d], Len(handled'[d]) + 1, d)
  <2>1. MarksOK(frames, saved, failed, taken[d], Len(handled[d]) + 1, d)
    BY DEF Inv
  <2>2. ~Reads(frames', d)
    BY <1>5 DEF Reads
  <2>3. CASE handled' = handled /\ Top.pc \notin {"read", "act", "waits"}
    <3>1. ~Reads(frames, d) /\ (Busy(frames', d) => Busy(frames, d))
      BY <1>1, <1>5, <2>3 DEF Reads, Busy
    <3> QED BY <1>5, <2>1, <2>2, <2>3, <3>1 DEF MarksOK
  <2>4. ASSUME c \notin failed, Blank(saved[c]), taken[c] = Start(c, Len(handled'[c]) + 1), d = c
        PROVE  MarksOK(frames', saved', failed', taken'[d], Len(handled'[d]) + 1, d)
    <3>1. taken[d] \in Nat /\ Len(handled'[d]) + 1 \in Nat \ {0} /\ saved[d].full \in Nat
      <4>1. taken[d] \in Nat /\ saved[d].full \in Nat
        BY StreamFacts
      <4>2. Len(handled'[d]) \in Nat
        BY <1>3
      <4> QED BY <4>1, <4>2
    <3>2. PartOK(d, saved[d], taken[d], Len(handled'[d]) + 1)
      BY <1>1, <2>4, <3>1, BlankPart
    <3> QED BY <2>2, <2>4, <3>2 DEF MarksOK
  <2>5. ASSUME handled' = [handled EXCEPT ![c] = Append(handled[c], Len(handled[c]) + 1)], d # c
        PROVE  MarksOK(frames', saved', failed', taken'[d], Len(handled'[d]) + 1, d)
    <3>1. handled'[d] = handled[d]
      BY <2>5
    <3>2. ~Reads(frames, d) /\ ~Busy(frames', d)
      BY <1>1, <1>5, <2>5 DEF Reads, Busy
    <3> QED BY <1>5, <2>1, <2>2, <3>1, <3>2 DEF MarksOK
  <2> QED BY <2>3, <2>4, <2>5
<1>10. program' = program
  OBVIOUS
<1> QED BY <1>5, <1>6, <1>7, <1>8, <1>9, <1>10, NextInv

(* The frame on top is replaced twice.                                      *)
LEMMA ReplacedThrough ==
  ASSUME NEW fs, NEW hs, NEW gs, NEW h, NEW g, Stack(fs), Replaced(fs, hs, h), Replaced(fs, gs, g)
  PROVE  Stack(hs) /\ hs[Len(hs)] = h /\ Len(hs) = Len(fs) /\ Replaced(hs, gs, g)
<1>1. /\ Stack(hs) /\ Len(hs) = Len(fs) /\ hs[Len(fs)] = h
      /\ \A i \in 1 .. Len(fs) : i # Len(fs) => Alike(fs[i], hs[i])
  BY ReplacedFacts
<1>2. \A i \in 1 .. Len(fs) - 1 : i \in 1 .. Len(fs) /\ i # Len(fs)
  <2>1. \A k \in Nat : \A i \in 1 .. k - 1 : i \in 1 .. k /\ i # k
    OBVIOUS
  <2>2. Len(fs) \in Nat
    BY StackType
  <2> QED BY <2>1, <2>2, Zenon
<1>3. Rests(hs, gs, Len(hs) - 1)
  <2>1. gs \in Seq(FrameSet) /\ \A i \in 1 .. Len(fs) - 1 : Alike(fs[i], gs[i])
    BY DEF Replaced, Rests
  <2>2. ASSUME NEW i \in 1 .. Len(fs) - 1 PROVE Alike(hs[i], gs[i])
    <3>1. Alike(fs[i], hs[i]) /\ Alike(fs[i], gs[i])
      BY <1>1, <1>2, <2>1
    <3> QED BY <3>1 DEF Alike
  <2> QED BY <1>1, <2>1, <2>2 DEF Rests
<1> QED BY <1>1, <1>3 DEF Replaced

LEMMA CallHandlerStep == ASSUME Inv, CallHandler PROVE Inv'
<1>1. PICK c : c = Top.conn
  OBVIOUS
<1>2. PICK n : n = Len(handled[c]) + 1
  OBVIOUS
<1>3. PICK m : m = Message(c, n)
  OBVIOUS
<1>4. Complete /\ Dispatched
  BY DEF CallHandler
<1>5. /\ Depth >= 2 /\ Depth = Len(frames) /\ c \in Connections /\ c \notin failed
      /\ n \in Sent(c) /\ n \in Nat \ {0} /\ Current = n /\ Blank(saved[c])
      /\ taken[c] = Start(c, n + 1) /\ Top.buf \in Nat /\ m.words \in Nat
      /\ m.kind \in {"data", "converted", "event"} => Top.buf # 0
  BY <1>1, <1>2, <1>3, <1>4, CompleteFacts
<1>6. /\ handled' = [handled EXCEPT ![c] = Append(handled[c], n)]
      /\ handled' \in [Connections -> Seq(Nat)] /\ Len(handled'[c]) = n
  BY <1>1, <1>2, <1>4, DispatchedFacts
<1>7. PICK own \in BOOLEAN : own <=> m.kind = "converted"
  OBVIOUS
<1>8. PICK x : x = Chosen(pool, m.words + 1)
  OBVIOUS
<1>9. PICK d : d = IF own THEN x ELSE 0
  OBVIOUS
<1>10. PICK t : t = Top
  OBVIOUS
<1>11. PICK g : g = [t EXCEPT !.pc = "handler", !.msg = n, !.decode = d]
  OBVIOUS
<1>12. /\ m.kind \in {"data", "converted"}
       /\ pool' = IF own THEN GetDataBuf(pool, m.words + 1, <<c, n>>) ELSE pool
       /\ frames' = [frames EXCEPT ![Depth] = g]
       /\ UNCHANGED <<program, arrived, ended, taken, saved, failed, kept>>
  <2>1. /\ m.kind \in {"data", "converted"}
        /\ pool' = IF own THEN GetDataBuf(pool, m.words + 1, <<c, n>>) ELSE pool
        /\ UNCHANGED <<program, arrived, ended, taken, saved, failed, kept>>
    BY <1>1, <1>3, <1>5, <1>7 DEF CallHandler
  <2>2. SetTop([Top EXCEPT !.pc = "handler", !.msg = n,
                           !.decode = IF m.kind = "converted" THEN x ELSE 0])
    BY <1>1, <1>3, <1>5, <1>8 DEF CallHandler
  <2>3. d = IF m.kind = "converted" THEN x ELSE 0
    BY <1>7, <1>9
  <2>4. SetTop(g)
    BY <1>10, <1>11, <2>2, <2>3
  <2> QED BY <2>1, <2>4 DEF SetTop
<1>13. /\ program \in Programs /\ Stack(frames) /\ Top = frames[Len(frames)] /\ t \in FrameSet
       /\ t.conn = c /\ t.buf = Top.buf /\ t.buf # 0
  BY <1>1, <1>5, <1>10, <1>12, TopFacts
<1>14. kept \subseteq HeldSet /\ pool \in Seq(BufferSet)
  BY DEF Inv, ReadType
<1>15. x \in Nat \ {0} /\ d \in Nat
  <2>1. x \in Nat \ {0}
    BY <1>8, <1>14, ChosenIn
  <2> QED BY <1>9, <2>1
<1>16. /\ g \in FrameSet /\ g.conn = c /\ g.buf = t.buf /\ g.msg = n /\ g.pc = "handler"
       /\ g.decode = d
  BY <1>5, <1>11, <1>13, <1>15 DEF FrameSet
<1>17. Replaced(frames, frames', g)
  BY <1>5, <1>12, <1>13, <1>16, ReplaceTop
<1>18. /\ pool' \in Seq(BufferSet)
       /\ \A b \in Nat \ {0} : BufferOK(frames', saved, kept, pool', handled', failed, b)
  <2>1. CASE ~own
    <3>1. pool' = pool /\ g.decode = 0
      BY <1>9, <1>12, <1>16, <2>1
    <3>2. g.conn = c /\ g.buf = Top.buf /\ g.decode = 0 /\ g.msg = n
      BY <1>13, <1>16, <3>1
    <3>3. \A b \in Nat \ {0} : BufferOK(frames', saved, kept, pool, handled', failed, b)
      BY <1>1, <1>2, <1>4, <1>17, <3>2, DispatchedFacts
    <3> QED BY <1>14, <3>1, <3>3
  <2>2. CASE own
    <3>1. pool' = GetDataBuf(pool, m.words + 1, <<c, n>>) /\ g.decode = x
      BY <1>9, <1>12, <1>16, <2>2
    <3>2. HandedOut(pool, pool', x, <<c, n>>)
      <4>1. m.words + 1 \in Int /\ <<c, n>> \in Connections \X Nat
        BY <1>5
      <4> QED BY <1>8, <1>14, <3>1, <4>1, GetStep
    <3>3. PICK f, fs :
            /\ f.conn = c /\ f.buf = Top.buf /\ f.decode = 0 /\ f.msg = n /\ f.pc = "handler"
            /\ Replaced(frames, fs, f)
            /\ \A b \in Nat \ {0} : BufferOK(fs, saved, kept, pool, handled', failed, b)
      BY <1>1, <1>2, <1>4, DispatchedFacts
    <3>4. Stack(fs) /\ f = fs[Len(fs)] /\ Replaced(fs, frames', g)
      BY <1>13, <1>17, <3>3, ReplacedThrough
    <3>5. ASSUME NEW b \in Nat \ {0} PROVE BufferOK(frames', saved, kept, pool', handled', failed, b)
      <4>1. BufferOK(fs, saved, kept, pool, handled', failed, b)
        BY <3>3
      <4>2. /\ g.conn = f.conn /\ g.msg = f.msg /\ f.pc # "took"
            /\ f.msg # 0 /\ f.decode = 0 /\ g.buf = f.buf /\ g.decode = x
            /\ <<c, n>> = <<f.conn, f.msg>>
        BY <1>5, <1>13, <1>16, <3>1, <3>3
      <4> QED BY <1>14, <1>15, <3>2, <3>4, <4>1, <4>2, BufferTaken
    <3>6. pool' \in Seq(BufferSet)
      BY <3>2 DEF HandedOut
    <3> QED BY <3>5, <3>6
  <2> QED BY <2>1, <2>2
<1>19. ASSUME NEW b \in Nat \ {0}
       PROVE  BufferOK(frames', saved', kept', pool', handled', failed', b)
  BY <1>12, <1>18
<1>20. FrameOK(g, handled')
  BY <1>5, <1>6, <1>13, <1>16 DEF FrameOK
<1>21. /\ c \notin failed /\ Len(handled[c]) + 1 \in Sent(c) /\ Blank(saved[c])
       /\ handled' = [handled EXCEPT ![c] = Append(handled[c], Len(handled[c]) + 1)]
       /\ taken[c] = Start(c, Len(handled'[c]) + 1)
  BY <1>2, <1>5, <1>6
<1>22. g.conn = Top.conn /\ g.pc \in {"handler", "took"} /\ kept' \subseteq HeldSet
  BY <1>1, <1>12, <1>14, <1>16
<1> QED BY <1>1, <1>5, <1>6, <1>12, <1>17, <1>18, <1>19, <1>20, <1>21, <1>22, TopHandles

(* The buffers of a handler are in the pool.                                *)
LEMMA HandlerFacts ==
  ASSUME Inv, Top.pc \in {"handler", "took"}
  PROVE  /\ Depth >= 2 /\ Depth = Len(frames) /\ Stack(frames) /\ Top = frames[Len(frames)]
         /\ Top \in FrameSet /\ FrameOK(Top, handled) /\ Top.conn \in Connections
         /\ Top.msg \in Nat \ {0} /\ Top.buf \in Nat \ {0} /\ Top.decode \in Nat
         /\ Top.buf \in DOMAIN pool /\ (Top.decode # 0 => Top.decode \in DOMAIN pool)
         /\ Top.buf # Top.decode
<1>1. /\ program \in Programs /\ Stack(frames) /\ Depth = Len(frames) /\ Top = frames[Len(frames)]
      /\ Top \in FrameSet /\ Depth >= 2 /\ FrameOK(Top, handled) /\ Top.conn \in Connections
  <2>1. Depth # 1
    BY TopFacts
  <2> QED BY <2>1, TopFacts
<1>2. Top.msg \in Nat /\ Top.buf \in Nat /\ Top.decode \in Nat
  BY <1>1 DEF FrameSet
<1>3. Top.msg \in Sent(Top.conn) /\ Top.buf # 0
  BY <1>1 DEF FrameOK
<1>4. Top.msg # 0
  BY <1>1, <1>3, SentType
<1>5. \A b \in Nat \ {0} : BufferOK(frames, saved, kept, pool, handled, failed, b)
  BY DEF Inv
<1>6. ASSUME NEW b \in Nat \ {0}, Uses(Top, b) PROVE b \in DOMAIN pool
  BY <1>1, <1>5, <1>6, UsedThere
<1>7. Top.buf \in DOMAIN pool /\ (Top.decode # 0 => Top.decode \in DOMAIN pool)
  <2>1. Uses(Top, Top.buf) /\ Uses(Top, Top.decode)
    BY DEF Uses
  <2> QED BY <1>2, <1>3, <1>6, <2>1
<1>8. Top.buf # Top.decode
  <2>1. OneOwner(frames, saved, Top.buf)
    BY <1>2, <1>3, <1>5 DEF BufferOK
  <2>2. Len(frames) \in DOMAIN frames
    BY <1>1, StackType
  <2> QED BY <1>1, <2>1, <2>2 DEF OneOwner
<1> QED BY <1>1, <1>2, <1>3, <1>4, <1>7, <1>8

LEMMA TakeBufferStep == ASSUME Inv, TakeBuffer PROVE Inv'
<1>1. PICK c : c = Top.conn
  OBVIOUS
<1>2. PICK f : f = Top
  OBVIOUS
<1>3. PICK y : y = RecordIn(f)
  OBVIOUS
<1>4. Top.pc = "handler"
  BY DEF TakeBuffer
<1>5. /\ Depth >= 2 /\ Depth = Len(frames) /\ Stack(frames) /\ Top = frames[Len(frames)]
      /\ f \in FrameSet /\ FrameOK(f, handled) /\ f.conn = c /\ c \in Connections
      /\ f.pc = "handler" /\ f.msg \in Nat \ {0} /\ f.buf \in Nat \ {0} /\ f.decode \in Nat
      /\ f.buf \in DOMAIN pool /\ (f.decode # 0 => f.decode \in DOMAIN pool)
  BY <1>1, <1>2, <1>4, HandlerFacts
<1>6. y \in Nat \ {0} /\ y \in DOMAIN pool
  BY <1>3, <1>5 DEF RecordIn
<1>7. PICK g : g = [f EXCEPT !.pc = "took"]
  OBVIOUS
<1>8. /\ g \in FrameSet /\ g.conn = c /\ g.buf = f.buf /\ g.decode = f.decode /\ g.msg = f.msg
      /\ g.pc = "took"
  BY <1>5, <1>7 DEF FrameSet
<1>9. PICK e : e = TakenBy(f)
  OBVIOUS
<1>10. e = [buf |-> y, msg |-> <<c, f.msg>>]
  BY <1>3, <1>5, <1>9 DEF TakenBy
<1>11. PICK p : p = [pool EXCEPT ![y].ref = @ + 1]
  OBVIOUS
<1>12. /\ kept' = kept \cup {e} /\ pool' = p /\ SetTop(g)
       /\ UNCHANGED <<program, arrived, ended, taken, saved, failed, handled>>
  BY <1>2, <1>3, <1>7, <1>9, <1>11 DEF TakeBuffer
<1>13. Replaced(frames, frames', g)
  BY <1>5, <1>8, <1>12, ReplaceTop DEF SetTop
<1>14. kept \subseteq HeldSet /\ pool \in Seq(BufferSet) /\ handled \in [Connections -> Seq(Nat)]
  BY DEF Inv, ReadType
<1>15. Counted(pool, pool', y, 1) /\ pool' \in Seq(BufferSet)
  <2>1. Counted(pool, [pool EXCEPT ![y].ref = @ + 1], y, 1)
    <3>1. pool \in Seq(BufferSet) /\ y \in DOMAIN pool /\ 1 \in Int
      BY <1>6, <1>14
    <3> QED BY <3>1, CountStep, Zenon
  <2>2. Counted(pool, p, y, 1)
    BY <1>11, <2>1, Zenon
  <2> QED BY <1>12, <2>2 DEF Counted
<1>16. ASSUME NEW b \in Nat \ {0}
       PROVE  BufferOK(frames', saved', kept', pool', handled', failed', b)
  <2>1. BufferOK(frames, saved, kept, pool, handled, failed, b)
    BY DEF Inv
  <2>2. /\ f = frames[Len(frames)] /\ f.pc # "took" /\ f.msg # 0
        /\ g.conn = f.conn /\ e.buf = y /\ e.msg = <<f.conn, f.msg>>
    BY <1>2, <1>5, <1>8, <1>10
  <2>3. BufferOK(frames', saved, kept', pool', handled, failed, b)
    BY <1>3, <1>5, <1>6, <1>8, <1>12, <1>13, <1>14, <1>15, <2>1, <2>2, BufferKept
  <2> QED BY <1>12, <2>3
<1>17. FrameOK(g, handled')
  BY <1>5, <1>8, <1>12 DEF FrameOK
<1>18. kept' \subseteq HeldSet
  <2>1. e \in HeldSet
    BY <1>5, <1>6, <1>10 DEF HeldSet
  <2> QED BY <1>12, <1>14, <2>1
<1>19. /\ handled' = handled /\ Top.pc \notin {"read", "act", "waits"}
       /\ g.conn = Top.conn /\ g.pc \in {"handler", "took"}
       /\ handled' \in [Connections -> Seq(Nat)]
  BY <1>1, <1>4, <1>8, <1>12, <1>14
<1> QED BY <1>1, <1>5, <1>12, <1>13, <1>15, <1>16, <1>17, <1>18, <1>19, TopHandles

LEMMA HandlerReturnsStep == ASSUME Inv, HandlerReturns PROVE Inv'
<1>1. PICK c : c = Top.conn
  OBVIOUS
<1>2. PICK f : f = Top
  OBVIOUS
<1>3. Top.pc \in {"handler", "took"}
  BY DEF HandlerReturns
<1>4. /\ Depth >= 2 /\ Depth = Len(frames) /\ Stack(frames) /\ Top = frames[Len(frames)]
      /\ f \in FrameSet /\ f.conn = c /\ c \in Connections
      /\ f.buf \in Nat \ {0} /\ f.decode \in Nat
      /\ f.buf \in DOMAIN pool /\ (f.decode # 0 => f.decode \in DOMAIN pool)
      /\ f.buf # f.decode
  BY <1>1, <1>2, <1>3, HandlerFacts
<1>5. PICK x, y : x = f.decode /\ y = f.buf
  OBVIOUS
<1>6. PICK p : p = ReturnDataBuf(pool, x)
  OBVIOUS
<1>7. /\ Consumed(frames, p)
      /\ UNCHANGED <<program, arrived, ended, taken, saved, failed, kept, handled>>
  BY <1>2, <1>5, <1>6 DEF HandlerReturns
<1>8. pool' = ReturnDataBuf(p, y) /\ Dropped(frames, frames')
  BY <1>2, <1>4, <1>5, <1>7, ConsumedStep DEF Dropped
<1>9. kept \subseteq HeldSet /\ pool \in Seq(BufferSet) /\ handled \in [Connections -> Seq(Nat)]
  BY DEF Inv, ReadType
<1>10. x \in Nat /\ y \in Nat \ {0} /\ y \in DOMAIN pool /\ (x # 0 => x \in DOMAIN pool) /\ x # y
  BY <1>4, <1>5
<1>11. /\ p \in Seq(BufferSet) /\ DOMAIN p = DOMAIN pool
       /\ \A z \in DOMAIN pool : /\ p[z].holds = pool[z].holds /\ pool[z].ref \in Int
                                 /\ p[z].ref = pool[z].ref - One(z = x)
  BY <1>6, <1>9, <1>10, ReturnStep
<1>12. /\ pool' \in Seq(BufferSet) /\ DOMAIN pool' = DOMAIN p
       /\ \A z \in DOMAIN p : /\ pool'[z].holds = p[z].holds /\ p[z].ref \in Int
                              /\ pool'[z].ref = p[z].ref - One(z = y)
  <2>1. p \in Seq(BufferSet) /\ y \in Nat /\ (y # 0 => y \in DOMAIN p)
    BY <1>10, <1>11
  <2> QED BY <1>8, <2>1, ReturnStep
<1>13. ASSUME NEW b \in Nat \ {0}
       PROVE  BufferOK(frames', saved', kept', pool', handled', failed', b)
  <2>1. ASSUME b \in DOMAIN pool
        PROVE  /\ pool'[b].holds = pool[b].holds /\ pool'[b].ref \in Int
               /\ pool'[b].ref >= pool[b].ref - One(Uses(f, b))
               /\ pool'[b].ref = pool[b].ref - One(Uses(f, b))
    <3>1. /\ pool[b].ref \in Int /\ pool'[b].holds = pool[b].holds
          /\ pool'[b].ref = pool[b].ref - One(b = x) - One(b = y)
      BY <1>11, <1>12, <2>1
    <3>2. One(Uses(f, b)) = One(b = x) + One(b = y) /\ One(b = x) \in Int /\ One(b = y) \in Int
      BY <1>5, <1>10 DEF One, Uses
    <3> QED BY <3>1, <3>2
  <2>2. Left(f, pool, pool', failed, failed, b)
    BY <1>11, <1>12, <2>1 DEF Left
  <2>3. BufferOK(frames, saved, kept, pool, handled, failed, b)
    BY DEF Inv
  <2>4. f = frames[Len(frames)] /\ Len(frames) >= 2
    BY <1>2, <1>4
  <2>5. BufferOK(frames', saved, kept, pool', handled, failed, b)
    BY <1>4, <1>8, <1>9, <2>2, <2>3, <2>4, BufferLeft
  <2> QED BY <1>7, <2>5
<1>14. c \notin failed => Blank(saved[c]) /\ taken[c] = Start(c, Len(handled[c]) + 1)
  <2>1. MarksOK(frames, saved, failed, taken[c], Len(handled[c]) + 1, c)
    BY <1>4 DEF Inv
  <2>2. ~Reads(frames, c)
    BY <1>3, <1>4 DEF Reads
  <2>3. Busy(frames, c)
    BY <1>1, <1>3, <1>4 DEF Busy
  <2>4. taken[c] \in Nat
    BY <1>4, StreamFacts
  <2>5. ASSUME c \notin failed PROVE Blank(saved[c]) /\ PartOK(c, saved[c], taken[c], Len(handled[c]) + 1)
    BY <2>1, <2>2, <2>3, <2>5 DEF MarksOK
  <2>6. ASSUME c \notin failed
        PROVE  saved[c].end = 0 /\ taken[c] - saved[c].end = Start(c, Len(handled[c]) + 1)
    BY <2>5, <2>6 DEF Blank, PartOK
  <2>7. ASSUME c \notin failed PROVE taken[c] = Start(c, Len(handled[c]) + 1)
    BY <2>4, <2>6, <2>7
  <2> QED BY <2>5, <2>7
<1>15. /\ failed \subseteq failed' /\ (\A d \in Connections : d \in failed' => d \in failed \/ Spoiled(d))
       /\ handled' = handled /\ kept' \subseteq HeldSet /\ handled' \in [Connections -> Seq(Nat)]
       /\ c \notin failed' => Blank(saved[c]) /\ taken[c] = Start(c, Len(handled'[c]) + 1)
  BY <1>7, <1>9, <1>14
<1> QED BY <1>1, <1>4, <1>7, <1>8, <1>12, <1>13, <1>15, DroppedStep

LEMMA ReturnBufferStep == ASSUME Inv, ReturnBuffer PROVE Inv'
<1>1. PICK k \in kept :
        /\ kept' = kept \ {k} /\ pool' = ReturnDataBuf(pool, k.buf)
        /\ UNCHANGED <<program, arrived, ended, taken, saved, failed, frames, handled>>
  BY DEF ReturnBuffer
<1>2. /\ ReadType /\ kept \in SUBSET HeldSet /\ pool \in Seq(BufferSet)
      /\ \A b \in Nat \ {0} : BufferOK(frames, saved, kept, pool, handled, failed, b)
  BY DEF Inv, ReadType
<1>3. PICK y : y = k.buf
  OBVIOUS
<1>4. y \in Nat \ {0} /\ Kept(kept, y)
  <2>1. k \in HeldSet
    BY <1>1, <1>2
  <2> QED BY <1>1, <1>3, <2>1 DEF HeldSet, Kept
<1>5. y \in DOMAIN pool
  BY <1>2, <1>4 DEF BufferOK, Counts
<1>6. /\ pool' \in Seq(BufferSet) /\ DOMAIN pool' = DOMAIN pool
      /\ \A x \in DOMAIN pool : /\ pool'[x].holds = pool[x].holds /\ pool[x].ref \in Int
                                /\ pool'[x].ref = pool[x].ref - One(x = y)
  <2>1. pool' = ReturnDataBuf(pool, y)
    BY <1>1, <1>3
  <2>2. pool \in Seq(BufferSet) /\ y \in Nat /\ (y # 0 => y \in DOMAIN pool)
    BY <1>2, <1>4, <1>5
  <2> QED BY <2>1, <2>2, ReturnStep
<1>7. Counted(pool, pool', y, -1)
  <2>1. ASSUME NEW x \in DOMAIN pool
        PROVE  pool'[x].ref = IF x = y THEN pool[x].ref + -1 ELSE pool[x].ref
    BY <1>6 DEF One
  <2> QED BY <1>6, <2>1 DEF Counted
<1>8. ASSUME NEW b \in Nat \ {0}
      PROVE  BufferOK(frames', saved', kept', pool', handled', failed', b)
  <2>1. BufferOK(frames, saved, kept \ {k}, pool', handled, failed, b)
    BY <1>1, <1>2, <1>3, <1>7, BufferUnkept
  <2> QED BY <1>1, <2>1
<1>9. ReadType'
  BY <1>1, <1>2, <1>6 DEF ReadType
<1>10. /\ StackOK(frames', handled') /\ TopOK(frames', failed')
  BY <1>1 DEF Inv
<1>11. ASSUME NEW d \in Connections PROVE StreamOK(d)'
  BY <1>1, StreamFacts, StreamStep
<1>12. ASSUME NEW d \in Connections
       PROVE  MarksOK(frames', saved', failed', taken'[d], Len(handled'[d]) + 1, d)
  BY <1>1 DEF Inv
<1> QED BY <1>1, <1>8, <1>9, <1>10, <1>11, <1>12, NextInv

LEMMA ReadStep == ASSUME Inv, Read PROVE Inv'
<1>1. PICK c : c = Top.conn
  OBVIOUS
<1>2. PICK a : a = WithSpace(Started(Top)).frame.full - WithSpace(Started(Top)).frame.end
  OBVIOUS
<1>3. arrived[c] - taken[c] >= a \/ arrived[c] - taken[c] < a
  BY <1>1, <1>2 DEF Read
<1> QED BY <1>1, <1>2, <1>3, ReadAllStep, ReadPartStep

LEMMA InvInit == ASSUME Init PROVE Inv
<1>1. PICK f : f = [Frame(NoConn) EXCEPT !.pc = "waits"]
  OBVIOUS
<1>2. /\ f \in FrameSet /\ f.conn = NoConn /\ f.pc = "waits" /\ f.buf = 0 /\ f.decode = 0
      /\ f.msg = 0
  BY <1>1 DEF Frame, FrameSet
<1>3. frames = <<f>> /\ program \in Programs /\ pool = <<>> /\ kept = {} /\ failed = {}
  BY <1>1 DEF Init
<1>4. /\ frames \in Seq(FrameSet) /\ Len(frames) = 1 /\ DOMAIN frames = {1} /\ frames[1] = f
      /\ frames # <<>>
  BY <1>2, <1>3
<1>5. /\ arrived \in [Connections -> Nat] /\ taken \in [Connections -> Nat]
      /\ saved \in [Connections -> MarkSet] /\ handled \in [Connections -> Seq(Nat)]
      /\ \A c \in Connections : /\ arrived[c] = 0 /\ taken[c] = 0 /\ saved[c] = Idle
                                /\ handled[c] = <<>>
  <2>1. <<>> \in Seq(Nat) /\ Idle \in MarkSet
    BY DEF Idle, MarkSet
  <2>2. /\ arrived = [c \in Connections |-> 0] /\ taken = [c \in Connections |-> 0]
        /\ saved = [c \in Connections |-> Idle] /\ handled = [c \in Connections |-> <<>>]
    BY DEF Init
  <2> HIDE DEF Idle
  <2> QED BY <2>1, <2>2
<1>6. ReadType
  <2>1. pool \in Seq(BufferSet) /\ kept \subseteq HeldSet
    BY <1>3
  <2> QED BY <1>3, <1>4, <1>5, <2>1 DEF ReadType, Stack
<1>7. StackOK(frames, handled)
  <2>1. \A i \in 2 .. 1 : FALSE
    OBVIOUS
  <2>2. \A i \in 1 .. 1 - 1 : FALSE
    OBVIOUS
  <2> QED BY <1>2, <1>4, <2>1, <2>2 DEF StackOK
<1>8. TopOK(frames, failed)
  BY <1>2, <1>4 DEF TopOK
<1>9. ASSUME NEW c \in Connections PROVE StreamOK(c)
  <2>1. Len(handled[c]) = 0 /\ DOMAIN handled[c] = {}
    BY <1>5
  <2>2. Len(program.sent[c]) \in Nat
    BY <1>3, SentType
  <2>3. Length(c) \in Nat
    BY <1>3, <2>2, StartType DEF Length
  <2> QED BY <1>3, <1>5, <2>1, <2>2, <2>3 DEF StreamOK
<1>10. ASSUME NEW c \in Connections
       PROVE  MarksOK(frames, saved, failed, taken[c], Len(handled[c]) + 1, c)
  <2>1. Len(handled[c]) + 1 = 1 /\ taken[c] = 0 /\ saved[c] = Idle
    BY <1>5
  <2>2. Blank(Idle) /\ Idle.full \in Nat
    BY DEF Blank, Idle
  <2>3. Start(c, 1) = 0
    BY StartFirst
  <2>4. PartOK(c, Idle, 0, 1)
    <3>1. 1 \in Nat \ {0} /\ 0 \in Nat /\ 0 = Start(c, 1)
      BY <2>3
    <3> QED BY <1>3, <2>2, <3>1, BlankPart
  <2>5. ~Reads(frames, c) /\ ~Busy(frames, c)
    BY <1>2, <1>4 DEF Reads, Busy
  <2> QED BY <2>1, <2>2, <2>4, <2>5 DEF MarksOK
<1>11. ASSUME NEW b \in Nat \ {0} PROVE BufferOK(frames, saved, kept, pool, handled, failed, b)
  <2>1. \A i \in DOMAIN frames : ~Uses(frames[i], b) /\ frames[i].buf # b /\ frames[i].msg = 0
    BY <1>2, <1>4 DEF Uses
  <2>2. \A c \in Connections : saved[c].buf # b
    BY <1>5 DEF Idle
  <2>3. ~Kept(kept, b) /\ ~Owned(frames, saved, b)
    BY <1>3, <2>1, <2>2 DEF Kept, Owned
  <2>4. b \notin DOMAIN pool
    BY <1>3
  <2>5. OneOwner(frames, saved, b)
    BY <2>1, <2>2 DEF OneOwner
  <2>6. KeptApart(frames, saved, kept, b) /\ Counts(frames, saved, kept, pool, failed, b)
    BY <2>3, <2>4 DEF KeptApart, Counts
  <2>7. Contents(frames, saved, kept, pool, handled, failed, b)
    BY <1>3, <2>1, <2>2 DEF Contents
  <2> QED BY <2>5, <2>6, <2>7 DEF BufferOK
<1> QED BY <1>6, <1>7, <1>8, <1>9, <1>10, <1>11 DEF Inv

LEMMA InvStep ==
  ASSUME Inv, [Next]_vars,
         WaitEnds => (Top.conn \notin failed => Blank(saved[Top.conn]))
  PROVE  Inv'
<1>1. CASE Poll
  BY <1>1, PollStep
<1>2. ASSUME NEW c \in Connections, DataAvailable(c) PROVE Inv'
  BY <1>2, DataAvailableStep
<1>3. CASE Read
  BY <1>3, ReadStep
<1>4. CASE ReadFails
  BY <1>4, ReadFailsStep
<1>5. CASE ReadAfterFailure
  BY <1>5, ReadAfterFailureStep
<1>6. CASE ReadMore
  BY <1>6, ReadMoreStep
<1>7. CASE UnknownMessage
  BY <1>7, UnknownMessageStep
<1>8. CASE ActAtOnce
  BY <1>8, ActAtOnceStep
<1>9. CASE SubmitEvent
  BY <1>9, SubmitEventStep
<1>10. CASE CallHandler
  BY <1>10, CallHandlerStep
<1>11. CASE HandlerSignals
  BY <1>11, PeerSteps
<1>12. CASE HandlerWaits
  BY <1>12, HandlerWaitsStep
<1>13. CASE WaitEnds
  BY <1>13, WaitEndsStep
<1>14. CASE TakeBuffer
  BY <1>14, TakeBufferStep
<1>15. CASE HandlerReturns
  BY <1>15, HandlerReturnsStep
<1>16. CASE ReturnBuffer
  BY <1>16, ReturnBufferStep
<1>17. CASE \E c \in Connections : Arrive(c) \/ PeerDies(c)
  BY <1>17, PeerSteps
<1>18. CASE UNCHANGED vars
  <2>1. /\ UNCHANGED <<program, taken, saved, failed, frames, pool, kept, handled>>
        /\ ended' = ended /\ arrived' = arrived
    BY <1>18 DEF vars
  <2>2. arrived \in [Connections -> Nat] /\ \A c \in Connections :
          arrived[c] \in Nat /\ Length(c) \in Nat /\ arrived[c] <= Length(c)
    BY StreamFacts DEF Inv, ReadType
  <2>3. \A c \in Connections : arrived[c] <= arrived'[c] /\ arrived'[c] <= Length(c)
    BY <2>1, <2>2
  <2> QED BY <2>1, <2>2, <2>3, QuietStep
<1> QED BY <1>1, <1>2, <1>3, <1>4, <1>5, <1>6, <1>7, <1>8, <1>9, <1>10, <1>11, <1>12, <1>13, <1>14,
          <1>15, <1>16, <1>17, <1>18 DEF Next, NetworkThread

-----------------------------------------------------------------------------
(* What the invariant says.                                                 *)
LEMMA FramingFromInv == Inv => FramingKept
<1> SUFFICES ASSUME Inv, NEW c \in Connections
             PROVE  /\ handled[c] = [k \in DOMAIN handled[c] |-> k]
                    /\ c \in failed => Spoiled(c)
  BY DEF FramingKept
<1>1. handled[c] \in Seq(Nat) /\ StreamOK(c)
  BY DEF Inv, ReadType
<1>2. \A k \in DOMAIN handled[c] : handled[c][k] = k
  BY <1>1 DEF StreamOK
<1>3. handled[c] = [k \in DOMAIN handled[c] |-> handled[c][k]]
  BY <1>1
<1> QED BY <1>1, <1>2, <1>3 DEF StreamOK

LEMMA AtMostOne ==
  ASSUME NEW S, \A x, y \in S : x = y
  PROVE  Cardinality(S) = One(S # {})
<1>1. CASE S = {}
  BY <1>1, FS_EmptySet DEF One
<1>2. CASE S # {}
  <2>1. PICK x : x \in S
    BY <1>2
  <2>2. S = {x}
    BY <2>1
  <2> QED BY <1>2, <2>2, FS_Singleton DEF One
<1> QED BY <1>1, <1>2

(* A buffer has one holder among calls and connections, and one outside.    *)
LEMMA HoldersCounted ==
  ASSUME Inv, NEW b \in Nat \ {0}
  PROVE  Holders(b) = One(Owned(frames, saved, b)) + One(Kept(kept, b))
<1> DEFINE B == {i \in DOMAIN frames : frames[i].buf = b}
           D == {i \in DOMAIN frames : frames[i].decode = b}
           S == {c \in Connections : saved[c].buf = b}
           K == {k \in kept : k.buf = b}
<1>1. /\ OneOwner(frames, saved, b) /\ kept \subseteq HeldSet
      /\ \A k \in kept : k.buf = b => k.msg = pool[b].holds
  BY DEF Inv, ReadType, BufferOK, Contents
<1>2. Cardinality(B) = One(B # {})
  <2>1. \A x, y \in B : x = y
    BY <1>1 DEF OneOwner, Uses
  <2> HIDE DEF B
  <2> QED BY <2>1, AtMostOne
<1>3. Cardinality(D) = One(D # {})
  <2>1. \A x, y \in D : x = y
    BY <1>1 DEF OneOwner, Uses
  <2> HIDE DEF D
  <2> QED BY <2>1, AtMostOne
<1>4. Cardinality(S) = One(S # {})
  <2>1. \A x, y \in S : x = y
    BY <1>1 DEF OneOwner
  <2> HIDE DEF S
  <2> QED BY <2>1, AtMostOne
<1>5. Cardinality(K) = One(K # {})
  <2>1. ASSUME NEW x \in K, NEW y \in K PROVE x = y
    <3>1. x \in HeldSet /\ y \in HeldSet /\ x.buf = y.buf /\ x.msg = y.msg
      BY <1>1
    <3> QED BY <3>1 DEF HeldSet
  <2> HIDE DEF K
  <2> QED BY <2>1, AtMostOne
<1>6. K # {} <=> Kept(kept, b)
  BY DEF Kept
<1>7. (B # {} \/ D # {} \/ S # {}) <=> Owned(frames, saved, b)
  BY DEF Owned, Uses
<1>8. ~(B # {} /\ D # {})
  <2> SUFFICES ASSUME NEW i \in B, NEW j \in D PROVE FALSE
    OBVIOUS
  <2>1. i = j
    BY <1>1 DEF OneOwner, Uses
  <2> QED BY <1>1, <2>1 DEF OneOwner
<1>9. ~(B # {} /\ S # {})
  BY <1>1 DEF OneOwner, Uses
<1>10. ~(D # {} /\ S # {})
  BY <1>1 DEF OneOwner, Uses
<1>11. Holders(b) = Cardinality(B) + Cardinality(D) + Cardinality(S) + Cardinality(K)
  BY DEF Holders
<1> HIDE DEF B, D, S, K
<1>12. One(B # {}) + One(D # {}) + One(S # {}) = One(Owned(frames, saved, b))
  BY <1>7, <1>8, <1>9, <1>10 DEF One
<1>13. One(K # {}) = One(Kept(kept, b))
  BY <1>6 DEF One
<1> QED BY <1>2, <1>3, <1>4, <1>5, <1>11, <1>12, <1>13

LEMMA BuffersFromInv == Inv => BuffersSound
<1> SUFFICES ASSUME Inv PROVE BuffersSound
  OBVIOUS
<1>1. /\ program \in Programs /\ Stack(frames) /\ StackOK(frames, handled)
      /\ pool \in Seq(BufferSet) /\ kept \subseteq HeldSet
      /\ \A b \in Nat \ {0} : BufferOK(frames, saved, kept, pool, handled, failed, b)
  BY DEF Inv, ReadType
<1>2. ASSUME NEW b \in DOMAIN pool
      PROVE  pool[b].ref >= Holders(b) /\ (failed = {} => pool[b].ref = Holders(b))
  <2>1. b \in Nat \ {0}
    BY <1>1, LenProperties
  <2>2. Counts(frames, saved, kept, pool, failed, b)
    BY <1>1, <2>1 DEF BufferOK
  <2> QED BY <2>1, <2>2, HoldersCounted DEF Counts
<1>3. ASSUME NEW i \in DOMAIN frames, frames[i].msg # 0
      PROVE  pool[RecordIn(frames[i])].holds = <<frames[i].conn, frames[i].msg>>
  <2>1. i \in 2 .. Len(frames)
    <3>1. Len(frames) \in Nat /\ DOMAIN frames = 1 .. Len(frames) /\ i # 1
      BY <1>1, <1>3, StackType DEF StackOK
    <3> QED BY <3>1
  <2>2. FrameOK(frames[i], handled) /\ frames[i] \in FrameSet
    <3>1. FrameOK(frames[i], handled)
      BY <1>1, <2>1 DEF StackOK
    <3>2. frames[i] \in FrameSet
      <4>1. DOMAIN frames = 1 .. Len(frames) /\ \A j \in 1 .. Len(frames) : frames[j] \in FrameSet
        BY <1>1, StackType
      <4> QED BY <4>1, Zenon
    <3> QED BY <3>1, <3>2
  <2>3. frames[i].buf # 0 /\ frames[i].buf \in Nat /\ frames[i].decode \in Nat
    <3>1. frames[i].buf # 0
      BY <1>3, <2>2 DEF FrameOK
    <3>2. frames[i].buf \in Nat /\ frames[i].decode \in Nat
      BY <2>2 DEF FrameSet
    <3> QED BY <3>1, <3>2
  <2>4. PICK b : b = RecordIn(frames[i])
    OBVIOUS
  <2>5. b \in Nat \ {0}
    BY <2>3, <2>4 DEF RecordIn
  <2>6. Contents(frames, saved, kept, pool, handled, failed, b)
    BY <1>1, <2>5 DEF BufferOK
  <2> QED BY <1>3, <2>4, <2>6 DEF Contents
<1>4. ASSUME NEW k \in kept PROVE pool[k.buf].holds = k.msg
  <2>1. PICK b : b = k.buf
    OBVIOUS
  <2>2. b \in Nat \ {0}
    <3>1. k \in HeldSet
      BY <1>1
    <3> QED BY <2>1, <3>1 DEF HeldSet
  <2>3. Contents(frames, saved, kept, pool, handled, failed, b)
    BY <1>1, <2>2 DEF BufferOK
  <2> QED BY <2>1, <2>3 DEF Contents
<1> QED BY <1>2, <1>3, <1>4 DEF BuffersSound

-----------------------------------------------------------------------------
(* Handlers that wait.                                                     *)

(* A handler that waits is the one of the last message of its connection.   *)
WaitsLast(p) ==
  \A c \in Connections : \A k \in DOMAIN p.sent[c] :
    p.sent[c][k].does = "waits" => k = Len(p.sent[c])

(* There is no network thread, one handler at most waits, and only messages *)
(* on its own connection wake it: the case abort_read_ahead is for.         *)
WaitsAlone(p) ==
  /\ ~p.hasThread
  /\ \E c \in Connections : \E k \in DOMAIN p.sent[c] :
       \A d \in Connections : \A j \in DOMAIN p.sent[d] :
         /\ p.sent[d][j].does = "waits" => d = c /\ j = k
         /\ <<c, k>> \in p.sent[d][j].wakes => d = c

HandlersWaitSafely == \A p \in Programs : WaitsLast(p) \/ WaitsAlone(p)

(* No two frames are about one message, and a frame does not have the       *)
(* connection of the frame above it still to visit.                         *)
Apart(fs) ==
  /\ \A i, j \in 2 .. Len(fs) :
       fs[i].msg # 0 /\ fs[i].conn = fs[j].conn /\ fs[i].msg = fs[j].msg => i = j
  /\ \A i \in 1 .. Len(fs) - 1 : fs[i + 1].conn \notin fs[i].pass

(* Nothing of the connection of frame i is left half read once what the     *)
(* frame waits for was signaled, and the handler that signaled is told not  *)
(* to read on.                                                              *)
Calm(last, fs, sv, sg, ab, i) ==
  LET f == fs[i]
      t == fs[Len(fs)]
  IN IF last THEN Blank(sv[f.conn])
     ELSE <<f.conn, f.msg>> \in sg =>
            /\ Blank(sv[f.conn]) /\ f.conn \notin f.pass
            /\ i < Len(fs) /\ t.conn = f.conn => t.pc \in {"handler", "took"} /\ ab

AllCalm(p, fs, sv, sg, ab, fl) ==
  \A i \in 2 .. Len(fs) :
    fs[i].pc = "waits" /\ fs[i].conn \notin fl => Calm(WaitsLast(p), fs, sv, sg, ab, i)

CalmInv == AllCalm(program, frames, saved, signaled, abort, failed)

NestInv == Apart(frames) /\ CalmInv

(* The frames up to number n are still there.                               *)
Below(fs, gs, n) == \A i \in 1 .. n : Alike(fs[i], gs[i]) /\ gs[i].pass \subseteq fs[i].pass

Stays(fs, gs) ==
  /\ Len(gs) = Len(fs) /\ Below(fs, gs, Len(fs) - 1)
  /\ gs[Len(fs)].conn = fs[Len(fs)].conn

Falls(fs, gs) == Len(gs) = Len(fs) - 1 /\ Below(fs, gs, Len(fs) - 1)

Rises(fs, gs, c) ==
  /\ Len(gs) = Len(fs) + 1 /\ Below(fs, gs, Len(fs))
  /\ gs[Len(fs) + 1].conn = c /\ gs[Len(fs) + 1].msg = 0 /\ gs[Len(fs) + 1].pc = "read"
  /\ c \notin gs[Len(fs)].pass

LEMMA StaysTop ==
  ASSUME NEW fs, Stack(fs), NEW g \in FrameSet, g.conn = fs[Len(fs)].conn
  PROVE  LET gs == [fs EXCEPT ![Len(fs)] = g] IN Stays(fs, gs) /\ gs[Len(fs)] = g
<1>1. PICK gs : gs = [fs EXCEPT ![Len(fs)] = g]
  OBVIOUS
<1>2. PICK n \in Nat : n = Len(fs) /\ n >= 1
  BY StackType
<1>3. fs \in Seq(FrameSet) /\ Len(fs) \in 1 .. Len(fs)
  BY <1>2 DEF Stack
<1>4. Len(gs) = Len(fs) /\ \A j \in 1 .. Len(fs) : gs[j] = IF j = Len(fs) THEN g ELSE fs[j]
  BY <1>1, <1>3, ExceptSeq
<1>5. \A j \in 1 .. n - 1 : gs[j] = fs[j]
  BY <1>2, <1>4
<1>6. gs[n] = g
  BY <1>2, <1>4
<1>7. Stays(fs, gs) /\ gs[Len(fs)] = g
  BY <1>2, <1>4, <1>5, <1>6 DEF Stays, Below, Alike
<1> QED BY <1>1, <1>7

LEMMA FallsTop ==
  ASSUME NEW fs, Stack(fs), NEW vs, vs = fs \/ vs = Void(fs)
  PROVE  /\ Falls(fs, Front(vs)) /\ Falls(fs, Void(Front(fs)))
         /\ Front(vs) \in Seq(FrameSet)
<1>1. PICK n \in Nat : n = Len(fs) /\ n >= 1
  BY StackType
<1>2. /\ Stack(vs) /\ Len(vs) = n /\ Below(fs, vs, n)
      /\ \A i \in 1 .. n : fs[i] \in FrameSet /\ vs[i] \in FrameSet
  <2>1. /\ DOMAIN fs = 1 .. n /\ \A i \in 1 .. n : fs[i] \in FrameSet
    BY <1>1, StackType
  <2>2. ASSUME NEW hs, hs = Void(fs)
        PROVE  Stack(hs) /\ Len(hs) = n /\ \A i \in 1 .. n : Alike(fs[i], hs[i]) /\ hs[i].pass = {}
    <3>1. Stack(hs) /\ Len(hs) = n /\ Rests(fs, hs, n)
      BY <1>1, <2>2, VoidStep
    <3>2. ASSUME NEW i \in 1 .. n PROVE hs[i].pass = {}
      <4>1. PICK f : f = fs[i]
        OBVIOUS
      <4>2. f \in FrameSet /\ hs[i] = [f EXCEPT !.pass = {}]
        BY <2>1, <2>2, <4>1 DEF Void
      <4> QED BY <4>2 DEF FrameSet
    <3> QED BY <3>1, <3>2 DEF Rests
  <2>3. CASE vs = fs
    BY <1>1, <2>1, <2>3 DEF Below, Alike
  <2>4. CASE vs = Void(fs)
    <3>1. Stack(vs) /\ Len(vs) = n /\ Below(fs, vs, n)
      BY <2>2, <2>4 DEF Below
    <3>2. \A i \in 1 .. n : vs[i] \in FrameSet
      BY <3>1, StackType
    <3> QED BY <2>1, <3>1, <3>2
  <2> QED BY <2>3, <2>4
<1>3. ASSUME NEW hs, Stack(hs), Len(hs) = n
      PROVE  /\ Front(hs) \in Seq(FrameSet) /\ Len(Front(hs)) = n - 1
             /\ \A i \in 1 .. n - 1 : Front(hs)[i] = hs[i]
  <2>1. PICK m \in Nat : m = n - 1
    BY <1>1
  <2>2. \A i \in 1 .. m : hs[i] \in FrameSet
    BY <1>3, <2>1, StackType
  <2>3. /\ SubSeq(hs, 1, m) \in Seq(FrameSet)
        /\ Len(SubSeq(hs, 1, m)) = IF 1 <= m THEN m - 1 + 1 ELSE 0
        /\ \A i \in 1 .. m - 1 + 1 : SubSeq(hs, 1, m)[i] = hs[1 + i - 1]
    BY <2>1, <2>2, SubSeqProperties
  <2>4. Front(hs) = SubSeq(hs, 1, m)
    BY <1>3, <2>1 DEF Front
  <2>5. Len(SubSeq(hs, 1, m)) = m /\ \A i \in 1 .. m : SubSeq(hs, 1, m)[i] = hs[i]
    BY <2>1, <2>3
  <2> QED BY <2>1, <2>3, <2>4, <2>5
<1>4. Front(vs) \in Seq(FrameSet) /\ Falls(fs, Front(vs))
  <2>1. /\ Front(vs) \in Seq(FrameSet) /\ Len(Front(vs)) = n - 1
        /\ \A i \in 1 .. n - 1 : Front(vs)[i] = vs[i]
    BY <1>2, <1>3
  <2>2. \A i \in 1 .. n - 1 : i \in 1 .. n
    BY <1>1
  <2> QED BY <1>1, <1>2, <2>1, <2>2 DEF Falls, Below
<1>5. Falls(fs, Void(Front(fs)))
  <2>1. PICK hs : hs = Front(fs)
    OBVIOUS
  <2>2. hs \in Seq(FrameSet) /\ Len(hs) = n - 1 /\ \A i \in 1 .. n - 1 : hs[i] = fs[i]
    BY <1>1, <1>3, <2>1
  <2>3. PICK m \in Nat : m = n - 1
    BY <1>1
  <2>4. DOMAIN hs = 1 .. m /\ \A i \in 1 .. m : hs[i] = fs[i] /\ fs[i] \in FrameSet
    <3>1. DOMAIN hs = 1 .. m
      BY <2>2, <2>3, LenProperties
    <3>2. \A i \in 1 .. m : i \in 1 .. n
      BY <2>3
    <3> QED BY <1>2, <2>2, <2>3, <3>1, <3>2
  <2>5. PICK ws : ws = Void(hs)
    OBVIOUS
  <2>6. \A i \in 1 .. m : ws[i] = [fs[i] EXCEPT !.pass = {}]
    BY <2>4, <2>5 DEF Void
  <2>7. ASSUME NEW i \in 1 .. m
        PROVE  ws[i] \in FrameSet /\ Alike(fs[i], ws[i]) /\ ws[i].pass \subseteq fs[i].pass
    <3>1. PICK f : f = fs[i]
      OBVIOUS
    <3>2. f \in FrameSet /\ ws[i] = [f EXCEPT !.pass = {}]
      BY <2>4, <2>6, <3>1
    <3> QED BY <3>1, <3>2 DEF FrameSet, Alike
  <2>8. Len(ws) = m
    <3>1. ws = [i \in 1 .. m |-> ws[i]]
      BY <2>4, <2>5 DEF Void
    <3> QED BY <2>7, <3>1, IsASeq
  <2> QED BY <1>1, <2>1, <2>3, <2>5, <2>7, <2>8 DEF Falls, Below
<1> QED BY <1>4, <1>5

LEMMA ConsumedTop ==
  ASSUME NEW fs, Stack(fs), NEW p, NEW vs, vs = fs \/ vs = Void(fs), Consumed(vs, p)
  PROVE  \/ Falls(fs, frames')
         \/ Stays(fs, frames') /\ Fresh(fs[Len(fs)], frames'[Len(fs)]) /\ ~abort
<1>1. PICK n \in Nat : n = Len(fs) /\ n >= 1
  BY StackType
<1>2. Falls(fs, Front(vs)) /\ Front(vs) \in Seq(FrameSet)
  BY FallsTop
<1>3. PICK f : f = Last(vs)
  OBVIOUS
<1>4. PICK g : g = [Frame(f.conn) EXCEPT !.first = f.first, !.msgs = f.msgs + 1]
  OBVIOUS
<1>5. frames' = Front(vs) \/ (frames' = Append(Front(vs), g) /\ ~abort)
  BY <1>3, <1>4 DEF Consumed
<1>6. f \in FrameSet /\ f.conn = fs[n].conn
  <2>1. CASE vs = fs
    BY <1>1, <1>3, <2>1, StackType DEF Last
  <2>2. CASE vs = Void(fs)
    <3>1. /\ Stack(vs) /\ Len(vs) = n /\ \A i \in 1 .. n : Alike(fs[i], vs[i])
      BY <1>1, <2>2, VoidStep DEF Rests
    <3>2. f = vs[n] /\ vs[n] \in FrameSet
      BY <1>3, <3>1, StackType DEF Last
    <3>3. n \in 1 .. n
      BY <1>1
    <3> QED BY <3>1, <3>2, <3>3 DEF Alike
  <2> QED BY <2>1, <2>2
<1>7. Fresh(fs[n], g)
  <2>1. g \in FrameSet /\ g.conn = f.conn /\ g.pc = "read" /\ g.full = 0 /\ g.end = 0
        /\ g.buf = 0 /\ g.decode = 0 /\ g.msg = 0
    <3>1. f.conn \in Connections \cup {NoConn} /\ f.first \in BOOLEAN /\ f.msgs + 1 \in Nat
      BY <1>6 DEF FrameSet
    <3> QED BY <1>4, <3>1 DEF Frame, FrameSet
  <2> QED BY <1>6, <2>1 DEF Fresh
<1>8. ASSUME frames' = Append(Front(vs), g), ~abort
      PROVE  Stays(fs, frames') /\ Fresh(fs[n], frames'[n])
  <2>1. PICK m \in Nat : m = n - 1
    BY <1>1
  <2>2. PICK hs \in Seq(FrameSet) : hs = Front(vs)
    BY <1>2
  <2>3. Len(hs) = m /\ Below(fs, hs, m)
    BY <1>1, <1>2, <2>1, <2>2 DEF Falls
  <2>4. g \in FrameSet /\ g.conn = fs[n].conn
    BY <1>7 DEF Fresh
  <2>5. /\ Len(frames') = m + 1 /\ frames'[m + 1] = g
        /\ \A i \in 1 .. m : frames'[i] = hs[i]
    BY <1>8, <2>2, <2>3, <2>4, AppendProperties
  <2>6. m + 1 = n /\ Below(fs, frames', n - 1)
    BY <2>1, <2>3, <2>5 DEF Below
  <2> QED BY <1>1, <1>7, <2>4, <2>5, <2>6 DEF Stays
<1> QED BY <1>1, <1>2, <1>5, <1>8

(* What the steps do to the stack.                                          *)
LEMMA ApartStays ==
  ASSUME NEW fs, NEW gs, Len(fs) \in Nat, Len(fs) >= 1, Apart(fs), Stays(fs, gs),
         \/ gs[Len(fs)].msg = fs[Len(fs)].msg
         \/ gs[Len(fs)].msg = 0
         \/ \A i \in 2 .. Len(fs) - 1 :
              fs[i].conn = fs[Len(fs)].conn => fs[i].msg # gs[Len(fs)].msg
  PROVE  Apart(gs)
<1>1. PICK n \in Nat : n = Len(fs) /\ n >= 1
  OBVIOUS
<1>2. /\ Len(gs) = n /\ gs[n].conn = fs[n].conn
      /\ \A i \in 1 .. n - 1 : /\ gs[i].conn = fs[i].conn /\ gs[i].msg = fs[i].msg
                               /\ gs[i].pass \subseteq fs[i].pass
  BY <1>1 DEF Stays, Below, Alike
<1>3. ASSUME NEW i \in 1 .. n - 1 PROVE gs[i + 1].conn \notin gs[i].pass
  <2>1. fs[i + 1].conn \notin fs[i].pass
    BY <1>1 DEF Apart
  <2>2. i + 1 = n \/ i + 1 \in 1 .. n - 1
    BY <1>1
  <2>3. gs[i + 1].conn = fs[i + 1].conn
    BY <1>2, <2>2
  <2> QED BY <1>2, <2>1, <2>3
<1>4. ASSUME NEW i \in 2 .. n, NEW j \in 2 .. n, gs[i].msg # 0, gs[i].conn = gs[j].conn,
             gs[i].msg = gs[j].msg
      PROVE  i = j
  <2>1. \A k \in 2 .. n : k = n \/ (k \in 1 .. n - 1 /\ k \in 2 .. n - 1)
    BY <1>1
  <2>2. \A k \in 2 .. n : gs[k].conn = fs[k].conn
    BY <1>2, <2>1
  <2>3. \A k, l \in 2 .. n : fs[k].msg # 0 /\ fs[k].conn = fs[l].conn /\ fs[k].msg = fs[l].msg => k = l
    BY <1>1 DEF Apart
  <2>4. CASE gs[n].msg = fs[n].msg
    <3>1. \A k \in 2 .. n : gs[k].msg = fs[k].msg
      BY <1>2, <2>1, <2>4
    <3> QED BY <1>4, <2>2, <2>3, <3>1
  <2>5. CASE \A k \in 2 .. n - 1 : fs[k].conn = fs[n].conn => fs[k].msg # gs[n].msg
    <3>1. \A k \in 2 .. n - 1 : gs[k].conn = gs[n].conn => gs[k].msg # gs[n].msg
      BY <1>2, <2>1, <2>5
    <3>2. CASE i = n \/ j = n
      BY <1>4, <2>1, <3>1, <3>2
    <3>3. CASE i # n /\ j # n
      <4>1. gs[i].msg = fs[i].msg /\ gs[j].msg = fs[j].msg
        BY <1>2, <2>1, <3>3
      <4> QED BY <1>4, <2>2, <2>3, <4>1
    <3> QED BY <3>2, <3>3
  <2>6. CASE gs[n].msg = 0
    <3>1. i # n /\ j # n
      BY <1>4, <2>6
    <3>2. gs[i].msg = fs[i].msg /\ gs[j].msg = fs[j].msg
      BY <1>2, <2>1, <3>1
    <3> QED BY <1>4, <2>2, <2>3, <3>2
  <2> QED BY <1>1, <2>4, <2>5, <2>6
<1> QED BY <1>2, <1>3, <1>4 DEF Apart

LEMMA ApartFalls ==
  ASSUME NEW fs, NEW gs, Len(fs) \in Nat, Len(fs) >= 1, Apart(fs), Falls(fs, gs)
  PROVE  Apart(gs)
<1>1. PICK m \in Nat : m = Len(fs) - 1
  OBVIOUS
<1>2. /\ Len(gs) = m /\ Len(fs) = m + 1
      /\ \A i \in 1 .. m : /\ gs[i].conn = fs[i].conn /\ gs[i].msg = fs[i].msg
                           /\ gs[i].pass \subseteq fs[i].pass
  BY <1>1 DEF Falls, Below, Alike
<1>3. ASSUME NEW i \in 1 .. m - 1 PROVE gs[i + 1].conn \notin gs[i].pass
  <2>1. i \in 1 .. m /\ i + 1 \in 1 .. m /\ i \in 1 .. (m + 1) - 1
    OBVIOUS
  <2>2. fs[i + 1].conn \notin fs[i].pass
    BY <1>2, <2>1 DEF Apart
  <2> QED BY <1>2, <2>1, <2>2
<1>4. \A k \in 2 .. m : k \in 1 .. m /\ k \in 2 .. m + 1
  OBVIOUS
<1> QED BY <1>2, <1>3, <1>4 DEF Apart

LEMMA ApartRises ==
  ASSUME NEW fs, NEW gs, NEW c, Len(fs) \in Nat, Len(fs) >= 1, Apart(fs), Rises(fs, gs, c)
  PROVE  Apart(gs)
<1>1. PICK n \in Nat : n = Len(fs) /\ n >= 1
  OBVIOUS
<1>2. /\ Len(gs) = n + 1
      /\ gs[n + 1].conn = c /\ gs[n + 1].msg = 0 /\ c \notin gs[n].pass
      /\ \A i \in 1 .. n : /\ gs[i].conn = fs[i].conn /\ gs[i].msg = fs[i].msg
                           /\ gs[i].pass \subseteq fs[i].pass
  BY <1>1 DEF Rises, Below, Alike
<1>3. ASSUME NEW i \in 1 .. (n + 1) - 1 PROVE gs[i + 1].conn \notin gs[i].pass
  <2>1. CASE i = n
    BY <1>2, <2>1
  <2>2. CASE i # n
    <3>1. i \in 1 .. n - 1 /\ i \in 1 .. n /\ i + 1 \in 1 .. n
      BY <2>2
    <3>2. fs[i + 1].conn \notin fs[i].pass
      BY <1>1, <3>1 DEF Apart
    <3> QED BY <1>2, <3>1, <3>2
  <2> QED BY <2>1, <2>2
<1>4. ASSUME NEW i \in 2 .. n + 1, NEW j \in 2 .. n + 1, gs[i].msg # 0, gs[i].conn = gs[j].conn,
             gs[i].msg = gs[j].msg
      PROVE  i = j
  <2>1. i # n + 1 /\ j # n + 1
    BY <1>2, <1>4
  <2>2. i \in 1 .. n /\ j \in 1 .. n /\ i \in 2 .. n /\ j \in 2 .. n
    BY <2>1
  <2> QED BY <1>1, <1>2, <1>4, <2>2 DEF Apart
<1> QED BY <1>2, <1>3, <1>4 DEF Apart

LEMMA WaiterFacts ==
  ASSUME Inv, NEW i \in 2 .. Len(frames), frames[i].pc \notin {"read", "act"}
  PROVE  /\ frames[i].conn \in Connections /\ frames[i].msg \in Sent(frames[i].conn)
         /\ frames[i].msg \in Nat \ {0} /\ frames[i].msg <= Len(handled[frames[i].conn])
         /\ frames[i].pc = "waits" => Message(frames[i].conn, frames[i].msg).does = "waits"
<1>1. FrameOK(frames[i], handled) /\ program \in Programs
  BY DEF Inv, StackOK, ReadType
<1>2. frames[i].conn \in Connections /\ frames[i].msg \in Sent(frames[i].conn)
  BY <1>1 DEF FrameOK
<1>3. frames[i].msg \in Nat \ {0}
  BY <1>1, <1>2, SentType
<1> QED BY <1>1, <1>2, <1>3 DEF FrameOK

(* Where handlers do not wait for the last message of a connection, there   *)
(* is but one that waits.                                                   *)
LEMMA OneWaits ==
  ASSUME HandlersWaitSafely, program \in Programs, ~WaitsLast(program),
         NEW c \in Connections, NEW k \in Sent(c), Message(c, k).does = "waits"
  PROVE  /\ ~program.hasThread
         /\ \A d \in Connections : \A j \in Sent(d) :
              /\ Message(d, j).does = "waits" => d = c /\ j = k
              /\ <<c, k>> \in Message(d, j).wakes => d = c
<1>1. WaitsAlone(program)
  BY DEF HandlersWaitSafely
<1>2. PICK e \in Connections : \E l \in Sent(e) : \A d \in Connections : \A j \in Sent(d) :
         /\ Message(d, j).does = "waits" => d = e /\ j = l
         /\ <<e, l>> \in Message(d, j).wakes => d = e
  BY <1>1 DEF WaitsAlone, Sent, Message
<1>3. PICK l \in Sent(e) : \A d \in Connections : \A j \in Sent(d) :
         /\ Message(d, j).does = "waits" => d = e /\ j = l
         /\ <<e, l>> \in Message(d, j).wakes => d = e
  BY <1>2
<1>4. c = e /\ k = l
  BY <1>3
<1> QED BY <1>1, <1>3, <1>4 DEF WaitsAlone

LEMMA OneWaiter ==
  ASSUME HandlersWaitSafely, Inv, Apart(frames), ~WaitsLast(program),
         NEW i \in 2 .. Len(frames), NEW j \in 2 .. Len(frames),
         frames[i].pc = "waits", frames[j].pc \notin {"read", "act"},
         Message(frames[j].conn, frames[j].msg).does = "waits"
  PROVE  i = j
<1>1. /\ frames[i].conn \in Connections /\ frames[i].msg \in Sent(frames[i].conn)
      /\ frames[i].msg # 0
      /\ Message(frames[i].conn, frames[i].msg).does = "waits"
      /\ frames[j].conn \in Connections /\ frames[j].msg \in Sent(frames[j].conn)
  BY WaiterFacts
<1>2. frames[j].conn = frames[i].conn /\ frames[j].msg = frames[i].msg
  <2>1. PICK c \in Connections : c = frames[i].conn
    BY <1>1
  <2>2. PICK k \in Sent(c) : k = frames[i].msg
    BY <1>1, <2>1
  <2>3. PICK d \in Connections : d = frames[j].conn
    BY <1>1
  <2>4. PICK l \in Sent(d) : l = frames[j].msg
    BY <1>1, <2>3
  <2>5. program \in Programs /\ Message(c, k).does = "waits" /\ Message(d, l).does = "waits"
    BY <1>1, <2>1, <2>2, <2>3, <2>4 DEF Inv, ReadType
  <2>6. /\ ~WaitsLast(program) /\ program \in Programs
        /\ c \in Connections /\ k \in Sent(c) /\ d \in Connections /\ l \in Sent(d)
    BY <1>1, <2>1, <2>2, <2>3, <2>4, <2>5
  <2>7. d = c /\ l = k
    <3>1. WaitsAlone(program)
      BY <2>6 DEF HandlersWaitSafely
    <3>2. PICK e \in Connections : \E m \in Sent(e) : \A x \in Connections : \A y \in Sent(x) :
            Message(x, y).does = "waits" => x = e /\ y = m
      BY <3>1 DEF WaitsAlone, Sent, Message
    <3>3. PICK m \in Sent(e) : \A x \in Connections : \A y \in Sent(x) :
            Message(x, y).does = "waits" => x = e /\ y = m
      BY <3>2
    <3>4. c = e /\ k = m
      BY <2>5, <3>3
    <3>5. d = e /\ l = m
      BY <2>5, <3>3
    <3> QED BY <3>4, <3>5
  <2> QED BY <2>1, <2>2, <2>3, <2>4, <2>7
<1> QED BY <1>1, <1>2 DEF Apart

LEMMA NextCalm ==
  ASSUME program' = program, AllCalm(program, frames', saved', signaled', abort', failed')
  PROVE  CalmInv'
BY DEF CalmInv, AllCalm, Calm, WaitsLast, Blank

(* What the invariant says of a frame below the top.                        *)
LEMMA CalmBelow ==
  ASSUME Inv, NestInv, NEW n \in Nat, n = Len(frames), NEW i \in 2 .. n, i < n,
         frames[i].pc = "waits", frames[i].conn \notin failed
  PROVE  /\ WaitsLast(program) => Blank(saved[frames[i].conn])
         /\ ~WaitsLast(program) /\ <<frames[i].conn, frames[i].msg>> \in signaled =>
              /\ Blank(saved[frames[i].conn]) /\ frames[i].conn \notin frames[i].pass
              /\ Top.conn = frames[i].conn => Top.pc \in {"handler", "took"} /\ abort
<1>1. Top = frames[n]
  BY TopFacts
<1>2. Calm(WaitsLast(program), frames, saved, signaled, abort, i)
  BY DEF NestInv, CalmInv, AllCalm
<1> QED BY <1>1, <1>2 DEF Calm

LEMMA CalmStays ==
  ASSUME Inv, NestInv, Stays(frames, frames'), program' = program, saved' = saved,
         failed \subseteq failed', signaled' = signaled, frames'[Len(frames)].pc # "waits",
         Top.pc \in {"handler", "took"} /\ abort =>
           frames'[Len(frames)].pc \in {"handler", "took"} /\ abort'
  PROVE  CalmInv'
<1>1. PICK n \in Nat : n = Len(frames) /\ n >= 1
  BY TopFacts
<1>2. Top = frames[n]
  BY <1>1, TopFacts
<1>3. /\ Len(frames') = n /\ frames'[n].conn = frames[n].conn
      /\ \A i \in 1 .. n - 1 : /\ frames'[i].conn = frames[i].conn /\ frames'[i].msg = frames[i].msg
                               /\ frames'[i].pc = frames[i].pc
                               /\ frames'[i].pass \subseteq frames[i].pass
  BY <1>1 DEF Stays, Below, Alike
<1>4. ASSUME NEW i \in 2 .. n, frames'[i].pc = "waits", frames'[i].conn \notin failed'
      PROVE  Calm(WaitsLast(program), frames', saved', signaled', abort', i)
  <2>1. i \in 1 .. n - 1 /\ i < n
    BY <1>1, <1>4
  <2>2. /\ frames[i].pc = "waits" /\ frames[i].conn \notin failed
        /\ frames'[i].conn = frames[i].conn /\ frames'[i].msg = frames[i].msg
        /\ frames'[i].pass \subseteq frames[i].pass
    BY <1>3, <1>4, <2>1
  <2>3. /\ WaitsLast(program) => Blank(saved[frames[i].conn])
        /\ ~WaitsLast(program) /\ <<frames[i].conn, frames[i].msg>> \in signaled =>
              /\ Blank(saved[frames[i].conn]) /\ frames[i].conn \notin frames[i].pass
              /\ Top.conn = frames[i].conn => Top.pc \in {"handler", "took"} /\ abort
    BY <1>1, <2>1, <2>2, CalmBelow
  <2> QED BY <1>1, <1>2, <1>3, <2>1, <2>2, <2>3 DEF Calm
<1>5. AllCalm(program, frames', saved', signaled', abort', failed')
  BY <1>3, <1>4 DEF AllCalm
<1> QED BY <1>5, NextCalm

LEMMA CalmFalls ==
  ASSUME HandlersWaitSafely, Inv, NestInv, Falls(frames, frames'), program' = program,
         failed \subseteq failed', signaled' = signaled,
         \A i \in 2 .. Len(frames) - 1 : frames[i].conn \notin failed' =>
           \/ saved'[frames[i].conn] = saved[frames[i].conn]
           \/ /\ Top.pc = "read" /\ Top.conn = frames[i].conn
              /\ WaitsLast(program) => Blank(saved'[frames[i].conn])
  PROVE  CalmInv'
<1>1. PICK n \in Nat : n = Len(frames) /\ n >= 1
  BY TopFacts
<1>2. PICK m \in Nat : n = m + 1
  BY <1>1
<1>3. Top = frames[n]
  BY <1>1, TopFacts
<1>4. /\ Len(frames') = m
      /\ \A i \in 1 .. m : /\ frames'[i].conn = frames[i].conn /\ frames'[i].msg = frames[i].msg
                           /\ frames'[i].pc = frames[i].pc
                           /\ frames'[i].pass \subseteq frames[i].pass
  BY <1>1, <1>2 DEF Falls, Below, Alike
<1>5. ASSUME NEW i \in 2 .. m, frames'[i].pc = "waits", frames'[i].conn \notin failed'
      PROVE  Calm(WaitsLast(program), frames', saved', signaled', abort', i)
  <2>1. i \in 1 .. m /\ i \in 2 .. n /\ i \in 2 .. n - 1 /\ i < n
    BY <1>2
  <2>2. /\ frames[i].pc = "waits" /\ frames[i].conn \notin failed'
        /\ frames'[i].conn = frames[i].conn /\ frames'[i].msg = frames[i].msg
        /\ frames'[i].pass \subseteq frames[i].pass
    BY <1>4, <1>5, <2>1
  <2>3. /\ WaitsLast(program) => Blank(saved[frames[i].conn])
        /\ ~WaitsLast(program) /\ <<frames[i].conn, frames[i].msg>> \in signaled =>
              /\ Blank(saved[frames[i].conn]) /\ frames[i].conn \notin frames[i].pass
              /\ Top.conn = frames[i].conn => Top.pc \in {"handler", "took"} /\ abort
    BY <1>1, <2>1, <2>2, CalmBelow
  <2>4. \/ saved'[frames[i].conn] = saved[frames[i].conn]
        \/ /\ Top.pc = "read" /\ Top.conn = frames[i].conn
           /\ WaitsLast(program) => Blank(saved'[frames[i].conn])
    BY <1>1, <2>1, <2>2
  <2>5. CASE WaitsLast(program)
    BY <2>2, <2>3, <2>4, <2>5 DEF Calm
  <2>6. CASE ~WaitsLast(program)
    <3>1. m \in 1 .. n - 1 /\ m \in 2 .. n
      BY <1>2, <2>1
    <3>2. frames[m].pc = "waits"
      BY <1>1, <3>1 DEF Inv, StackOK
    <3>3. Message(frames[m].conn, frames[m].msg).does = "waits"
      BY <1>1, <3>1, <3>2, WaiterFacts
    <3>4. i = m
      BY <1>1, <2>1, <2>2, <2>6, <3>1, <3>2, <3>3, OneWaiter DEF NestInv
    <3> QED BY <1>4, <2>2, <2>3, <2>4, <2>6, <3>4 DEF Calm
  <2> QED BY <2>5, <2>6
<1>6. AllCalm(program, frames', saved', signaled', abort', failed')
  BY <1>4, <1>5 DEF AllCalm
<1> QED BY <1>6, NextCalm

LEMMA TopSet ==
  ASSUME Inv, NEW g \in FrameSet, SetTop(g), g.conn = Top.conn
  PROVE  Stays(frames, frames') /\ frames'[Len(frames)] = g
<1>1. Stack(frames) /\ Depth = Len(frames) /\ Top = frames[Len(frames)]
  BY TopFacts
<1>2. frames' = [frames EXCEPT ![Len(frames)] = g]
  BY <1>1 DEF SetTop
<1>3. g.conn = frames[Len(frames)].conn
  BY <1>1
<1> QED BY <1>1, <1>2, <1>3, StaysTop

LEMMA NestStays ==
  ASSUME Inv, NestInv, Stays(frames, frames'), program' = program, saved' = saved,
         failed \subseteq failed', signaled' = signaled, frames'[Len(frames)].pc # "waits",
         Top.pc \in {"handler", "took"} /\ abort =>
           frames'[Len(frames)].pc \in {"handler", "took"} /\ abort',
         \/ frames'[Len(frames)].msg = Top.msg
         \/ frames'[Len(frames)].msg = 0
         \/ \A i \in 2 .. Len(frames) - 1 :
              frames[i].conn = Top.conn => frames[i].msg # frames'[Len(frames)].msg
  PROVE  NestInv'
<1>1. Len(frames) \in Nat /\ Len(frames) >= 1 /\ Top = frames[Len(frames)] /\ Apart(frames)
  BY TopFacts DEF NestInv
<1>2. PICK gs : gs = frames'
  OBVIOUS
<1>3. Apart(gs)
  BY <1>1, <1>2, ApartStays
<1>4. Apart(frames)'
  BY <1>2, <1>3 DEF Apart
<1>5. CalmInv'
  BY CalmStays
<1> QED BY <1>4, <1>5 DEF NestInv

LEMMA NestFalls ==
  ASSUME HandlersWaitSafely, Inv, NestInv, Falls(frames, frames'), program' = program,
         failed \subseteq failed', signaled' = signaled,
         \A i \in 2 .. Len(frames) - 1 : frames[i].conn \notin failed' =>
           \/ saved'[frames[i].conn] = saved[frames[i].conn]
           \/ /\ Top.pc = "read" /\ Top.conn = frames[i].conn
              /\ WaitsLast(program) => Blank(saved'[frames[i].conn])
  PROVE  NestInv'
<1>1. Len(frames) \in Nat /\ Len(frames) >= 1 /\ Apart(frames)
  BY TopFacts DEF NestInv
<1>2. PICK gs : gs = frames'
  OBVIOUS
<1>3. Apart(gs)
  BY <1>1, <1>2, ApartFalls
<1>4. Apart(frames)'
  BY <1>2, <1>3 DEF Apart
<1>5. CalmInv'
  BY CalmFalls
<1> QED BY <1>4, <1>5 DEF NestInv

LEMMA NestSame ==
  ASSUME NestInv, UNCHANGED <<program, frames, saved, signaled, abort, failed>>
  PROVE  NestInv'
<1>1. AllCalm(program, frames', saved', signaled', abort', failed')
  BY DEF NestInv, CalmInv
<1>2. Apart(frames)'
  BY DEF NestInv, Apart
<1> QED BY <1>1, <1>2, NextCalm DEF NestInv

(* A message is consumed.                                                   *)
LEMMA NestConsumed ==
  ASSUME HandlersWaitSafely, Inv, NestInv, NEW p, NEW vs, vs = frames \/ vs = Void(frames),
         Consumed(vs, p), program' = program, saved' = saved, failed \subseteq failed',
         signaled' = signaled
  PROVE  NestInv'
<1>1. Stack(frames) /\ Top = frames[Len(frames)]
  BY TopFacts
<1>2. \/ Falls(frames, frames')
      \/ Stays(frames, frames') /\ Fresh(frames[Len(frames)], frames'[Len(frames)]) /\ ~abort
  BY <1>1, ConsumedTop
<1>3. CASE Falls(frames, frames')
  BY <1>3, NestFalls
<1>4. CASE Stays(frames, frames') /\ Fresh(frames[Len(frames)], frames'[Len(frames)]) /\ ~abort
  <2>1. frames'[Len(frames)].pc # "waits" /\ frames'[Len(frames)].msg = 0
    BY <1>4 DEF Fresh
  <2> QED BY <1>4, <2>1, NestStays
<1> QED BY <1>2, <1>3, <1>4

(* A handler signals: if the condition is one that is waited for, it is on  *)
(* the connection of the handler, and the handler ends the reading ahead.   *)
LEMMA NestSignals ==
  ASSUME HandlersWaitSafely, Inv, NestInv, HandlerSignals
  PROVE  NestInv'
<1>1. PICK n \in Nat : n = Len(frames) /\ n >= 1
  BY TopFacts
<1>2. Top = frames[n] /\ Top.pc = "handler" /\ program \in Programs
  BY <1>1, TopFacts DEF HandlerSignals
<1>3. /\ UNCHANGED <<program, saved, failed, frames>>
      /\ signaled' = signaled \cup HandlerMessage.wakes /\ abort' = (abort \/ SignalAborts)
  BY DEF HandlerSignals
<1>4. ASSUME NEW i \in 2 .. n, frames[i].pc = "waits", frames[i].conn \notin failed
      PROVE  Calm(WaitsLast(program), frames', saved', signaled', abort', i)
  <2>1. i < n /\ i \in 1 .. n - 1
    BY <1>1, <1>2, <1>4
  <2>2. PICK c \in Connections : c = frames[i].conn
    BY <1>1, <1>4, WaiterFacts
  <2>3. PICK k \in Sent(c) : k = frames[i].msg
    BY <1>1, <1>4, <2>2, WaiterFacts
  <2>4. /\ WaitsLast(program) => Blank(saved[c])
        /\ ~WaitsLast(program) /\ <<c, k>> \in signaled => Blank(saved[c]) /\ c \notin frames[i].pass
    BY <1>1, <1>4, <2>1, <2>2, <2>3, CalmBelow
  <2>5. CASE WaitsLast(program)
    BY <1>1, <1>3, <2>2, <2>4, <2>5 DEF Calm
  <2>6. CASE ~WaitsLast(program)
    <3>1. Message(c, k).does = "waits"
      BY <1>1, <1>4, <2>2, <2>3, WaiterFacts
    <3>2. abort' = TRUE
      <4>1. ~program.hasThread
        BY <1>2, <2>6, <3>1, OneWaits
      <4> QED BY <1>3, <4>1 DEF SignalAborts
    <3>3. ASSUME <<c, k>> \in HandlerMessage.wakes
          PROVE  Blank(saved[c]) /\ c \notin frames[i].pass
      <4>1. n \in 2 .. n /\ frames[n].pc \notin {"read", "act"}
        BY <1>2, <2>1
      <4>2. PICK d \in Connections : d = Top.conn
        BY <1>1, <1>2, <4>1, WaiterFacts
      <4>3. PICK j \in Sent(d) : j = Top.msg
        BY <1>1, <1>2, <4>1, <4>2, WaiterFacts
      <4>4. d = c
        BY <1>2, <2>6, <3>1, <3>3, <4>2, <4>3, OneWaits DEF HandlerMessage
      <4>5. Blank(saved[c])
        <5>1. Busy(frames, c)
          BY <1>1, <1>2, <4>2, <4>4 DEF Busy
        <5> QED BY <1>4, <2>2, <5>1 DEF Inv, MarksOK
      <4>6. PICK m \in Nat : n = m + 1
        BY <1>1
      <4>7. m \in 2 .. n /\ m \in 1 .. n - 1
        BY <2>1, <4>6
      <4>8. frames[m].pc = "waits"
        BY <1>1, <4>7 DEF Inv, StackOK
      <4>9. i = m
        <5>1. Message(frames[m].conn, frames[m].msg).does = "waits"
          BY <1>1, <4>7, <4>8, WaiterFacts
        <5> QED BY <1>1, <1>4, <2>6, <4>7, <4>8, <5>1, OneWaiter DEF NestInv
      <4>10. frames[m + 1].conn \notin frames[m].pass
        BY <1>1, <4>7 DEF NestInv, Apart
      <4> QED BY <1>2, <4>2, <4>4, <4>5, <4>6, <4>9, <4>10
    <3> QED BY <1>1, <1>2, <1>3, <2>2, <2>3, <2>4, <2>6, <3>2, <3>3 DEF Calm
  <2> QED BY <2>5, <2>6
<1>5. AllCalm(program, frames', saved', signaled', abort', failed')
  BY <1>1, <1>3, <1>4 DEF AllCalm
<1>6. Apart(frames)'
  BY <1>3 DEF NestInv, Apart
<1> QED BY <1>3, <1>5, <1>6, NextCalm DEF NestInv

LEMMA NestPoll == ASSUME Inv, NestInv, Poll PROVE NestInv'
<1>1. PICK n \in Nat : n = Len(frames) /\ n >= 1
  BY TopFacts
<1>2. /\ Stack(frames) /\ Depth = n /\ Top = frames[n] /\ Top.pc = "waits" /\ ~Awake(Top)
      /\ \A i \in 1 .. n : frames[i] \in FrameSet
  BY <1>1, TopFacts, StackType DEF Poll
<1>3. UNCHANGED <<program, saved, failed, signaled, abort>>
  BY DEF Poll
<1>4. PICK ready \in SUBSET Connections :
        frames' = [Void(frames) EXCEPT ![Depth].pass = ready]
  BY DEF Poll
<1>5. PICK vs : vs = Void(frames)
  OBVIOUS
<1>6. Stack(vs) /\ Len(vs) = n /\ DOMAIN vs = 1 .. n
  BY <1>1, <1>2, <1>5, VoidStep, StackType
<1>7. ASSUME NEW i \in 1 .. n
      PROVE  vs[i] \in FrameSet /\ Alike(frames[i], vs[i]) /\ vs[i].pass = {}
  <2>1. PICK f : f = frames[i]
    OBVIOUS
  <2>2. f \in FrameSet /\ i \in DOMAIN frames
    BY <1>1, <1>2, <2>1, StackType
  <2>3. vs[i] = [f EXCEPT !.pass = {}]
    BY <1>5, <2>1, <2>2 DEF Void
  <2>4. vs[i] \in FrameSet /\ Alike(f, vs[i]) /\ vs[i].pass = {}
    BY <2>2, <2>3 DEF FrameSet, Alike
  <2> QED BY <2>1, <2>4
<1>8. PICK v : v = vs[n]
  OBVIOUS
<1>9. v \in FrameSet /\ Alike(Top, v)
  BY <1>1, <1>2, <1>7, <1>8
<1>10. PICK g : g = [v EXCEPT !.pass = ready]
  OBVIOUS
<1>11. g \in FrameSet /\ Alike(Top, g)
  BY <1>9, <1>10 DEF FrameSet, Alike
<1>12. frames' = [vs EXCEPT ![n] = g]
  BY <1>2, <1>4, <1>5, <1>8, <1>10
<1>13. Len(frames') = n /\ \A j \in 1 .. n : frames'[j] = IF j = n THEN g ELSE vs[j]
  <2>1. vs \in Seq(FrameSet) /\ n \in 1 .. Len(vs)
    BY <1>1, <1>6 DEF Stack
  <2> QED BY <1>6, <1>11, <1>12, <2>1, ExceptSeq
<1>14. \A i \in 1 .. n : Alike(frames[i], frames'[i]) /\ (i # n => frames'[i].pass = {})
  BY <1>2, <1>7, <1>11, <1>13
<1>15. Apart(frames)'
  <2>1. \A i \in 1 .. n - 1 : i \in 1 .. n /\ i # n
    BY <1>1
  <2>2. \A i \in 1 .. n - 1 : frames'[i + 1].conn \notin frames'[i].pass
    BY <1>14, <2>1
  <2>3. \A i \in 2 .. n : i \in 1 .. n
    BY <1>1
  <2>4. \A i, j \in 2 .. n :
          frames'[i].msg # 0 /\ frames'[i].conn = frames'[j].conn /\ frames'[i].msg = frames'[j].msg
            => i = j
    BY <1>1, <1>14, <2>3 DEF NestInv, Apart, Alike
  <2> QED BY <1>13, <2>2, <2>4 DEF Apart
<1>16. ASSUME NEW i \in 2 .. n, frames'[i].pc = "waits", frames'[i].conn \notin failed'
       PROVE  Calm(WaitsLast(program), frames', saved', signaled', abort', i)
  <2>1. i \in 1 .. n
    BY <1>1
  <2>2. /\ frames'[i].conn = frames[i].conn /\ frames'[i].msg = frames[i].msg
        /\ frames[i].pc = "waits" /\ frames[i].conn \notin failed
        /\ (i # n => frames'[i].pass = {})
    BY <1>3, <1>14, <1>16, <2>1 DEF Alike
  <2>3. CASE i = n
    <3>1. Calm(WaitsLast(program), frames, saved, signaled, abort, i)
      BY <1>1, <2>2 DEF NestInv, CalmInv, AllCalm
    <3>2. <<frames[i].conn, frames[i].msg>> \notin signaled
      BY <1>2, <2>3 DEF Awake
    <3> QED BY <1>3, <2>2, <3>1, <3>2 DEF Calm
  <2>4. CASE i # n
    <3>1. i < n
      BY <1>1, <2>4
    <3>2. /\ WaitsLast(program) => Blank(saved[frames[i].conn])
          /\ ~WaitsLast(program) /\ <<frames[i].conn, frames[i].msg>> \in signaled =>
               /\ Blank(saved[frames[i].conn])
               /\ Top.conn = frames[i].conn => Top.pc \in {"handler", "took"} /\ abort
      BY <1>1, <2>2, <3>1, CalmBelow
    <3>3. frames'[n].conn = Top.conn
      BY <1>11, <1>1, <1>13 DEF Alike
    <3> QED BY <1>2, <1>3, <1>13, <2>2, <2>4, <3>2, <3>3 DEF Calm
  <2> QED BY <2>3, <2>4
<1>17. AllCalm(program, frames', saved', signaled', abort', failed')
  BY <1>13, <1>16 DEF AllCalm
<1> QED BY <1>3, <1>15, <1>17, NextCalm DEF NestInv

LEMMA NestDataAvailable ==
  ASSUME HandlersWaitSafely, Inv, NestInv, NEW c \in Connections, DataAvailable(c)
  PROVE  NestInv'
<1>1. PICK n \in Nat : n = Len(frames) /\ n >= 1
  BY TopFacts
<1>2. /\ Stack(frames) /\ frames \in Seq(FrameSet) /\ Depth = n /\ Top = frames[n] /\ Top.pc = "waits"
      /\ c \in Top.pass /\ Top \in FrameSet
  BY <1>1, TopFacts DEF DataAvailable, Stack
<1>3. saved \in [Connections -> MarkSet] /\ saved' = [saved EXCEPT ![c] = Idle]
      /\ UNCHANGED <<program, failed, signaled, abort>>
  BY DEF DataAvailable, Inv, ReadType
<1>4. PICK f : f = Top
  OBVIOUS
<1>5. PICK g0 : g0 = [f EXCEPT !.pass = f.pass \ {c}]
  OBVIOUS
<1>6. g0 \in FrameSet /\ Alike(f, g0) /\ g0.pass \subseteq f.pass /\ c \notin g0.pass
  BY <1>2, <1>4, <1>5 DEF FrameSet, Alike
<1>7. PICK fs : fs = [frames EXCEPT ![n] = g0]
  OBVIOUS
<1>8. /\ fs \in Seq(FrameSet) /\ Len(fs) = n
      /\ \A j \in 1 .. n : fs[j] = IF j = n THEN g0 ELSE frames[j]
  <2>1. n \in 1 .. Len(frames)
    BY <1>1
  <2> QED BY <1>1, <1>2, <1>6, <1>7, <2>1, ExceptSeq
<1>9. PICK g : g = Resumed(c)
  OBVIOUS
<1>10. g \in FrameSet /\ g.conn = c /\ g.pc = "read" /\ g.msg = 0
  <2>1. PICK s : s = saved[c]
    OBVIOUS
  <2>2. s.full \in Nat /\ s.end \in Nat /\ s.buf \in Nat
    BY <1>3, <2>1 DEF MarkSet
  <2>3. g = [Frame(c) EXCEPT !.full = s.full, !.end = s.end, !.buf = s.buf]
    BY <1>9, <2>1 DEF Resumed
  <2> QED BY <2>2, <2>3 DEF Frame, FrameSet
<1>11. frames' = Append(fs, g)
  BY <1>2, <1>4, <1>5, <1>7, <1>9 DEF DataAvailable
<1>12. /\ Len(frames') = n + 1 /\ frames'[n + 1] = g
       /\ \A i \in 1 .. n : frames'[i] = fs[i]
  BY <1>8, <1>10, <1>11, AppendProperties
<1>13. ASSUME NEW i \in 1 .. n
       PROVE  Alike(frames[i], frames'[i]) /\ frames'[i].pass \subseteq frames[i].pass
  <2>1. CASE i = n
    BY <1>2, <1>4, <1>6, <1>8, <1>12, <2>1
  <2>2. CASE i # n
    BY <1>8, <1>12, <2>2 DEF Alike
  <2> QED BY <2>1, <2>2
<1>14. PICK gs : gs = frames'
  OBVIOUS
<1>15. Rises(frames, gs, c)
  <2>1. c \notin frames'[n].pass
    BY <1>1, <1>6, <1>8, <1>12
  <2> QED BY <1>1, <1>10, <1>12, <1>13, <1>14, <2>1 DEF Rises, Below
<1>16. Apart(frames)'
  <2>1. Apart(gs)
    BY <1>1, <1>15, ApartRises DEF NestInv
  <2> QED BY <1>14, <2>1 DEF Apart
<1>17. ASSUME NEW i \in 2 .. n + 1, frames'[i].pc = "waits", frames'[i].conn \notin failed'
       PROVE  Calm(WaitsLast(program), frames', saved', signaled', abort', i)
  <2>1. i # n + 1
    BY <1>10, <1>12, <1>17
  <2>2. i \in 1 .. n /\ i \in 2 .. n
    BY <1>1, <2>1
  <2>3. /\ frames'[i].conn = frames[i].conn /\ frames'[i].msg = frames[i].msg
        /\ frames[i].pc = "waits" /\ frames[i].conn \notin failed
        /\ frames'[i].pass \subseteq frames[i].pass
    BY <1>3, <1>13, <1>17, <2>2 DEF Alike
  <2>4. PICK d \in Connections : d = frames[i].conn
    BY <1>1, <2>2, <2>3, WaiterFacts
  <2>5. Blank(saved[d]) => Blank(saved'[d])
    BY <1>3, <2>4 DEF Blank, Idle
  <2>6. Calm(WaitsLast(program), frames, saved, signaled, abort, i)
    BY <1>1, <2>2, <2>3 DEF NestInv, CalmInv, AllCalm
  <2>7. CASE WaitsLast(program)
    BY <2>3, <2>4, <2>5, <2>6, <2>7 DEF Calm
  <2>8. CASE ~WaitsLast(program)
    <3>1. i = n
      <4>1. n \in 2 .. n
        BY <2>2
      <4>2. Message(frames[n].conn, frames[n].msg).does = "waits" /\ frames[n].pc = "waits"
        BY <1>1, <1>2, <4>1, WaiterFacts
      <4> QED BY <1>1, <2>2, <2>3, <2>8, <4>1, <4>2, OneWaiter DEF NestInv
    <3>2. <<d, frames[i].msg>> \in signaled => Blank(saved[d]) /\ d \notin frames[i].pass
      BY <2>4, <2>6, <2>8 DEF Calm
    <3>3. <<d, frames[i].msg>> \in signaled => d # c
      BY <1>2, <3>1, <3>2
    <3> QED BY <1>3, <1>10, <1>12, <2>3, <2>4, <2>5, <2>8, <3>2, <3>3 DEF Calm
  <2> QED BY <2>7, <2>8
<1>18. AllCalm(program, frames', saved', signaled', abort', failed')
  BY <1>12, <1>17 DEF AllCalm
<1> QED BY <1>3, <1>16, <1>18, NextCalm DEF NestInv

LEMMA NestWaits ==
  ASSUME HandlersWaitSafely, Inv, NestInv, HandlerWaits
  PROVE  NestInv'
<1>1. PICK n \in Nat : n = Len(frames) /\ n >= 1
  BY TopFacts
<1>2. PICK f : f = Top
  OBVIOUS
<1>3. /\ f \in FrameSet /\ f = frames[n] /\ Top = frames[n] /\ f.pc = "handler" /\ ~Awake(f)
      /\ Message(f.conn, f.msg).does = "waits" /\ n >= 2
      /\ SetTop([f EXCEPT !.pc = "waits"])
      /\ UNCHANGED <<program, saved, failed, signaled, abort>>
  <2>1. n # 1
    BY <1>1, TopFacts DEF HandlerWaits
  <2> QED BY <1>1, <1>2, <2>1, TopFacts DEF HandlerWaits, HandlerMessage
<1>4. PICK g : g = [f EXCEPT !.pc = "waits"]
  OBVIOUS
<1>5. g \in FrameSet /\ g.conn = f.conn /\ g.msg = f.msg /\ g.pc = "waits"
  BY <1>3, <1>4 DEF FrameSet
<1>6. Stays(frames, frames') /\ frames'[n] = g
  BY <1>1, <1>2, <1>3, <1>4, <1>5, TopSet
<1>7. Apart(frames)'
  <2>1. PICK gs : gs = frames'
    OBVIOUS
  <2>2. Apart(gs)
    BY <1>1, <1>3, <1>5, <1>6, <2>1, ApartStays DEF NestInv
  <2> QED BY <2>1, <2>2 DEF Apart
<1>8. /\ Len(frames') = n
      /\ \A i \in 1 .. n - 1 : /\ frames'[i].conn = frames[i].conn /\ frames'[i].msg = frames[i].msg
                               /\ frames'[i].pc = frames[i].pc
                               /\ frames'[i].pass \subseteq frames[i].pass
  BY <1>1, <1>6 DEF Stays, Below, Alike
<1>9. ASSUME NEW i \in 2 .. n, frames'[i].pc = "waits", frames'[i].conn \notin failed'
      PROVE  Calm(WaitsLast(program), frames', saved', signaled', abort', i)
  <2>1. n \in 2 .. n
    BY <1>3
  <2>2. CASE i = n
    <3>1. PICK c \in Connections : c = f.conn
      BY <1>1, <1>3, <2>1, WaiterFacts
    <3>2. Blank(saved[c])
      <4>1. Busy(frames, c)
        BY <1>1, <1>3, <3>1 DEF Busy
      <4>2. c \notin failed
        BY <1>3, <1>5, <1>6, <1>9, <2>2, <3>1
      <4> QED BY <4>1, <4>2 DEF Inv, MarksOK
    <3>3. <<f.conn, f.msg>> \notin signaled
      BY <1>3 DEF Awake
    <3> QED BY <1>3, <1>5, <1>6, <2>2, <3>1, <3>2, <3>3 DEF Calm
  <2>3. CASE i # n
    <3>1. i < n /\ i \in 1 .. n - 1
      BY <1>1, <2>3
    <3>2. /\ frames'[i].conn = frames[i].conn /\ frames'[i].msg = frames[i].msg
          /\ frames[i].pc = "waits" /\ frames[i].conn \notin failed
      BY <1>3, <1>8, <1>9, <3>1
    <3>3. WaitsLast(program)
      <4> SUFFICES ASSUME ~WaitsLast(program) PROVE FALSE
        OBVIOUS
      <4>1. i = n
        BY <1>1, <1>3, <2>1, <3>2, OneWaiter DEF NestInv
      <4> QED BY <2>3, <4>1
    <3>4. Blank(saved[frames[i].conn])
      BY <1>1, <3>1, <3>2, <3>3, CalmBelow
    <3> QED BY <1>3, <3>2, <3>3, <3>4 DEF Calm
  <2> QED BY <2>2, <2>3
<1>10. AllCalm(program, frames', saved', signaled', abort', failed')
  BY <1>8, <1>9 DEF AllCalm
<1> QED BY <1>3, <1>7, <1>10, NextCalm DEF NestInv

LEMMA NestRead ==
  ASSUME HandlersWaitSafely, Inv, NestInv, Read
  PROVE  NestInv'
<1>1. PICK c : c = Top.conn
  OBVIOUS
<1>2. PICK w : w = WithSpace(Started(Top))
  OBVIOUS
<1>3. PICK f : f = w.frame
  OBVIOUS
<1>4. PICK n : n = Len(handled[c]) + 1
  OBVIOUS
<1>5. /\ c \in Connections /\ c \notin failed
      /\ f \in FrameSet /\ f.conn = c /\ f.msg = 0 /\ f.full >= 1
      /\ taken[c] - f.end = Start(c, n)
      /\ f.full <= IF n \in Sent(c) THEN Message(c, n).words ELSE 1
      /\ f.buf # 0 <=> f.full >= HeaderBuffer
  BY <1>1, <1>2, <1>3, <1>4, SpaceFacts DEF Read
<1>6. f.full \in Nat /\ f.end \in Nat /\ f.buf \in Nat
  BY <1>5 DEF FrameSet
<1>7. /\ taken[c] \in Nat /\ arrived[c] \in Nat /\ Length(c) \in Nat /\ arrived[c] <= Length(c)
      /\ taken[c] <= arrived[c] /\ n \in Nat \ {0} /\ n <= Len(program.sent[c]) + 1
      /\ taken \in [Connections -> Nat] /\ saved \in [Connections -> MarkSet]
      /\ Len(program.sent[c]) \in Nat /\ program \in Programs
  BY <1>4, <1>5, StreamFacts DEF Inv, ReadType
<1>8. /\ Stack(frames) /\ Top = frames[Len(frames)] /\ Top.pc = "read"
      /\ UNCHANGED <<program, failed, signaled, abort>>
  BY TopFacts DEF Read, Reading
<1>9. PICK h : h = arrived[c] - taken[c]
  OBVIOUS
<1>10. h \in Nat
  BY <1>7, <1>9
<1>11. \/ SetTop([f EXCEPT !.end = f.full, !.pc = "act"]) /\ saved' = saved
       \/ /\ Pop /\ saved' = [saved EXCEPT ![c] = Saved([f EXCEPT !.end = f.end + h])]
  BY <1>1, <1>2, <1>3, <1>9 DEF Read
<1>12. CASE SetTop([f EXCEPT !.end = f.full, !.pc = "act"]) /\ saved' = saved
  <2>1. PICK g : g = [f EXCEPT !.end = f.full, !.pc = "act"]
    OBVIOUS
  <2>2. g \in FrameSet /\ g.conn = c /\ g.msg = 0 /\ g.pc = "act"
    BY <1>5, <1>6, <2>1 DEF FrameSet
  <2>3. Stays(frames, frames') /\ frames'[Len(frames)] = g
    BY <1>1, <1>12, <2>1, <2>2, TopSet
  <2>4. frames'[Len(frames)].pc # "waits" /\ frames'[Len(frames)].msg = 0
        /\ Top.pc \notin {"handler", "took"}
    BY <1>8, <2>2, <2>3
  <2> QED BY <1>8, <1>12, <2>3, <2>4, NestStays
<1>13. CASE Pop /\ saved' = [saved EXCEPT ![c] = Saved([f EXCEPT !.end = f.end + h])]
  <2>1. Falls(frames, frames')
    BY <1>8, <1>13, FallsTop DEF Pop
  <2>2. PICK s : s = Saved([f EXCEPT !.end = f.end + h])
    OBVIOUS
  <2>3. s.full = f.full /\ s.end = f.end + h /\ s.buf = f.buf
    BY <1>5, <1>6, <1>10, <2>2 DEF Saved, FrameSet
  <2>4. saved'[c] = s /\ \A d \in Connections : d # c => saved'[d] = saved[d]
    BY <1>5, <1>7, <1>13, <2>2
  <2>5. ASSUME NEW i \in 2 .. Len(frames) - 1, frames[i].conn \notin failed'
        PROVE  \/ saved'[frames[i].conn] = saved[frames[i].conn]
               \/ /\ Top.pc = "read" /\ Top.conn = frames[i].conn
                  /\ WaitsLast(program) => Blank(saved'[frames[i].conn])
    <3>1. PICK m \in Nat : m = Len(frames) /\ m >= 1
      BY <1>8, StackType
    <3>2. i \in 2 .. m /\ i \in 1 .. m - 1
      BY <2>5, <3>1
    <3>3. frames[i].pc = "waits"
      BY <3>1, <3>2 DEF Inv, StackOK
    <3>4. /\ frames[i].conn \in Connections /\ frames[i].msg \in Sent(frames[i].conn)
          /\ frames[i].msg <= Len(handled[frames[i].conn])
          /\ Message(frames[i].conn, frames[i].msg).does = "waits"
      BY <3>1, <3>2, <3>3, WaiterFacts
    <3>5. CASE frames[i].conn # c
      BY <2>4, <3>4, <3>5
    <3>6. CASE frames[i].conn = c
      <4>1. ASSUME WaitsLast(program) PROVE Blank(s)
        <5>1. frames[i].msg = Len(program.sent[c])
          BY <1>5, <3>4, <3>6, <4>1 DEF WaitsLast, Message, Sent
        <5>2. Len(handled[c]) \in Nat
          BY <1>5, StreamFacts
        <5>3. n = Len(program.sent[c]) + 1
          <6>1. PICK l \in Nat, r \in Nat : l = Len(handled[c]) /\ r = Len(program.sent[c])
            BY <1>7, <5>2
          <6>2. r <= l
            BY <3>4, <3>6, <5>1, <6>1
          <6>3. n = l + 1 /\ n <= r + 1
            BY <1>4, <1>7, <6>1
          <6>4. n = r + 1
            BY <6>1, <6>2, <6>3
          <6> QED BY <6>1, <6>4
        <5>4. Sent(c) = 1 .. Len(program.sent[c])
          BY <1>5, <1>7, SentType
        <5>5. n \notin Sent(c)
          BY <1>7, <5>3, <5>4
        <5>6. s.full <= 1 /\ s.buf = 0
          BY <1>5, <1>6, <2>3, <5>5 DEF HeaderBuffer
        <5>7. Length(c) = Start(c, n)
          BY <5>3 DEF Length
        <5>8. s.end = 0
          <6>1. PICK x \in Nat, y \in Nat, z \in Nat :
                  x = taken[c] /\ y = arrived[c] /\ z = Length(c)
            BY <1>7
          <6>2. PICK e \in Nat : e = f.end
            BY <1>6
          <6>3. x - e = z /\ y <= z /\ h = y - x
            BY <1>5, <1>7, <1>9, <5>7, <6>1, <6>2
          <6>4. e + h = 0
            BY <1>10, <6>3
          <6> QED BY <2>3, <6>2, <6>4
        <5> QED BY <5>6, <5>8 DEF Blank
      <4> QED BY <1>1, <1>8, <2>4, <3>6, <4>1
    <3> QED BY <3>5, <3>6
  <2> QED BY <1>8, <2>1, <2>5, NestFalls
<1> QED BY <1>11, <1>12, <1>13

LEMMA NestReadMore == ASSUME Inv, NestInv, ReadMore PROVE NestInv'
<1>1. PICK f : f = Top
  OBVIOUS
<1>2. PICK m : m = Message(f.conn, Len(handled[f.conn]) + 1)
  OBVIOUS
<1>3. f \in FrameSet /\ f.pc = "act" /\ UNCHANGED <<program, saved, failed, signaled, abort>>
  BY <1>1, TopFacts DEF ReadMore
<1>4. /\ Current = Len(handled[f.conn]) + 1 /\ m.words \in Nat /\ HeaderLength(m.kind) \in 1 .. 4
      /\ f.end \in Nat /\ f.full \in Nat
  BY <1>1, <1>2, <1>3, CurrentIs DEF FrameSet
<1>5. PICK k : k = Missing(f, m)
  OBVIOUS
<1>6. k > 0 /\ SetTop([f EXCEPT !.full = f.full + k, !.pc = "read"])
  BY <1>1, <1>2, <1>4, <1>5 DEF ReadMore
<1>7. f.full + k \in Nat
  <2>1. k = IF f.end < HeaderLength(m.kind) THEN HeaderLength(m.kind) - f.end ELSE m.words - f.end
    BY <1>5 DEF Missing
  <2>2. PICK l \in Nat : l = HeaderLength(m.kind)
    BY <1>4
  <2> QED BY <1>4, <1>6, <2>1, <2>2
<1>8. PICK g : g = [f EXCEPT !.full = f.full + k, !.pc = "read"]
  OBVIOUS
<1>9. g \in FrameSet /\ g.conn = f.conn /\ g.msg = f.msg /\ g.pc = "read"
  BY <1>3, <1>7, <1>8 DEF FrameSet
<1>10. Stays(frames, frames') /\ frames'[Len(frames)] = g
  BY <1>1, <1>6, <1>8, <1>9, TopSet
<1>11. frames'[Len(frames)].pc # "waits" /\ frames'[Len(frames)].msg = Top.msg
       /\ Top.pc \notin {"handler", "took"}
  BY <1>1, <1>3, <1>9, <1>10
<1> QED BY <1>3, <1>10, <1>11, NestStays

LEMMA NestCallHandler == ASSUME Inv, NestInv, CallHandler PROVE NestInv'
<1>1. PICK f : f = Top
  OBVIOUS
<1>2. PICK c : c = f.conn
  OBVIOUS
<1>3. PICK n : n = Len(handled[c]) + 1
  OBVIOUS
<1>4. PICK m : m = Message(c, n)
  OBVIOUS
<1>5. f \in FrameSet /\ f.pc = "act" /\ UNCHANGED <<program, saved, failed, signaled, abort>>
  BY <1>1, TopFacts DEF CallHandler, Complete
<1>6. Current = n /\ n \in Nat \ {0} /\ c \in Connections
  BY <1>1, <1>2, <1>3, <1>5, CurrentIs
<1>7. PICK x : x = Chosen(pool, m.words + 1)
  OBVIOUS
<1>8. x \in Nat
  BY <1>7, ChosenIn DEF Inv, ReadType
<1>9. PICK d : d = IF m.kind = "converted" THEN x ELSE 0
  OBVIOUS
<1>10. SetTop([f EXCEPT !.pc = "handler", !.msg = n, !.decode = d])
  BY <1>1, <1>2, <1>4, <1>6, <1>7, <1>9 DEF CallHandler
<1>11. PICK g : g = [f EXCEPT !.pc = "handler", !.msg = n, !.decode = d]
  OBVIOUS
<1>12. g \in FrameSet /\ g.conn = f.conn /\ g.msg = n /\ g.pc = "handler"
  BY <1>5, <1>6, <1>8, <1>9, <1>11 DEF FrameSet
<1>13. Stays(frames, frames') /\ frames'[Len(frames)] = g
  BY <1>1, <1>10, <1>11, <1>12, TopSet
<1>14. ASSUME NEW i \in 2 .. Len(frames) - 1, frames[i].conn = c
       PROVE  frames[i].msg # n
  <2>1. PICK k \in Nat : k = Len(frames) /\ k >= 1
    BY TopFacts
  <2>2. i \in 2 .. k /\ i \in 1 .. k - 1
    BY <1>14, <2>1
  <2>3. frames[i].pc = "waits"
    BY <2>1, <2>2 DEF Inv, StackOK
  <2>4. frames[i].msg \in Nat /\ frames[i].msg <= Len(handled[c])
    BY <1>14, <2>1, <2>2, <2>3, WaiterFacts
  <2>5. Len(handled[c]) \in Nat
    BY <1>6, StreamFacts
  <2> QED BY <1>3, <2>4, <2>5
<1>15. frames'[Len(frames)].pc # "waits" /\ Top.pc \notin {"handler", "took"}
  BY <1>1, <1>5, <1>12, <1>13
<1>16. \A i \in 2 .. Len(frames) - 1 :
         frames[i].conn = Top.conn => frames[i].msg # frames'[Len(frames)].msg
  BY <1>1, <1>2, <1>12, <1>13, <1>14
<1> QED BY <1>5, <1>13, <1>15, <1>16, NestStays

LEMMA NestWaitEnds ==
  ASSUME Inv, NestInv, WaitEnds
  PROVE  NestInv' /\ (Top.conn \notin failed => Blank(saved[Top.conn]))
<1>1. PICK f : f = Top
  OBVIOUS
<1>2. /\ f \in FrameSet /\ f.pc = "waits" /\ Depth # 1 /\ Awake(f)
      /\ SetTop([f EXCEPT !.pc = "handler"])
      /\ UNCHANGED <<program, saved, failed, signaled, abort>>
  BY <1>1, TopFacts DEF WaitEnds
<1>3. PICK g : g = [f EXCEPT !.pc = "handler"]
  OBVIOUS
<1>4. g \in FrameSet /\ g.conn = f.conn /\ g.msg = f.msg /\ g.pc = "handler"
  BY <1>2, <1>3 DEF FrameSet
<1>5. Stays(frames, frames') /\ frames'[Len(frames)] = g
  BY <1>1, <1>2, <1>3, <1>4, TopSet
<1>6. frames'[Len(frames)].pc # "waits" /\ frames'[Len(frames)].msg = Top.msg
      /\ Top.pc \notin {"handler", "took"}
  BY <1>1, <1>2, <1>4, <1>5
<1>7. NestInv'
  BY <1>2, <1>5, <1>6, NestStays
<1>8. ASSUME f.conn \notin failed PROVE Blank(saved[f.conn])
  <2>1. PICK n \in Nat : n = Len(frames) /\ n >= 2 /\ f = frames[n]
    BY <1>1, <1>2, TopFacts
  <2>2. n \in 2 .. n
    BY <2>1
  <2>3. Calm(WaitsLast(program), frames, saved, signaled, abort, n)
    BY <1>2, <1>8, <2>1, <2>2 DEF NestInv, CalmInv, AllCalm
  <2>4. <<f.conn, f.msg>> \in signaled
    BY <1>2, <1>8 DEF Awake
  <2> QED BY <2>1, <2>3, <2>4 DEF Calm
<1> QED BY <1>1, <1>7, <1>8

LEMMA NestTakeBuffer == ASSUME Inv, NestInv, TakeBuffer PROVE NestInv'
<1>1. PICK f : f = Top
  OBVIOUS
<1>2. /\ f \in FrameSet /\ f.pc = "handler" /\ SetTop([f EXCEPT !.pc = "took"])
      /\ UNCHANGED <<program, saved, failed, signaled, abort>>
  BY <1>1, TopFacts DEF TakeBuffer
<1>3. PICK g : g = [f EXCEPT !.pc = "took"]
  OBVIOUS
<1>4. g \in FrameSet /\ g.conn = f.conn /\ g.msg = f.msg /\ g.pc = "took"
  BY <1>2, <1>3 DEF FrameSet
<1>5. Stays(frames, frames') /\ frames'[Len(frames)] = g
  BY <1>1, <1>2, <1>3, <1>4, TopSet
<1>6. frames'[Len(frames)].pc # "waits" /\ frames'[Len(frames)].msg = Top.msg
      /\ frames'[Len(frames)].pc \in {"handler", "took"}
  BY <1>1, <1>4, <1>5
<1> QED BY <1>2, <1>5, <1>6, NestStays

(* A call that returns without a word for the next one.                     *)
LEMMA NestReturns ==
  ASSUME HandlersWaitSafely, Inv, NestInv, ReadFails \/ ReadAfterFailure
  PROVE  NestInv'
<1>1. Stack(frames)
  BY TopFacts
<1>2. frames' = Void(Front(frames)) \/ frames' = Front(frames)
  BY DEF ReadFails, ReadAfterFailure, Pop
<1>3. Falls(frames, frames')
  BY <1>1, <1>2, FallsTop
<1>4. program' = program /\ saved' = saved /\ failed \subseteq failed' /\ signaled' = signaled
  BY DEF ReadFails, ReadAfterFailure
<1> QED BY <1>3, <1>4, NestFalls

LEMMA NestInit == ASSUME Init PROVE NestInv
<1>1. Len(frames) = 1
  BY DEF Init
<1>2. (\A i \in 2 .. 1 : FALSE) /\ (\A i \in 1 .. 1 - 1 : FALSE)
  OBVIOUS
<1> QED BY <1>1, <1>2 DEF NestInv, Apart, CalmInv, AllCalm

LEMMA NestStep ==
  ASSUME HandlersWaitSafely, Inv, NestInv, [Next]_vars
  PROVE  NestInv'
<1>1. CASE Poll
  BY <1>1, NestPoll
<1>2. ASSUME NEW c \in Connections, DataAvailable(c) PROVE NestInv'
  BY <1>2, NestDataAvailable
<1>3. CASE Read
  BY <1>3, NestRead
<1>4. CASE ReadFails \/ ReadAfterFailure
  BY <1>4, NestReturns
<1>5. CASE ReadMore
  BY <1>5, NestReadMore
<1>6. CASE UnknownMessage
  <2>1. /\ Consumed(Void(frames), pool) /\ program' = program /\ saved' = saved
        /\ failed \subseteq failed' /\ signaled' = signaled
    BY <1>6 DEF UnknownMessage
  <2> QED BY <2>1, NestConsumed
<1>7. CASE ActAtOnce
  <2>1. /\ Consumed(frames, pool) /\ program' = program /\ saved' = saved
        /\ failed \subseteq failed' /\ signaled' = signaled
    BY <1>7 DEF ActAtOnce
  <2> QED BY <2>1, NestConsumed
<1>8. CASE SubmitEvent
  <2>1. PICK p : Consumed(frames, p)
    BY <1>8 DEF SubmitEvent
  <2>2. program' = program /\ saved' = saved /\ failed \subseteq failed' /\ signaled' = signaled
    BY <1>8 DEF SubmitEvent
  <2> QED BY <2>1, <2>2, NestConsumed
<1>9. CASE HandlerReturns
  <2>1. PICK p : Consumed(frames, p)
    BY <1>9 DEF HandlerReturns
  <2>2. program' = program /\ saved' = saved /\ failed \subseteq failed' /\ signaled' = signaled
    BY <1>9 DEF HandlerReturns
  <2> QED BY <2>1, <2>2, NestConsumed
<1>10. CASE CallHandler
  BY <1>10, NestCallHandler
<1>11. CASE HandlerSignals
  BY <1>11, NestSignals
<1>12. CASE HandlerWaits
  BY <1>12, NestWaits
<1>13. CASE WaitEnds
  BY <1>13, NestWaitEnds
<1>14. CASE TakeBuffer
  BY <1>14, NestTakeBuffer
<1>15. CASE ReturnBuffer \/ \E c \in Connections : Arrive(c) \/ PeerDies(c)
  <2>1. UNCHANGED <<program, frames, saved, signaled, abort, failed>>
    BY <1>15 DEF ReturnBuffer, Arrive, PeerDies
  <2> QED BY <2>1, NestSame
<1>16. CASE UNCHANGED vars
  BY <1>16, NestSame DEF vars
<1> QED BY <1>1, <1>2, <1>3, <1>4, <1>5, <1>6, <1>7, <1>8, <1>9, <1>10, <1>11, <1>12, <1>13, <1>14,
          <1>15, <1>16 DEF Next, NetworkThread

-----------------------------------------------------------------------------
(* For any streams and any interleaving of arrivals, deaths, handlers and    *)
(* nested calls, as long as handlers wait only as HandlersWaitSafely says:   *)
(* every message of a connection is dispatched once and in order, and only a *)
(* peer that stops in the middle or sends something unknown makes the reader *)
(* fail its connection (cm.c:2100, 2247, 2420).                              *)
THEOREM FramesAreKept == HandlersWaitSafely => (Spec => []FramingKept)
<1> SUFFICES ASSUME HandlersWaitSafely
             PROVE  Spec => []FramingKept
  OBVIOUS
<1>1. Init => Inv /\ NestInv
  BY InvInit, NestInit
<1>2. Inv /\ NestInv /\ [Next]_vars => (Inv /\ NestInv)'
  BY InvStep, NestStep, NestWaitEnds
<1>3. Inv => FramingKept
  BY FramingFromInv
<1> QED BY <1>1, <1>2, <1>3, PTL DEF Spec

(* Under the same condition a buffer is free exactly when nothing holds it   *)
(* (until a connection fails, from when on some may be lost), and what a     *)
(* handler, the application or an event looks at is what was read for it     *)
(* (cm.c:1871-1923, 1949, 2776).                                             *)
THEOREM BuffersAreSound == HandlersWaitSafely => (Spec => []BuffersSound)
<1> SUFFICES ASSUME HandlersWaitSafely
             PROVE  Spec => []BuffersSound
  OBVIOUS
<1>1. Init => Inv /\ NestInv
  BY InvInit, NestInit
<1>2. Inv /\ NestInv /\ [Next]_vars => (Inv /\ NestInv)'
  BY InvStep, NestStep, NestWaitEnds
<1>3. Inv => BuffersSound
  BY BuffersFromInv
<1> QED BY <1>1, <1>2, <1>3, PTL DEF Spec
===============================================================================
