------------------------------ MODULE ListLemmas ------------------------------
(***************************************************************************)
(* Lemmas about numbers, sequences and finite sets that the proofs of more *)
(* than one component use.  The lists of the program (tasks, connections)  *)
(* hold each element once.                                                 *)
(***************************************************************************)
EXTENDS Integers, Sequences, FiniteSets, SequencesExt, SequenceTheorems,
        FunctionTheorems, FiniteSetTheorems, WellFoundedInduction, TLAPS

InList(ls, x) == \E i \in DOMAIN ls : ls[i] = x

(* The numbers of a list are finitely many.                                 *)
LEMMA UpTo == \A n \in Nat : IsFiniteSet(1 .. n)
BY FS_Interval

(* Induction over the naturals, in first-order form: a set of naturals that *)
(* is not empty has a least element.                                        *)
LEMMA LeastNat ==
  ASSUME NEW T, T \subseteq Nat, T # {}
  PROVE  \E n \in T : \A m \in T : n <= m
<1> DEFINE R == OpToRel(<, Nat)
<1>1. IsWellFoundedOn(R, Nat)
  BY NatLessThanWellFounded
<1>2. ASSUME NEW m \in Nat, NEW n \in Nat PROVE <<m, n>> \in R <=> m < n
  BY DEF OpToRel
<1> HIDE DEF R
<1>3. PICK n \in T : \A m \in T : ~ (<<m, n>> \in R)
  BY <1>1, WFMin
<1>4. ASSUME NEW m \in T PROVE n <= m
  <2>1. m \in Nat /\ n \in Nat
    OBVIOUS
  <2>2. ~ (<<m, n>> \in R)
    BY <1>3
  <2>3. ~ (m < n)
    BY <1>2, <2>1, <2>2, Zenon
  <2> QED BY <2>1, <2>3
<1> QED BY <1>4

LEMMA ConsProperties ==
  ASSUME NEW S, NEW e \in S, NEW s \in Seq(S)
  PROVE  /\ <<e>> \o s \in Seq(S) /\ <<e>> \o s # <<>>
         /\ Len(s) \in Nat /\ Len(<<e>> \o s) = Len(s) + 1
         /\ (<<e>> \o s)[1] = e
         /\ \A i \in 1..Len(s) : (<<e>> \o s)[i + 1] = s[i]
<1>1. <<e>> \in Seq(S) /\ Len(<<e>>) = 1 /\ <<e>>[1] = e /\ Len(s) \in Nat
  OBVIOUS
<1>2. /\ <<e>> \o s \in Seq(S) /\ Len(<<e>> \o s) = Len(<<e>>) + Len(s)
      /\ \A i \in 1..Len(<<e>>) + Len(s) : (<<e>> \o s)[i] =
           IF i <= Len(<<e>>) THEN <<e>>[i] ELSE s[i - Len(<<e>>)]
  BY <1>1, ConcatProperties
<1>3. \A i \in 1..Len(s) : (<<e>> \o s)[i + 1] = s[i]
  <2>1. TAKE i \in 1..Len(s)
  <2>2. i + 1 \in 1..Len(<<e>>) + Len(s) /\ ~(i + 1 <= Len(<<e>>)) /\ (i + 1) - Len(<<e>>) = i
    BY <1>1
  <2> QED BY <1>2, <2>2
<1>4. <<e>> \o s # <<>>
  BY <1>1, <1>2, EmptySeq
<1> QED BY <1>1, <1>2, <1>3, <1>4

(* Taking a record out of a list that has each record once.                 *)
LEMMA RemoveFirstProperties ==
  ASSUME NEW S, NEW s \in Seq(S), NEW e,
         \A i, j \in DOMAIN s : s[i] = s[j] => i = j
  PROVE  /\ RemoveFirst(s, e) \in Seq(S)
         /\ \A i, j \in DOMAIN RemoveFirst(s, e) :
              RemoveFirst(s, e)[i] = RemoveFirst(s, e)[j] => i = j
         /\ \A x : InList(RemoveFirst(s, e), x) <=> InList(s, x) /\ x # e
<1>1. CASE \A i \in 1..Len(s) : s[i] # e
  <2>1. RemoveFirst(s, e) = s
    BY <1>1 DEF RemoveFirst
  <2> QED BY <1>1, <2>1 DEF InList
<1>2. CASE \E i \in 1..Len(s) : s[i] = e
  <2> DEFINE I == {i \in 1..Len(s) : s[i] = e}
             k == CHOOSE x \in I : \A y \in I : x =< y
  <2>1. PICK n \in 1..Len(s) : s[n] = e
    BY <1>2
  <2>2. I = {n}
    BY <2>1
  <2>3. k = n
    BY <2>2
  <2>4. RemoveFirst(s, e) = SubSeq(s, 1, n - 1) \o SubSeq(s, n + 1, Len(s))
    BY <1>2, <2>2, <2>3 DEF RemoveFirst, RemoveAt, SelectInSeq, Min
  <2> HIDE DEF I, k
  <2> DEFINE p == SubSeq(s, 1, n - 1)
             q == SubSeq(s, n + 1, Len(s))
             r == RemoveFirst(s, e)
  <2>5. /\ Len(s) \in Nat /\ n \in Nat /\ DOMAIN s = 1..Len(s)
        /\ \A i \in 1..Len(s) : s[i] \in S
    OBVIOUS
  <2>6. /\ p \in Seq(S) /\ Len(p) = n - 1 /\ \A i \in 1..n - 1 : p[i] = s[i]
    <3>1. /\ p \in Seq(S) /\ Len(p) = IF 1 <= n - 1 THEN (n - 1) - 1 + 1 ELSE 0
          /\ \A i \in 1..(n - 1) - 1 + 1 : p[i] = s[1 + i - 1]
      BY <2>5, SubSeqProperties
    <3>2. (IF 1 <= n - 1 THEN (n - 1) - 1 + 1 ELSE 0) = n - 1 /\ (n - 1) - 1 + 1 = n - 1
      BY <2>5
    <3>3. \A i \in 1..n - 1 : 1 + i - 1 = i
      OBVIOUS
    <3> QED BY <3>1, <3>2, <3>3
  <2>7. /\ q \in Seq(S) /\ Len(q) = Len(s) - n /\ \A i \in 1..Len(s) - n : q[i] = s[n + i]
    <3>1. /\ q \in Seq(S) /\ Len(q) = IF n + 1 <= Len(s) THEN Len(s) - (n + 1) + 1 ELSE 0
          /\ \A i \in 1..Len(s) - (n + 1) + 1 : q[i] = s[(n + 1) + i - 1]
      BY <2>5, SubSeqProperties
    <3> DEFINE l == Len(s)
    <3> HIDE DEF l
    <3>2. (IF n + 1 <= l THEN l - (n + 1) + 1 ELSE 0) = l - n /\ l - (n + 1) + 1 = l - n
      <4>1. l \in Nat /\ n \in 1..l
        BY <2>5 DEF l
      <4> QED BY <4>1
    <3>3. \A i \in 1..l - n : (n + 1) + i - 1 = n + i
      BY <2>5 DEF l
    <3> USE DEF l
    <3> QED BY <3>1, <3>2, <3>3
  <2> r = p \o q
    BY <2>4
  <2> HIDE DEF p, q, r
  <2>8. /\ r \in Seq(S) /\ Len(r) = Len(s) - 1
        /\ \A i \in 1..Len(s) - 1 : r[i] = IF i <= n - 1 THEN s[i] ELSE s[i + 1]
    <3>1. /\ r \in Seq(S) /\ Len(r) = Len(p) + Len(q)
          /\ \A i \in 1..Len(p) + Len(q) : r[i] =
               IF i <= Len(p) THEN p[i] ELSE q[i - Len(p)]
      BY <2>6, <2>7, ConcatProperties, ZenonT(90)
    <3>2. \A i \in 1..Len(s) - 1 : i > n - 1 => q[i - (n - 1)] = s[i + 1]
      <4>1. TAKE i \in 1..Len(s) - 1
      <4>2. HAVE i > n - 1
      <4>3. i - (n - 1) \in 1..Len(s) - n /\ n + (i - (n - 1)) = i + 1
        BY <4>2, <2>5
      <4> QED BY <4>3, <2>7
    <3>3. Len(r) = Len(s) - 1 /\ Len(p) + Len(q) = Len(s) - 1
      BY <3>1, <2>5, <2>6, <2>7
    <3>4. ASSUME NEW i \in 1..Len(s) - 1
          PROVE  r[i] = IF i <= n - 1 THEN s[i] ELSE s[i + 1]
      BY <3>1, <3>2, <3>3, <2>5, <2>6
    <3> QED BY <3>1, <3>3, <3>4
  <2>9. DOMAIN r = 1..Len(s) - 1
    BY <2>8
  <2>10. ASSUME NEW x, InList(r, x) PROVE InList(s, x) /\ x # e
    <3>1. PICK i \in 1..Len(s) - 1 : r[i] = x
      BY <2>9, <2>10 DEF InList
    <3>2. PICK j \in 1..Len(s) : j # n /\ s[j] = x
      BY <3>1, <2>5, <2>8, SMTT(60)
    <3> QED BY <3>2, <2>1, <2>5 DEF InList
  <2>11. ASSUME NEW x, InList(s, x), x # e PROVE InList(r, x)
    <3>1. PICK i \in 1..Len(s) : s[i] = x
      BY <2>5, <2>11 DEF InList
    <3>2. i # n
      BY <2>1, <2>11, <3>1
    <3>3. CASE i < n
      <4>1. i \in 1..Len(s) - 1 /\ i <= n - 1
        BY <3>3, <2>5
      <4>2. r[i] = x
        BY <4>1, <3>1, <2>8
      <4> QED BY <4>1, <4>2, <2>9 DEF InList
    <3>4. CASE i > n
      <4>1. i - 1 \in 1..Len(s) - 1 /\ ~(i - 1 <= n - 1) /\ (i - 1) + 1 = i
        BY <3>4, <2>5
      <4>2. r[i - 1] = x
        BY <4>1, <3>1, <2>8
      <4> QED BY <4>1, <4>2, <2>9 DEF InList
    <3> QED BY <3>2, <3>3, <3>4, <2>5
  <2>12. ASSUME NEW i \in DOMAIN r, NEW j \in DOMAIN r, r[i] = r[j] PROVE i = j
    <3>1. i \in 1..Len(s) - 1 /\ j \in 1..Len(s) - 1
      BY <2>9, <2>12
    <3>2. PICK m \in DOMAIN s : r[i] = s[m] /\ m = IF i <= n - 1 THEN i ELSE i + 1
      BY <3>1, <2>5, <2>8, SMTT(60)
    <3>3. PICK l \in DOMAIN s : r[j] = s[l] /\ l = IF j <= n - 1 THEN j ELSE j + 1
      BY <3>1, <2>5, <2>8
    <3>4. m = l
      BY <3>2, <3>3, <2>12
    <3> QED BY <3>1, <3>2, <3>3, <3>4, <2>5
  <2> QED BY <2>8, <2>10, <2>11, <2>12 DEF r
<1> QED BY <1>1, <1>2
LEMMA AppendInList ==
  ASSUME NEW S, NEW s \in Seq(S), NEW e \in S
  PROVE  /\ Append(s, e) \in Seq(S)
         /\ \A x : InList(Append(s, e), x) <=> InList(s, x) \/ x = e
         /\ ~InList(s, e) /\ (\A i, j \in DOMAIN s : s[i] = s[j] => i = j) =>
              \A i, j \in DOMAIN Append(s, e) : Append(s, e)[i] = Append(s, e)[j] => i = j
<1> DEFINE a == Append(s, e)
           n == Len(s)
<1>1. /\ a \in Seq(S) /\ Len(a) = n + 1 /\ n \in Nat
      /\ \A i \in 1..n : a[i] = s[i]
      /\ a[n + 1] = e
  BY AppendProperties
<1>2. DOMAIN s = 1..n /\ DOMAIN a = 1..n + 1
  BY <1>1
<1> HIDE DEF a, n
<1>3. \A i \in 1..n + 1 : i \in 1..n \/ i = n + 1
  BY <1>1
<1>4. 1..n \subseteq 1..n + 1 /\ n + 1 \in 1..n + 1
  BY <1>1
<1>5. \A x : InList(a, x) <=> InList(s, x) \/ x = e
  BY <1>1, <1>2, <1>3, <1>4 DEF InList
<1>6. ASSUME ~InList(s, e), \A i, j \in DOMAIN s : s[i] = s[j] => i = j,
             NEW i \in DOMAIN a, NEW j \in DOMAIN a, a[i] = a[j]
      PROVE  i = j
  BY <1>1, <1>2, <1>3, <1>6, Zenon DEF InList
<1> QED BY <1>1, <1>5, <1>6 DEF a

-----------------------------------------------------------------------------
(* How many elements of a sequence are x.                                   *)

CountIn(s, x) == Cardinality({i \in DOMAIN s : s[i] = x})

LEMMA CountType ==
  ASSUME NEW S, NEW s \in Seq(S), NEW x
  PROVE  /\ CountIn(s, x) \in Nat /\ IsFiniteSet({i \in DOMAIN s : s[i] = x})
         /\ CountIn(s, x) = 0 <=> ~InList(s, x)
<1>1. DOMAIN s = 1..Len(s) /\ Len(s) \in Nat
  OBVIOUS
<1>2. IsFiniteSet(1..Len(s))
  BY <1>1, UpTo
<1>3. {i \in DOMAIN s : s[i] = x} \in SUBSET (1..Len(s))
  BY <1>1
<1>4. IsFiniteSet({i \in DOMAIN s : s[i] = x})
  BY <1>2, <1>3, FS_Subset
<1> QED BY <1>4, FS_CardinalityType, FS_EmptySet DEF CountIn, InList

LEMMA CountEmpty == \A x : CountIn(<<>>, x) = 0
<1>1. \A x : {i \in DOMAIN <<>> : <<>>[i] = x} = {}
  OBVIOUS
<1> QED BY <1>1, FS_EmptySet, Zenon DEF CountIn

LEMMA CountAppend ==
  ASSUME NEW S, NEW s \in Seq(S), NEW e \in S, NEW x
  PROVE  CountIn(Append(s, e), x) = IF x = e THEN CountIn(s, x) + 1 ELSE CountIn(s, x)
<1> DEFINE a == Append(s, e)
           n == Len(s)
           I == {i \in DOMAIN s : s[i] = x}
           J == {i \in DOMAIN a : a[i] = x}
<1>1. /\ a \in Seq(S) /\ Len(a) = n + 1 /\ n \in Nat
      /\ \A i \in 1..n : a[i] = s[i]
      /\ a[n + 1] = e
  BY AppendProperties
<1>2. DOMAIN s = 1..n /\ DOMAIN a = 1..n + 1
  BY <1>1
<1>3. IsFiniteSet(I) /\ Cardinality(I) = CountIn(s, x) /\ Cardinality(J) = CountIn(a, x)
  BY CountType DEF CountIn
<1> HIDE DEF a, n
<1>4. \A i \in 1..n + 1 : i \in 1..n \/ i = n + 1
  BY <1>1
<1>5. 1..n \subseteq 1..n + 1 /\ n + 1 \in 1..n + 1 /\ n + 1 \notin 1..n
  BY <1>1
<1>6. n + 1 \notin I
  BY <1>2, <1>5
<1>7. CASE x = e
  <2>1. J = I \cup {n + 1}
    BY <1>1, <1>2, <1>4, <1>5, <1>7, Zenon
  <2>2. Cardinality(I \cup {n + 1}) = Cardinality(I) + 1
    <3> HIDE DEF I
    <3> QED BY <1>3, <1>6, FS_AddElement
  <2> QED BY <1>3, <1>7, <2>1, <2>2 DEF a
<1>8. CASE x # e
  <2>1. J = I
    BY <1>1, <1>2, <1>4, <1>5, <1>8, Zenon
  <2> QED BY <1>3, <1>8, <2>1 DEF a
<1> QED BY <1>7, <1>8

LEMMA CountTail ==
  ASSUME NEW S, NEW s \in Seq(S), s # <<>>, NEW x
  PROVE  CountIn(s, x) = IF x = Head(s) THEN CountIn(Tail(s), x) + 1 ELSE CountIn(Tail(s), x)
<1> DEFINE t == Tail(s)
           n == Len(s)
           I == {i \in DOMAIN s : s[i] = x}
           J == {i \in DOMAIN t : t[i] = x}
           K == {i \in DOMAIN s : s[i] = x /\ i # 1}
           f == [i \in J |-> i + 1]
<1>1. /\ t \in Seq(S) /\ Len(t) = n - 1 /\ n \in Nat /\ n >= 1 /\ Head(s) = s[1]
      /\ \A i \in 1..n - 1 : t[i] = s[i + 1]
  <2>1. n \in Nat /\ n # 0
    BY EmptySeq
  <2> QED BY <2>1, HeadTailProperties
<1>2. DOMAIN s = 1..n /\ DOMAIN t = 1..n - 1
  BY <1>1
<1>3. /\ IsFiniteSet(I) /\ Cardinality(I) = CountIn(s, x)
      /\ IsFiniteSet(J) /\ Cardinality(J) = CountIn(t, x) /\ CountIn(t, x) \in Nat
  BY <1>1, CountType, ZenonT(90) DEF CountIn
<1> HIDE DEF t, n
<1>4. ExistsBijection(J, K)
  <2>1. \A i \in J : i \in Int /\ i + 1 \in K
    BY <1>1, <1>2
  <2>2. \A k \in K : k - 1 \in J /\ (k - 1) + 1 = k
    <3>1. TAKE k \in K
    <3>2. k - 1 \in 1..n - 1 /\ (k - 1) + 1 = k
      BY <1>1, <1>2
    <3> QED BY <1>1, <1>2, <3>2
  <2> HIDE DEF J, K
  <2>3. f \in [J -> K] /\ \A i \in J : f[i] = i + 1
    BY <2>1
  <2>4. \A i, j \in J : f[i] = f[j] => i = j
    BY <2>1, <2>3
  <2>5. \A k \in K : \E i \in J : f[i] = k
    BY <2>2, <2>3
  <2> HIDE DEF f
  <2>6. f \in Injection(J, K)
    BY <2>3, <2>4, Fun_IsInj
  <2>7. f \in Surjection(J, K)
    BY <2>3, <2>5, Fun_IsSurj
  <2> QED BY <2>6, <2>7 DEF ExistsBijection, Bijection
<1>5. IsFiniteSet(K) /\ Cardinality(K) = Cardinality(J)
  <2> HIDE DEF J, K
  <2> QED BY <1>3, <1>4, FS_Bijection
<1>6. 1 \notin K /\ (x = s[1] => I = K \cup {1}) /\ (x # s[1] => I = K)
  BY <1>1, <1>2
<1>7. Cardinality(K \cup {1}) = Cardinality(K) + 1
  <2> HIDE DEF K
  <2> QED BY <1>5, <1>6, FS_AddElement
<1> HIDE DEF I, J, K
<1>8. CountIn(s, x) = IF x = Head(s) THEN CountIn(t, x) + 1 ELSE CountIn(t, x)
  BY <1>1, <1>3, <1>5, <1>6, <1>7
<1> QED BY <1>8 DEF t
-----------------------------------------------------------------------------
(* The flattening of a sequence of sequences.                              *)
Running(s) ==
  CHOOSE f : f = [i \in 1 .. Len(s) |-> IF i = 1 THEN s[i] ELSE f[i - 1] \o s[i]]

(* The recursive function in the definition of FlattenSeq exists.          *)
LEMMA RunningExists ==
  ASSUME NEW s, Len(s) \in Nat
  PROVE  \E f : f = [i \in 1 .. Len(s) |-> IF i = 1 THEN s[i] ELSE f[i - 1] \o s[i]]
<1> DEFINE P(n) == \E f : f = [i \in 1 .. n |-> IF i = 1 THEN s[i] ELSE f[i - 1] \o s[i]]
           T == {n \in Nat : ~P(n)}
<1>1. P(0)
  <2>1. 1 .. 0 = {}
    OBVIOUS
  <2> DEFINE f == [i \in {} |-> 0]
  <2>2. f = [i \in {} |-> IF i = 1 THEN s[i] ELSE f[i - 1] \o s[i]]
    OBVIOUS
  <2> QED BY <2>1, <2>2
<1>2. ASSUME NEW n \in Nat, P(n) PROVE P(n + 1)
  <2>1. PICK f : f = [i \in 1 .. n |-> IF i = 1 THEN s[i] ELSE f[i - 1] \o s[i]]
    BY <1>2
  <2> DEFINE g == [i \in 1 .. n + 1 |->
                     IF i = n + 1 THEN (IF i = 1 THEN s[i] ELSE f[i - 1] \o s[i]) ELSE f[i]]
  <2>2. ASSUME NEW i \in 1 .. n + 1
        PROVE  g[i] = IF i = 1 THEN s[i] ELSE g[i - 1] \o s[i]
    <3>1. i # 1 => i - 1 \in 1 .. n + 1 /\ i - 1 # n + 1 /\ g[i - 1] = f[i - 1]
      OBVIOUS
    <3>2. CASE i = n + 1
      BY <3>1, <3>2
    <3>3. CASE i # n + 1
      <4>1. i \in 1 .. n /\ g[i] = f[i]
        BY <3>3
      <4>2. f[i] = IF i = 1 THEN s[i] ELSE f[i - 1] \o s[i]
        BY <4>1, <2>1, Zenon
      <4> QED BY <3>1, <4>1, <4>2
    <3> QED BY <3>2, <3>3
  <2>3. \A i \in 1 .. n + 1 : g[i] = IF i = 1 THEN s[i] ELSE g[i - 1] \o s[i]
    BY <2>2
  <2>4. g = [i \in 1 .. n + 1 |-> g[i]]
    OBVIOUS
  <2> HIDE DEF g
  <2>5. g = [i \in 1 .. n + 1 |-> IF i = 1 THEN s[i] ELSE g[i - 1] \o s[i]]
    BY <2>3, <2>4, Zenon
  <2> QED BY <2>5
<1>3. T = {}
  <2> HIDE DEF P
  <2> SUFFICES ASSUME T # {} PROVE FALSE
    OBVIOUS
  <2>1. PICK n \in T : \A m \in T : n <= m
    BY LeastNat
  <2>2. n # 0 /\ n \in Nat
    BY <1>1, <2>1
  <2>3. n - 1 \in Nat /\ ~(n <= n - 1)
    BY <2>2
  <2>4. P(n - 1)
    BY <2>1, <2>3
  <2>5. P((n - 1) + 1) /\ (n - 1) + 1 = n
    BY <1>2, <2>2, <2>3, <2>4
  <2> QED BY <2>1, <2>5
<1>4. P(Len(s))
  <2> HIDE DEF P
  <2> QED BY <1>3
<1> QED BY <1>4

LEMMA RunningStep ==
  ASSUME NEW s, Len(s) \in Nat, NEW i \in 1 .. Len(s)
  PROVE  Running(s)[i] = IF i = 1 THEN s[1] ELSE Running(s)[i - 1] \o s[i]
<1> DEFINE f == Running(s)
<1>1. f = [j \in 1 .. Len(s) |-> IF j = 1 THEN s[j] ELSE f[j - 1] \o s[j]]
  BY RunningExists, Zenon DEF Running
<1> HIDE DEF f
<1>2. f[i] = IF i = 1 THEN s[i] ELSE f[i - 1] \o s[i]
  BY <1>1, Zenon
<1>3. QED BY <1>2 DEF f

LEMMA FlattenIsRunning ==
  ASSUME NEW s, Len(s) # 0
  PROVE  FlattenSeq(s) = Running(s)[Len(s)]
BY Zenon DEF FlattenSeq, Running

LEMMA RunningType ==
  ASSUME NEW S, NEW s \in Seq(Seq(S))
  PROVE  \A i \in 1 .. Len(s) : Running(s)[i] \in Seq(S)
<1> DEFINE P(n) == n \in 1 .. Len(s) => Running(s)[n] \in Seq(S)
           T == {n \in Nat : ~P(n)}
<1>1. Len(s) \in Nat /\ \A i \in 1 .. Len(s) : s[i] \in Seq(S)
  OBVIOUS
<1>2. ASSUME NEW n \in Nat, n # 0, P(n - 1) PROVE P(n)
  <2>1. HAVE n \in 1 .. Len(s)
  <2>2. Running(s)[n] = IF n = 1 THEN s[1] ELSE Running(s)[n - 1] \o s[n]
    BY <1>1, <2>1, RunningStep
  <2>3. n # 1 => n - 1 \in 1 .. Len(s)
    BY <1>1, <2>1
  <2> QED BY <1>1, <1>2, <2>1, <2>2, <2>3, ConcatProperties
<1>3. T = {}
  <2> HIDE DEF P
  <2> SUFFICES ASSUME T # {} PROVE FALSE
    OBVIOUS
  <2>1. PICK n \in T : \A m \in T : n <= m
    BY LeastNat
  <2>2. P(0)
    BY DEF P
  <2>3. n # 0 /\ n \in Nat
    BY <2>1, <2>2
  <2>4. n - 1 \in Nat /\ ~(n <= n - 1)
    BY <2>3
  <2>5. P(n - 1)
    BY <2>1, <2>4
  <2> QED BY <2>1, <2>3, <2>5, <1>2
<1>4. ASSUME NEW i \in 1 .. Len(s) PROVE i \in Nat
  BY <1>1
<1> QED BY <1>3, <1>4

LEMMA FlattenType ==
  ASSUME NEW S, NEW s \in Seq(Seq(S))
  PROVE  FlattenSeq(s) \in Seq(S)
<1>1. CASE s = <<>>
  <2>1. FlattenSeq(s) = <<>>
    BY <1>1 DEF FlattenSeq
  <2> QED BY <2>1
<1>2. CASE s # <<>>
  <2>1. Len(s) \in Nat \ {0}
    BY <1>2, EmptySeq
  <2>2. Len(s) \in 1 .. Len(s) /\ Len(s) # 0
    BY <2>1
  <2> QED BY <2>2, RunningType, FlattenIsRunning
<1> QED BY <1>1, <1>2

(* Flattening what is put behind one another. *)
LEMMA FlattenConcat ==
  ASSUME NEW S, NEW p \in Seq(Seq(S)), NEW q \in Seq(Seq(S))
  PROVE  FlattenSeq(p \o q) = FlattenSeq(p) \o FlattenSeq(q)
<1> DEFINE r == p \o q
           k == Len(p)
           l == Len(q)
<1>1. /\ k \in Nat /\ l \in Nat /\ r \in Seq(Seq(S)) /\ Len(r) = k + l
      /\ \A i \in 1 .. k + l : r[i] = IF i <= k THEN p[i] ELSE q[i - k]
  BY ConcatProperties
<1>2. /\ FlattenSeq(p) \in Seq(S) /\ FlattenSeq(q) \in Seq(S)
  BY FlattenType
<1> HIDE DEF r, k, l
<1>7. Len(r) \in Nat /\ 1 .. Len(r) = 1 .. k + l
  BY <1>1
<1>3. \A i \in 1 .. k : Running(r)[i] = Running(p)[i]
  <2> DEFINE P(n) == n \in 1 .. k => Running(r)[n] = Running(p)[n]
             T == {n \in Nat : ~P(n)}
  <2>1. ASSUME NEW n \in Nat, n # 0, P(n - 1) PROVE P(n)
    <3>1. HAVE n \in 1 .. k
    <3>2. n \in 1 .. k + l /\ n <= k /\ (n # 1 => n - 1 \in 1 .. k)
      BY <1>1, <3>1
    <3>3. Running(p)[n] = IF n = 1 THEN p[1] ELSE Running(p)[n - 1] \o p[n]
      BY <1>1, <3>1, RunningStep DEF k
    <3>4. Running(r)[n] = IF n = 1 THEN r[1] ELSE Running(r)[n - 1] \o r[n]
      BY <1>7, <3>2, RunningStep
    <3>5. r[n] = p[n]
      BY <1>1, <3>2
    <3> QED BY <2>1, <3>2, <3>3, <3>4, <3>5
  <2>2. T = {}
    <3> HIDE DEF P
    <3> SUFFICES ASSUME T # {} PROVE FALSE
      OBVIOUS
    <3>1. PICK n \in T : \A m \in T : n <= m
      BY LeastNat
    <3>2. P(0)
      BY DEF P
    <3>3. n # 0 /\ n \in Nat
      BY <3>1, <3>2
    <3>4. n - 1 \in Nat /\ ~(n <= n - 1)
      BY <3>3
    <3>5. P(n - 1)
      BY <3>1, <3>4
    <3> QED BY <3>1, <3>3, <3>5, <2>1
  <2>3. ASSUME NEW i \in 1 .. k PROVE i \in Nat
    BY <1>1
  <2> QED BY <2>2, <2>3
<1>4. CASE q = <<>>
  <2>1. r = p /\ FlattenSeq(q) = <<>>
    BY <1>4, ConcatEmptySeq DEF r, FlattenSeq
  <2> QED BY <2>1, <1>2, ConcatEmptySeq DEF r
<1>5. CASE p = <<>>
  <2>1. r = q /\ FlattenSeq(p) = <<>>
    BY <1>5, ConcatEmptySeq DEF r, FlattenSeq
  <2> QED BY <2>1, <1>2, ConcatEmptySeq DEF r
<1>6. CASE p # <<>> /\ q # <<>>
  <2>1. k # 0 /\ l # 0
    BY <1>6, EmptySeq DEF k, l
  <2> DEFINE F == FlattenSeq(p)
  <2>2. F = Running(p)[k] /\ k \in 1 .. k /\ FlattenSeq(q) = Running(q)[l] /\ l \in 1 .. l
    BY <2>1, <1>1, FlattenIsRunning DEF k, l
  <2>3. FlattenSeq(r) = Running(r)[k + l]
    <3>1. Len(r) # 0 /\ Len(r) = k + l
      BY <2>1, <1>1
    <3> QED BY <3>1, FlattenIsRunning
  <2> HIDE DEF F
  <2> DEFINE P(n) == n \in 1 .. l => Running(r)[k + n] = F \o Running(q)[n]
             T == {n \in Nat : ~P(n)}
  <2>4. ASSUME NEW n \in Nat, n # 0, P(n - 1) PROVE P(n)
    <3>1. HAVE n \in 1 .. l
    <3>2. k + n \in 1 .. k + l /\ ~(k + n <= k) /\ (k + n) - k = n /\ k + n # 1 /\ (k + n) - 1 = k + (n - 1)
      BY <1>1, <2>1, <3>1
    <3>3. Running(q)[n] = IF n = 1 THEN q[1] ELSE Running(q)[n - 1] \o q[n]
      BY <1>1, <3>1, RunningStep DEF l
    <3>4. Running(r)[k + n] = Running(r)[k + (n - 1)] \o q[n]
      <4>1. r[k + n] = q[n]
        BY <1>1, <3>2
      <4>2. Running(r)[k + n] = IF k + n = 1 THEN r[1] ELSE Running(r)[(k + n) - 1] \o r[k + n]
        BY <1>7, <3>2, RunningStep
      <4> QED BY <4>1, <4>2, <3>2
    <3>5. F \in Seq(S) /\ q[n] \in Seq(S)
      BY <1>2, <1>1, <3>1 DEF F, l
    <3>6. CASE n = 1
      <4>1. k + (n - 1) = k /\ Running(r)[k] = Running(p)[k]
        <5>1. k + (n - 1) = k
          BY <1>1, <3>6
        <5>2. Running(r)[k] = Running(p)[k]
          BY <1>3, <2>2
        <5> QED BY <5>1, <5>2
      <4> QED BY <4>1, <3>3, <3>4, <3>6, <2>2
    <3>7. CASE n # 1
      <4>1. n - 1 \in 1 .. l
        BY <1>1, <3>1, <3>7
      <4>2. Running(q)[n - 1] \in Seq(S)
        BY <4>1, RunningType DEF l
      <4>3. (F \o Running(q)[n - 1]) \o q[n] = F \o (Running(q)[n - 1] \o q[n])
        <5> DEFINE a == Running(q)[n - 1]
                   b == q[n]
        <5>1. a \in Seq(S) /\ b \in Seq(S)
          BY <4>2, <3>5
        <5> HIDE DEF a, b
        <5>2. (F \o a) \o b = F \o (a \o b)
          BY <5>1, <3>5, ConcatAssociative, SMTT(60)
        <5> QED BY <5>2 DEF a, b
      <4> QED BY <4>1, <4>3, <3>3, <3>4, <3>7, <2>4
    <3> QED BY <3>6, <3>7
  <2>5. T = {}
    <3> HIDE DEF P
    <3> SUFFICES ASSUME T # {} PROVE FALSE
      OBVIOUS
    <3>1. PICK n \in T : \A m \in T : n <= m
      BY LeastNat
    <3>2. P(0)
      BY DEF P
    <3>3. n # 0 /\ n \in Nat
      BY <3>1, <3>2
    <3>4. n - 1 \in Nat /\ ~(n <= n - 1)
      BY <3>3
    <3>5. P(n - 1)
      BY <3>1, <3>4
    <3> QED BY <3>1, <3>3, <3>5, <2>4
  <2>6. P(l)
    <3> HIDE DEF P
    <3> QED BY <2>5, <1>1
  <2>7. Running(r)[k + l] = F \o Running(q)[l]
    BY <2>6, <1>1, <2>1
  <2> QED BY <2>2, <2>3, <2>7 DEF F, r
<1> QED BY <1>4, <1>5, <1>6

LEMMA FlattenOne ==
  ASSUME NEW S, NEW e \in Seq(S)
  PROVE  FlattenSeq(<<e>>) = e
<1>1. Len(<<e>>) = 1 /\ <<e>>[1] = e
  OBVIOUS
<1>2. FlattenSeq(<<e>>) = Running(<<e>>)[1]
  <2>1. Len(<<e>>) # 0
    BY <1>1
  <2> QED BY <1>1, <2>1, FlattenIsRunning
<1>3. Running(<<e>>)[1] = <<e>>[1]
  <2>1. Len(<<e>>) \in Nat /\ 1 \in 1 .. Len(<<e>>)
    BY <1>1
  <2> QED BY <2>1, RunningStep
<1> QED BY <1>1, <1>2, <1>3
===============================================================================
