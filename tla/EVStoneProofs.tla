---------------------------- MODULE EVStoneProofs ----------------------------
(***************************************************************************)
(* Proofs about the stones of a CManager, for every set of threads, every  *)
(* number of events and every set of stone graphs and programs: the places *)
(* of the queue items, the references of the events, the stores, and the   *)
(* events that wait when all is quiet.                                     *)
(***************************************************************************)
EXTENDS EVStone, ListLemmas

-----------------------------------------------------------------------------
(* Stacks.  A step changes the innermost calls of one thread; its k        *)
(* outermost calls and those of the other threads stay.                    *)
Stays(T, S, st, st2, t, k) ==
  /\ st2 \in [T -> Seq(S)]
  /\ \A u \in T : u # t => st2[u] = st[u]
  /\ k \in Nat /\ Len(st[t]) \in Nat /\ Len(st2[t]) \in Nat
  /\ k <= Len(st[t]) /\ k <= Len(st2[t])
  /\ \A i \in 1 .. k : st2[t][i] = st[t][i]

LEMMA FrontOf ==
  ASSUME NEW S, NEW s \in Seq(S), s # <<>>
  PROVE  /\ Front(s) \in Seq(S) /\ Len(s) \in Nat \ {0} /\ Len(Front(s)) = Len(s) - 1
         /\ \A i \in 1 .. Len(s) - 1 : Front(s)[i] = s[i]
         /\ Last(s) = s[Len(s)] /\ Last(s) \in S
<1>1. Len(s) \in Nat \ {0} /\ \A i \in 1 .. Len(s) : s[i] \in S
  BY EmptySeq, LenProperties, ElementOfSeq
<1>2. Len(s) - 1 \in 0 .. Len(s) /\ \A i \in 1 .. Len(s) - 1 : s[i] \in S
  BY <1>1
<1>3. /\ SubSeq(s, 1, Len(s) - 1) \in Seq(S)
      /\ Len(SubSeq(s, 1, Len(s) - 1)) = IF 1 <= Len(s) - 1 THEN Len(s) - 1 - 1 + 1 ELSE 0
      /\ \A i \in 1 .. Len(s) - 1 - 1 + 1 : SubSeq(s, 1, Len(s) - 1)[i] = s[1 + i - 1]
  BY <1>2, SubSeqProperties
<1>4. \A n \in Nat : n > 0 =>
        /\ (IF 1 <= n - 1 THEN n - 1 - 1 + 1 ELSE 0) = n - 1 /\ n - 1 - 1 + 1 = n - 1
        /\ n \in 1 .. n
        /\ \A i \in 1 .. n - 1 : 1 + i - 1 = i
  OBVIOUS
<1>5. Front(s) = SubSeq(s, 1, Len(s) - 1) /\ Last(s) = s[Len(s)]
  BY DEF Front, Last
<1>6. Len(s) > 0 /\ Len(s) \in 1 .. Len(s)
  BY <1>1
<1>7. Len(Front(s)) = Len(s) - 1 /\ Front(s) \in Seq(S) /\ Last(s) \in S
  <2>1. (IF 1 <= Len(s) - 1 THEN Len(s) - 1 - 1 + 1 ELSE 0) = Len(s) - 1
    BY <1>1, <1>4, <1>6
  <2>2. Last(s) \in S
    BY <1>1, <1>5, <1>6
  <2> QED BY <1>3, <1>5, <2>1, <2>2
<1>8. ASSUME NEW i \in 1 .. Len(s) - 1 PROVE Front(s)[i] = s[i]
  <2>1. Len(s) - 1 - 1 + 1 = Len(s) - 1 /\ 1 + i - 1 = i
    BY <1>1, <1>4, <1>6
  <2> QED BY <1>3, <1>5, <2>1
<1> QED BY <1>1, <1>5, <1>7, <1>8

(* The stacks after a call, two calls, a return, and so on of thread t.     *)
Called1(st, t, f)     == [st EXCEPT ![t] = @ \o <<f>>]
Called2(st, t, f, g)  == [st EXCEPT ![t] = @ \o <<f, g>>]
Popped(st, t)         == [st EXCEPT ![t] = Front(@)]
Swapped1(st, t, f)    == [st EXCEPT ![t] = Append(Front(@), f)]
Swapped2(st, t, f, g) == [st EXCEPT ![t] = Front(@) \o <<f, g>>]
Returned(st, t, f)    == [st EXCEPT ![t] = Append(Front(Front(@)), f)]

(* A thread makes a call, or two.                                           *)
LEMMA CallOne ==
  ASSUME NEW T, NEW S, NEW st \in [T -> Seq(S)], NEW t \in T, NEW f \in S
  PROVE  /\ Stays(T, S, st, Called1(st, t, f), t, Len(st[t]))
         /\ Len(Called1(st, t, f)[t]) = Len(st[t]) + 1 /\ Called1(st, t, f)[t][Len(st[t]) + 1] = f
<1> DEFINE s == st[t]
           p == s \o <<f>>
           n == Len(s)
<1>1. s \in Seq(S) /\ n \in Nat /\ <<f>> \in Seq(S) /\ Len(<<f>>) = 1 /\ <<f>>[1] = f
  BY LenProperties
<1>2. /\ p \in Seq(S) /\ Len(p) = n + 1
      /\ \A i \in 1 .. n + 1 : p[i] = IF i <= n THEN s[i] ELSE <<f>>[i - n]
  BY <1>1, ConcatProperties
<1>3. n <= n + 1 /\ n <= n /\ n + 1 \in Nat /\ (n + 1) - n = 1 /\ n + 1 \in 1 .. n + 1 /\ ~(n + 1 <= n)
  BY <1>1
<1>4. \A i \in 1 .. n : i \in 1 .. n + 1 /\ i <= n
  BY <1>1
<1>5. p[n + 1] = f /\ \A i \in 1 .. n : p[i] = s[i]
  BY <1>1, <1>2, <1>3, <1>4
<1> DEFINE st2 == [st EXCEPT ![t] = p]
<1>6. st2 \in [T -> Seq(S)] /\ st2[t] = p /\ \A u \in T : u # t => st2[u] = st[u]
  BY <1>2
<1> HIDE DEF p, st2
<1>7. Stays(T, S, st, st2, t, n)
  BY <1>1, <1>2, <1>3, <1>5, <1>6 DEF Stays
<1> QED BY <1>7, <1>6, <1>5, <1>2 DEF p, st2, Called1

LEMMA CallTwo ==
  ASSUME NEW T, NEW S, NEW st \in [T -> Seq(S)], NEW t \in T, NEW f \in S, NEW g \in S
  PROVE  /\ Stays(T, S, st, Called2(st, t, f, g), t, Len(st[t]))
         /\ Len(Called2(st, t, f, g)[t]) = Len(st[t]) + 2
         /\ Called2(st, t, f, g)[t][Len(st[t]) + 1] = f /\ Called2(st, t, f, g)[t][Len(st[t]) + 2] = g
<1> DEFINE s == st[t]
           p == s \o <<f, g>>
           n == Len(s)
<1>1. /\ s \in Seq(S) /\ n \in Nat
      /\ <<f, g>> \in Seq(S) /\ Len(<<f, g>>) = 2 /\ <<f, g>>[1] = f /\ <<f, g>>[2] = g
  BY LenProperties
<1>2. /\ p \in Seq(S) /\ Len(p) = n + 2
      /\ \A i \in 1 .. n + 2 : p[i] = IF i <= n THEN s[i] ELSE <<f, g>>[i - n]
  BY <1>1, ConcatProperties
<1>3. /\ n <= n + 2 /\ n <= n /\ n + 2 \in Nat /\ (n + 1) - n = 1 /\ (n + 2) - n = 2
      /\ n + 1 \in 1 .. n + 2 /\ n + 2 \in 1 .. n + 2 /\ ~(n + 1 <= n) /\ ~(n + 2 <= n)
  BY <1>1
<1>4. \A i \in 1 .. n : i \in 1 .. n + 2 /\ i <= n
  BY <1>1
<1>5. p[n + 1] = f /\ p[n + 2] = g /\ \A i \in 1 .. n : p[i] = s[i]
  BY <1>1, <1>2, <1>3, <1>4
<1> DEFINE st2 == [st EXCEPT ![t] = p]
<1>6. st2 \in [T -> Seq(S)] /\ st2[t] = p /\ \A u \in T : u # t => st2[u] = st[u]
  BY <1>2
<1> HIDE DEF p, st2
<1>7. Stays(T, S, st, st2, t, n)
  BY <1>1, <1>2, <1>3, <1>5, <1>6 DEF Stays
<1> QED BY <1>7, <1>6, <1>5, <1>2 DEF p, st2, Called2

(* The innermost call returns.                                              *)
LEMMA ReturnOne ==
  ASSUME NEW T, NEW S, NEW st \in [T -> Seq(S)], NEW t \in T, st[t] # <<>>
  PROVE  /\ Stays(T, S, st, Popped(st, t), t, Len(st[t]) - 1) /\ Len(Popped(st, t)[t]) = Len(st[t]) - 1
<1> DEFINE s == st[t]
           p == Front(s)
           n == Len(s)
<1>1. /\ p \in Seq(S) /\ n \in Nat \ {0} /\ Len(p) = n - 1
      /\ \A i \in 1 .. n - 1 : p[i] = s[i]
  BY FrontOf
<1>2. n - 1 <= n /\ n - 1 <= n - 1 /\ n - 1 \in Nat
  BY <1>1
<1> DEFINE st2 == [st EXCEPT ![t] = p]
<1>3. st2 \in [T -> Seq(S)] /\ st2[t] = p /\ \A u \in T : u # t => st2[u] = st[u]
  BY <1>1
<1> HIDE DEF p, st2
<1>4. Stays(T, S, st, st2, t, n - 1)
  BY <1>1, <1>2, <1>3 DEF Stays
<1> QED BY <1>1, <1>3, <1>4 DEF p, st2, Popped

(* The innermost call goes on, and perhaps makes a call.                    *)
LEMMA ReplaceOne ==
  ASSUME NEW T, NEW S, NEW st \in [T -> Seq(S)], NEW t \in T, st[t] # <<>>, NEW f \in S
  PROVE  /\ Stays(T, S, st, Swapped1(st, t, f), t, Len(st[t]) - 1)
         /\ Len(Swapped1(st, t, f)[t]) = Len(st[t]) /\ Swapped1(st, t, f)[t][Len(st[t])] = f
<1> DEFINE s == st[t]
           q == Front(s)
           p == Append(q, f)
           n == Len(s)
<1>1. /\ q \in Seq(S) /\ n \in Nat \ {0} /\ Len(q) = n - 1
      /\ \A i \in 1 .. n - 1 : q[i] = s[i]
  BY FrontOf
<1> HIDE DEF q
<1>2. p \in Seq(S) /\ Len(p) = n - 1 + 1 /\ p[n - 1 + 1] = f /\ \A i \in 1 .. n - 1 : p[i] = q[i]
  BY <1>1, AppendProperties
<1>3. n - 1 <= n /\ n - 1 \in Nat /\ n - 1 + 1 = n
  BY <1>1
<1>4. Len(p) = n /\ p[n] = f /\ \A i \in 1 .. n - 1 : p[i] = s[i]
  BY <1>1, <1>2, <1>3
<1> DEFINE st2 == [st EXCEPT ![t] = p]
<1>5. st2 \in [T -> Seq(S)] /\ st2[t] = p /\ \A u \in T : u # t => st2[u] = st[u]
  BY <1>2
<1> HIDE DEF p, st2
<1>6. Stays(T, S, st, st2, t, n - 1)
  BY <1>1, <1>3, <1>4, <1>5 DEF Stays
<1> QED BY <1>4, <1>5, <1>6 DEF p, st2, q, Swapped1

LEMMA ReplaceTwo ==
  ASSUME NEW T, NEW S, NEW st \in [T -> Seq(S)], NEW t \in T, st[t] # <<>>,
         NEW f \in S, NEW g \in S
  PROVE  /\ Stays(T, S, st, Swapped2(st, t, f, g), t, Len(st[t]) - 1)
         /\ Len(Swapped2(st, t, f, g)[t]) = Len(st[t]) + 1
         /\ Swapped2(st, t, f, g)[t][Len(st[t])] = f /\ Swapped2(st, t, f, g)[t][Len(st[t]) + 1] = g
<1> DEFINE s == st[t]
           q == Front(s)
           p == q \o <<f, g>>
           n == Len(s)
<1>1. /\ q \in Seq(S) /\ n \in Nat \ {0} /\ Len(q) = n - 1
      /\ \A i \in 1 .. n - 1 : q[i] = s[i]
  BY FrontOf
<1> HIDE DEF q
<1>2. <<f, g>> \in Seq(S) /\ Len(<<f, g>>) = 2 /\ <<f, g>>[1] = f /\ <<f, g>>[2] = g
  OBVIOUS
<1>3. /\ p \in Seq(S) /\ Len(p) = (n - 1) + 2
      /\ \A i \in 1 .. (n - 1) + 2 : p[i] = IF i <= n - 1 THEN q[i] ELSE <<f, g>>[i - (n - 1)]
  BY <1>1, <1>2, ConcatProperties
<1>4. /\ n - 1 <= n /\ n - 1 <= n + 1 /\ n + 1 \in Nat /\ n - 1 \in Nat /\ (n - 1) + 2 = n + 1
      /\ n - (n - 1) = 1 /\ (n + 1) - (n - 1) = 2
      /\ n \in 1 .. n + 1 /\ n + 1 \in 1 .. n + 1 /\ ~(n <= n - 1) /\ ~(n + 1 <= n - 1)
  BY <1>1
<1>5. \A i \in 1 .. n - 1 : i \in 1 .. n + 1 /\ i <= n - 1
  BY <1>1
<1>6. Len(p) = n + 1 /\ p[n] = f /\ p[n + 1] = g /\ \A i \in 1 .. n - 1 : p[i] = s[i]
  BY <1>1, <1>2, <1>3, <1>4, <1>5
<1> DEFINE st2 == [st EXCEPT ![t] = p]
<1>7. st2 \in [T -> Seq(S)] /\ st2[t] = p /\ \A u \in T : u # t => st2[u] = st[u]
  BY <1>3
<1> HIDE DEF p, st2
<1>8. Stays(T, S, st, st2, t, n - 1)
  BY <1>1, <1>4, <1>6, <1>7 DEF Stays
<1> QED BY <1>6, <1>7, <1>8 DEF p, st2, q, Swapped2

(* The innermost call returns, and the one below it goes on.                *)
LEMMA ReturnTo ==
  ASSUME NEW T, NEW S, NEW st \in [T -> Seq(S)], NEW t \in T, Len(st[t]) > 1, NEW f \in S
  PROVE  /\ Stays(T, S, st, Returned(st, t, f), t, Len(st[t]) - 2)
         /\ Len(Returned(st, t, f)[t]) = Len(st[t]) - 1 /\ Returned(st, t, f)[t][Len(st[t]) - 1] = f
         /\ Last(Front(st[t])) = st[t][Len(st[t]) - 1] /\ Last(Front(st[t])) \in S
<1> DEFINE s == st[t]
           q == Front(s)
           r == Front(q)
           p == Append(r, f)
           n == Len(s)
<1>1. s \in Seq(S) /\ n \in Nat /\ s # <<>>
  BY LenProperties, EmptySeq
<1>2. q \in Seq(S) /\ Len(q) = n - 1 /\ \A i \in 1 .. n - 1 : q[i] = s[i]
  BY <1>1, FrontOf
<1>3. n > 1 /\ n - 1 # 0 /\ n - 1 \in 1 .. n - 1
  <2>1. \A m \in Nat : m > 1 => m - 1 # 0 /\ m - 1 \in 1 .. m - 1
    OBVIOUS
  <2> QED BY <1>1, <2>1
<1>4. q # <<>>
  BY <1>2, <1>3, EmptySeq
<1> HIDE DEF q
<1>5. /\ r \in Seq(S) /\ Len(r) = (n - 1) - 1 /\ \A i \in 1 .. (n - 1) - 1 : r[i] = q[i]
      /\ Last(q) = q[n - 1] /\ Last(q) \in S
  BY <1>2, <1>4, FrontOf
<1> HIDE DEF r
<1>6. /\ p \in Seq(S) /\ Len(p) = Len(r) + 1 /\ p[Len(r) + 1] = f
      /\ \A i \in 1 .. Len(r) : p[i] = r[i]
  BY <1>5, AppendProperties
<1>7. /\ (n - 1) - 1 = n - 2 /\ n - 2 + 1 = n - 1 /\ n - 2 \in Nat /\ n - 1 \in Nat
      /\ n - 2 <= n /\ n - 2 <= n - 1 /\ \A i \in 1 .. n - 2 : i \in 1 .. n - 1
  <2>1. \A m \in Nat : m > 1 =>
          /\ (m - 1) - 1 = m - 2 /\ m - 2 + 1 = m - 1 /\ m - 2 \in Nat /\ m - 1 \in Nat
          /\ m - 2 <= m /\ m - 2 <= m - 1 /\ \A i \in 1 .. m - 2 : i \in 1 .. m - 1
    OBVIOUS
  <2> QED BY <1>1, <1>3, <2>1
<1>8. Len(p) = n - 1 /\ p[n - 1] = f /\ \A i \in 1 .. n - 2 : p[i] = s[i]
  BY <1>2, <1>5, <1>6, <1>7
<1> DEFINE st2 == [st EXCEPT ![t] = p]
<1>9. st2 \in [T -> Seq(S)] /\ st2[t] = p /\ \A u \in T : u # t => st2[u] = st[u]
  BY <1>6
<1> HIDE DEF p, st2
<1>10. Stays(T, S, st, st2, t, n - 2)
  BY <1>1, <1>7, <1>8, <1>9 DEF Stays
<1> QED BY <1>2, <1>3, <1>5, <1>8, <1>9, <1>10 DEF p, st2, q, r, Returned

-----------------------------------------------------------------------------
(* Types.  Every frame of a stack is in FrameSet: a call that returns a     *)
(* reference has an event, and only stores are sent from.                   *)
FrameSet ==
  {f \in [op : Ops, at : Phases, stone : Nat, event : Events \cup {None}, item : Nat,
          more : BOOLEAN] :
     /\ f.op \notin {"loop", "task"} => f.stone \in Stones
     /\ f.op \in {"send", "limit", "overflow"} => IsStore(f.stone)
     /\ f.op \in {"submit", "split", "handler"} => f.event # None
     /\ f.op \notin {"submit", "split", "handler", "limit"} => f.event = None
     /\ f.op = "split" => f.item # 0
     /\ f.op = "loop" => f.at \in {"active", "scan"}
     /\ f.op = "stone" => f.at \in {"pending", "items"}
     /\ f.op = "stone" /\ f.at = "pending" => IsStore(f.stone)}

StackTypes == stack \in [Threads -> Seq(FrameSet)]

QueueTypes ==
  LET Item == 1 .. Len(items) IN
  /\ items \in Seq(Events) /\ freeItems \in Seq(Item)
  /\ queue \in [Stones -> Seq(Item)] /\ store \in [Stones -> Seq(Item)]

EventTypes ==
  /\ ref \in [Events -> Int] /\ appMem \in [Events -> BOOLEAN]
  /\ origin \in Seq([kind : SubmitKinds, stone : Stones])
  /\ returned \in [Events -> BOOLEAN]
  /\ delivered \in [Stones -> [Events -> Nat]]

StoneTypes ==
  /\ frozen \in [Stones -> BOOLEAN] /\ draining \in [Stones -> 0 .. 2]
  /\ processing \in [Stones -> BOOLEAN] /\ numStored \in [Stones -> Int]
  /\ maxStored \in [Stones -> Int] /\ sending \in [Stones -> BOOLEAN]
  /\ \A s \in Stones : sending[s] => IsStore(s)

OtherTypes ==
  /\ program \in Programs /\ lastActive \in Stones \cup {None}
  /\ inPlay \in Int /\ tasks \in Nat /\ calls \in 0 .. program.maxCalls

Types == StackTypes /\ QueueTypes /\ EventTypes /\ StoneTypes /\ OtherTypes

(* What is below what in a stack.                                           *)
Runners == {"submit", "send", "limit", "task"}

On(f, d, b) ==
  /\ f.op = "loop" => d > 1 /\ b.op \in Runners
  /\ f.op \in {"stone", "crashed"} => d > 1 /\ b.op = "loop"
  /\ f.op \in {"split", "overflow", "handler"} => d > 1 /\ b.op = "stone" /\ b.at = "items"
  /\ f.op \in {"submit", "send", "limit"} => d = 1 \/ b.op = "handler"
  /\ f.op \in {"task", "drain"} => d = 1

Nested == \A t \in Threads : \A d \in 1 .. Len(stack[t]) : On(stack[t][d], d, stack[t][d - 1])

OneLock == \A t, u \in Threads : Locks(t) /\ Locks(u) => t = u

Shape == StackTypes /\ Nested /\ OneLock

(* The stores: num_stored is not below what a store holds, which is within  *)
(* the limit but for the event that an overflow is about to send.           *)
Overflowing(s) == \E t \in Threads : At(t, "overflow") /\ Top(t).stone = s
SendingNow(s) ==
  \E t \in Threads : At(t, "stone") /\ Top(t).at = "pending" /\ Top(t).stone = s

StoreInv ==
  /\ \A s \in Stones : Len(store[s]) <= numStored[s] /\ maxStored[s] >= -1
  /\ \A s \in Stones : Overflowing(s) => store[s] # <<>>
  /\ \A s \in Stones : SendingNow(s) => sending[s]
  /\ \A s \in Stones : maxStored[s] # -1 /\ ~Limiting(s) =>
       Len(store[s]) <= maxStored[s] + (IF Overflowing(s) THEN 1 ELSE 0)

(* The places of the queue items, and what is in play.                      *)
Once(s) == \A i, j \in DOMAIN s : s[i] = s[j] => i = j

Waits(s, i) == InList(queue[s], i)
Kept(s, i)  == InList(store[s], i)

OnePlace ==
  /\ Once(freeItems) /\ \A s \in Stones : Once(queue[s]) /\ Once(store[s])
  /\ \A i : \A s, u \in Stones :
       /\ Waits(s, i) /\ Waits(u, i) => s = u
       /\ Kept(s, i) /\ Kept(u, i) => s = u
       /\ ~(Waits(s, i) /\ Kept(u, i))
       /\ InList(freeItems, i) => ~Waits(s, i) /\ ~Kept(s, i)

Waiting == {i \in 1 .. Len(items) : \E s \in Stones : Waits(s, i)}
Senders == {s \in Stones : sending[s]}

ItemInv == OnePlace /\ inPlay = Cardinality(Waiting) + Cardinality(Senders)

(* What refers to an event: queue items, and frames of the stacks.          *)
ItemsOf(e) ==
  {i \in 1 .. Len(items) : items[i] = e /\ \E s \in Stones : Waits(s, i) \/ Kept(s, i)}
FramesOf(st, e) ==
  {x \in Threads \X Nat : x[2] \in 1 .. Len(st[x[1]]) /\ st[x[1]][x[2]].event = e}
Refs(e) == Cardinality(ItemsOf(e)) + Cardinality(FramesOf(stack, e))

(* The references; the events submitted so far come first.                  *)
NoStores == \A s \in Stones : ~IsStore(s)

RefInv ==
  /\ \A e \in Events : ref[e] >= Refs(e) /\ (NoStores => ref[e] = Refs(e))
  /\ AppDataReleased
  /\ Len(origin) <= MaxEvents
  /\ \A e \in Events : e > Len(origin) => ref[e] = 0 /\ ~returned[e]

IInv == Types /\ Nested /\ OneLock /\ StoreInv /\ ItemInv /\ RefInv

(* What is known of the program.                                            *)
LEMMA ProgramFacts ==
  ASSUME OtherTypes
  PROVE  /\ Len(Action) \in Nat /\ Stones = 1 .. Len(Action) /\ Stones \subseteq Nat \ {0}
         /\ IsFiniteSet(Stones)
         /\ \A s \in Stones : Outputs[s] \in Seq(Stones)
         /\ \A s \in Stones : Action[s] \in {"filter", "store"} =>
              Outputs[s] # <<>> /\ Head(Outputs[s]) \in Stones
         /\ program.entry \subseteq Stones /\ program.limit \in Int /\ program.limit >= -1
         /\ program.threads \subseteq Threads
<1>1. program \in Programs
  BY DEF OtherTypes
<1>2. /\ program.action \in Seq({"terminal", "filter", "split", "store"})
      /\ program.outputs \in [Stones -> Seq(Stones)]
      /\ \A s \in Stones : program.action[s] \in {"filter", "store"} => program.outputs[s] # <<>>
      /\ program.entry \subseteq Stones /\ program.limit \in Int /\ program.limit >= -1
      /\ program.threads \subseteq Callers
  BY <1>1, StoneAssumption DEF Stones, Action
<1>3. Len(Action) \in Nat /\ Stones = 1 .. Len(Action)
  BY <1>2 DEF Stones, Action
<1>4. Stones \subseteq Nat \ {0} /\ IsFiniteSet(Stones)
  BY <1>3, UpTo
<1>5. ASSUME NEW s \in Stones PROVE Outputs[s] \in Seq(Stones)
  BY <1>2 DEF Outputs
<1>6. ASSUME NEW s \in Stones, Action[s] \in {"filter", "store"}
      PROVE  Outputs[s] # <<>> /\ Head(Outputs[s]) \in Stones
  BY <1>2, <1>5, <1>6, HeadTailProperties DEF Action, Outputs
<1> QED BY <1>2, <1>3, <1>4, <1>5, <1>6 DEF Threads

LEMMA SameProgram ==
  ASSUME UNCHANGED program
  PROVE  Stones' = Stones /\ FrameSet' = FrameSet /\ Action' = Action /\ Outputs' = Outputs
BY DEF Stones, FrameSet, Action, Outputs, IsStore, Events, Ops, Phases

(* The innermost call of a thread.                                          *)
LEMMA TopFrame ==
  ASSUME StackTypes, NEW t \in Threads, stack[t] # <<>>
  PROVE  /\ Len(stack[t]) \in Nat \ {0} /\ Len(stack[t]) \in 1 .. Len(stack[t])
         /\ Top(t) = stack[t][Len(stack[t])] /\ Top(t) \in FrameSet
<1>1. stack[t] \in Seq(FrameSet)
  BY DEF StackTypes
<1>2. Len(stack[t]) \in Nat \ {0} /\ Last(stack[t]) = stack[t][Len(stack[t])] /\ Last(stack[t]) \in FrameSet
  BY <1>1, FrontOf
<1>3. Len(stack[t]) \in 1 .. Len(stack[t])
  BY <1>2
<1> QED BY <1>2, <1>3 DEF Top

(* Who calls from where: an application outside of EVPath or in a handler.  *)
LEMMA MayCallTop ==
  ASSUME StackTypes, NEW t \in Threads, MayCall(t)
  PROVE  /\ LockFree /\ Len(stack[t]) \in Nat
         /\ Len(stack[t]) = 0 <=> stack[t] = <<>>
         /\ Len(stack[t]) # 0 => stack[t][Len(stack[t])].op = "handler"
<1>1. stack[t] \in Seq(FrameSet)
  BY DEF StackTypes
<1>2. Len(stack[t]) \in Nat /\ (Len(stack[t]) = 0 <=> stack[t] = <<>>)
  BY <1>1, EmptySeq, LenProperties
<1>3. stack[t] # <<>> => stack[t][Len(stack[t])].op = "handler"
  BY TopFrame DEF MayCall, At
<1> QED BY <1>2, <1>3 DEF MayCall

LEMMA FrameType ==
  ASSUME NEW op \in Ops, NEW at \in Phases, NEW s \in Nat, NEW e \in Events \cup {None},
         NEW i \in Nat, NEW m \in BOOLEAN,
         op \notin {"loop", "task"} => s \in Stones,
         op \in {"send", "limit", "overflow"} => IsStore(s),
         op \in {"submit", "split", "handler"} => e # None,
         op \notin {"submit", "split", "handler", "limit"} => e = None,
         op = "split" => i # 0,
         op = "loop" => at \in {"active", "scan"},
         op = "stone" => at = "items" \/ (at = "pending" /\ IsStore(s))
  PROVE  /\ Frame(op, at, s, e, i, m) \in FrameSet
         /\ Frame(op, at, s, e, i, m).op = op /\ Frame(op, at, s, e, i, m).at = at
         /\ Frame(op, at, s, e, i, m).stone = s /\ Frame(op, at, s, e, i, m).event = e
         /\ Frame(op, at, s, e, i, m).item = i /\ Frame(op, at, s, e, i, m).more = m
BY DEF Frame, FrameSet

LEMMA LoopType == /\ Loop \in FrameSet /\ Loop.op = "loop" /\ Loop.at = "active"
                  /\ Loop.event = None /\ Loop.stone = 1 /\ Loop.more = TRUE
BY DEF Loop, Frame, FrameSet, Ops, Phases, None, Events
-----------------------------------------------------------------------------
(* The changes of the stacks.                                               *)
Moves0(t, k) ==
  Stays(Threads, FrameSet, stack, stack', t, k) /\ Len(stack'[t]) = k
Moves1(t, k, f) ==
  /\ Stays(Threads, FrameSet, stack, stack', t, k)
  /\ Len(stack'[t]) = k + 1 /\ stack'[t][k + 1] = f
Moves2(t, k, f, g) ==
  /\ Stays(Threads, FrameSet, stack, stack', t, k)
  /\ Len(stack'[t]) = k + 2 /\ stack'[t][k + 1] = f /\ stack'[t][k + 2] = g

LEMMA CallMoves ==
  ASSUME StackTypes, NEW t \in Threads, NEW f \in FrameSet
  PROVE  /\ Call(t, <<f>>) => Moves1(t, Len(stack[t]), f)
         /\ \A g \in FrameSet : Call(t, <<f, g>>) => Moves2(t, Len(stack[t]), f, g)
<1>1. stack \in [Threads -> Seq(FrameSet)]
  BY DEF StackTypes
<1> DEFINE st2 == Called1(stack, t, f)
<1>2. /\ Stays(Threads, FrameSet, stack, st2, t, Len(stack[t]))
      /\ Len(st2[t]) = Len(stack[t]) + 1 /\ st2[t][Len(stack[t]) + 1] = f
  BY <1>1, CallOne
<1>3. Call(t, <<f>>) => Moves1(t, Len(stack[t]), f)
  BY <1>2 DEF Call, Moves1, Called1
<1>4. ASSUME NEW g \in FrameSet, Call(t, <<f, g>>) PROVE Moves2(t, Len(stack[t]), f, g)
  <2> DEFINE st3 == Called2(stack, t, f, g)
  <2>1. /\ Stays(Threads, FrameSet, stack, st3, t, Len(stack[t]))
        /\ Len(st3[t]) = Len(stack[t]) + 2
        /\ st3[t][Len(stack[t]) + 1] = f /\ st3[t][Len(stack[t]) + 2] = g
    BY <1>1, CallTwo
  <2> QED BY <1>4, <2>1 DEF Call, Moves2, Called2
<1> QED BY <1>3, <1>4

LEMMA ReturnMoves ==
  ASSUME StackTypes, NEW t \in Threads, stack[t] # <<>>, Return(t)
  PROVE  Moves0(t, Len(stack[t]) - 1)
<1>1. stack \in [Threads -> Seq(FrameSet)]
  BY DEF StackTypes
<1> DEFINE st2 == Popped(stack, t)
<1>2. /\ Stays(Threads, FrameSet, stack, st2, t, Len(stack[t]) - 1)
      /\ Len(st2[t]) = Len(stack[t]) - 1
  BY <1>1, ReturnOne
<1> QED BY <1>2 DEF Return, Moves0, Popped

LEMMA ReplaceMoves ==
  ASSUME StackTypes, NEW t \in Threads, stack[t] # <<>>, NEW f \in FrameSet
  PROVE  /\ Replace(t, f) => Moves1(t, Len(stack[t]) - 1, f)
         /\ \A g \in FrameSet : stack' = [stack EXCEPT ![t] = Front(@) \o <<f, g>>]
                                  => Moves2(t, Len(stack[t]) - 1, f, g)
<1>1. /\ Len(stack[t]) \in Nat /\ Len(stack[t]) - 1 + 1 = Len(stack[t])
      /\ Len(stack[t]) - 1 + 2 = Len(stack[t]) + 1
  BY TopFrame
<1>2. stack \in [Threads -> Seq(FrameSet)]
  BY DEF StackTypes
<1>3. ASSUME Replace(t, f) PROVE Moves1(t, Len(stack[t]) - 1, f)
  <2> DEFINE st2 == Swapped1(stack, t, f)
  <2>1. /\ Stays(Threads, FrameSet, stack, st2, t, Len(stack[t]) - 1)
        /\ Len(st2[t]) = Len(stack[t]) /\ st2[t][Len(stack[t])] = f
    BY <1>2, ReplaceOne
  <2>2. stack' = st2
    BY <1>3 DEF Replace, Swapped1
  <2> HIDE DEF st2
  <2> QED BY <1>1, <2>1, <2>2 DEF Moves1
<1>4. ASSUME NEW g \in FrameSet, stack' = [stack EXCEPT ![t] = Front(@) \o <<f, g>>]
      PROVE  Moves2(t, Len(stack[t]) - 1, f, g)
  <2> DEFINE st2 == Swapped2(stack, t, f, g)
  <2>1. /\ Stays(Threads, FrameSet, stack, st2, t, Len(stack[t]) - 1)
        /\ Len(st2[t]) = Len(stack[t]) + 1
        /\ st2[t][Len(stack[t])] = f /\ st2[t][Len(stack[t]) + 1] = g
    BY <1>2, ReplaceTwo
  <2>2. stack' = st2
    BY <1>4 DEF Swapped2
  <2> HIDE DEF st2
  <2> QED BY <1>1, <2>1, <2>2 DEF Moves2
<1> QED BY <1>3, <1>4

LEMMA ReturnToMoves ==
  ASSUME StackTypes, NEW t \in Threads, Len(stack[t]) > 1, NEW m \in BOOLEAN,
         stack' = [stack EXCEPT ![t] = Append(Front(Front(@)), [Last(Front(@)) EXCEPT !.more = m])]
  PROVE  Moves1(t, Len(stack[t]) - 2, [stack[t][Len(stack[t]) - 1] EXCEPT !.more = m])
<1> DEFINE f == Last(Front(stack[t]))
           g == [f EXCEPT !.more = m]
           st2(h) == Returned(stack, t, h)
<1>0. stack \in [Threads -> Seq(FrameSet)]
  BY DEF StackTypes
<1>1. Len(stack[t]) \in Nat /\ Len(stack[t]) - 1 = Len(stack[t]) - 2 + 1
  <2>1. stack[t] \in Seq(FrameSet)
    BY <1>0
  <2> QED BY <2>1, LenProperties
<1>2. ASSUME NEW h \in FrameSet PROVE [h EXCEPT !.more = m] \in FrameSet
  BY DEF FrameSet
<1>3. ASSUME NEW h \in FrameSet
      PROVE  /\ Stays(Threads, FrameSet, stack, st2(h), t, Len(stack[t]) - 2)
             /\ Len(st2(h)[t]) = Len(stack[t]) - 1 /\ st2(h)[t][Len(stack[t]) - 1] = h
             /\ f = stack[t][Len(stack[t]) - 1] /\ f \in FrameSet
  BY <1>0, ReturnTo
<1>4. f = stack[t][Len(stack[t]) - 1] /\ f \in FrameSet
  BY <1>3, LoopType
<1>5. g \in FrameSet
  BY <1>2, <1>4
<1>6. stack' = st2(g)
  BY Zenon DEF Returned
<1> HIDE DEF g, st2, f
<1>7. Stays(Threads, FrameSet, stack, stack', t, Len(stack[t]) - 2)
      /\ Len(stack'[t]) = Len(stack[t]) - 1 /\ stack'[t][Len(stack[t]) - 1] = g
  BY <1>5, <1>6, <1>3
<1>8. Moves1(t, Len(stack[t]) - 2, g)
  BY <1>1, <1>7 DEF Moves1
<1> QED BY <1>8, <1>4 DEF g
-----------------------------------------------------------------------------
(* Lists that hold each item once.                                          *)
LEMMA NoList == Once(<<>>) /\ \A x : ~InList(<<>>, x)
<1>1. DOMAIN <<>> = {}
  OBVIOUS
<1> QED BY <1>1 DEF Once, InList

LEMMA AddList ==
  ASSUME NEW S, NEW s \in Seq(S), NEW e \in S
  PROVE  /\ Append(s, e) \in Seq(S) /\ Len(s) \in Nat /\ Len(Append(s, e)) = Len(s) + 1
         /\ \A x : InList(Append(s, e), x) <=> InList(s, x) \/ x = e
         /\ ~InList(s, e) /\ Once(s) => Once(Append(s, e))
<1>1. Append(s, e) \in Seq(S) /\ Len(s) \in Nat /\ Len(Append(s, e)) = Len(s) + 1
  BY AppendProperties, LenProperties
<1>2. \A x : InList(Append(s, e), x) <=> InList(s, x) \/ x = e
  BY AppendInList
<1>3. ~InList(s, e) /\ Once(s) => Once(Append(s, e))
  BY AppendInList DEF Once
<1> QED BY <1>1, <1>2, <1>3

LEMMA TakeList ==
  ASSUME NEW S, NEW s \in Seq(S), NEW e, Once(s)
  PROVE  /\ RemoveFirst(s, e) \in Seq(S) /\ Once(RemoveFirst(s, e))
         /\ \A x : InList(RemoveFirst(s, e), x) <=> InList(s, x) /\ x # e
<1>1. \A i, j \in DOMAIN s : s[i] = s[j] => i = j
  BY DEF Once
<1>2. /\ RemoveFirst(s, e) \in Seq(S)
      /\ \A i, j \in DOMAIN RemoveFirst(s, e) :
           RemoveFirst(s, e)[i] = RemoveFirst(s, e)[j] => i = j
  BY <1>1, RemoveFirstProperties
<1>3. \A x : InList(RemoveFirst(s, e), x) <=> InList(s, x) /\ x # e
  BY <1>1, RemoveFirstProperties
<1> QED BY <1>2, <1>3 DEF Once

LEMMA TailList ==
  ASSUME NEW S, NEW s \in Seq(S), s # <<>>
  PROVE  /\ Tail(s) \in Seq(S) /\ Head(s) \in S /\ InList(s, Head(s))
         /\ Len(s) \in Nat \ {0} /\ Len(Tail(s)) = Len(s) - 1
         /\ \A x : InList(s, x) <=> InList(Tail(s), x) \/ x = Head(s)
         /\ Once(s) => Once(Tail(s)) /\ ~InList(Tail(s), Head(s))
<1> DEFINE n == Len(s)
           u == Tail(s)
<1>1. /\ u \in Seq(S) /\ Head(s) \in S /\ n \in Nat \ {0} /\ Len(u) = n - 1
      /\ \A i \in 1 .. n - 1 : u[i] = s[i + 1]
      /\ DOMAIN s = 1 .. n /\ DOMAIN u = 1 .. n - 1
  BY HeadTailProperties, EmptySeq, LenProperties
<1>2. Head(s) = s[1] /\ 1 \in 1 .. n
  BY <1>1
<1>3. /\ \A i \in 1 .. n - 1 : i + 1 \in 1 .. n /\ i + 1 # 1
      /\ \A i \in 1 .. n : i # 1 => i - 1 \in 1 .. n - 1 /\ (i - 1) + 1 = i
  <2>1. \A m \in Nat \ {0} :
          /\ \A i \in 1 .. m - 1 : i + 1 \in 1 .. m /\ i + 1 # 1
          /\ \A i \in 1 .. m : i # 1 => i - 1 \in 1 .. m - 1 /\ (i - 1) + 1 = i
    OBVIOUS
  <2> QED BY <1>1, <2>1
<1> HIDE DEF u
<1>4. InList(s, Head(s))
  BY <1>1, <1>2 DEF InList
<1>5. ASSUME NEW x, InList(s, x) PROVE InList(u, x) \/ x = Head(s)
  <2>1. PICK i \in 1 .. n : s[i] = x
    BY <1>1, <1>5 DEF InList
  <2>2. CASE i = 1
    BY <2>1, <2>2, <1>2
  <2>3. CASE i # 1
    <3>1. i - 1 \in 1 .. n - 1 /\ u[i - 1] = x
      BY <2>1, <2>3, <1>1, <1>3
    <3> QED BY <3>1, <1>1 DEF InList
  <2> QED BY <2>2, <2>3
<1>6. ASSUME NEW x, InList(u, x) PROVE InList(s, x)
  <2>1. PICK i \in 1 .. n - 1 : u[i] = x
    BY <1>1, <1>6 DEF InList
  <2>2. i + 1 \in 1 .. n /\ s[i + 1] = x
    BY <2>1, <1>1, <1>3
  <2> QED BY <2>2, <1>1 DEF InList
<1>7. ASSUME Once(s) PROVE Once(u)
  <2>1. ASSUME NEW i \in 1 .. n - 1, NEW j \in 1 .. n - 1, u[i] = u[j] PROVE i = j
    <3>1. s[i + 1] = s[j + 1] /\ i + 1 \in 1 .. n /\ j + 1 \in 1 .. n
      BY <2>1, <1>1, <1>3
    <3>2. i + 1 = j + 1
      BY <3>1, <1>1, <1>7 DEF Once
    <3> QED BY <3>2, <1>1
  <2> QED BY <2>1, <1>1 DEF Once
<1>8. ASSUME Once(s), InList(u, Head(s)) PROVE FALSE
  <2>1. PICK i \in 1 .. n - 1 : u[i] = Head(s)
    BY <1>1, <1>8 DEF InList
  <2>2. i + 1 \in 1 .. n /\ s[i + 1] = s[1] /\ i + 1 # 1
    BY <2>1, <1>1, <1>2, <1>3
  <2> QED BY <2>2, <1>1, <1>2, <1>8 DEF Once
<1>9. \A x : InList(s, x) <=> InList(u, x) \/ x = Head(s)
  BY <1>4, <1>5, <1>6
<1> QED BY <1>1, <1>4, <1>7, <1>8, <1>9 DEF u

LEMMA JoinList ==
  ASSUME NEW S, NEW s \in Seq(S), NEW u \in Seq(S)
  PROVE  /\ s \o u \in Seq(S)
         /\ \A x : InList(s \o u, x) <=> InList(s, x) \/ InList(u, x)
         /\ Once(s) /\ Once(u) /\ (\A x : ~(InList(s, x) /\ InList(u, x))) => Once(s \o u)
<1> DEFINE m == Len(s)
           n == Len(u)
           c == s \o u
<1>1. /\ c \in Seq(S) /\ m \in Nat /\ n \in Nat /\ Len(c) = m + n
      /\ \A i \in 1 .. m + n : c[i] = IF i <= m THEN s[i] ELSE u[i - m]
      /\ DOMAIN s = 1 .. m /\ DOMAIN u = 1 .. n /\ DOMAIN c = 1 .. m + n
  BY ConcatProperties, LenProperties
<1>2. /\ \A i \in 1 .. m : i \in 1 .. m + n /\ i <= m
      /\ \A i \in 1 .. n : m + i \in 1 .. m + n /\ ~(m + i <= m) /\ (m + i) - m = i
      /\ \A i \in 1 .. m + n : i <= m => i \in 1 .. m
      /\ \A i \in 1 .. m + n : ~(i <= m) => i - m \in 1 .. n
      /\ \A i, j \in 1 .. m + n : i - m = j - m => i = j
  BY <1>1
<1> HIDE DEF c, m, n
<1>3. ASSUME NEW x, InList(c, x) PROVE InList(s, x) \/ InList(u, x)
  <2>1. PICK i \in 1 .. m + n : c[i] = x
    BY <1>1, <1>3 DEF InList
  <2> QED BY <2>1, <1>1, <1>2 DEF InList
<1>4. ASSUME NEW x, InList(s, x) PROVE InList(c, x)
  <2>1. PICK i \in 1 .. m : s[i] = x
    BY <1>1, <1>4 DEF InList
  <2>2. i \in 1 .. m + n /\ c[i] = x
    BY <2>1, <1>1, <1>2
  <2> QED BY <2>2, <1>1 DEF InList
<1>5. ASSUME NEW x, InList(u, x) PROVE InList(c, x)
  <2>1. PICK i \in 1 .. n : u[i] = x
    BY <1>1, <1>5 DEF InList
  <2>2. m + i \in 1 .. m + n /\ c[m + i] = u[i]
    BY <2>1, <1>1, <1>2
  <2> QED BY <2>1, <2>2, <1>1 DEF InList
<1>6. ASSUME Once(s), Once(u), \A x : ~(InList(s, x) /\ InList(u, x)),
             NEW i \in 1 .. m + n, NEW j \in 1 .. m + n, c[i] = c[j]
      PROVE  i = j
  <2>1. CASE i <= m /\ j <= m
    BY <1>6, <2>1, <1>1, <1>2 DEF Once
  <2>2. CASE ~(i <= m) /\ ~(j <= m)
    <3>1. u[i - m] = u[j - m] /\ i - m \in 1 .. n /\ j - m \in 1 .. n
      BY <1>6, <2>2, <1>1, <1>2
    <3>2. i - m = j - m
      BY <1>6, <3>1, <1>1 DEF Once
    <3> QED BY <3>2, <1>2
  <2>3. CASE i <= m /\ ~(j <= m)
    <3>1. InList(s, c[i]) /\ InList(u, c[j])
      BY <2>3, <1>1, <1>2 DEF InList
    <3> QED BY <3>1, <1>6
  <2>4. CASE ~(i <= m) /\ j <= m
    <3>1. InList(u, c[i]) /\ InList(s, c[j])
      BY <2>4, <1>1, <1>2 DEF InList
    <3> QED BY <3>1, <1>6
  <2> QED BY <2>1, <2>2, <2>3, <2>4
<1>7. \A x : InList(c, x) <=> InList(s, x) \/ InList(u, x)
  BY <1>3, <1>4, <1>5
<1>8. Once(s) /\ Once(u) /\ (\A x : ~(InList(s, x) /\ InList(u, x))) => Once(c)
  BY <1>6, <1>1 DEF Once
<1> QED BY <1>1, <1>7, <1>8 DEF c

LEMMA OneList == \A x : Once(<<x>>) /\ \A y : InList(<<x>>, y) <=> y = x
BY DEF Once, InList

LEMMA SeqSub ==
  ASSUME NEW S, NEW T, S \subseteq T, NEW s \in Seq(S)
  PROVE  s \in Seq(T)
OBVIOUS
-----------------------------------------------------------------------------
(* Queue items move.  How many references they hold changes with it.        *)
Number(e, x) == IF x = e THEN 1 ELSE 0

LEMMA ItemSets ==
  ASSUME QueueTypes
  PROVE  /\ Len(items) \in Nat
         /\ \A s \in Stones : \A i : Waits(s, i) \/ Kept(s, i) => i \in 1 .. Len(items)
         /\ \A i : InList(freeItems, i) => i \in 1 .. Len(items)
         /\ IsFiniteSet(Waiting) /\ Cardinality(Waiting) \in Nat
         /\ \A e : IsFiniteSet(ItemsOf(e)) /\ Cardinality(ItemsOf(e)) \in Nat
<1>1. Len(items) \in Nat /\ IsFiniteSet(1 .. Len(items))
  BY LenProperties, UpTo DEF QueueTypes
<1>2. ASSUME NEW s \in Seq(1 .. Len(items)), NEW i, InList(s, i)
      PROVE  i \in 1 .. Len(items)
  BY <1>2, LenProperties, ElementOfSeq DEF InList
<1>3. \A s \in Stones : queue[s] \in Seq(1 .. Len(items)) /\ store[s] \in Seq(1 .. Len(items))
  BY DEF QueueTypes
<1>4. freeItems \in Seq(1 .. Len(items))
  BY DEF QueueTypes
<1>5. ASSUME NEW W, W \subseteq 1 .. Len(items)
      PROVE  IsFiniteSet(W) /\ Cardinality(W) \in Nat
  BY <1>1, <1>5, FS_Subset, FS_CardinalityType
<1>6. \A s \in Stones : \A i : Waits(s, i) \/ Kept(s, i) => i \in 1 .. Len(items)
  BY <1>2, <1>3 DEF Waits, Kept
<1>7. Waiting \subseteq 1 .. Len(items) /\ \A e : ItemsOf(e) \subseteq 1 .. Len(items)
  BY DEF Waiting, ItemsOf
<1> QED BY <1>1, <1>2, <1>4, <1>5, <1>6, <1>7

(* enqueue_event takes an item that is nowhere.                             *)
LEMMA TakesNew ==
  ASSUME QueueTypes, OnePlace, NEW s \in Stones, NEW e \in Events, Enqueue(s, e)
  PROVE  /\ NewItem \in 1 .. Len(items') /\ items' \in Seq(Events)
         /\ \A u \in Stones : ~Waits(u, NewItem) /\ ~Kept(u, NewItem)
         /\ Len(items') \in Nat
         /\ 1 .. Len(items') = (1 .. Len(items)) \cup {NewItem}
         /\ items'[NewItem] = e
         /\ \A i \in 1 .. Len(items) : i # NewItem => items'[i] = items[i]
         /\ freeItems' \in Seq(1 .. Len(items)) /\ Once(freeItems')
         /\ \A i : InList(freeItems', i) => InList(freeItems, i) /\ i # NewItem
<1>1. /\ items \in Seq(Events) /\ freeItems \in Seq(1 .. Len(items)) /\ Once(freeItems)
      /\ Len(items) \in Nat /\ DOMAIN items = 1 .. Len(items)
  BY LenProperties DEF QueueTypes, OnePlace
<1>2. CASE freeItems # <<>>
  <2> DEFINE n == Head(freeItems)
  <2>1. NewItem = n /\ items' = [items EXCEPT ![n] = e] /\ freeItems' = Tail(freeItems)
    BY <1>2 DEF Enqueue, NewItem
  <2>2. /\ n \in 1 .. Len(items) /\ InList(freeItems, n)
        /\ freeItems' \in Seq(1 .. Len(items)) /\ Once(freeItems')
        /\ \A i : InList(freeItems', i) => InList(freeItems, i) /\ i # n
    BY <1>1, <1>2, <2>1, TailList
  <2>3. /\ items' \in Seq(Events) /\ Len(items') = Len(items)
        /\ items'[n] = e /\ \A i \in 1 .. Len(items) : i # n => items'[i] = items[i]
    BY <1>1, <2>1, <2>2
  <2>4. \A u \in Stones : ~Waits(u, n) /\ ~Kept(u, n)
    BY <2>2 DEF OnePlace
  <2>5. 1 .. Len(items') = (1 .. Len(items)) \cup {n}
    BY <2>2, <2>3
  <2> HIDE DEF n
  <2> QED BY <1>1, <2>1, <2>2, <2>3, <2>4, <2>5
<1>3. CASE freeItems = <<>>
  <2> DEFINE n == Len(items) + 1
  <2>1. NewItem = n /\ items' = Append(items, e) /\ freeItems' = freeItems
    BY <1>3 DEF Enqueue, NewItem
  <2>2. /\ items' \in Seq(Events) /\ Len(items') = n /\ items'[n] = e
        /\ \A i \in 1 .. Len(items) : items'[i] = items[i]
    BY <1>1, <2>1, AppendProperties
  <2>3. n \notin 1 .. Len(items) /\ n \in 1 .. n /\ 1 .. n = (1 .. Len(items)) \cup {n} /\ n \in Nat
    BY <1>1
  <2>4. \A u \in Stones : ~Waits(u, n) /\ ~Kept(u, n)
    BY <2>3, ItemSets
  <2>5. \A i : ~InList(freeItems', i)
    BY <1>3, <2>1, NoList
  <2> HIDE DEF n
  <2> QED BY <1>1, <2>1, <2>2, <2>3, <2>4, <2>5
<1> QED BY <1>2, <1>3

LEMMA EnqueueItems ==
  ASSUME QueueTypes, OnePlace, NEW s \in Stones, NEW e \in Events, Enqueue(s, e),
         UNCHANGED <<program, store>>
  PROVE  /\ QueueTypes' /\ OnePlace'
         /\ Cardinality(Waiting') = Cardinality(Waiting) + 1
         /\ \A d \in Events :
              Cardinality(ItemsOf(d)') = Cardinality(ItemsOf(d)) + Number(e, d)
<1> DEFINE n == NewItem
           N == Len(items)
<1>1. /\ n \in 1 .. Len(items') /\ items' \in Seq(Events)
      /\ \A u \in Stones : ~Waits(u, n) /\ ~Kept(u, n)
      /\ 1 .. Len(items') = (1 .. N) \cup {n}
      /\ items'[n] = e /\ \A i \in 1 .. N : i # n => items'[i] = items[i]
      /\ freeItems' \in Seq(1 .. N) /\ Once(freeItems')
      /\ \A i : InList(freeItems', i) => InList(freeItems, i) /\ i # n
  BY TakesNew
<1>2. 1 .. N \subseteq 1 .. Len(items') /\ Stones' = Stones /\ store' = store
  BY <1>1 DEF Stones
<1>3. /\ queue' = [queue EXCEPT ![s] = Append(queue[s], n)]
      /\ queue \in [Stones -> Seq(1 .. N)] /\ store \in [Stones -> Seq(1 .. N)]
  BY DEF Enqueue, QueueTypes
<1> HIDE DEF n, N
<1>4. ASSUME NEW u \in Stones
      PROVE  queue[u] \in Seq(1 .. Len(items')) /\ store[u] \in Seq(1 .. Len(items'))
  BY <1>2, <1>3, SeqSub
<1>5. /\ Append(queue[s], n) \in Seq(1 .. Len(items'))
      /\ \A x : InList(Append(queue[s], n), x) <=> InList(queue[s], x) \/ x = n
      /\ Once(Append(queue[s], n))
  BY <1>1, <1>4, AddList DEF Waits, OnePlace
<1>6. /\ queue'[s] = Append(queue[s], n) /\ queue' \in [Stones -> Seq(1 .. Len(items'))]
      /\ \A u \in Stones : u # s => queue'[u] = queue[u]
  BY <1>3, <1>4, <1>5
<1>7. QueueTypes'
  <2>1. freeItems' \in Seq(1 .. Len(items'))
    BY <1>1, <1>2, SeqSub
  <2>2. store' \in [Stones -> Seq(1 .. Len(items'))]
    BY <1>2, <1>3, <1>4
  <2> QED BY <1>1, <1>2, <1>6, <2>1, <2>2 DEF QueueTypes
<1>8. \A u \in Stones : \A i : Waits(u, i)' <=> Waits(u, i) \/ (u = s /\ i = n)
  BY <1>5, <1>6 DEF Waits
<1>9. \A u \in Stones : \A i : Kept(u, i)' <=> Kept(u, i)
  BY <1>2 DEF Kept
<1>10. OnePlace'
  <2>1. Once(freeItems') /\ \A u \in Stones : Once(queue'[u]) /\ Once(store'[u])
    BY <1>1, <1>2, <1>5, <1>6 DEF OnePlace
  <2>2. ASSUME NEW i, NEW u \in Stones, NEW v \in Stones
        PROVE  /\ (Waits(u, i) /\ Waits(v, i) => u = v)'
               /\ (Kept(u, i) /\ Kept(v, i) => u = v)'
               /\ (~(Waits(u, i) /\ Kept(v, i)))'
               /\ (InList(freeItems, i) => ~Waits(u, i) /\ ~Kept(u, i))'
    BY <1>1, <1>8, <1>9 DEF OnePlace
  <2> QED BY <1>2, <2>1, <2>2 DEF OnePlace
<1>11. Cardinality(Waiting') = Cardinality(Waiting) + 1
  <2>1. Waiting' = Waiting \cup {n} /\ n \notin Waiting
    BY <1>1, <1>2, <1>8 DEF Waiting, N
  <2> QED BY <2>1, ItemSets, FS_AddElement
<1>12. ASSUME NEW d \in Events
       PROVE  Cardinality(ItemsOf(d)') = Cardinality(ItemsOf(d)) + Number(e, d)
  <2>1. n \notin ItemsOf(d)
    BY <1>1 DEF ItemsOf
  <2>2. \A i \in 1 .. N : (\E u \in Stones : Waits(u, i) \/ Kept(u, i)) => i # n
    BY <1>1
  <2>3. CASE d = e
    <3>1. ItemsOf(d)' = ItemsOf(d) \cup {n}
      BY <1>1, <1>2, <1>8, <1>9, <2>2, <2>3 DEF ItemsOf, N
    <3> QED BY <2>1, <2>3, <3>1, ItemSets, FS_AddElement DEF Number
  <2>4. CASE d # e
    <3>1. ItemsOf(d)' = ItemsOf(d)
      BY <1>1, <1>2, <1>8, <1>9, <2>2, <2>4 DEF ItemsOf, N
    <3> QED BY <2>4, <3>1, ItemSets DEF Number
  <2> QED BY <2>3, <2>4
<1> QED BY <1>7, <1>10, <1>11, <1>12

(* dequeue_item.                                                            *)
LEMMA DequeueItems ==
  ASSUME QueueTypes, OnePlace, NEW s \in Stones, NEW i, Waits(s, i), Dequeue(s, i),
         UNCHANGED <<program, store, items>>
  PROVE  /\ QueueTypes' /\ OnePlace'
         /\ i \in 1 .. Len(items) /\ items[i] \in Events
         /\ Cardinality(Waiting') = Cardinality(Waiting) - 1
         /\ \A d \in Events :
              Cardinality(ItemsOf(d)') = Cardinality(ItemsOf(d)) - Number(items[i], d)
<1>1. /\ i \in 1 .. Len(items) /\ items[i] \in Events
      /\ freeItems \in Seq(1 .. Len(items)) /\ Once(freeItems)
      /\ queue \in [Stones -> Seq(1 .. Len(items))] /\ Once(queue[s])
      /\ ~InList(freeItems, i)
  <2>1. i \in 1 .. Len(items)
    BY ItemSets
  <2>2. items[i] \in Events
    BY <2>1, ElementOfSeq DEF QueueTypes
  <2> QED BY <2>1, <2>2 DEF QueueTypes, OnePlace
<1>2. /\ queue' = [queue EXCEPT ![s] = RemoveFirst(queue[s], i)]
      /\ freeItems' = <<i>> \o freeItems
      /\ Stones' = Stones /\ store' = store /\ items' = items
  BY DEF Dequeue, Stones
<1>3. /\ RemoveFirst(queue[s], i) \in Seq(1 .. Len(items)) /\ Once(RemoveFirst(queue[s], i))
      /\ \A x : InList(RemoveFirst(queue[s], i), x) <=> InList(queue[s], x) /\ x # i
  BY <1>1, TakeList
<1>4. /\ freeItems' \in Seq(1 .. Len(items)) /\ Once(freeItems')
      /\ \A x : InList(freeItems', x) <=> x = i \/ InList(freeItems, x)
  <2>1. <<i>> \in Seq(1 .. Len(items)) /\ Once(<<i>>) /\ \A x : InList(<<i>>, x) <=> x = i
    BY <1>1, OneList
  <2>2. \A x : ~(InList(<<i>>, x) /\ InList(freeItems, x))
    BY <1>1, <2>1
  <2> QED BY <1>1, <1>2, <2>1, <2>2, JoinList, ZenonT(90)
<1>5. /\ queue'[s] = RemoveFirst(queue[s], i) /\ queue' \in [Stones -> Seq(1 .. Len(items))]
      /\ \A u \in Stones : u # s => queue'[u] = queue[u]
  BY <1>1, <1>2, <1>3
<1>6. QueueTypes'
  BY <1>2, <1>4, <1>5 DEF QueueTypes
<1>7. \A u \in Stones : \A x : Waits(u, x)' <=> Waits(u, x) /\ x # i
  <2>1. \A u \in Stones : u # s => ~Waits(u, i)
    BY DEF OnePlace
  <2> QED BY <1>3, <1>5, <2>1 DEF Waits
<1>8. \A u \in Stones : \A x : Kept(u, x)' <=> Kept(u, x)
  BY <1>2 DEF Kept
<1>9. \A u \in Stones : ~Kept(u, i)
  BY DEF OnePlace
<1>10. OnePlace'
  <2>1. Once(freeItems') /\ \A u \in Stones : Once(queue'[u]) /\ Once(store'[u])
    BY <1>2, <1>3, <1>4, <1>5 DEF OnePlace
  <2>2. ASSUME NEW x, NEW u \in Stones, NEW v \in Stones
        PROVE  /\ (Waits(u, x) /\ Waits(v, x) => u = v)'
               /\ (Kept(u, x) /\ Kept(v, x) => u = v)'
               /\ (~(Waits(u, x) /\ Kept(v, x)))'
               /\ (InList(freeItems, x) => ~Waits(u, x) /\ ~Kept(u, x))'
    BY <1>4, <1>7, <1>8, <1>9 DEF OnePlace
  <2> QED BY <1>2, <2>1, <2>2 DEF OnePlace
<1>11. Cardinality(Waiting') = Cardinality(Waiting) - 1
  <2>1. Waiting' = Waiting \ {i} /\ i \in Waiting
    BY <1>1, <1>2, <1>7 DEF Waiting
  <2> QED BY <2>1, ItemSets, FS_RemoveElement
<1>12. ASSUME NEW d \in Events
       PROVE  Cardinality(ItemsOf(d)') = Cardinality(ItemsOf(d)) - Number(items[i], d)
  <2>1. ItemsOf(d)' = ItemsOf(d) \ {i}
    BY <1>1, <1>2, <1>7, <1>8, <1>9 DEF ItemsOf
  <2>2. i \in ItemsOf(d) <=> items[i] = d
    BY <1>1 DEF ItemsOf
  <2>3. /\ IsFiniteSet(ItemsOf(d)) /\ Cardinality(ItemsOf(d)) \in Nat
        /\ Cardinality(ItemsOf(d) \ {i}) = IF i \in ItemsOf(d) THEN Cardinality(ItemsOf(d)) - 1
                                            ELSE Cardinality(ItemsOf(d))
    BY ItemSets, FS_RemoveElement
  <2> QED BY <2>1, <2>2, <2>3 DEF Number
<1> QED BY <1>1, <1>6, <1>10, <1>11, <1>12

(* An item goes from a store to a queue.                                    *)
LEMMA ForwardItems ==
  ASSUME QueueTypes, OnePlace, NEW s \in Stones, store[s] # <<>>, NEW u \in Stones,
         store' = [store EXCEPT ![s] = Tail(@)],
         queue' = [queue EXCEPT ![u] = Append(@, Head(store[s]))],
         UNCHANGED <<program, items, freeItems>>
  PROVE  /\ QueueTypes' /\ OnePlace'
         /\ Len(store[s]) \in Nat \ {0} /\ Len(store'[s]) = Len(store[s]) - 1
         /\ \A v \in Stones : v # s => store'[v] = store[v]
         /\ Head(store[s]) \in 1 .. Len(items) /\ items[Head(store[s])] \in Events
         /\ Kept(s, Head(store[s]))
         /\ Cardinality(Waiting') = Cardinality(Waiting) + 1
         /\ \A d \in Events : Cardinality(ItemsOf(d)') = Cardinality(ItemsOf(d))
<1> DEFINE i == Head(store[s])
           N == Len(items)
<1>1. /\ queue \in [Stones -> Seq(1 .. N)] /\ store \in [Stones -> Seq(1 .. N)]
      /\ Once(queue[u]) /\ Once(store[s])
  BY DEF QueueTypes, OnePlace
<1>2. /\ Tail(store[s]) \in Seq(1 .. N) /\ i \in 1 .. N /\ InList(store[s], i)
      /\ Len(store[s]) \in Nat \ {0} /\ Len(Tail(store[s])) = Len(store[s]) - 1
      /\ \A x : InList(store[s], x) <=> InList(Tail(store[s]), x) \/ x = i
      /\ Once(Tail(store[s])) /\ ~InList(Tail(store[s]), i)
  BY <1>1, TailList
<1>3. items[i] \in Events
  BY <1>2, ElementOfSeq DEF QueueTypes
<1>4. Kept(s, i) /\ \A v \in Stones : ~Waits(v, i)
  BY <1>2 DEF Kept, OnePlace
<1>5. Stones' = Stones /\ items' = items /\ freeItems' = freeItems
  BY DEF Stones
<1> HIDE DEF i, N
<1>6. /\ Append(queue[u], i) \in Seq(1 .. N)
      /\ \A x : InList(Append(queue[u], i), x) <=> InList(queue[u], x) \/ x = i
      /\ Once(Append(queue[u], i))
  <2>1. ~InList(queue[u], i) /\ queue[u] \in Seq(1 .. N) /\ i \in 1 .. N /\ Once(queue[u])
    BY <1>1, <1>2, <1>4 DEF Waits
  <2>2. ASSUME NEW q \in Seq(1 .. N), ~InList(q, i), Once(q)
        PROVE  /\ Append(q, i) \in Seq(1 .. N) /\ Once(Append(q, i))
               /\ \A x : InList(Append(q, i), x) <=> InList(q, x) \/ x = i
    <3>1. \A x : InList(Append(q, i), x) <=> InList(q, x) \/ x = i
      <4>1. i \in 1 .. N
        BY <2>1
      <4> QED BY <4>1, AddList, ZenonT(60)
    <3>2. Append(q, i) \in Seq(1 .. N)
      BY <2>1, AddList
    <3>3. Once(Append(q, i))
      BY <2>1, <2>2, AddList
    <3> QED BY <3>1, <3>2, <3>3
  <2> QED BY <2>1, <2>2
<1>7. /\ store'[s] = Tail(store[s]) /\ store' \in [Stones -> Seq(1 .. N)]
      /\ \A v \in Stones : v # s => store'[v] = store[v]
  BY <1>1, <1>2
<1>8. /\ queue'[u] = Append(queue[u], i) /\ queue' \in [Stones -> Seq(1 .. N)]
      /\ \A v \in Stones : v # u => queue'[v] = queue[v]
  BY <1>1, <1>6 DEF i
<1>9. QueueTypes'
  BY <1>5, <1>7, <1>8 DEF QueueTypes, N
<1>10. \A v \in Stones : \A x : Waits(v, x)' <=> Waits(v, x) \/ (v = u /\ x = i)
  BY <1>6, <1>8 DEF Waits
<1>11. \A v \in Stones : \A x : Kept(v, x)' <=> Kept(v, x) /\ x # i
  <2>1. \A v \in Stones : v # s => ~Kept(v, i)
    BY <1>4 DEF OnePlace
  <2> QED BY <1>2, <1>7, <2>1 DEF Kept
<1>12. OnePlace'
  <2>1. Once(freeItems') /\ \A v \in Stones : Once(queue'[v]) /\ Once(store'[v])
    BY <1>2, <1>5, <1>6, <1>7, <1>8 DEF OnePlace
  <2>2. ASSUME NEW x, NEW v \in Stones, NEW w \in Stones
        PROVE  /\ (Waits(v, x) /\ Waits(w, x) => v = w)'
               /\ (Kept(v, x) /\ Kept(w, x) => v = w)'
               /\ (~(Waits(v, x) /\ Kept(w, x)))'
               /\ (InList(freeItems, x) => ~Waits(v, x) /\ ~Kept(v, x))'
    <3>1. ~InList(freeItems, i)
      BY <1>4 DEF OnePlace
    <3> QED BY <1>4, <1>5, <1>10, <1>11, <3>1 DEF OnePlace
  <2> QED BY <1>5, <2>1, <2>2 DEF OnePlace
<1>13. Cardinality(Waiting') = Cardinality(Waiting) + 1
  <2>1. Waiting' = Waiting \cup {i} /\ i \notin Waiting
    BY <1>2, <1>4, <1>5, <1>10 DEF Waiting, N
  <2> QED BY <2>1, ItemSets, FS_AddElement
<1>14. ASSUME NEW d \in Events PROVE ItemsOf(d)' = ItemsOf(d)
  BY <1>4, <1>5, <1>10, <1>11 DEF ItemsOf
<1> QED BY <1>2, <1>3, <1>4, <1>7, <1>9, <1>12, <1>13, <1>14 DEF i, N

(* Action_Store: an item goes from the queue of a stone to its store.       *)
LEMMA StoreItems ==
  ASSUME QueueTypes, OnePlace, NEW s \in Stones, NEW i, Waits(s, i),
         queue' = [queue EXCEPT ![s] = RemoveFirst(@, i)],
         store' = [store EXCEPT ![s] = Append(@, i)],
         UNCHANGED <<program, items, freeItems>>
  PROVE  /\ QueueTypes' /\ OnePlace'
         /\ i \in 1 .. Len(items) /\ items[i] \in Events
         /\ Len(store[s]) \in Nat /\ Len(store'[s]) = Len(store[s]) + 1
         /\ \A v \in Stones : v # s => store'[v] = store[v]
         /\ Cardinality(Waiting') = Cardinality(Waiting) - 1
         /\ \A d \in Events : Cardinality(ItemsOf(d)') = Cardinality(ItemsOf(d))
<1> DEFINE N == Len(items)
<1>1. /\ queue \in [Stones -> Seq(1 .. N)] /\ store \in [Stones -> Seq(1 .. N)]
      /\ Once(queue[s]) /\ Once(store[s]) /\ i \in 1 .. N
      /\ ~InList(store[s], i)
  <2>1. i \in 1 .. N
    BY ItemSets
  <2>2. ~Kept(s, i)
    BY DEF OnePlace
  <2> QED BY <2>1, <2>2 DEF QueueTypes, OnePlace, Kept
<1>2. items[i] \in Events
  BY <1>1, ElementOfSeq DEF QueueTypes
<1>3. Stones' = Stones /\ items' = items /\ freeItems' = freeItems
  BY DEF Stones
<1> HIDE DEF N
<1>4. /\ RemoveFirst(queue[s], i) \in Seq(1 .. N) /\ Once(RemoveFirst(queue[s], i))
      /\ \A x : InList(RemoveFirst(queue[s], i), x) <=> InList(queue[s], x) /\ x # i
  BY <1>1, TakeList
<1>5. /\ Append(store[s], i) \in Seq(1 .. N) /\ Once(Append(store[s], i))
      /\ Len(store[s]) \in Nat /\ Len(Append(store[s], i)) = Len(store[s]) + 1
  <2>1. store[s] \in Seq(1 .. N)
    BY <1>1
  <2> QED BY <1>1, <2>1, AddList
<1>6. \A x : InList(Append(store[s], i), x) <=> InList(store[s], x) \/ x = i
  <2>1. store[s] \in Seq(1 .. N)
    BY <1>1
  <2> QED BY <1>1, <2>1, AddList, Zenon
<1>7. /\ queue'[s] = RemoveFirst(queue[s], i) /\ queue' \in [Stones -> Seq(1 .. N)]
      /\ \A v \in Stones : v # s => queue'[v] = queue[v]
  BY <1>1, <1>4
<1>8. /\ store'[s] = Append(store[s], i) /\ store' \in [Stones -> Seq(1 .. N)]
      /\ \A v \in Stones : v # s => store'[v] = store[v]
  BY <1>1, <1>5
<1>9. QueueTypes'
  BY <1>3, <1>7, <1>8 DEF QueueTypes, N
<1>10. \A v \in Stones : \A x : Waits(v, x)' <=> Waits(v, x) /\ x # i
  <2>1. \A v \in Stones : v # s => ~Waits(v, i)
    BY DEF OnePlace
  <2> QED BY <1>4, <1>7, <2>1 DEF Waits
<1>11. \A v \in Stones : \A x : Kept(v, x)' <=> Kept(v, x) \/ (v = s /\ x = i)
  BY <1>6, <1>8 DEF Kept
<1>12. OnePlace'
  <2>1. Once(freeItems') /\ \A v \in Stones : Once(queue'[v]) /\ Once(store'[v])
    BY <1>3, <1>4, <1>5, <1>7, <1>8 DEF OnePlace
  <2>2. ASSUME NEW x, NEW v \in Stones, NEW w \in Stones
        PROVE  /\ (Waits(v, x) /\ Waits(w, x) => v = w)'
               /\ (Kept(v, x) /\ Kept(w, x) => v = w)'
               /\ (~(Waits(v, x) /\ Kept(w, x)))'
               /\ (InList(freeItems, x) => ~Waits(v, x) /\ ~Kept(v, x))'
    <3>1. ~InList(freeItems, i) /\ \A z \in Stones : ~Kept(z, i)
      BY DEF OnePlace
    <3> QED BY <1>3, <1>10, <1>11, <3>1 DEF OnePlace
  <2> QED BY <1>3, <2>1, <2>2 DEF OnePlace
<1>13. Cardinality(Waiting') = Cardinality(Waiting) - 1
  <2>1. Waiting' = Waiting \ {i} /\ i \in Waiting
    BY <1>1, <1>3, <1>10 DEF Waiting, N
  <2> QED BY <2>1, ItemSets, FS_RemoveElement
<1>14. ASSUME NEW d \in Events PROVE ItemsOf(d)' = ItemsOf(d)
  BY <1>3, <1>10, <1>11 DEF ItemsOf
<1> QED BY <1>1, <1>2, <1>5, <1>8, <1>9, <1>12, <1>13, <1>14 DEF N

(* INT_EVtransfer_events.                                                   *)
LEMMA TransferItems ==
  ASSUME QueueTypes, OnePlace, NEW s \in Stones, NEW u \in Stones \ {s},
         queue' = [queue EXCEPT ![s] = <<>>, ![u] = @ \o queue[s]],
         UNCHANGED <<program, store, items, freeItems>>
  PROVE  /\ QueueTypes' /\ OnePlace'
         /\ Cardinality(Waiting') = Cardinality(Waiting)
         /\ \A d \in Events : Cardinality(ItemsOf(d)') = Cardinality(ItemsOf(d))
<1> DEFINE N == Len(items)
           c == queue[u] \o queue[s]
<1>1. /\ queue \in [Stones -> Seq(1 .. N)] /\ Once(queue[s]) /\ Once(queue[u])
      /\ queue[s] \in Seq(1 .. N) /\ queue[u] \in Seq(1 .. N)
      /\ \A x : ~(InList(queue[u], x) /\ InList(queue[s], x))
  BY DEF QueueTypes, OnePlace, Waits
<1>2. Stones' = Stones /\ items' = items /\ freeItems' = freeItems /\ store' = store
  BY DEF Stones
<1> HIDE DEF N
<1>3. c \in Seq(1 .. N) /\ Once(c)
  BY <1>1, JoinList
<1>4. \A x : InList(c, x) <=> InList(queue[u], x) \/ InList(queue[s], x)
  BY <1>1, JoinList, Zenon
<1> HIDE DEF c
<1>5. queue'[s] = <<>> /\ queue'[u] = c /\ \A v \in Stones : v # s /\ v # u => queue'[v] = queue[v]
  BY <1>1 DEF c
<1>6. queue' \in [Stones -> Seq(1 .. N)]
  <2>1. \A v \in Stones : queue'[v] \in Seq(1 .. N)
    BY <1>1, <1>3, <1>5, EmptySeq
  <2>2. queue' \in [Stones -> {queue'[v] : v \in Stones}]
    BY <1>1
  <2> QED BY <2>1, <2>2
<1>7. QueueTypes'
  BY <1>2, <1>6 DEF QueueTypes, N
<1>8. \A v \in Stones : \A x : Waits(v, x)' <=>
        v # s /\ (Waits(v, x) \/ (v = u /\ Waits(s, x)))
  BY <1>4, <1>5, NoList DEF Waits
<1>9. \A v \in Stones : \A x : Kept(v, x)' <=> Kept(v, x)
  BY <1>2 DEF Kept
<1>10. OnePlace'
  <2>1. Once(freeItems') /\ \A v \in Stones : Once(queue'[v]) /\ Once(store'[v])
    BY <1>2, <1>3, <1>5, NoList DEF OnePlace
  <2>2. ASSUME NEW x, NEW v \in Stones, NEW w \in Stones
        PROVE  /\ (Waits(v, x) /\ Waits(w, x) => v = w)'
               /\ (Kept(v, x) /\ Kept(w, x) => v = w)'
               /\ (~(Waits(v, x) /\ Kept(w, x)))'
               /\ (InList(freeItems, x) => ~Waits(v, x) /\ ~Kept(v, x))'
    <3>1. \A y, z \in Stones :
            /\ Waits(y, x) /\ Waits(z, x) => y = z
            /\ Kept(y, x) /\ Kept(z, x) => y = z
            /\ ~(Waits(y, x) /\ Kept(z, x))
            /\ InList(freeItems, x) => ~Waits(y, x) /\ ~Kept(y, x)
      BY DEF OnePlace
    <3> QED BY <1>2, <1>8, <1>9, <3>1
  <2> QED BY <1>2, <2>1, <2>2 DEF OnePlace
<1>11. \A x : (\E v \in Stones : Waits(v, x)') <=> (\E v \in Stones : Waits(v, x))
  BY <1>8
<1>12. Waiting' = Waiting
  BY <1>2, <1>11 DEF Waiting
<1>13. ASSUME NEW d \in Events PROVE ItemsOf(d)' = ItemsOf(d)
  BY <1>2, <1>9, <1>11 DEF ItemsOf
<1> QED BY <1>7, <1>10, <1>12, <1>13

(* INT_EVclear_stored.                                                      *)
LEMMA ClearItems ==
  ASSUME QueueTypes, OnePlace, NEW s \in Stones,
         store' = [store EXCEPT ![s] = <<>>], UNCHANGED <<program, queue, items, freeItems>>
  PROVE  /\ QueueTypes' /\ OnePlace'
         /\ Len(store'[s]) = 0 /\ \A v \in Stones : v # s => store'[v] = store[v]
         /\ Cardinality(Waiting') = Cardinality(Waiting)
         /\ \A d \in Events :
              LET P == {p \in DOMAIN store[s] : items[store[s][p]] = d}
              IN  /\ Cardinality(P) \in Nat
                  /\ Cardinality(ItemsOf(d)') = Cardinality(ItemsOf(d)) - Cardinality(P)
<1> DEFINE N == Len(items)
<1>1. /\ store \in [Stones -> Seq(1 .. N)] /\ store[s] \in Seq(1 .. N) /\ Once(store[s])
      /\ Len(store[s]) \in Nat /\ DOMAIN store[s] = 1 .. Len(store[s])
  <2>1. store \in [Stones -> Seq(1 .. N)] /\ Once(store[s])
    BY DEF QueueTypes, OnePlace
  <2>2. store[s] \in Seq(1 .. N)
    BY <2>1
  <2> QED BY <2>1, <2>2, LenProperties
<1>2. Stones' = Stones /\ items' = items /\ freeItems' = freeItems /\ queue' = queue
  BY DEF Stones
<1>3. /\ store'[s] = <<>> /\ store' \in [Stones -> Seq(1 .. N)]
      /\ \A v \in Stones : v # s => store'[v] = store[v]
  BY <1>1, EmptySeq
<1>4. QueueTypes'
  BY <1>2, <1>3 DEF QueueTypes
<1>5. \A v \in Stones : \A x : Waits(v, x)' <=> Waits(v, x)
  BY <1>2 DEF Waits
<1>6. \A v \in Stones : \A x : Kept(v, x)' <=> v # s /\ Kept(v, x)
  BY <1>3, NoList DEF Kept
<1>7. OnePlace'
  <2>1. Once(freeItems') /\ \A v \in Stones : Once(queue'[v]) /\ Once(store'[v])
    BY <1>2, <1>3, NoList DEF OnePlace
  <2>2. ASSUME NEW x, NEW v \in Stones, NEW w \in Stones
        PROVE  /\ (Waits(v, x) /\ Waits(w, x) => v = w)'
               /\ (Kept(v, x) /\ Kept(w, x) => v = w)'
               /\ (~(Waits(v, x) /\ Kept(w, x)))'
               /\ (InList(freeItems, x) => ~Waits(v, x) /\ ~Kept(v, x))'
    BY <1>2, <1>5, <1>6 DEF OnePlace
  <2> QED BY <1>2, <2>1, <2>2 DEF OnePlace
<1>8. Waiting' = Waiting
  BY <1>2, <1>5 DEF Waiting
<1>9. ASSUME NEW d \in Events
      PROVE  LET P == {p \in DOMAIN store[s] : items[store[s][p]] = d}
             IN  /\ Cardinality(P) \in Nat
                 /\ Cardinality(ItemsOf(d)') = Cardinality(ItemsOf(d)) - Cardinality(P)
  <2> DEFINE P == {p \in DOMAIN store[s] : items[store[s][p]] = d}
             C == {i \in ItemsOf(d) : Kept(s, i)}
             f == [p \in P |-> store[s][p]]
  <2>1. IsFiniteSet(P) /\ Cardinality(P) \in Nat
    <3>1. P \subseteq 1 .. Len(store[s]) /\ IsFiniteSet(1 .. Len(store[s]))
      BY <1>1, UpTo
    <3> QED BY <3>1, FS_Subset, FS_CardinalityType
  <2>2. \A p \in P : store[s][p] \in C
    <3>1. SUFFICES ASSUME NEW p \in P PROVE store[s][p] \in C
      OBVIOUS
    <3>2. Kept(s, store[s][p]) /\ items[store[s][p]] = d
      BY <1>1 DEF Kept, InList
    <3>3. store[s][p] \in 1 .. Len(items)
      BY <3>2, ItemSets
    <3> QED BY <3>2, <3>3 DEF ItemsOf
  <2>3. \A i \in C : \E p \in P : store[s][p] = i
    BY DEF Kept, InList, ItemsOf
  <2>4. \A p, q \in P : store[s][p] = store[s][q] => p = q
    BY <1>1 DEF Once
  <2>5. \A i : i \in C <=> i \in ItemsOf(d) /\ Kept(s, i)
    OBVIOUS
  <2> HIDE DEF P, C
  <2>6. f \in [P -> C] /\ \A p \in P : f[p] = store[s][p]
    BY <2>2
  <2> HIDE DEF f
  <2>7. f \in Bijection(P, C)
    BY <2>3, <2>4, <2>6, Fun_IsBij
  <2>8. IsFiniteSet(C) /\ Cardinality(C) = Cardinality(P)
    BY <2>1, <2>7, FS_Bijection DEF ExistsBijection
  <2>9. ItemsOf(d)' = ItemsOf(d) \ C
    <3>1. \A i : i \in ItemsOf(d)' <=> i \in ItemsOf(d) /\ ~Kept(s, i)
      BY <1>2, <1>5, <1>6 DEF ItemsOf, OnePlace
    <3> QED BY <3>1, <2>5
  <2>10. C \subseteq ItemsOf(d)
    BY <2>5
  <2>11. Cardinality(ItemsOf(d)') = Cardinality(ItemsOf(d)) - Cardinality(C)
    <3>1. IsFiniteSet(ItemsOf(d)) /\ Cardinality(ItemsOf(d)) \in Nat
      BY ItemSets
    <3>2. IsFiniteSet(ItemsOf(d) \ C) /\ Cardinality(ItemsOf(d) \ C) \in Nat
      BY <3>1, FS_Subset, FS_CardinalityType
    <3>3. (ItemsOf(d) \ C) \cup C = ItemsOf(d) /\ (ItemsOf(d) \ C) \cap C = {}
      BY <2>10
    <3>4. Cardinality(ItemsOf(d)) = Cardinality(ItemsOf(d) \ C) + Cardinality(C) - Cardinality({})
      BY <2>8, <3>2, <3>3, FS_Union
    <3> QED BY <2>1, <2>8, <2>9, <3>1, <3>2, <3>4, FS_EmptySet
  <2> QED BY <2>1, <2>8, <2>11 DEF P
<1> QED BY <1>3, <1>4, <1>7, <1>8, <1>9

(* Stones that send.                                                        *)
LEMMA SenderSets ==
  ASSUME OtherTypes, NEW s \in Stones
  PROVE  /\ IsFiniteSet(Senders) /\ Cardinality(Senders) \in Nat
         /\ Cardinality(Senders \cup {s}) =
              IF s \in Senders THEN Cardinality(Senders) ELSE Cardinality(Senders) + 1
         /\ Cardinality(Senders \ {s}) =
              IF s \in Senders THEN Cardinality(Senders) - 1 ELSE Cardinality(Senders)
<1>1. IsFiniteSet(Stones) /\ Senders \subseteq Stones
  BY ProgramFacts DEF Senders
<1>2. IsFiniteSet(Senders) /\ Cardinality(Senders) \in Nat
  BY <1>1, FS_Subset, FS_CardinalityType
<1> QED BY <1>2, FS_AddElement, FS_RemoveElement

LEMMA SendersSet ==
  ASSUME UNCHANGED program, StoneTypes, NEW s \in Stones
  PROVE  /\ sending' = sending => Senders' = Senders
         /\ sending' = [sending EXCEPT ![s] = TRUE] => Senders' = Senders \cup {s}
         /\ sending' = [sending EXCEPT ![s] = FALSE] => Senders' = Senders \ {s}
<1>1. Stones' = Stones /\ sending \in [Stones -> BOOLEAN]
  BY DEF Stones, StoneTypes
<1>2. sending' = sending => Senders' = Senders
  BY <1>1 DEF Senders
<1>3. ASSUME sending' = [sending EXCEPT ![s] = TRUE] PROVE Senders' = Senders \cup {s}
  <2>1. \A u \in Stones : sending'[u] = IF u = s THEN TRUE ELSE sending[u]
    BY <1>1, <1>3
  <2> QED BY <1>1, <2>1 DEF Senders
<1>4. ASSUME sending' = [sending EXCEPT ![s] = FALSE] PROVE Senders' = Senders \ {s}
  <2>1. \A u \in Stones : sending'[u] = IF u = s THEN FALSE ELSE sending[u]
    BY <1>1, <1>4
  <2> QED BY <1>1, <2>1 DEF Senders
<1> QED BY <1>2, <1>3, <1>4

(* The item behind another one.                                             *)
LEMMA BehindType ==
  ASSUME QueueTypes, NEW s \in Stones, NEW i
  PROVE  Behind(s, i) \in Nat
<1> DEFINE I == {j \in 1 .. Len(queue[s]) : queue[s][j] = i}
           p == SelectInSeq(queue[s], LAMBDA j : j = i)
<1>1. queue[s] \in Seq(1 .. Len(items)) /\ Len(queue[s]) \in Nat
  <2>1. queue[s] \in Seq(1 .. Len(items))
    BY DEF QueueTypes
  <2> QED BY <2>1, LenProperties
<1>2. p = IF I # {} THEN Min(I) ELSE 0
  BY DEF SelectInSeq
<1>3. p \in 0 .. Len(queue[s])
  <2>1. CASE I = {}
    BY <2>1, <1>1, <1>2
  <2>2. CASE I # {}
    <3>1. I \subseteq Nat
      BY <1>1
    <3> HIDE DEF I
    <3>2. \E x \in I : \A y \in I : x =< y
      BY <2>2, <3>1, LeastNat
    <3>3. Min(I) \in I
      BY <3>2 DEF Min
    <3> QED BY <2>2, <1>1, <1>2, <3>3 DEF I
  <2> QED BY <2>1, <2>2
<1>4. p # Len(queue[s]) => p + 1 \in 1 .. Len(queue[s])
  BY <1>1, <1>3
<1>5. p # Len(queue[s]) => queue[s][p + 1] \in Nat
  BY <1>1, <1>4, ElementOfSeq
<1>6. Behind(s, i) = IF p = Len(queue[s]) THEN None ELSE queue[s][p + 1]
  BY DEF Behind
<1> HIDE DEF p
<1> QED BY <1>5, <1>6 DEF None
-----------------------------------------------------------------------------
(* The frames that hold an event are finitely many; those of a thread's two *)
(* innermost calls are counted apart.                                       *)
Among(st, t, k, e) == {x \in FramesOf(st, e) : ~(x[1] = t /\ x[2] > k)}
Over(s, k, e) == (IF Len(s) > k /\ s[k + 1].event = e THEN 1 ELSE 0)
                 + (IF Len(s) > k + 1 /\ s[k + 2].event = e THEN 1 ELSE 0)

LEMMA FiniteFrames ==
  ASSUME NEW st \in [Threads -> Seq(FrameSet)], NEW e
  PROVE  IsFiniteSet(FramesOf(st, e)) /\ Cardinality(FramesOf(st, e)) \in Nat
<1> DEFINE G == [u \in Threads |-> {u} \X (1 .. Len(st[u]))]
           W == {G[u] : u \in Threads}
<1>1. IsFiniteSet(Threads)
  BY StoneAssumption, FS_AddElement DEF Threads
<1>2. \A u \in Threads : Len(st[u]) \in Nat
  <2>1. \A u \in Threads : st[u] \in Seq(FrameSet)
    OBVIOUS
  <2> QED BY <2>1, LenProperties
<1>3. ASSUME NEW u \in Threads PROVE IsFiniteSet(G[u])
  <2>1. IsFiniteSet({u}) /\ IsFiniteSet(1 .. Len(st[u]))
    BY <1>2, FS_Singleton, UpTo
  <2> QED BY <2>1, FS_Product
<1>4. G \in [Threads -> W] /\ \A w \in W : \E u \in Threads : G[u] = w
  OBVIOUS
<1>5. \A x \in FramesOf(st, e) : \E u \in Threads : x \in G[u]
  <2>1. SUFFICES ASSUME NEW x \in FramesOf(st, e) PROVE x \in G[x[1]] /\ x[1] \in Threads
    OBVIOUS
  <2>2. x \in Threads \X Nat /\ x[2] \in 1 .. Len(st[x[1]])
    BY DEF FramesOf
  <2> QED BY <2>2
<1> HIDE DEF G
<1>6. IsFiniteSet(W)
  <2> HIDE DEF W
  <2>1. G \in Surjection(Threads, W)
    BY <1>4, Fun_IsSurj
  <2> QED BY <1>1, <2>1, FS_Surjection
<1>7. IsFiniteSet(UNION W)
  BY <1>3, <1>6, FS_UNION
<1>8. FramesOf(st, e) \subseteq UNION W
  BY <1>5
<1> HIDE DEF W
<1> QED BY <1>7, <1>8, FS_Subset, FS_CardinalityType

LEMMA CountFrames ==
  ASSUME NEW st \in [Threads -> Seq(FrameSet)], NEW t \in Threads, NEW k \in Nat,
         k <= Len(st[t]), Len(st[t]) <= k + 2, NEW e
  PROVE  /\ Cardinality(Among(st, t, k, e)) \in Nat /\ Over(st[t], k, e) \in Nat
         /\ Cardinality(FramesOf(st, e)) = Cardinality(Among(st, t, k, e)) + Over(st[t], k, e)
<1> DEFINE n == Len(st[t])
           A == Among(st, t, k, e)
           c1 == n > k /\ st[t][k + 1].event = e
           c2 == n > k + 1 /\ st[t][k + 2].event = e
           B == IF c1 THEN A \cup {<<t, k + 1>>} ELSE A
           C == IF c2 THEN B \cup {<<t, k + 2>>} ELSE B
<1>1. n \in Nat
  <2>1. st[t] \in Seq(FrameSet)
    OBVIOUS
  <2> QED BY <2>1, LenProperties
<1>2. IsFiniteSet(A) /\ Cardinality(A) \in Nat
  <2>1. A \subseteq FramesOf(st, e)
    BY DEF Among
  <2> QED BY <2>1, FiniteFrames, FS_Subset, FS_CardinalityType
<1>3. \A i \in 1 .. n : i > k => i = k + 1 \/ i = k + 2
  BY <1>1
<1>4. k + 1 \in Nat /\ k + 2 \in Nat /\ k + 1 > k /\ k + 2 > k /\ k + 1 # k + 2
  OBVIOUS
<1>5. (n > k => k + 1 \in 1 .. n) /\ (n > k + 1 => k + 2 \in 1 .. n)
      /\ (k + 1 \in 1 .. n => n > k) /\ (k + 2 \in 1 .. n => n > k + 1)
  BY <1>1
<1>6. <<t, k + 1>> \notin A /\ <<t, k + 2>> \notin A /\ <<t, k + 2>> # <<t, k + 1>>
  BY <1>4 DEF Among
<1>7. FramesOf(st, e) = C
  <2>1. \A x \in Threads \X Nat : x \in FramesOf(st, e) <=>
          x[2] \in 1 .. Len(st[x[1]]) /\ st[x[1]][x[2]].event = e
    BY DEF FramesOf
  <2>2. ASSUME NEW x, x \in FramesOf(st, e) PROVE x \in C
    <3>1. x \in Threads \X Nat /\ x[2] \in 1 .. Len(st[x[1]]) /\ st[x[1]][x[2]].event = e
      BY <2>2 DEF FramesOf
    <3>2. CASE x[1] = t /\ x[2] > k
      <4>1. x = <<t, x[2]>>
        BY <3>1, <3>2
      <4>2. x[2] = k + 1 \/ x[2] = k + 2
        BY <1>3, <3>1, <3>2
      <4>3. (x[2] = k + 1 => c1) /\ (x[2] = k + 2 => c2)
        BY <1>5, <3>1, <3>2
      <4> QED BY <4>1, <4>2, <4>3
    <3>3. CASE ~(x[1] = t /\ x[2] > k)
      BY <2>2, <3>3 DEF Among
    <3> QED BY <3>2, <3>3
  <2>3. A \subseteq FramesOf(st, e)
    BY DEF Among
  <2>4. c1 => <<t, k + 1>> \in FramesOf(st, e)
    BY <1>4, <1>5, <2>1
  <2>5. c2 => <<t, k + 2>> \in FramesOf(st, e)
    BY <1>4, <1>5, <2>1
  <2> QED BY <2>2, <2>3, <2>4, <2>5
<1> HIDE DEF A
<1>8. IsFiniteSet(B) /\ Cardinality(B) = Cardinality(A) + (IF c1 THEN 1 ELSE 0)
  <2>1. CASE c1
    BY <1>2, <1>6, <2>1, FS_AddElement
  <2>2. CASE ~c1
    BY <1>2, <2>2
  <2> QED BY <2>1, <2>2
<1>9. <<t, k + 2>> \notin B
  BY <1>6
<1> HIDE DEF B
<1>10. Cardinality(C) = Cardinality(B) + (IF c2 THEN 1 ELSE 0)
  <2>1. Cardinality(B) \in Nat
    BY <1>8, FS_CardinalityType
  <2>2. CASE c2
    BY <1>8, <1>9, <2>2, FS_AddElement
  <2>3. CASE ~c2
    BY <2>1, <2>3
  <2> QED BY <2>2, <2>3
<1>11. Over(st[t], k, e) = (IF c1 THEN 1 ELSE 0) + (IF c2 THEN 1 ELSE 0)
  BY DEF Over
<1> HIDE DEF c1, c2, C
<1> QED BY <1>2, <1>7, <1>8, <1>10, <1>11 DEF A

(* A step of one thread changes the count by what it puts on its stack.     *)
LEMMA FramesChange ==
  ASSUME StackTypes, NEW t \in Threads, NEW k \in Nat,
         Stays(Threads, FrameSet, stack, stack', t, k),
         Len(stack[t]) <= k + 2, Len(stack'[t]) <= k + 2, NEW e
  PROVE  /\ Cardinality(FramesOf(stack, e)) \in Nat /\ Cardinality(FramesOf(stack', e)) \in Nat
         /\ Over(stack[t], k, e) \in Nat /\ Over(stack'[t], k, e) \in Nat
         /\ Over(stack[t], k, e) <= Cardinality(FramesOf(stack, e))
         /\ Cardinality(FramesOf(stack', e)) =
              Cardinality(FramesOf(stack, e)) - Over(stack[t], k, e) + Over(stack'[t], k, e)
<1>1. /\ stack \in [Threads -> Seq(FrameSet)] /\ stack' \in [Threads -> Seq(FrameSet)]
      /\ \A u \in Threads : u # t => stack'[u] = stack[u]
      /\ Len(stack[t]) \in Nat /\ Len(stack'[t]) \in Nat
      /\ k <= Len(stack[t]) /\ k <= Len(stack'[t])
      /\ \A i \in 1 .. k : stack'[t][i] = stack[t][i]
  BY DEF StackTypes, Stays
<1>2. ASSUME NEW x
      PROVE  x \in Among(stack, t, k, e) <=> x \in Among(stack', t, k, e)
  <2>1. CASE x \in Threads \X Nat /\ x[1] = t
    <3>1. x[2] > k => x \notin Among(stack, t, k, e) /\ x \notin Among(stack', t, k, e)
      BY <2>1 DEF Among
    <3>2. ASSUME ~(x[2] > k), x[2] \in 1 .. Len(stack[t]) \/ x[2] \in 1 .. Len(stack'[t])
          PROVE  /\ x[2] \in 1 .. Len(stack[t]) /\ x[2] \in 1 .. Len(stack'[t])
                 /\ stack'[t][x[2]] = stack[t][x[2]]
      <4>1. x[2] \in 1 .. k
        BY <1>1, <3>2
      <4> QED BY <1>1, <4>1
    <3> QED BY <2>1, <3>1, <3>2 DEF Among, FramesOf
  <2>2. CASE x \in Threads \X Nat /\ x[1] # t
    <3>1. stack'[x[1]] = stack[x[1]]
      BY <1>1, <2>2
    <3> QED BY <2>2, <3>1 DEF Among, FramesOf
  <2>3. CASE x \notin Threads \X Nat
    BY <2>3 DEF Among, FramesOf
  <2> QED BY <2>1, <2>2, <2>3
<1>3. Among(stack, t, k, e) = Among(stack', t, k, e)
  BY <1>2
<1>4. /\ Cardinality(Among(stack, t, k, e)) \in Nat /\ Over(stack[t], k, e) \in Nat
      /\ Cardinality(FramesOf(stack, e)) = Cardinality(Among(stack, t, k, e)) + Over(stack[t], k, e)
  BY <1>1, CountFrames, ZenonT(90)
<1>5. /\ Over(stack'[t], k, e) \in Nat
      /\ Cardinality(FramesOf(stack', e)) = Cardinality(Among(stack', t, k, e)) + Over(stack'[t], k, e)
  BY <1>1, CountFrames, ZenonT(90)
<1> QED BY <1>3, <1>4, <1>5
-----------------------------------------------------------------------------
(* What the changes of a stack mean for the references, for the nesting of  *)
(* the calls and for the lock.                                              *)
LEMMA FramesMove ==
  ASSUME StackTypes, NEW t \in Threads, NEW e, NEW n, n = Len(stack[t])
  PROVE  LET old == Cardinality(FramesOf(stack, e))
             new == Cardinality(FramesOf(stack', e))
             top == Number(stack[t][n].event, e)
         IN  /\ old \in Nat
             /\ n > 0 => old >= top
             /\ n > 0 /\ Moves0(t, n - 1) => new = old - top
             /\ \A f \in FrameSet : n > 0 /\ Moves1(t, n - 1, f) =>
                  new = old - top + Number(f.event, e)
             /\ \A f, g \in FrameSet : n > 0 /\ Moves2(t, n - 1, f, g) =>
                  new = old - top + Number(f.event, e) + Number(g.event, e)
             /\ \A f \in FrameSet : n > 1 /\ Moves1(t, n - 2, f) =>
                  new = old - Number(stack[t][n - 1].event, e) - top + Number(f.event, e)
             /\ \A f \in FrameSet : Moves1(t, n, f) => new = old + Number(f.event, e)
             /\ \A f, g \in FrameSet : Moves2(t, n, f, g) =>
                  new = old + Number(f.event, e) + Number(g.event, e)
<1> DEFINE old == Cardinality(FramesOf(stack, e))
           new == Cardinality(FramesOf(stack', e))
           top == Number(stack[t][n].event, e)
<1>1. stack \in [Threads -> Seq(FrameSet)] /\ n \in Nat /\ old \in Nat
  <2>1. stack \in [Threads -> Seq(FrameSet)] /\ stack[t] \in Seq(FrameSet)
    BY DEF StackTypes
  <2> QED BY <2>1, FiniteFrames, LenProperties
<1>2. /\ \A x, y : Number(x, y) = IF x = y THEN 1 ELSE 0
      /\ top = IF stack[t][n].event = e THEN 1 ELSE 0
  BY DEF Number
<1>3. /\ Over(stack[t], n, e) = 0
      /\ n > 0 => n - 1 \in Nat /\ Over(stack[t], n - 1, e) = top /\ n <= n - 1 + 2
      /\ n > 1 => /\ n - 2 \in Nat /\ n <= n - 2 + 2
                  /\ Over(stack[t], n - 2, e) = Number(stack[t][n - 1].event, e) + top
  <2>1. \A m \in Nat : /\ ~(m > m) /\ ~(m > m + 1)
                       /\ m > 0 => m - 1 \in Nat /\ m > m - 1 /\ ~(m > m - 1 + 1) /\ m - 1 + 1 = m
                                   /\ m <= m - 1 + 2
                       /\ m > 1 => m - 2 \in Nat /\ m > m - 2 /\ m > m - 2 + 1 /\ m - 2 + 1 = m - 1
                                   /\ m - 2 + 2 = m /\ m <= m - 2 + 2
    OBVIOUS
  <2>2. Over(stack[t], n, e) = 0
    BY <1>1, <2>1 DEF Over
  <2>3. n > 0 => n - 1 \in Nat /\ Over(stack[t], n - 1, e) = top /\ n <= n - 1 + 2
    BY <1>1, <1>2, <2>1 DEF Over
  <2>4. n > 1 => /\ n - 2 \in Nat /\ n <= n - 2 + 2
                 /\ Over(stack[t], n - 2, e) = Number(stack[t][n - 1].event, e) + top
    BY <1>1, <1>2, <2>1 DEF Over
  <2> QED BY <2>2, <2>3, <2>4
<1>4. ASSUME NEW k \in Nat, Stays(Threads, FrameSet, stack, stack', t, k),
             n <= k + 2, Len(stack'[t]) <= k + 2
      PROVE  new = old - Over(stack[t], k, e) + Over(stack'[t], k, e)
  BY <1>4, FramesChange
<1>5. ASSUME NEW k \in Nat, n <= k + 2
      PROVE  /\ Moves0(t, k) => new = old - Over(stack[t], k, e)
             /\ \A f \in FrameSet : Moves1(t, k, f) =>
                  new = old - Over(stack[t], k, e) + Number(f.event, e)
             /\ \A f, g \in FrameSet : Moves2(t, k, f, g) =>
                  new = old - Over(stack[t], k, e) + (Number(f.event, e) + Number(g.event, e))
  <2>1. /\ ~(k > k) /\ ~(k > k + 1) /\ k + 1 > k /\ ~(k + 1 > k + 1) /\ k + 2 > k /\ k + 2 > k + 1
        /\ k <= k + 2 /\ k + 1 <= k + 2 /\ k + 2 <= k + 2
    OBVIOUS
  <2>2. ASSUME Moves0(t, k) PROVE new = old - Over(stack[t], k, e)
    <3>1. Over(stack'[t], k, e) = 0 /\ Len(stack'[t]) <= k + 2
      BY <2>1, <2>2 DEF Moves0, Over
    <3>2. Over(stack[t], k, e) \in Nat
      BY <1>1, <1>5, <2>2, CountFrames DEF Moves0, Stays
    <3> QED BY <1>1, <1>4, <1>5, <2>2, <3>1, <3>2 DEF Moves0
  <2>3. ASSUME NEW f \in FrameSet, Moves1(t, k, f)
        PROVE  new = old - Over(stack[t], k, e) + Number(f.event, e)
    <3>1. Over(stack'[t], k, e) = Number(f.event, e) /\ Len(stack'[t]) <= k + 2
      BY <1>2, <2>1, <2>3 DEF Moves1, Over
    <3> QED BY <1>4, <1>5, <2>3, <3>1 DEF Moves1
  <2>4. ASSUME NEW f \in FrameSet, NEW g \in FrameSet, Moves2(t, k, f, g)
        PROVE  new = old - Over(stack[t], k, e) + (Number(f.event, e) + Number(g.event, e))
    <3>1. /\ Over(stack'[t], k, e) = Number(f.event, e) + Number(g.event, e)
          /\ Len(stack'[t]) <= k + 2
      BY <1>2, <2>1, <2>4 DEF Moves2, Over
    <3> QED BY <1>4, <1>5, <2>4, <3>1 DEF Moves2
  <2> QED BY <2>2, <2>3, <2>4
<1>6. n > 0 => old >= top
  <2>1. SUFFICES ASSUME n > 0 PROVE old >= top
    OBVIOUS
  <2>2. n - 1 \in Nat /\ n - 1 <= n
    BY <1>1, <2>1
  <2>3. /\ Cardinality(Among(stack, t, n - 1, e)) \in Nat
        /\ old = Cardinality(Among(stack, t, n - 1, e)) + Over(stack[t], n - 1, e)
    BY <1>1, <1>3, <2>1, <2>2, CountFrames
  <2> QED BY <1>2, <1>3, <2>1, <2>3
<1> HIDE DEF old, new
<1>7. ASSUME n > 0
      PROVE  /\ Moves0(t, n - 1) => new = old - top
             /\ \A f \in FrameSet : Moves1(t, n - 1, f) => new = old - top + Number(f.event, e)
             /\ \A f, g \in FrameSet : Moves2(t, n - 1, f, g) =>
                  new = old - top + Number(f.event, e) + Number(g.event, e)
  <2>1. n - 1 \in Nat /\ Over(stack[t], n - 1, e) = top /\ n <= n - 1 + 2 /\ top \in {0, 1}
    BY <1>2, <1>3, <1>7
  <2>2. \A x, y, z, w : x \in Int /\ y \in {0, 1} /\ z \in {0, 1} /\ w \in {0, 1} =>
          x - y + (z + w) = x - y + z + w
    OBVIOUS
  <2> HIDE DEF top
  <2> QED BY <1>1, <1>2, <1>5, <2>1, <2>2
<1>8. ASSUME n > 1
      PROVE  \A f \in FrameSet : Moves1(t, n - 2, f) =>
               new = old - Number(stack[t][n - 1].event, e) - top + Number(f.event, e)
  <2>1. /\ n - 2 \in Nat /\ n <= n - 2 + 2
        /\ Over(stack[t], n - 2, e) = Number(stack[t][n - 1].event, e) + top
        /\ top \in {0, 1} /\ Number(stack[t][n - 1].event, e) \in {0, 1}
    BY <1>2, <1>3, <1>8
  <2> HIDE DEF top
  <2>2. \A f \in FrameSet : Moves1(t, n - 2, f) =>
          new = old - Over(stack[t], n - 2, e) + Number(f.event, e)
    BY <1>5, <2>1
  <2> QED BY <1>1, <1>2, <2>1, <2>2
<1>9. /\ \A f \in FrameSet : Moves1(t, n, f) => new = old + Number(f.event, e)
      /\ \A f, g \in FrameSet : Moves2(t, n, f, g) =>
           new = old + Number(f.event, e) + Number(g.event, e)
  <2>1. n <= n + 2 /\ Over(stack[t], n, e) = 0
    BY <1>1, <1>3
  <2> QED BY <1>1, <1>2, <1>5, <2>1
<1> QED BY <1>1, <1>6, <1>7, <1>8, <1>9 DEF old, new

LEMMA ReturnFrames ==
  ASSUME StackTypes, NEW t \in Threads, NEW e, NEW n, n = Len(stack[t]), n > 0, Moves0(t, n - 1)
  PROVE  /\ Cardinality(FramesOf(stack, e)) \in Nat
         /\ Cardinality(FramesOf(stack, e)) >= Number(stack[t][n].event, e)
         /\ Cardinality(FramesOf(stack', e)) =
              Cardinality(FramesOf(stack, e)) - Number(stack[t][n].event, e)
BY FramesMove

LEMMA StayFrames ==
  ASSUME StackTypes, NEW t \in Threads, NEW e, NEW n, n = Len(stack[t]), n > 0,
         NEW f \in FrameSet, Moves1(t, n - 1, f)
  PROVE  /\ Cardinality(FramesOf(stack, e)) \in Nat
         /\ Cardinality(FramesOf(stack, e)) >= Number(stack[t][n].event, e)
         /\ Cardinality(FramesOf(stack', e)) =
              Cardinality(FramesOf(stack, e)) - Number(stack[t][n].event, e) + Number(f.event, e)
BY FramesMove

LEMMA PushFrames ==
  ASSUME StackTypes, NEW t \in Threads, NEW e, NEW n, n = Len(stack[t]), n > 0,
         NEW f \in FrameSet, NEW g \in FrameSet, Moves2(t, n - 1, f, g)
  PROVE  /\ Cardinality(FramesOf(stack, e)) \in Nat
         /\ Cardinality(FramesOf(stack, e)) >= Number(stack[t][n].event, e)
         /\ Cardinality(FramesOf(stack', e)) =
              Cardinality(FramesOf(stack, e)) - Number(stack[t][n].event, e)
                + Number(f.event, e) + Number(g.event, e)
BY FramesMove

LEMMA UpFrames ==
  ASSUME StackTypes, NEW t \in Threads, NEW e, NEW n, n = Len(stack[t]), n > 1,
         NEW f \in FrameSet, Moves1(t, n - 2, f)
  PROVE  /\ Cardinality(FramesOf(stack, e)) \in Nat
         /\ Cardinality(FramesOf(stack', e)) =
              Cardinality(FramesOf(stack, e)) - Number(stack[t][n - 1].event, e)
                - Number(stack[t][n].event, e) + Number(f.event, e)
BY FramesMove

LEMMA CallFrames ==
  ASSUME StackTypes, NEW t \in Threads, NEW e, NEW n, n = Len(stack[t]), NEW f \in FrameSet
  PROVE  /\ Cardinality(FramesOf(stack, e)) \in Nat
         /\ Moves1(t, n, f) =>
              Cardinality(FramesOf(stack', e)) =
                Cardinality(FramesOf(stack, e)) + Number(f.event, e)
         /\ \A g \in FrameSet : Moves2(t, n, f, g) =>
              Cardinality(FramesOf(stack', e)) =
                Cardinality(FramesOf(stack, e)) + Number(f.event, e) + Number(g.event, e)
BY FramesMove

LEMMA NestedMove ==
  ASSUME StackTypes, Nested, NEW t \in Threads, NEW k \in Nat
  PROVE  /\ Moves0(t, k) => Nested'
         /\ \A f \in FrameSet : Moves1(t, k, f) /\ On(f, k + 1, stack[t][k]) => Nested'
         /\ \A f, g \in FrameSet :
              Moves2(t, k, f, g) /\ On(f, k + 1, stack[t][k]) /\ On(g, k + 2, f) => Nested'
<1> DEFINE Fit(s, d) == On(s[d], d, s[d - 1])
<1>1. \A u \in Threads : \A d \in 1 .. Len(stack[u]) : Fit(stack[u], d)
  BY DEF Nested
<1>2. ASSUME Stays(Threads, FrameSet, stack, stack', t, k),
             \A d \in 1 .. Len(stack'[t]) : d > k => Fit(stack'[t], d)
      PROVE  Nested'
  <2>1. ASSUME NEW u \in Threads, NEW d \in 1 .. Len(stack'[u]) PROVE Fit(stack'[u], d)
    <3>1. CASE u # t
      BY <1>1, <1>2, <3>1 DEF Stays
    <3>2. CASE u = t /\ d <= k
      <4>1. /\ d \in 1 .. Len(stack[t]) /\ stack'[t][d] = stack[t][d]
            /\ d > 1 => stack'[t][d - 1] = stack[t][d - 1]
        <5>1. d \in 1 .. k /\ (d > 1 => d - 1 \in 1 .. k) /\ d \in 1 .. Len(stack[t])
          BY <1>2, <2>1, <3>2 DEF Stays
        <5> QED BY <1>2, <5>1 DEF Stays
      <4>2. Fit(stack[t], d)
        BY <1>1, <4>1
      <4> QED BY <3>2, <4>1, <4>2 DEF On
    <3>3. CASE u = t /\ ~(d <= k)
      <4>1. d > k
        BY <3>3
      <4> QED BY <1>2, <2>1, <3>3, <4>1
    <3> QED BY <3>1, <3>2, <3>3
  <2> QED BY <2>1 DEF Nested
<1>3. ASSUME Moves0(t, k) PROVE Nested'
  BY <1>2, <1>3 DEF Moves0
<1>4. ASSUME Stays(Threads, FrameSet, stack, stack', t, k), NEW f,
             On(f, k + 1, stack[t][k]), stack'[t][k + 1] = f
      PROVE  Fit(stack'[t], k + 1)
  <2>1. k + 1 - 1 = k /\ (k + 1 > 1 => k \in 1 .. k)
    OBVIOUS
  <2>2. k + 1 > 1 => stack'[t][k] = stack[t][k]
    BY <1>4, <2>1 DEF Stays
  <2> QED BY <1>4, <2>1, <2>2 DEF On
<1> HIDE DEF Fit
<1>5. ASSUME NEW f \in FrameSet, Moves1(t, k, f), On(f, k + 1, stack[t][k]) PROVE Nested'
  <2>1. \A d \in 1 .. k + 1 : d > k => d = k + 1
    OBVIOUS
  <2> QED BY <1>2, <1>4, <1>5, <2>1 DEF Moves1
<1>6. ASSUME NEW f \in FrameSet, NEW g \in FrameSet, Moves2(t, k, f, g),
             On(f, k + 1, stack[t][k]), On(g, k + 2, f)
      PROVE  Nested'
  <2>1. (\A d \in 1 .. k + 2 : d > k => d = k + 1 \/ d = k + 2) /\ k + 2 - 1 = k + 1
    OBVIOUS
  <2>2. Fit(stack'[t], k + 1)
    BY <1>4, <1>6 DEF Moves2
  <2>3. Fit(stack'[t], k + 2)
    BY <1>6, <2>1 DEF Moves2, Fit
  <2> QED BY <1>2, <1>6, <2>1, <2>2, <2>3 DEF Moves2
<1> QED BY <1>3, <1>5, <1>6

(* The lock: one thread runs.                                               *)
Acts(t) == Locks(t) \/ LockFree

LEMMA OthersOut ==
  ASSUME OneLock, NEW t \in Threads, Acts(t)
  PROVE  \A u \in Threads : u # t => ~Locks(u)
BY DEF OneLock, Acts, LockFree

LEMMA LockMove ==
  ASSUME OneLock, NEW t \in Threads, Acts(t),
         \A u \in Threads : u # t => stack'[u] = stack[u]
  PROVE  /\ OneLock' /\ \A u \in Threads : u # t => ~Locks(u)'
         /\ LockFree' <=> ~Locks(t)'
<1>1. \A u \in Threads : u # t => ~Locks(u)'
  BY OthersOut DEF Locks, Top
<1>2. Threads' = Threads
  BY DEF Threads
<1> QED BY <1>1, <1>2 DEF OneLock, LockFree

(* Stores at work: only those of the thread that runs.                      *)
AtOverflow(t, s) == At(t, "overflow") /\ Top(t).stone = s
AtPending(t, s)  == At(t, "stone") /\ Top(t).at = "pending" /\ Top(t).stone = s

LEMMA AtWork ==
  ASSUME OneLock, NEW t \in Threads, Acts(t),
         \A u \in Threads : u # t => stack'[u] = stack[u]
  PROVE  \A s : /\ Overflowing(s) <=> AtOverflow(t, s)
                /\ SendingNow(s) <=> AtPending(t, s)
                /\ Overflowing(s)' <=> AtOverflow(t, s)'
                /\ SendingNow(s)' <=> AtPending(t, s)'
<1>1. /\ \A u \in Threads : u # t => ~Locks(u)
      /\ \A u \in Threads : u # t => ~Locks(u)'
  BY OthersOut, LockMove
<1>2. \A u : ~Locks(u) => \A s : ~AtOverflow(u, s) /\ ~AtPending(u, s)
  BY DEF Locks, AtOverflow, AtPending, At
<1>3. \A u : ~Locks(u)' => \A s : ~AtOverflow(u, s)' /\ ~AtPending(u, s)'
  BY DEF Locks, AtOverflow, AtPending, At
<1>4. /\ \A s : Overflowing(s) <=> \E u \in Threads : AtOverflow(u, s)
      /\ \A s : SendingNow(s) <=> \E u \in Threads : AtPending(u, s)
  BY DEF Overflowing, SendingNow, AtOverflow, AtPending
<1>5. /\ \A s : Overflowing(s)' <=> \E u \in Threads : AtOverflow(u, s)'
      /\ \A s : SendingNow(s)' <=> \E u \in Threads : AtPending(u, s)'
  BY DEF Overflowing, SendingNow, AtOverflow, AtPending, Threads
<1> QED BY <1>1, <1>2, <1>3, <1>4, <1>5

(* The innermost call after a change.                                       *)
LEMMA TopMove ==
  ASSUME NEW t \in Threads, NEW k \in Nat
  PROVE  /\ \A f : Moves1(t, k, f) => stack'[t] # <<>> /\ Top(t)' = f
         /\ \A f, g : Moves2(t, k, f, g) => stack'[t] # <<>> /\ Top(t)' = g
         /\ Moves0(t, k) /\ k > 0 => stack'[t] # <<>> /\ Top(t)' = stack[t][k]
         /\ Moves0(t, k) /\ k = 0 => stack'[t] = <<>>
<1>1. \A s \in Seq(FrameSet) : (Len(s) > 0 => s # <<>>) /\ (Len(s) = 0 => s = <<>>)
  BY EmptySeq
<1>2. ASSUME Stays(Threads, FrameSet, stack, stack', t, k)
      PROVE  stack'[t] \in Seq(FrameSet)
  BY <1>2 DEF Stays
<1>3. k + 1 > 0 /\ k + 2 > 0
  OBVIOUS
<1>4. Top(t)' = stack'[t][Len(stack'[t])]
  BY DEF Top, Last
<1>5. \A f : Moves1(t, k, f) => stack'[t] # <<>> /\ Top(t)' = f
  BY <1>1, <1>2, <1>3, <1>4 DEF Moves1
<1>6. \A f, g : Moves2(t, k, f, g) => stack'[t] # <<>> /\ Top(t)' = g
  BY <1>1, <1>2, <1>3, <1>4 DEF Moves2
<1>7. ASSUME Moves0(t, k), k > 0 PROVE stack'[t] # <<>> /\ Top(t)' = stack[t][k]
  <2>1. k \in 1 .. k
    BY <1>7
  <2> QED BY <1>1, <1>2, <1>4, <1>7, <2>1 DEF Moves0, Stays
<1>8. Moves0(t, k) /\ k = 0 => stack'[t] = <<>>
  BY <1>1, <1>2 DEF Moves0
<1> QED BY <1>5, <1>6, <1>7, <1>8

(* What is below the innermost call is not at work on a store.              *)
LEMMA BelowTop ==
  ASSUME StackTypes, Nested, NEW t \in Threads, NEW n, n = Len(stack[t]), n > 1
  PROVE  /\ stack[t][n - 1] \in FrameSet /\ stack[t][n] \in FrameSet
         /\ n \in Nat /\ On(stack[t][n], n, stack[t][n - 1])
         /\ stack[t][n - 1].op # "overflow"
         /\ ~(stack[t][n - 1].op = "stone" /\ stack[t][n - 1].at = "pending")
<1>1. stack[t] \in Seq(FrameSet) /\ n \in Nat
  <2>1. stack[t] \in Seq(FrameSet)
    BY DEF StackTypes
  <2> QED BY <2>1, LenProperties
<1>2. n \in 1 .. n /\ n - 1 \in 1 .. n /\ n # 1
  <2>1. \A m \in Nat : m > 1 => m \in 1 .. m /\ m - 1 \in 1 .. m /\ m # 1
    OBVIOUS
  <2> QED BY <1>1, <2>1
<1>3. stack[t][n] \in FrameSet /\ stack[t][n - 1] \in FrameSet
  BY <1>1, <1>2, ElementOfSeq
<1>4. On(stack[t][n], n, stack[t][n - 1])
  BY <1>2 DEF Nested
<1>5. stack[t][n].op \in Ops
  BY <1>3 DEF FrameSet
<1> QED BY <1>1, <1>2, <1>3, <1>4, <1>5 DEF On, Ops, Runners

(* Calls of EVset_store_limit that are under way.                           *)
LEMMA LimitMove ==
  ASSUME StackTypes, NEW t \in Threads, NEW k \in Nat,
         Stays(Threads, FrameSet, stack, stack', t, k), NEW s
  PROVE  /\ Limiting(s) => \/ Limiting(s)'
                           \/ \E i \in 1 .. Len(stack[t]) :
                                i > k /\ stack[t][i].op = "limit" /\ stack[t][i].stone = s
         /\ \A i \in 1 .. Len(stack'[t]) :
              stack'[t][i].op = "limit" /\ stack'[t][i].stone = s => Limiting(s)'
<1>1. \A u \in Threads : /\ DOMAIN stack[u] = 1 .. Len(stack[u])
                         /\ DOMAIN stack'[u] = 1 .. Len(stack'[u])
  <2>1. \A u \in Threads : stack[u] \in Seq(FrameSet) /\ stack'[u] \in Seq(FrameSet)
    BY DEF StackTypes, Stays
  <2> QED BY <2>1, LenProperties
<1>2. Limiting(s) <=> \E u \in Threads : \E i \in 1 .. Len(stack[u]) :
                        stack[u][i].op = "limit" /\ stack[u][i].stone = s
  BY <1>1 DEF Limiting, Frames
<1>3. Limiting(s)' <=> \E u \in Threads : \E i \in 1 .. Len(stack'[u]) :
                        stack'[u][i].op = "limit" /\ stack'[u][i].stone = s
  BY <1>1 DEF Limiting, Frames, Threads
<1>4. ASSUME Limiting(s), ~Limiting(s)'
      PROVE  \E i \in 1 .. Len(stack[t]) :
               i > k /\ stack[t][i].op = "limit" /\ stack[t][i].stone = s
  <2>1. PICK u \in Threads : \E i \in 1 .. Len(stack[u]) :
               stack[u][i].op = "limit" /\ stack[u][i].stone = s
    BY <1>2, <1>4
  <2>2. PICK i \in 1 .. Len(stack[u]) : stack[u][i].op = "limit" /\ stack[u][i].stone = s
    BY <2>1
  <2>3. u = t
    BY <1>3, <1>4, <2>2 DEF Stays
  <2>4. CASE i <= k
    <3>1. i \in 1 .. k /\ i \in 1 .. Len(stack'[t])
      BY <2>2, <2>3, <2>4 DEF Stays
    <3> QED BY <1>3, <1>4, <2>2, <2>3, <3>1 DEF Stays
  <2>5. CASE ~(i <= k)
    BY <2>2, <2>3, <2>5
  <2> QED BY <2>4, <2>5
<1> QED BY <1>3, <1>4
-----------------------------------------------------------------------------
(* The kinds of steps, by what they do to the stack of the thread t.  Each  *)
(* keeps the shape of the stacks, and the calm ones start no work on a      *)
(* store and end no EVset_store_limit.                                      *)
Calm(t) ==
  /\ ~At(t, "overflow")'
  /\ \A s : AtPending(t, s)' => sending[s]
  /\ \A s : Limiting(s) => Limiting(s)'

Steps(t) == Shape' /\ \A u \in Threads : u # t => stack'[u] = stack[u]

LEMMA StepsMove ==
  ASSUME Shape, NEW t \in Threads, Acts(t), UNCHANGED program, NEW k \in Nat,
         Stays(Threads, FrameSet, stack, stack', t, k), Nested'
  PROVE  Steps(t)
<1>1. stack' \in [Threads -> Seq(FrameSet)] /\ \A u \in Threads : u # t => stack'[u] = stack[u]
  BY DEF Stays
<1>2. OneLock'
  BY <1>1, LockMove DEF Shape
<1>3. StackTypes'
  <2>1. Threads' = Threads /\ FrameSet' = FrameSet
    BY SameProgram DEF Threads
  <2> QED BY <1>1, <2>1 DEF StackTypes
<1> QED BY <1>1, <1>2, <1>3 DEF Steps, Shape

(* The innermost call of t and its position.                                *)
LEMMA TopPlace ==
  ASSUME Shape, NEW t \in Threads, stack[t] # <<>>, NEW n, n = Len(stack[t])
  PROVE  /\ n \in Nat \ {0} /\ n - 1 \in Nat /\ n - 1 + 1 = n /\ n - 1 + 2 = n + 1
         /\ Top(t) = stack[t][n] /\ Top(t) \in FrameSet
         /\ On(Top(t), n, stack[t][n - 1])
         /\ n > 1 => n - 2 \in Nat /\ n - 2 + 1 = n - 1 /\ n - 1 > 0
         /\ ~(n > 1) => n = 1
         /\ n > 0 /\ n + 1 > 1 /\ n + 2 > 1
<1>1. n \in Nat \ {0} /\ n \in 1 .. Len(stack[t]) /\ Top(t) = stack[t][n] /\ Top(t) \in FrameSet
  BY TopFrame DEF Shape
<1>2. On(Top(t), n, stack[t][n - 1])
  BY <1>1 DEF Shape, Nested
<1>3. \A m \in Nat \ {0} :
         /\ m - 1 \in Nat /\ m - 1 + 1 = m /\ m - 1 + 2 = m + 1
         /\ m > 1 => m - 2 \in Nat /\ m - 2 + 1 = m - 1 /\ m - 1 > 0
         /\ ~(m > 1) => m = 1
         /\ m > 0 /\ m + 1 > 1 /\ m + 2 > 1
  OBVIOUS
<1> QED BY <1>1, <1>2, <1>3

LEMMA ReturnStep ==
  ASSUME Shape, NEW t \in Threads, Acts(t), UNCHANGED program, stack[t] # <<>>,
         NEW n, n = Len(stack[t]), Moves0(t, n - 1)
  PROVE  Steps(t) /\ ~At(t, "overflow")' /\ (\A s : ~AtPending(t, s)')
         /\ (Top(t).op # "limit" => Calm(t))
         /\ \A s : Limiting(s) /\ Top(t).stone # s => Limiting(s)'
<1>1. /\ n \in Nat \ {0} /\ n - 1 \in Nat /\ Top(t) = stack[t][n]
      /\ (n > 1 => n - 1 > 0) /\ (~(n > 1) => n = 1)
  BY TopPlace
<1>2. Stays(Threads, FrameSet, stack, stack', t, n - 1) /\ StackTypes /\ Nested
  BY DEF Moves0, Shape
<1>3. Steps(t)
  BY <1>1, <1>2, NestedMove, StepsMove
<1>4. ~At(t, "overflow")' /\ (\A s : ~AtPending(t, s)')
  <2>1. CASE n > 1
    <3>1. Top(t)' = stack[t][n - 1]
      BY <1>1, <2>1, TopMove
    <3>2. Top(t)'.op # "overflow" /\ ~(Top(t)'.op = "stone" /\ Top(t)'.at = "pending")
      BY <1>2, <2>1, <3>1, BelowTop
    <3> QED BY <3>2 DEF At, AtPending
  <2>2. CASE ~(n > 1)
    <3>1. stack'[t] = <<>>
      BY <1>1, <2>2, TopMove
    <3> QED BY <3>1 DEF At, AtPending
  <2> QED BY <2>1, <2>2
<1>5. \A i \in 1 .. n : i > n - 1 => i = n
  BY <1>1
<1>6. ASSUME NEW s, Limiting(s), ~Limiting(s)' PROVE Top(t).op = "limit" /\ Top(t).stone = s
  BY <1>1, <1>2, <1>5, <1>6, LimitMove
<1> QED BY <1>3, <1>4, <1>6 DEF Calm

LEMMA StayStep ==
  ASSUME Shape, NEW t \in Threads, Acts(t), UNCHANGED program, stack[t] # <<>>,
         Top(t).op # "limit",
         NEW n, n = Len(stack[t]), NEW f \in FrameSet, Moves1(t, n - 1, f),
         f.op = Top(t).op \/ (f.op = "crashed" /\ Top(t).op = "stone"),
         f.op # "overflow", f.op = "stone" => f.at = "items"
  PROVE  Steps(t) /\ Calm(t) /\ (\A s : ~AtPending(t, s)')
<1>1. /\ n \in Nat \ {0} /\ n - 1 \in Nat /\ n - 1 + 1 = n /\ Top(t) = stack[t][n]
      /\ On(Top(t), n, stack[t][n - 1])
  BY TopPlace
<1>2. Stays(Threads, FrameSet, stack, stack', t, n - 1) /\ StackTypes /\ Nested
  BY DEF Moves1, Shape
<1>3. On(f, n - 1 + 1, stack[t][n - 1])
  BY <1>1 DEF On
<1>4. Nested'
  BY <1>1, <1>2, <1>3, NestedMove
<1>5. Steps(t)
  BY <1>1, <1>2, <1>4, StepsMove
<1>6. Top(t)' = f
  BY <1>1, TopMove
<1>7. ~At(t, "overflow")' /\ \A s : ~AtPending(t, s)'
  BY <1>6 DEF At, AtPending
<1>8. \A i \in 1 .. n : i > n - 1 => i = n
  BY <1>1
<1>9. \A s : Limiting(s) => Limiting(s)'
  BY <1>1, <1>2, <1>8, LimitMove
<1> QED BY <1>5, <1>7, <1>9 DEF Calm

LEMMA PushStep ==
  ASSUME Shape, NEW t \in Threads, Acts(t), UNCHANGED program, stack[t] # <<>>,
         NEW n, n = Len(stack[t]), NEW f \in FrameSet, NEW g \in FrameSet,
         Moves2(t, n - 1, f, g), f.op = Top(t).op, On(g, n + 1, f),
         Top(t).op = "limit" => f.stone = Top(t).stone,
         g.op = "stone" /\ g.at = "pending" => sending[g.stone]
  PROVE  /\ Steps(t) /\ \A s : AtOverflow(t, s)' <=> g.op = "overflow" /\ g.stone = s
         /\ \A s : AtPending(t, s)' => sending[s]
         /\ \A s : Limiting(s) => Limiting(s)'
         /\ g.op # "overflow" => Calm(t)
<1>1. /\ n \in Nat \ {0} /\ n - 1 \in Nat /\ n - 1 + 1 = n /\ n - 1 + 2 = n + 1
      /\ Top(t) = stack[t][n] /\ On(Top(t), n, stack[t][n - 1])
  BY TopPlace
<1>2. Stays(Threads, FrameSet, stack, stack', t, n - 1) /\ StackTypes /\ Nested
  BY DEF Moves2, Shape
<1>3. On(f, n - 1 + 1, stack[t][n - 1])
  BY <1>1 DEF On
<1>4. Nested'
  BY <1>1, <1>2, <1>3, NestedMove
<1>5. Steps(t)
  BY <1>1, <1>2, <1>4, StepsMove
<1>6. stack'[t] # <<>> /\ Top(t)' = g
  BY <1>1, TopMove
<1>7. /\ \A s : AtOverflow(t, s)' <=> g.op = "overflow" /\ g.stone = s
      /\ \A s : AtPending(t, s)' => sending[s]
      /\ At(t, "overflow")' => g.op = "overflow"
  BY <1>6 DEF At, AtOverflow, AtPending
<1>8. /\ \A i \in 1 .. n : i > n - 1 => i = n
      /\ n \in 1 .. n - 1 + 2
  BY <1>1
<1>9. ASSUME NEW s, Limiting(s), ~Limiting(s)' PROVE FALSE
  <2>1. Top(t).op = "limit" /\ Top(t).stone = s
    BY <1>1, <1>2, <1>8, <1>9, LimitMove
  <2>2. n \in 1 .. Len(stack'[t]) /\ stack'[t][n] = f
    BY <1>1, <1>8 DEF Moves2
  <2> QED BY <1>1, <1>2, <1>9, <2>1, <2>2, LimitMove
<1> QED BY <1>5, <1>7, <1>9 DEF Calm

LEMMA UpStep ==
  ASSUME Shape, NEW t \in Threads, Acts(t), UNCHANGED program, stack[t] # <<>>,
         NEW n, n = Len(stack[t]), n > 1, NEW f \in FrameSet, Moves1(t, n - 2, f),
         f.op = stack[t][n - 1].op, f.at = stack[t][n - 1].at,
         Top(t).op # "limit", f.op # "limit"
  PROVE  Steps(t) /\ Calm(t) /\ (\A s : ~AtPending(t, s)')
<1>1. /\ n \in Nat \ {0} /\ n - 2 \in Nat /\ n - 2 + 1 = n - 1 /\ Top(t) = stack[t][n] /\ n - 1 > 0
  BY TopPlace
<1>2. Stays(Threads, FrameSet, stack, stack', t, n - 2) /\ StackTypes /\ Nested
  BY DEF Moves1, Shape
<1>3. /\ \A m \in Nat : m > 1 => m - 1 \in 1 .. m /\ m - 1 - 1 = m - 2
      /\ \A m \in Nat : m > 1 => \A i \in 1 .. m : i > m - 2 => i = m \/ i = m - 1
  OBVIOUS
<1>4. n - 1 \in 1 .. n /\ n - 1 - 1 = n - 2 /\ \A i \in 1 .. n : i > n - 2 => i = n \/ i = n - 1
  BY <1>1, <1>3
<1>5. On(stack[t][n - 1], n - 1, stack[t][n - 2])
  BY <1>2, <1>4 DEF Nested
<1>6. On(f, n - 2 + 1, stack[t][n - 2])
  BY <1>1, <1>5 DEF On
<1>7. Nested'
  BY <1>1, <1>2, <1>6, NestedMove
<1>8. Steps(t)
  BY <1>1, <1>2, <1>7, StepsMove
<1>9. Top(t)' = f
  BY <1>1, TopMove
<1>10. ~At(t, "overflow")' /\ \A s : ~AtPending(t, s)'
  <2>1. f.op # "overflow" /\ ~(f.op = "stone" /\ f.at = "pending")
    BY <1>2, BelowTop
  <2> QED BY <1>9, <2>1 DEF At, AtPending
<1>11. \A s : Limiting(s) => Limiting(s)'
  BY <1>1, <1>2, <1>4, LimitMove
<1> QED BY <1>8, <1>10, <1>11 DEF Calm

LEMMA CallStep ==
  ASSUME Shape, NEW t \in Threads, Acts(t), UNCHANGED program,
         NEW n, n = Len(stack[t]), NEW f \in FrameSet,
         On(f, n + 1, stack[t][n]), f.op # "overflow", f.op # "stone"
  PROVE  /\ Moves1(t, n, f) =>
              /\ Steps(t) /\ Calm(t) /\ \A s : ~AtPending(t, s)'
              /\ f.op = "limit" => Limiting(f.stone)'
         /\ \A g \in FrameSet :
              Moves2(t, n, f, g) /\ On(g, n + 2, f) /\ g.op # "overflow" /\ g.op # "stone" =>
                Steps(t) /\ Calm(t) /\ \A s : ~AtPending(t, s)'
<1>1. StackTypes /\ Nested /\ n \in Nat
  <2>1. stack[t] \in Seq(FrameSet)
    BY DEF Shape, StackTypes
  <2> QED BY <2>1, LenProperties DEF Shape
<1>2. \A i \in 1 .. n : ~(i > n)
  BY <1>1
<1>3. ASSUME Stays(Threads, FrameSet, stack, stack', t, n)
      PROVE  \A s : Limiting(s) => Limiting(s)'
  BY <1>1, <1>2, <1>3, LimitMove
<1>4. ASSUME Moves1(t, n, f)
      PROVE  /\ Steps(t) /\ Calm(t) /\ \A s : ~AtPending(t, s)'
             /\ f.op = "limit" => Limiting(f.stone)'
  <2>1. Stays(Threads, FrameSet, stack, stack', t, n) /\ Nested'
    BY <1>1, <1>4, NestedMove DEF Moves1
  <2>2. Steps(t)
    BY <1>1, <2>1, StepsMove
  <2>3. ~At(t, "overflow")' /\ \A s : ~AtPending(t, s)'
    BY <1>1, <1>4, TopMove DEF At, AtPending
  <2>4. ASSUME f.op = "limit" PROVE Limiting(f.stone)'
    <3>1. n + 1 \in 1 .. Len(stack'[t]) /\ stack'[t][n + 1] = f
      BY <1>1, <1>4 DEF Moves1
    <3> QED BY <1>1, <2>1, <2>4, <3>1, LimitMove
  <2> QED BY <1>3, <2>1, <2>2, <2>3, <2>4 DEF Calm
<1>5. ASSUME NEW g \in FrameSet, Moves2(t, n, f, g), On(g, n + 2, f),
             g.op # "overflow", g.op # "stone"
      PROVE  Steps(t) /\ Calm(t) /\ \A s : ~AtPending(t, s)'
  <2>1. Stays(Threads, FrameSet, stack, stack', t, n) /\ Nested'
    BY <1>1, <1>5, NestedMove DEF Moves2
  <2>2. Steps(t)
    BY <1>1, <2>1, StepsMove
  <2>3. ~At(t, "overflow")' /\ \A s : ~AtPending(t, s)'
    BY <1>1, <1>5, TopMove DEF At, AtPending
  <2> QED BY <1>3, <2>1, <2>2, <2>3 DEF Calm
<1> QED BY <1>4, <1>5
-----------------------------------------------------------------------------
(* What stays when a step leaves it alone.                                  *)
LEMMA EventSame ==
  ASSUME EventTypes, UNCHANGED <<program, eventVars, delivered>>
  PROVE  EventTypes'
BY DEF EventTypes, eventVars, Stones, Events, SubmitKinds

LEMMA StoneSame ==
  ASSUME StoneTypes, UNCHANGED <<program, stoneVars, storeVars>>
  PROVE  StoneTypes'
BY DEF StoneTypes, stoneVars, storeVars, Stones, IsStore, Action

LEMMA OtherSame ==
  ASSUME OtherTypes, UNCHANGED program, lastActive' \in Stones \cup {None}, inPlay' \in Int,
         tasks' \in Nat, calls' \in 0 .. program.maxCalls
  PROVE  OtherTypes'
BY DEF OtherTypes, Stones, None

LEMMA ItemSame ==
  ASSUME QueueTypes, OnePlace, UNCHANGED <<program, queue, store, items, freeItems>>
  PROVE  /\ QueueTypes' /\ OnePlace' /\ Waiting' = Waiting
         /\ \A d : ItemsOf(d)' = ItemsOf(d)
<1>1. Stones' = Stones
  BY DEF Stones
<1>2. QueueTypes'
  BY <1>1 DEF QueueTypes, Events
<1>3. OnePlace'
  BY <1>1 DEF OnePlace, Waits, Kept
<1>4. Waiting' = Waiting
  BY <1>1 DEF Waiting, Waits
<1>5. \A d : ItemsOf(d)' = ItemsOf(d)
  BY <1>1 DEF ItemsOf, Waits, Kept
<1> QED BY <1>2, <1>3, <1>4, <1>5

LEMMA StoreSame ==
  ASSUME Types, StoreInv, UNCHANGED <<program, store, storeVars>>,
         Shape, NEW t \in Threads, Acts(t), Steps(t), Calm(t), ~At(t, "overflow")
  PROVE  StoreInv'
<1>1. /\ Stones' = Stones /\ store' = store
      /\ numStored' = numStored /\ maxStored' = maxStored /\ sending' = sending
  BY DEF Stones, storeVars
<1>2. \A s : ~Overflowing(s) /\ ~Overflowing(s)' /\ (SendingNow(s)' => sending[s])
  <2>1. \A s : /\ Overflowing(s) <=> AtOverflow(t, s)
               /\ Overflowing(s)' <=> AtOverflow(t, s)'
               /\ SendingNow(s)' <=> AtPending(t, s)'
    BY AtWork DEF Steps, Shape
  <2>2. \A s : ~AtOverflow(t, s) /\ ~AtOverflow(t, s)'
    BY DEF AtOverflow, Calm
  <2> QED BY <2>1, <2>2 DEF Calm
<1>3. \A s : Limiting(s) => Limiting(s)'
  BY DEF Calm
<1> QED BY <1>1, <1>2, <1>3 DEF StoreInv

(* The references of the events, when none is submitted or returned.        *)
LEMMA RefKept ==
  ASSUME Types, RefInv, UNCHANGED <<program, origin, returned>>, ref' \in [Events -> Int],
         \A d \in Events :
           /\ Refs(d) \in Nat /\ Refs(d)' \in Nat
           /\ ref'[d] - Refs(d)' >= ref[d] - Refs(d)
           /\ NoStores => ref'[d] - Refs(d)' = ref[d] - Refs(d)
           /\ ref'[d] > 0 => ref[d] > 0
           /\ appMem'[d] => appMem[d]
  PROVE  RefInv'
<1>1. /\ Events' = Events /\ NoStores' = NoStores /\ origin' = origin /\ returned' = returned
      /\ origin \in Seq([kind : SubmitKinds, stone : Stones]) /\ Len(origin) \in Nat
      /\ DOMAIN origin = 1 .. Len(origin) /\ ref \in [Events -> Int]
  <2>1. origin \in Seq([kind : SubmitKinds, stone : Stones]) /\ ref \in [Events -> Int]
    BY DEF Types, EventTypes
  <2>2. Events' = Events /\ NoStores' = NoStores
    BY DEF Events, NoStores, Stones, IsStore, Action
  <2> QED BY <2>1, <2>2, LenProperties
<1>2. ASSUME NEW d \in Events
      PROVE  ref'[d] >= Refs(d)' /\ (NoStores => ref'[d] = Refs(d)')
  <2>1. ref[d] >= Refs(d) /\ (NoStores => ref[d] = Refs(d)) /\ ref[d] \in Int /\ ref'[d] \in Int
    BY <1>1 DEF RefInv
  <2>2. /\ Refs(d) \in Nat /\ Refs(d)' \in Nat
        /\ ref'[d] - Refs(d)' >= ref[d] - Refs(d)
        /\ NoStores => ref'[d] - Refs(d)' = ref[d] - Refs(d)
    OBVIOUS
  <2>3. \A a, b, x, y \in Int : (a - x >= b - y /\ b >= y => a >= x)
                                 /\ (a - x = b - y /\ b = y => a = x)
    OBVIOUS
  <2> QED BY <2>1, <2>2, <2>3
<1>3. AppDataReleased'
  <2>1. \A d \in DOMAIN origin : d \in Events
    <3>1. Len(origin) <= MaxEvents /\ MaxEvents \in Nat
      BY StoneAssumption DEF RefInv
    <3> QED BY <1>1, <3>1 DEF Events
  <2>2. \A d \in DOMAIN origin : returned[d] /\ origin[d].kind = "app" => ~(appMem[d] /\ ref[d] > 0)
    BY DEF RefInv, AppDataReleased
  <2> QED BY <1>1, <2>1, <2>2 DEF AppDataReleased
<1>4. ASSUME NEW d \in Events, d > Len(origin) PROVE ref'[d] = 0 /\ ~returned[d]
  <2>1. ref[d] = 0 /\ ~returned[d]
    BY <1>4 DEF RefInv
  <2>2. ref'[d] >= Refs(d)' /\ Refs(d)' \in Nat /\ ref'[d] \in Int /\ (ref'[d] > 0 => ref[d] > 0)
    BY <1>2
  <2> QED BY <2>1, <2>2
<1> QED BY <1>1, <1>2, <1>3, <1>4 DEF RefInv

LEMMA RefTypes ==
  ASSUME Types
  PROVE  /\ \A d : Cardinality(ItemsOf(d)) \in Nat /\ Cardinality(FramesOf(stack, d)) \in Nat
         /\ \A d : Refs(d) \in Nat
         /\ \A x, y : Number(x, y) \in {0, 1} /\ (Number(x, y) = 1 <=> x = y)
         /\ \A d \in Events : Number(None, d) = 0
<1>1. stack \in [Threads -> Seq(FrameSet)] /\ QueueTypes
  BY DEF Types, StackTypes
<1>2. \A d : Cardinality(ItemsOf(d)) \in Nat /\ Cardinality(FramesOf(stack, d)) \in Nat
  BY <1>1, ItemSets, FiniteFrames
<1>3. \A d \in Events : d # None
  BY StoneAssumption DEF Events, None
<1> QED BY <1>2, <1>3 DEF Refs, Number

LEMMA RefsNext == \A d : Refs(d)' = Cardinality(ItemsOf(d)') + Cardinality(FramesOf(stack', d))
BY DEF Refs, FramesOf, Threads

LEMMA StillStep ==
  ASSUME Shape, NEW t \in Threads, LockFree, UNCHANGED <<program, stack>>
  PROVE  Acts(t) /\ Steps(t) /\ Calm(t) /\ ~At(t, "overflow")
<1>1. Threads' = Threads /\ FrameSet' = FrameSet
  BY SameProgram DEF Threads
<1>2. Shape'
  BY <1>1 DEF Shape, StackTypes, Nested, OneLock, Locks, Top
<1>3. ~At(t, "overflow") /\ ~At(t, "stone")
  BY DEF LockFree, Locks, At
<1>4. \A s : Limiting(s) => Limiting(s)'
  BY <1>1 DEF Limiting, Frames
<1>5. ~At(t, "overflow")' /\ \A s : ~AtPending(t, s)'
  BY <1>3 DEF At, AtPending, Top
<1> QED BY <1>2, <1>3, <1>4, <1>5 DEF Acts, Steps, Calm

(* Steps that move no event: they keep the invariant.                       *)
LEMMA QuietKeeps ==
  ASSUME IInv, NEW t \in Threads, Acts(t), Steps(t), Calm(t), ~At(t, "overflow"),
         UNCHANGED <<program, queueVars, eventVars, storeVars, inPlay, delivered>>,
         StoneTypes', lastActive' \in Stones \cup {None},
         tasks' \in Nat, calls' \in 0 .. program.maxCalls,
         \A d \in Events : Cardinality(FramesOf(stack', d)) = Cardinality(FramesOf(stack, d))
  PROVE  IInv'
<1>1. Types /\ StoreInv /\ ItemInv /\ RefInv /\ Shape /\ Shape'
  BY DEF IInv, Types, Shape, Steps
<1>2. /\ QueueTypes' /\ OnePlace' /\ Waiting' = Waiting
      /\ \A d : ItemsOf(d)' = ItemsOf(d)
  BY <1>1, ItemSame DEF Types, ItemInv, queueVars
<1>3. EventTypes'
  BY <1>1, EventSame DEF Types
<1>4. OtherTypes'
  BY <1>1, OtherSame DEF Types, OtherTypes
<1>5. StoreInv'
  BY <1>1, StoreSame DEF queueVars
<1>6. ItemInv'
  <2>1. Senders' = Senders
    BY DEF Senders, Stones, storeVars
  <2> QED BY <1>1, <1>2, <2>1 DEF ItemInv
<1>7. RefInv'
  <2>1. \A d \in Events : Refs(d)' = Refs(d) /\ Refs(d) \in Nat
    BY <1>1, <1>2, RefsNext, RefTypes DEF Refs
  <2>2. ref \in [Events -> Int] /\ ref' = ref /\ appMem' = appMem
    BY <1>1 DEF Types, EventTypes, eventVars
  <2> QED BY <1>1, <2>1, <2>2, RefKept DEF eventVars
<1> QED BY <1>1, <1>2, <1>3, <1>4, <1>5, <1>6, <1>7 DEF IInv, Types, Shape

(* What IInv says of a thread that is in a call.                            *)
LEMMA InCall ==
  ASSUME IInv, NEW t \in Threads, NEW op, At(t, op), NEW n, n = Len(stack[t])
  PROVE  /\ stack[t] # <<>> /\ Shape /\ StackTypes /\ Top(t).op = op
         /\ op \notin {"handler", "drain"} => Acts(t)
         /\ n \in Nat \ {0} /\ n - 1 \in Nat /\ n - 1 + 1 = n /\ n - 1 + 2 = n + 1 /\ n > 0
         /\ Top(t) = stack[t][n] /\ Top(t) \in FrameSet /\ On(Top(t), n, stack[t][n - 1])
<1>1. stack[t] # <<>> /\ Top(t).op = op
  BY DEF At
<1>2. Shape /\ StackTypes
  BY DEF IInv, Shape, Types
<1>3. op \notin {"handler", "drain"} => Acts(t)
  BY <1>1 DEF Acts, Locks
<1> QED BY <1>1, <1>2, <1>3, TopPlace
-----------------------------------------------------------------------------
(* A call that goes on: its frame is replaced.                              *)
LEMMA StayMove ==
  ASSUME IInv, NEW t \in Threads, NEW op, At(t, op),
         op \notin {"handler", "drain", "limit", "overflow"}, UNCHANGED program,
         NEW f \in FrameSet, Replace(t, f),
         f.op = op \/ (f.op = "crashed" /\ op = "stone"), f.op = "stone" => f.at = "items"
  PROVE  /\ Shape /\ Acts(t) /\ Steps(t) /\ Calm(t) /\ \A s : ~AtPending(t, s)'
         /\ \A d \in Events :
              /\ Cardinality(FramesOf(stack, d)) >= Number(Top(t).event, d)
              /\ Cardinality(FramesOf(stack', d)) =
                   Cardinality(FramesOf(stack, d)) - Number(Top(t).event, d) + Number(f.event, d)
<1>1. PICK n : n = Len(stack[t])
  OBVIOUS
<1>2. /\ stack[t] # <<>> /\ Shape /\ StackTypes /\ Top(t).op = op /\ Acts(t)
      /\ n \in Nat \ {0} /\ n > 0 /\ Top(t) = stack[t][n]
  BY <1>1, InCall
<1>3. Moves1(t, n - 1, f)
  BY <1>1, <1>2, ReplaceMoves
<1>4. /\ Top(t).op # "limit" /\ f.op # "overflow"
      /\ f.op = Top(t).op \/ (f.op = "crashed" /\ Top(t).op = "stone")
  BY <1>2
<1>5. Steps(t) /\ Calm(t) /\ \A s : ~AtPending(t, s)'
  BY <1>1, <1>2, <1>3, <1>4, StayStep
<1>6. ASSUME NEW d \in Events
      PROVE  /\ Cardinality(FramesOf(stack, d)) >= Number(Top(t).event, d)
             /\ Cardinality(FramesOf(stack', d)) =
                  Cardinality(FramesOf(stack, d)) - Number(Top(t).event, d) + Number(f.event, d)
  BY <1>1, <1>2, <1>3, StayFrames
<1> QED BY <1>2, <1>5, <1>6

(* A call that makes another call.                                          *)
Pushes(t, f, g) == stack' = [stack EXCEPT ![t] = Front(@) \o <<f, g>>]

LEMMA PushMove ==
  ASSUME IInv, NEW t \in Threads, NEW op, At(t, op),
         op \notin {"handler", "drain"}, UNCHANGED program,
         NEW f \in FrameSet, NEW g \in FrameSet,
         Pushes(t, f, g), f.op = op,
         op = "limit" => f.stone = Top(t).stone,
         \/ g.op = "loop" /\ op \in Runners
         \/ g.op = "stone" /\ op = "loop"
         \/ g.op \in {"split", "overflow", "handler"} /\ op = "stone" /\ f.at = "items",
         g.op = "stone" /\ g.at = "pending" => sending[g.stone]
  PROVE  /\ Shape /\ Acts(t) /\ Steps(t)
         /\ \A s : AtOverflow(t, s)' <=> g.op = "overflow" /\ g.stone = s
         /\ \A s : AtPending(t, s)' => sending[s]
         /\ \A s : Limiting(s) => Limiting(s)'
         /\ g.op # "overflow" => Calm(t)
<1>1. PICK n : n = Len(stack[t])
  OBVIOUS
<1>2. /\ stack[t] # <<>> /\ Shape /\ StackTypes /\ Top(t).op = op /\ Acts(t)
      /\ n \in Nat \ {0} /\ n > 0 /\ Top(t) = stack[t][n]
  BY <1>1, InCall
<1>3. Moves2(t, n - 1, f, g)
  BY <1>1, <1>2, ReplaceMoves DEF Pushes
<1>4. On(g, n + 1, f)
  BY <1>2 DEF On, Runners
<1>5. f.op = Top(t).op /\ (Top(t).op = "limit" => f.stone = Top(t).stone)
  BY <1>2
<1>6. /\ Steps(t)
      /\ \A s : AtOverflow(t, s)' <=> g.op = "overflow" /\ g.stone = s
      /\ \A s : AtPending(t, s)' => sending[s]
      /\ \A s : Limiting(s) => Limiting(s)'
      /\ g.op # "overflow" => Calm(t)
  BY <1>1, <1>2, <1>3, <1>4, <1>5, PushStep
<1> QED BY <1>2, <1>6

LEMMA PushCount ==
  ASSUME StackTypes, NEW t \in Threads, stack[t] # <<>>, NEW f \in FrameSet, NEW g \in FrameSet,
         Pushes(t, f, g), NEW d
  PROVE  /\ Cardinality(FramesOf(stack, d)) >= Number(Top(t).event, d)
         /\ Cardinality(FramesOf(stack', d)) =
              Cardinality(FramesOf(stack, d)) - Number(Top(t).event, d)
                + Number(f.event, d) + Number(g.event, d)
<1>1. PICK n : n = Len(stack[t])
  OBVIOUS
<1>2. n \in Nat \ {0} /\ n > 0 /\ Top(t) = stack[t][n]
  BY <1>1, TopFrame
<1>3. Moves2(t, n - 1, f, g)
  BY <1>1, ReplaceMoves DEF Pushes
<1>4. n = Len(stack[t]) /\ n > 0 /\ StackTypes /\ Moves2(t, n - 1, f, g)
  BY <1>1, <1>2, <1>3
<1>5. Cardinality(FramesOf(stack, d)) >= Number(stack[t][n].event, d)
  BY <1>4, FramesMove
<1>6. Cardinality(FramesOf(stack', d)) =
        Cardinality(FramesOf(stack, d)) - Number(stack[t][n].event, d)
          + Number(f.event, d) + Number(g.event, d)
  BY <1>4, PushFrames, SMTT(30)
<1> QED BY <1>2, <1>5, <1>6

(* A call that returns.                                                     *)
LEMMA ReturnMove ==
  ASSUME IInv, NEW t \in Threads, NEW op, At(t, op), Acts(t), UNCHANGED program, Return(t)
  PROVE  /\ Shape /\ Steps(t) /\ ~At(t, "overflow")' /\ (\A s : ~AtPending(t, s)')
         /\ (op # "limit" => Calm(t))
         /\ \A s : Limiting(s) /\ Top(t).stone # s => Limiting(s)'
         /\ \A d \in Events :
              /\ Cardinality(FramesOf(stack, d)) >= Number(Top(t).event, d)
              /\ Cardinality(FramesOf(stack', d)) =
                   Cardinality(FramesOf(stack, d)) - Number(Top(t).event, d)
<1>1. PICK n : n = Len(stack[t])
  OBVIOUS
<1>2. /\ stack[t] # <<>> /\ Shape /\ StackTypes /\ Top(t).op = op
      /\ n \in Nat \ {0} /\ n > 0 /\ Top(t) = stack[t][n]
  BY <1>1, InCall
<1>3. Moves0(t, n - 1)
  BY <1>1, <1>2, ReturnMoves
<1>4. /\ Steps(t) /\ ~At(t, "overflow")' /\ (\A s : ~AtPending(t, s)')
      /\ (Top(t).op # "limit" => Calm(t))
      /\ \A s : Limiting(s) /\ Top(t).stone # s => Limiting(s)'
  BY <1>1, <1>2, <1>3, ReturnStep
<1>5. ASSUME NEW d \in Events
      PROVE  /\ Cardinality(FramesOf(stack, d)) >= Number(Top(t).event, d)
             /\ Cardinality(FramesOf(stack', d)) =
                  Cardinality(FramesOf(stack, d)) - Number(Top(t).event, d)
  BY <1>1, <1>2, <1>3, ReturnFrames
<1> QED BY <1>2, <1>4, <1>5

(* A call that returns to a call of process_events_stone or of the loop,    *)
(* and tells it whether there is more to do.                                *)
ReturnWith(t, m) ==
  stack' = [stack EXCEPT ![t] = Append(Front(Front(@)), [Last(Front(@)) EXCEPT !.more = m])]

LEMMA UpMove ==
  ASSUME IInv, NEW t \in Threads, NEW op \in {"stone", "handler"}, At(t, op), Acts(t),
         UNCHANGED program, NEW m \in BOOLEAN, ReturnWith(t, m)
  PROVE  /\ Shape /\ Steps(t) /\ Calm(t) /\ \A s : ~AtPending(t, s)'
         /\ \A d \in Events :
              /\ Cardinality(FramesOf(stack, d)) >= Number(Top(t).event, d)
              /\ Cardinality(FramesOf(stack', d)) =
                   Cardinality(FramesOf(stack, d)) - Number(Top(t).event, d)
<1>1. PICK n : n = Len(stack[t])
  OBVIOUS
<1>2. /\ stack[t] # <<>> /\ Shape /\ StackTypes /\ Top(t).op = op
      /\ n \in Nat \ {0} /\ n > 0 /\ Top(t) = stack[t][n] /\ Top(t) \in FrameSet
      /\ On(Top(t), n, stack[t][n - 1])
  BY <1>1, InCall
<1>3. n > 1 /\ stack[t][n - 1].op \in {"loop", "stone"}
  BY <1>2 DEF On
<1>4. stack[t][n - 1] \in FrameSet
  BY <1>1, <1>2, <1>3, BelowTop DEF Shape
<1>5. PICK b : b = stack[t][n - 1]
  OBVIOUS
<1>6. PICK f : f = [b EXCEPT !.more = m]
  OBVIOUS
<1>7. /\ f \in FrameSet /\ f.op = b.op /\ f.at = b.at /\ f.event = None /\ b.event = None
  BY <1>3, <1>4, <1>5, <1>6 DEF FrameSet
<1>8. Moves1(t, n - 2, f)
  BY <1>1, <1>2, <1>3, <1>5, <1>6, ReturnToMoves DEF ReturnWith
<1>9. /\ Top(t).op # "limit" /\ f.op # "limit"
      /\ f.op = stack[t][n - 1].op /\ f.at = stack[t][n - 1].at
  BY <1>2, <1>3, <1>5, <1>7
<1>10. Steps(t) /\ Calm(t) /\ \A s : ~AtPending(t, s)'
  BY <1>1, <1>2, <1>3, <1>7, <1>8, <1>9, UpStep
<1>11. ASSUME NEW d \in Events
      PROVE  /\ Cardinality(FramesOf(stack, d)) >= Number(Top(t).event, d)
             /\ Cardinality(FramesOf(stack', d)) =
                  Cardinality(FramesOf(stack, d)) - Number(Top(t).event, d)
  <2>1. /\ Cardinality(FramesOf(stack, d)) \in Nat
        /\ Cardinality(FramesOf(stack', d)) =
              Cardinality(FramesOf(stack, d)) - Number(stack[t][n - 1].event, d)
                - Number(stack[t][n].event, d) + Number(f.event, d)
    BY <1>1, <1>2, <1>3, <1>7, <1>8, UpFrames
  <2>2. Cardinality(FramesOf(stack, d)) >= Number(stack[t][n].event, d)
    <3>1. n > 0 => Cardinality(FramesOf(stack, d)) >= Number(stack[t][n].event, d)
      BY <1>1, <1>2, FramesMove
    <3> QED BY <1>2, <3>1
  <2>3. Number(None, d) = 0 /\ Number(stack[t][n].event, d) \in {0, 1}
    BY RefTypes DEF IInv
  <2> QED BY <1>2, <1>5, <1>7, <2>1, <2>2, <2>3
<1> QED BY <1>2, <1>10, <1>11
-----------------------------------------------------------------------------
(* process_local_actions keeps the invariant.                               *)
LEMMA LoopStays ==
  ASSUME IInv, NEW t \in Threads, At(t, "loop"), NEW f \in FrameSet, f.op = "loop",
         Replace(t, f), lastActive' \in Stones \cup {None},
         UNCHANGED <<program, queueVars, eventVars, stoneVars, storeVars, inPlay, envVars>>
  PROVE  IInv'
<1>1. Top(t) \in FrameSet /\ Top(t).op = "loop"
  BY InCall
<1>2. f.event = None /\ Top(t).event = None
  BY <1>1 DEF FrameSet
<1>3. /\ Acts(t) /\ Steps(t) /\ Calm(t)
      /\ \A d \in Events :
           Cardinality(FramesOf(stack', d)) =
             Cardinality(FramesOf(stack, d)) - Number(Top(t).event, d) + Number(f.event, d)
  <2>1. /\ "loop" \notin {"handler", "drain", "limit", "overflow"}
        /\ UNCHANGED program /\ (f.op = "stone" => f.at = "items")
        /\ f.op = "loop" \/ (f.op = "crashed" /\ "loop" = "stone")
    OBVIOUS
  <2> QED BY <2>1, StayMove
<1>4. \A d \in Events : Cardinality(FramesOf(stack', d)) = Cardinality(FramesOf(stack, d))
  <2>1. TAKE d \in Events
  <2>2. Number(None, d) = 0 /\ Cardinality(FramesOf(stack, d)) \in Nat
    BY RefTypes DEF IInv
  <2> QED BY <1>2, <1>3, <2>2
<1>5. ~At(t, "overflow") /\ StoneTypes' /\ tasks' \in Nat /\ calls' \in 0 .. program.maxCalls
      /\ delivered' = delivered
  BY <1>1, StoneSame DEF IInv, Types, OtherTypes, envVars, At
<1> QED BY <1>3, <1>4, <1>5, QuietKeeps

LEMMA LoopCalls ==
  ASSUME IInv, NEW t \in Threads, At(t, "loop"), NEW f \in FrameSet, f.op = "loop",
         NEW g \in FrameSet, g.op = "stone", g.at = "pending" => sending[g.stone],
         Pushes(t, f, g), lastActive' \in Stones \cup {None},
         UNCHANGED <<program, queueVars, eventVars, stoneVars, storeVars, inPlay, envVars>>
  PROVE  IInv'
<1>1. Top(t) \in FrameSet /\ Top(t).op = "loop" /\ stack[t] # <<>> /\ StackTypes
  BY InCall
<1>2. f.event = None /\ g.event = None /\ Top(t).event = None
  BY <1>1 DEF FrameSet
<1>3. /\ Acts(t) /\ Steps(t) /\ Calm(t)
      /\ \A d \in Events :
           Cardinality(FramesOf(stack', d)) =
             Cardinality(FramesOf(stack, d)) - Number(Top(t).event, d)
               + Number(f.event, d) + Number(g.event, d)
  <2>1. Acts(t) /\ Steps(t) /\ Calm(t)
    BY PushMove
  <2> QED BY <1>1, <2>1, PushCount
<1>4. \A d \in Events : Cardinality(FramesOf(stack', d)) = Cardinality(FramesOf(stack, d))
  <2>1. TAKE d \in Events
  <2>2. Number(None, d) = 0 /\ Cardinality(FramesOf(stack, d)) \in Nat
    BY RefTypes DEF IInv
  <2>3. Cardinality(FramesOf(stack', d)) =
          Cardinality(FramesOf(stack, d)) - Number(None, d) + Number(None, d) + Number(None, d)
    BY <1>2, <1>3
  <2> HIDE <1>3
  <2> QED BY <2>2, <2>3
<1>5. ~At(t, "overflow") /\ StoneTypes' /\ tasks' \in Nat /\ calls' \in 0 .. program.maxCalls
      /\ delivered' = delivered
  BY <1>1, StoneSame DEF IInv, Types, OtherTypes, envVars, At
<1> QED BY <1>3, <1>4, <1>5, QuietKeeps

LEMMA ConsiderKeeps ==
  ASSUME IInv, NEW t \in Threads, At(t, "loop"), NEW s \in Stones,
         NEW class \in {"pending", "items"}, class = "pending" => sending[s],
         NEW f \in FrameSet, f.op = "loop", ConsiderStone(t, s, class, f),
         UNCHANGED <<program, queueVars, eventVars, stoneVars, storeVars, inPlay, envVars>>
  PROVE  IInv'
<1>1. lastActive' \in Stones \cup {None}
  BY DEF ConsiderStone, IInv, Types, OtherTypes
<1>2. CASE Replace(t, f)
  BY <1>1, <1>2, LoopStays
<1>3. CASE /\ queue[s] # <<>>
           /\ stack' = [stack EXCEPT ![t] =
                Front(@) \o <<f, Frame("stone", class, s, None, Head(queue[s]), FALSE)>>]
  <2> DEFINE g == Frame("stone", class, s, None, Head(queue[s]), FALSE)
  <2>1. Head(queue[s]) \in Nat
    <3>1. queue[s] \in Seq(1 .. Len(items))
      BY DEF IInv, Types, QueueTypes
    <3> QED BY <1>3, <3>1, HeadTailProperties
  <2>2. s \in Nat /\ (class = "pending" => IsStore(s))
    BY ProgramFacts DEF IInv, Types, StoneTypes
  <2>3. g \in FrameSet /\ g.op = "stone" /\ g.at = class /\ g.stone = s
    <3>1. "stone" \in Ops /\ class \in Phases /\ None \in Events \cup {None}
      BY DEF Ops, Phases
    <3>2. class = "items" \/ (class = "pending" /\ IsStore(s))
      BY <2>2
    <3> QED BY <2>1, <2>2, <3>1, <3>2 DEF Frame, FrameSet
  <2> HIDE DEF g
  <2>4. Pushes(t, f, g)
    BY <1>3 DEF g, Pushes
  <2> QED BY <1>1, <2>3, <2>4, LoopCalls
<1> QED BY <1>2, <1>3 DEF ConsiderStone

LEMMA LoopActiveKeeps ==
  ASSUME IInv, NEW t \in Threads, LoopActive(t)
  PROVE  IInv'
<1>1. At(t, "loop") /\ Top(t) \in FrameSet /\ Top(t).op = "loop"
  BY InCall DEF LoopActive
<1>2. UNCHANGED <<program, queueVars, eventVars, stoneVars, storeVars, inPlay, envVars>>
  BY DEF LoopActive
<1>3. lastActive \in Stones \cup {None} /\ Cardinality(Stones) \in Nat
  BY ProgramFacts, FS_CardinalityType DEF IInv, Types, OtherTypes
<1>4. CASE /\ lastActive # None
           /\ ConsiderStone(t, lastActive, "items", [Top(t) EXCEPT !.more = FALSE])
  <2>1. [Top(t) EXCEPT !.more = FALSE] \in FrameSet /\ [Top(t) EXCEPT !.more = FALSE].op = "loop"
    BY <1>1 DEF FrameSet
  <2> QED BY <1>1, <1>2, <1>3, <1>4, <2>1, ConsiderKeeps
<1>5. CASE /\ Replace(t, [Top(t) EXCEPT !.at = "scan", !.more = FALSE,
                 !.stone = IF inPlay > 0 THEN 1 ELSE Cardinality(Stones) + 1])
           /\ UNCHANGED lastActive
  <2> DEFINE x == IF inPlay > 0 THEN 1 ELSE Cardinality(Stones) + 1
             f == [Top(t) EXCEPT !.at = "scan", !.more = FALSE, !.stone = x]
  <2>1. x \in Nat
    BY <1>3
  <2> HIDE DEF x
  <2>2. f \in FrameSet /\ f.op = "loop"
    BY <1>1, <2>1 DEF FrameSet, Phases
  <2>3. Replace(t, f)
    BY <1>5 DEF x
  <2> HIDE DEF f
  <2> QED BY <1>1, <1>2, <1>3, <1>5, <2>2, <2>3, LoopStays
<1> QED BY <1>4, <1>5 DEF LoopActive

LEMMA LoopScanKeeps ==
  ASSUME IInv, NEW t \in Threads, LoopScan(t)
  PROVE  IInv'
<1>1. At(t, "loop") /\ Top(t) \in FrameSet /\ Top(t).op = "loop"
  BY InCall DEF LoopScan
<1>2. UNCHANGED <<program, queueVars, eventVars, stoneVars, storeVars, inPlay, envVars>>
  BY DEF LoopScan
<1>3. CASE Replace(t, Loop) /\ UNCHANGED lastActive
  <2>1. lastActive' \in Stones \cup {None}
    BY <1>3 DEF IInv, Types, OtherTypes
  <2> QED BY <1>1, <1>2, <1>3, <2>1, LoopStays, LoopType
<1>4. CASE /\ Top(t).stone \in Stones
           /\ ConsiderStone(t, Top(t).stone,
                            IF sending[Top(t).stone] THEN "pending" ELSE "items",
                            [Top(t) EXCEPT !.stone = @ + 1])
  <2> DEFINE class == IF sending[Top(t).stone] THEN "pending" ELSE "items"
             f == [Top(t) EXCEPT !.stone = @ + 1]
  <2>1. class \in {"pending", "items"} /\ (class = "pending" => sending[Top(t).stone])
    OBVIOUS
  <2>2. f \in FrameSet /\ f.op = "loop"
    BY <1>1 DEF FrameSet
  <2>3. ConsiderStone(t, Top(t).stone, class, f)
    BY <1>4
  <2> HIDE DEF class, f
  <2> QED BY <1>1, <1>2, <1>4, <2>1, <2>2, <2>3, ConsiderKeeps
<1> QED BY <1>3, <1>4 DEF LoopScan

(* A call that ends without having moved an event.                          *)
LEMMA QuietReturn ==
  ASSUME IInv, NEW t \in Threads, NEW op \in {"loop", "task", "send"}, At(t, op), Return(t),
         lastActive' \in Stones \cup {None},
         UNCHANGED <<program, queueVars, eventVars, stoneVars, storeVars, inPlay, envVars>>
  PROVE  IInv'
<1>1. Top(t) \in FrameSet /\ Top(t).op = op /\ Acts(t)
  <2>1. op \notin {"handler", "drain"}
    OBVIOUS
  <2> QED BY <2>1, InCall
<1>2. Top(t).event = None
  BY <1>1 DEF FrameSet
<1>3. op # "limit"
  OBVIOUS
<1>4. /\ Steps(t) /\ (op # "limit" => Calm(t))
      /\ \A d \in Events : Cardinality(FramesOf(stack', d)) =
           Cardinality(FramesOf(stack, d)) - Number(Top(t).event, d)
  BY <1>1, ReturnMove
<1>5. \A d \in Events : Cardinality(FramesOf(stack', d)) = Cardinality(FramesOf(stack, d))
  <2>1. TAKE d \in Events
  <2>2. Number(None, d) = 0 /\ Cardinality(FramesOf(stack, d)) \in Nat
    BY RefTypes DEF IInv
  <2> QED BY <1>2, <1>4, <2>2
<1>6. ~At(t, "overflow") /\ StoneTypes' /\ tasks' \in Nat /\ calls' \in 0 .. program.maxCalls
      /\ delivered' = delivered
  BY <1>1, StoneSame DEF IInv, Types, OtherTypes, envVars, At
<1> QED BY <1>1, <1>3, <1>4, <1>5, <1>6, QuietKeeps

LEMMA LoopEndKeeps ==
  ASSUME IInv, NEW t \in Threads, LoopEnd(t)
  PROVE  IInv'
<1>1. /\ At(t, "loop") /\ lastActive' \in Stones \cup {None}
      /\ UNCHANGED <<program, queueVars, eventVars, stoneVars, storeVars, inPlay, envVars>>
  BY DEF LoopEnd
<1>2. CASE Replace(t, Loop)
  BY <1>1, <1>2, LoopStays, LoopType
<1>3. CASE Return(t)
  BY <1>1, <1>3, QuietReturn
<1> QED BY <1>2, <1>3 DEF LoopEnd

LEMMA TaskReturnKeeps ==
  ASSUME IInv, NEW t \in Threads, TaskReturn(t)
  PROVE  IInv'
<1>1. /\ At(t, "task") /\ Return(t)
      /\ UNCHANGED <<program, queueVars, eventVars, stoneVars, storeVars, inPlay, envVars>>
  BY DEF TaskReturn, loopVars
<1>2. lastActive' \in Stones \cup {None}
  BY DEF TaskReturn, loopVars, IInv, Types, OtherTypes
<1> QED BY <1>1, <1>2, QuietReturn
-----------------------------------------------------------------------------
(* process_events_stone: the steps that move no event.                      *)
LEMMA ItemsEndKeeps ==
  ASSUME IInv, NEW t \in Threads, ItemsEnd(t)
  PROVE  IInv'
<1>1. /\ At(t, "stone")
      /\ UNCHANGED <<program, queueVars, eventVars, stoneVars, storeVars, inPlay, envVars>>
  BY DEF ItemsEnd, loopVars
<1>2. lastActive' \in Stones \cup {None}
  BY DEF ItemsEnd, loopVars, IInv, Types, OtherTypes
<1>3. Top(t) \in FrameSet /\ Top(t).op = "stone" /\ Acts(t) /\ stack[t] # <<>> /\ StackTypes
  <2>1. "stone" \notin {"handler", "drain"}
    OBVIOUS
  <2> QED BY <1>1, <2>1, InCall
<1>4. PICK b : b = Last(Front(stack[t]))
  OBVIOUS
<1>5. b \in FrameSet
  <2>1. PICK n : n = Len(stack[t])
    OBVIOUS
  <2>2. /\ On(Top(t), n, stack[t][n - 1]) /\ Shape
    BY <1>1, <2>1, InCall
  <2>3. n > 1
    BY <1>3, <2>2 DEF On
  <2>4. stack[t][n - 1] \in FrameSet
    BY <2>1, <2>2, <2>3, BelowTop DEF Shape
  <2>5. Last(Front(stack[t])) = stack[t][n - 1]
    BY <1>3, <2>1, <2>3, ReturnTo DEF StackTypes
  <2> QED BY <1>4, <2>4, <2>5
<1>6. PICK f : f = [Last(Front(stack[t])) EXCEPT !.more = @ \/ Top(t).more]
  OBVIOUS
<1>7. \E m \in BOOLEAN : ReturnWith(t, m)
  <2>1. f.more \in BOOLEAN /\ [b EXCEPT !.more = f.more] = f
    BY <1>4, <1>5, <1>6 DEF FrameSet
  <2>2. stack' = [stack EXCEPT ![t] = Append(Front(Front(@)), f)]
    BY <1>6 DEF ItemsEnd, ReturnMore, Below
  <2> QED BY <1>4, <2>1, <2>2 DEF ReturnWith
<1> PICK m \in BOOLEAN : ReturnWith(t, m)
  BY <1>7
<1>8. /\ Steps(t) /\ Calm(t)
      /\ \A d \in Events : Cardinality(FramesOf(stack', d)) =
           Cardinality(FramesOf(stack, d)) - Number(Top(t).event, d)
  BY <1>1, <1>3, UpMove
<1>9. \A d \in Events : Cardinality(FramesOf(stack', d)) = Cardinality(FramesOf(stack, d))
  <2>1. TAKE d \in Events
  <2>2. Top(t).event = None
    BY <1>3 DEF FrameSet
  <2>3. Number(None, d) = 0 /\ Cardinality(FramesOf(stack, d)) \in Nat
    BY RefTypes DEF IInv
  <2>4. Cardinality(FramesOf(stack', d)) = Cardinality(FramesOf(stack, d)) - Number(None, d)
    BY <1>8, <2>2
  <2> HIDE <1>8
  <2> QED BY <2>3, <2>4
<1>10. ~At(t, "overflow") /\ StoneTypes' /\ tasks' \in Nat /\ calls' \in 0 .. program.maxCalls
      /\ delivered' = delivered
  BY <1>1, <1>3, StoneSame DEF IInv, Types, OtherTypes, envVars, At
<1> QED BY <1>1, <1>2, <1>3, <1>8, <1>9, <1>10, QuietKeeps, InCall DEF IInv, Shape, Types

(* The thread that runs off the end of a queue or of a store stays there.   *)
LEMMA CrashKeeps ==
  ASSUME IInv, NEW t \in Threads, At(t, "stone"), Replace(t, [Top(t) EXCEPT !.op = "crashed"]),
         UNCHANGED <<program, queueVars, eventVars, stoneVars, storeVars, loopVars, envVars>>
  PROVE  IInv'
<1>1. Top(t) \in FrameSet /\ Top(t).op = "stone"
  BY InCall
<1>2. lastActive' \in Stones \cup {None} /\ inPlay' = inPlay
  BY DEF loopVars, IInv, Types, OtherTypes
<1>3. PICK f : f = [Top(t) EXCEPT !.op = "crashed"]
  OBVIOUS
<1>4. f \in FrameSet /\ f.op = "crashed" /\ f.event = None /\ Top(t).event = None /\ Replace(t, f)
  BY <1>1, <1>3 DEF FrameSet, Ops
<1>5. /\ Acts(t) /\ Steps(t) /\ Calm(t)
      /\ \A d \in Events : Cardinality(FramesOf(stack', d)) =
           Cardinality(FramesOf(stack, d)) - Number(Top(t).event, d) + Number(f.event, d)
  BY <1>4, StayMove
<1>6. \A d \in Events : Cardinality(FramesOf(stack', d)) = Cardinality(FramesOf(stack, d))
  <2>1. TAKE d \in Events
  <2>2. Number(None, d) = 0 /\ Cardinality(FramesOf(stack, d)) \in Nat
    BY RefTypes DEF IInv
  <2> QED BY <1>4, <1>5, <2>2
<1>7. ~At(t, "overflow") /\ StoneTypes' /\ tasks' \in Nat /\ calls' \in 0 .. program.maxCalls
      /\ delivered' = delivered
  BY <1>1, StoneSame DEF IInv, Types, OtherTypes, envVars, At
<1> QED BY <1>2, <1>5, <1>6, <1>7, QuietKeeps

LEMMA ItemGoneKeeps ==
  ASSUME IInv, NEW t \in Threads, ItemGone(t)
  PROVE  IInv'
<1>1. /\ At(t, "stone") /\ Replace(t, [Top(t) EXCEPT !.op = "crashed"])
      /\ UNCHANGED <<program, queueVars, eventVars, stoneVars, storeVars, loopVars, envVars>>
  BY DEF ItemGone, AtItem
<1> QED BY <1>1, CrashKeeps
-----------------------------------------------------------------------------
(* Steps that move an event, but submit none: it is enough to keep the      *)
(* stores, the queues and the balance of references.  For an event, a is    *)
(* what the items gain, b what the frames gain and c what is added to its   *)
(* reference count.                                                         *)
LEMMA Balance ==
  \A r, i, f, r2, i2, f2, a, b, c \in Int :
    /\ r2 = r + c /\ i2 = i + a /\ f2 = f + b
    => /\ c >= a + b => r2 - (i2 + f2) >= r - (i + f)
       /\ c = a + b => r2 - (i2 + f2) = r - (i + f)
       /\ c <= 0 /\ r2 > 0 => r > 0
OBVIOUS

Moved(d, a, b, c) ==
  /\ a \in Int /\ b \in Int /\ c \in Int
  /\ Cardinality(ItemsOf(d)') = Cardinality(ItemsOf(d)) + a
  /\ Cardinality(FramesOf(stack', d)) = Cardinality(FramesOf(stack, d)) + b
  /\ ref'[d] = ref[d] + c
  /\ c >= a + b /\ (NoStores => c = a + b)
  /\ c <= 0 \/ ref[d] > 0
  /\ appMem'[d] => appMem[d]

LEMMA NextSets ==
  ASSUME UNCHANGED program, QueueTypes', StackTypes'
  PROVE  \A d : Cardinality(ItemsOf(d)') \in Nat /\ Cardinality(FramesOf(stack', d)) \in Nat
<1>1. \A d : Cardinality(ItemsOf(d)') \in Nat
  <2>1. TAKE d
  <2>2. items' \in Seq(Events')
    BY DEF QueueTypes
  <2>3. Len(items') \in Nat
    BY <2>2, LenProperties
  <2>4. IsFiniteSet(1 .. Len(items'))
    BY <2>3, FS_Interval
  <2>5. ItemsOf(d)' \subseteq 1 .. Len(items')
    BY DEF ItemsOf
  <2> QED BY <2>4, <2>5, FS_Subset, FS_CardinalityType
<1>2. \A d : Cardinality(FramesOf(stack', d)) \in Nat
  <2>1. stack' \in [Threads -> Seq(FrameSet')]
    BY DEF StackTypes, Threads
  <2>2. stack' \in [Threads -> Seq(FrameSet)]
    BY <2>1, SameProgram
  <2> QED BY <2>2, FiniteFrames
<1> QED BY <1>1, <1>2

LEMMA MoveKeeps ==
  ASSUME IInv, UNCHANGED <<program, origin, returned>>,
         Shape', QueueTypes', OnePlace', StoreInv', StoneTypes',
         lastActive' \in Stones \cup {None}, inPlay' \in Int,
         inPlay' = Cardinality(Waiting') + Cardinality(Senders'),
         tasks' \in Nat, calls' \in 0 .. program.maxCalls,
         delivered' \in [Stones -> [Events -> Nat]],
         appMem' \in [Events -> BOOLEAN], ref' \in [Events -> Int],
         \A d \in Events : \E a, b, c : Moved(d, a, b, c)
  PROVE  IInv'
<1>1. Types /\ StoreInv /\ ItemInv /\ RefInv /\ Shape
  BY DEF IInv, Types, Shape
<1>2. Stones' = Stones /\ Events' = Events
  BY DEF Stones, Events
<1>3. EventTypes'
  BY <1>1, <1>2 DEF Types, EventTypes
<1>4. OtherTypes'
  BY <1>1, OtherSame DEF Types
<1>5. ItemInv'
  BY DEF ItemInv
<1>6. RefInv'
  <2>1. ASSUME NEW d \in Events
        PROVE  /\ Refs(d) \in Nat /\ Refs(d)' \in Nat
               /\ ref'[d] - Refs(d)' >= ref[d] - Refs(d)
               /\ NoStores => ref'[d] - Refs(d)' = ref[d] - Refs(d)
               /\ ref'[d] > 0 => ref[d] > 0
               /\ appMem'[d] => appMem[d]
    <3>1. ref[d] \in Int /\ ref'[d] \in Int
      BY <1>1 DEF Types, EventTypes
    <3>2. Cardinality(ItemsOf(d)) \in Nat /\ Cardinality(FramesOf(stack, d)) \in Nat
      BY <1>1, RefTypes
    <3>3. Cardinality(ItemsOf(d)') \in Nat /\ Cardinality(FramesOf(stack', d)) \in Nat
      BY NextSets DEF Shape
    <3>4. PICK i, f, i2, f2 : /\ i = Cardinality(ItemsOf(d)) /\ f = Cardinality(FramesOf(stack, d))
                              /\ i2 = Cardinality(ItemsOf(d)')
                              /\ f2 = Cardinality(FramesOf(stack', d))
      OBVIOUS
    <3>5. i \in Nat /\ f \in Nat /\ i2 \in Nat /\ f2 \in Nat
      BY <3>2, <3>3, <3>4
    <3>6. Refs(d) = i + f
      BY <3>4 DEF Refs
    <3>7. Refs(d)' = i2 + f2
      BY <3>4, RefsNext
    <3>8. PICK a, b, c : Moved(d, a, b, c)
      OBVIOUS
    <3>9. /\ a \in Int /\ b \in Int /\ c \in Int /\ i2 = i + a /\ f2 = f + b /\ ref'[d] = ref[d] + c
          /\ c >= a + b /\ (NoStores => c = a + b) /\ (c <= 0 \/ ref[d] > 0)
          /\ appMem'[d] => appMem[d]
      BY <3>4, <3>8 DEF Moved
    <3>10. i \in Int /\ f \in Int /\ i2 \in Int /\ f2 \in Int
      BY <3>5
    <3>11. /\ ref'[d] - (i2 + f2) >= ref[d] - (i + f)
           /\ NoStores => ref'[d] - (i2 + f2) = ref[d] - (i + f)
           /\ ref'[d] > 0 => ref[d] > 0
      BY <3>1, <3>9, <3>10, Balance
    <3>12. i + f \in Nat /\ i2 + f2 \in Nat
      BY <3>5
    <3> QED BY <3>6, <3>7, <3>9, <3>11, <3>12
  <2> QED BY <1>1, <2>1, RefKept
<1> QED BY <1>3, <1>4, <1>5, <1>6 DEF IInv, Types, Shape

(* The items that hold an event keep it alive.                              *)
LEMMA ItemHeld ==
  ASSUME Types, RefInv, NEW s \in Stones, NEW i, Waits(s, i) \/ Kept(s, i)
  PROVE  /\ i \in 1 .. Len(items) /\ items[i] \in Events /\ ref[items[i]] > 0
<1>1. /\ i \in 1 .. Len(items) /\ items \in Seq(Events)
      /\ IsFiniteSet(ItemsOf(items[i])) /\ Cardinality(ItemsOf(items[i])) \in Nat
  BY ItemSets DEF Types, QueueTypes
<1>2. items[i] \in Events
  BY <1>1, ElementOfSeq
<1>3. i \in ItemsOf(items[i])
  BY <1>1 DEF ItemsOf
<1>4. Cardinality(ItemsOf(items[i])) # 0
  BY <1>1, <1>3, FS_EmptySet
<1>5. ref[items[i]] >= Refs(items[i]) /\ ref[items[i]] \in Int
  BY <1>2 DEF RefInv, Types, EventTypes
<1>6. Cardinality(FramesOf(stack, items[i])) \in Nat
  BY RefTypes
<1>7. Refs(items[i]) > 0
  BY <1>1, <1>4, <1>6 DEF Refs
<1>8. Refs(items[i]) \in Nat
  BY RefTypes
<1> QED BY <1>1, <1>2, <1>5, <1>7, <1>8

(* So do the calls that threads are in.                                     *)
LEMMA FrameHeld ==
  ASSUME Types, RefInv, NEW e \in Events, NEW x, x = e,
         Cardinality(FramesOf(stack, e)) >= Number(x, e)
  PROVE  ref[e] > 0
<1>1. Cardinality(ItemsOf(e)) \in Nat /\ Cardinality(FramesOf(stack, e)) \in Nat
  BY RefTypes
<1>2. Number(x, e) = 1
  BY DEF Number
<1>3. Refs(e) > 0 /\ Refs(e) \in Nat
  BY <1>1, <1>2 DEF Refs
<1>4. ref[e] >= Refs(e) /\ ref[e] \in Int
  BY DEF RefInv, Types, EventTypes
<1> QED BY <1>3, <1>4

(* A thread that works on an item of a queue.                               *)
LEMMA AtItemFacts ==
  ASSUME IInv, NEW t \in Threads, NEW K, AtItem(t, K), Queued(t)
  PROVE  /\ At(t, "stone") /\ Top(t).at = "items" /\ Top(t).op = "stone" /\ Top(t) \in FrameSet
         /\ Top(t).stone \in Stones /\ Top(t).event = None /\ Action[Top(t).stone] \in K
         /\ Waits(Top(t).stone, Top(t).item) /\ ~frozen[Top(t).stone]
         /\ Top(t).item \in 1 .. Len(items) /\ items[Top(t).item] \in Events
         /\ ref[items[Top(t).item]] > 0
         /\ Advance(t) \in FrameSet /\ Advance(t).op = "stone" /\ Advance(t).at = "items"
         /\ Advance(t).event = None /\ Advance(t).stone = Top(t).stone
<1>1. At(t, "stone") /\ Top(t).at = "items" /\ Action[Top(t).stone] \in K /\ ~frozen[Top(t).stone]
  BY DEF AtItem, Stops
<1>2. Top(t) \in FrameSet /\ Top(t).op = "stone"
  BY <1>1, InCall
<1>3. Top(t).stone \in Stones /\ Top(t).event = None
  BY <1>2 DEF FrameSet
<1>4. queue[Top(t).stone] \in Seq(1 .. Len(items))
  BY <1>3 DEF IInv, Types, QueueTypes
<1>5. Waits(Top(t).stone, Top(t).item)
  BY <1>4, LenProperties DEF Queued, Contains, Waits, InList
<1>6. /\ Top(t).item \in 1 .. Len(items) /\ items[Top(t).item] \in Events
      /\ ref[items[Top(t).item]] > 0
  BY <1>3, <1>5, ItemHeld DEF IInv
<1>7. Behind(Top(t).stone, Top(t).item) \in Nat
  BY <1>3, BehindType DEF IInv, Types
<1>8. /\ Advance(t) \in FrameSet /\ Advance(t).op = "stone" /\ Advance(t).at = "items"
      /\ Advance(t).event = None /\ Advance(t).stone = Top(t).stone
  BY <1>1, <1>2, <1>3, <1>7 DEF Advance, FrameSet
<1> QED BY <1>1, <1>2, <1>3, <1>5, <1>6, <1>8
-----------------------------------------------------------------------------
(* A queue item is taken out of its queue, and its event goes to the call   *)
(* that process_events_stone makes.                                         *)
LEMMA TakeSum ==
  \A r, i, i2, f, f2, n, z \in Int :
    /\ z = 0 /\ i2 = i - n /\ f2 = f - z + z + n
    => /\ i2 = i + (0 - n) /\ f2 = f + n /\ r = r + 0 /\ 0 - n \in Int
       /\ 0 >= 0 - n + n /\ 0 = 0 - n + n /\ 0 <= 0
OBVIOUS

LEMMA TakeKeeps ==
  ASSUME IInv, NEW t \in Threads, At(t, "stone"),
         NEW f \in FrameSet, f.op = "stone", f.at = "items",
         NEW g \in FrameSet, g.op \in {"split", "handler"},
         NEW s \in Stones, NEW i, Waits(s, i), g.event = items[i], Dequeue(s, i),
         Pushes(t, f, g),
         UNCHANGED <<program, store, items, eventVars, storeVars, lastActive, tasks, calls>>,
         StoneTypes', delivered' \in [Stones -> [Events -> Nat]]
  PROVE  IInv'
<1>1. Types /\ StoreInv /\ ItemInv /\ RefInv /\ QueueTypes /\ OnePlace
  BY DEF IInv, Types, ItemInv
<1>2. Top(t) \in FrameSet /\ Top(t).op = "stone" /\ stack[t] # <<>> /\ StackTypes
  BY InCall
<1>3. f.event = None /\ Top(t).event = None
  BY <1>2 DEF FrameSet
<1>4. /\ Shape /\ Acts(t) /\ Steps(t) /\ Calm(t)
      /\ \A d \in Events :
           Cardinality(FramesOf(stack', d)) =
             Cardinality(FramesOf(stack, d)) - Number(Top(t).event, d)
               + Number(f.event, d) + Number(g.event, d)
  <2>1. /\ "stone" \notin {"handler", "drain"} /\ UNCHANGED program
        /\ ("stone" = "limit" => f.stone = Top(t).stone)
        /\ \/ g.op = "loop" /\ "stone" \in Runners
           \/ g.op = "stone" /\ "stone" = "loop"
           \/ g.op \in {"split", "overflow", "handler"} /\ "stone" = "stone" /\ f.at = "items"
        /\ (g.op = "stone" /\ g.at = "pending" => sending[g.stone])
        /\ g.op # "overflow"
    OBVIOUS
  <2>2. Shape /\ Acts(t) /\ Steps(t)
    BY <2>1, PushMove
  <2>3. Calm(t)
    BY <2>1, PushMove
  <2>4. ASSUME NEW d \in Events
        PROVE  Cardinality(FramesOf(stack', d)) =
             Cardinality(FramesOf(stack, d)) - Number(Top(t).event, d)
               + Number(f.event, d) + Number(g.event, d)
    BY <1>2, PushCount
  <2> QED BY <2>2, <2>3, <2>4
<1>5. /\ QueueTypes' /\ OnePlace'
      /\ i \in 1 .. Len(items) /\ items[i] \in Events
      /\ Cardinality(Waiting') = Cardinality(Waiting) - 1
      /\ \A d \in Events : Cardinality(ItemsOf(d)') = Cardinality(ItemsOf(d)) - Number(items[i], d)
  BY <1>1, DequeueItems
<1>6. StoreInv'
  <2>1. ~At(t, "overflow")
    BY <1>2 DEF At
  <2> QED BY <1>1, <1>4, <2>1, StoreSame
<1>7. inPlay' = Cardinality(Waiting') + Cardinality(Senders') /\ inPlay' \in Int
  <2>1. Senders' = Senders
    BY DEF Senders, Stones, storeVars
  <2>2. inPlay' = inPlay - 1 /\ inPlay = Cardinality(Waiting) + Cardinality(Senders)
    BY <1>1 DEF Dequeue, ItemInv
  <2>3. Cardinality(Waiting) \in Nat /\ Cardinality(Senders) \in Nat
    BY <1>1, ItemSets, SenderSets DEF Types
  <2> QED BY <1>5, <2>1, <2>2, <2>3
<1>8. ASSUME NEW d \in Events
      PROVE  Moved(d, 0 - Number(items[i], d), Number(items[i], d), 0)
  <2>1. Number(None, d) = 0 /\ Number(items[i], d) \in {0, 1}
    BY <1>1, RefTypes
  <2>2. Cardinality(ItemsOf(d)) \in Nat /\ Cardinality(FramesOf(stack, d)) \in Nat
    BY <1>1, RefTypes
  <2>3. Cardinality(FramesOf(stack', d)) =
          Cardinality(FramesOf(stack, d)) - Number(None, d) + Number(None, d) + Number(items[i], d)
    BY <1>3, <1>4
  <2>4. Cardinality(ItemsOf(d)') = Cardinality(ItemsOf(d)) - Number(items[i], d)
    BY <1>5
  <2>5. ref' = ref /\ appMem' = appMem /\ ref[d] \in Int
    BY <1>1 DEF eventVars, Types, EventTypes
  <2> QED BY <2>1, <2>2, <2>3, <2>4, <2>5, TakeSum DEF Moved
<1>9. /\ Shape' /\ UNCHANGED <<origin, returned>> /\ lastActive' \in Stones \cup {None}
      /\ tasks' \in Nat /\ calls' \in 0 .. program.maxCalls
      /\ ref' \in [Events -> Int] /\ appMem' \in [Events -> BOOLEAN]
  BY <1>1, <1>4 DEF Steps, eventVars, Types, OtherTypes, EventTypes
<1> QED BY <1>5, <1>6, <1>7, <1>8, <1>9, MoveKeeps

LEMMA HandlerStartKeeps ==
  ASSUME IInv, NEW t \in Threads, HandlerStart(t)
  PROVE  IInv'
<1>1. PICK s, i, e, at, f, g :
        /\ s = Top(t).stone /\ i = Top(t).item /\ e = items[i] /\ f = Advance(t)
        /\ at = (IF appMem[e] THEN "app" ELSE "own")
        /\ g = Frame("handler", at, s, e, None, FALSE)
  OBVIOUS
<1>2. AtItem(t, {"terminal", "filter"}) /\ Queued(t)
  BY DEF HandlerStart
<1>3. /\ At(t, "stone") /\ s \in Stones /\ Waits(s, i) /\ e \in Events
      /\ f \in FrameSet /\ f.op = "stone" /\ f.at = "items"
  BY <1>1, <1>2, AtItemFacts
<1>4. g \in FrameSet /\ g.op \in {"split", "handler"} /\ g.event = items[i]
  <2>1. s \in Nat /\ e # None
    BY <1>3, ProgramFacts, StoneAssumption DEF IInv, Types, Events, None
  <2>2. "handler" \in Ops /\ at \in Phases
    BY <1>1 DEF Ops, Phases
  <2> QED BY <1>1, <1>3, <2>1, <2>2 DEF Frame, FrameSet, None
<1>5. Pushes(t, f, g)
  BY <1>1 DEF HandlerStart, Pushes
<1>6. /\ Dequeue(s, i)
      /\ UNCHANGED <<program, store, items, eventVars, storeVars, lastActive, tasks, calls>>
  BY <1>1 DEF HandlerStart
<1>7. StoneTypes'
  <2>1. /\ UNCHANGED <<program, frozen, draining, storeVars>>
        /\ processing' = [processing EXCEPT ![s] = TRUE]
    BY <1>1 DEF HandlerStart
  <2>2. processing' \in [Stones -> BOOLEAN]
    BY <2>1 DEF IInv, Types, StoneTypes
  <2> QED BY <2>1, <2>2 DEF IInv, Types, StoneTypes, storeVars, IsStore, Action, Stones
<1>8. delivered' \in [Stones -> [Events -> Nat]]
  <2>1. delivered' = [delivered EXCEPT ![s][e] = @ + 1]
    BY <1>1 DEF HandlerStart
  <2>2. delivered \in [Stones -> [Events -> Nat]]
    BY DEF IInv, Types, EventTypes
  <2> QED BY <1>3, <2>1, <2>2
<1> QED BY <1>3, <1>4, <1>5, <1>6, <1>7, <1>8, TakeKeeps

LEMMA SplitStartKeeps ==
  ASSUME IInv, NEW t \in Threads, SplitStart(t)
  PROVE  IInv'
<1>1. PICK s, i, e, f, g :
        /\ s = Top(t).stone /\ i = Top(t).item /\ e = items[i]
        /\ f = [Advance(t) EXCEPT !.more = @ \/ Outputs[Top(t).stone] # <<>>]
        /\ g = Frame("split", "none", s, e, 1, FALSE)
  OBVIOUS
<1>2. AtItem(t, {"split"}) /\ Queued(t)
  BY DEF SplitStart
<1>3. /\ At(t, "stone") /\ s \in Stones /\ Waits(s, i) /\ e \in Events
      /\ Advance(t) \in FrameSet /\ Advance(t).op = "stone" /\ Advance(t).at = "items"
  BY <1>1, <1>2, AtItemFacts
<1>4. f \in FrameSet /\ f.op = "stone" /\ f.at = "items"
  BY <1>1, <1>3 DEF FrameSet
<1>5. g \in FrameSet /\ g.op \in {"split", "handler"} /\ g.event = items[i]
  <2>1. s \in Nat /\ e # None
    BY <1>3, ProgramFacts, StoneAssumption DEF IInv, Types, Events, None
  <2>2. "split" \in Ops /\ "none" \in Phases
    BY DEF Ops, Phases
  <2> QED BY <1>1, <1>3, <2>1, <2>2 DEF Frame, FrameSet, None
<1>6. Pushes(t, f, g)
  BY <1>1 DEF SplitStart, Pushes
<1>7. /\ Dequeue(s, i)
      /\ UNCHANGED <<program, store, items, eventVars, storeVars, lastActive, tasks, calls>>
  BY <1>1 DEF SplitStart, envVars
<1>8. StoneTypes' /\ delivered' \in [Stones -> [Events -> Nat]]
  BY StoneSame DEF SplitStart, IInv, Types, EventTypes, envVars
<1> QED BY <1>3, <1>4, <1>5, <1>6, <1>7, <1>8, TakeKeeps
-----------------------------------------------------------------------------
(* A call gives its reference to an event back and returns.                 *)
LEMMA UnrefSum ==
  \A r, r2, i, i2, f, f2, n \in Int :
    /\ i2 = i /\ f2 = f - n /\ r2 = r - n /\ n >= 0
    => /\ i2 = i + 0 /\ f2 = f + (0 - n) /\ r2 = r + (0 - n) /\ 0 - n \in Int
       /\ 0 - n >= 0 + (0 - n) /\ 0 - n = 0 + (0 - n) /\ 0 - n <= 0
OBVIOUS

LEMMA UnrefKeeps ==
  ASSUME IInv, NEW t \in Threads, NEW op \in {"handler", "split"}, At(t, op), Acts(t),
         NEW e \in Events, e = Top(t).event, Return(t), Unref(e),
         UNCHANGED <<program, queueVars, loopVars, appMem, origin, returned, storeVars, envVars>>,
         StoneTypes'
  PROVE  IInv'
<1>1. Types /\ StoreInv /\ ItemInv /\ RefInv /\ QueueTypes /\ OnePlace
  BY DEF IInv, Types, ItemInv
<1>2. Top(t).op = op /\ ~At(t, "overflow") /\ op # "limit"
  BY InCall DEF At
<1>3. /\ Shape /\ Steps(t) /\ (op # "limit" => Calm(t))
      /\ \A d \in Events :
           Cardinality(FramesOf(stack', d)) = Cardinality(FramesOf(stack, d)) - Number(Top(t).event, d)
  BY ReturnMove
<1>4. /\ QueueTypes' /\ OnePlace' /\ Waiting' = Waiting
      /\ \A d : ItemsOf(d)' = ItemsOf(d)
  BY <1>1, ItemSame DEF queueVars
<1>5. StoreInv'
  BY <1>1, <1>2, <1>3, StoreSame DEF queueVars
<1>6. inPlay' = Cardinality(Waiting') + Cardinality(Senders') /\ inPlay' \in Int
  <2>1. Senders' = Senders /\ inPlay' = inPlay
    BY DEF Senders, Stones, storeVars, loopVars
  <2> QED BY <1>1, <1>4, <2>1 DEF ItemInv, Types, OtherTypes
<1>7. ref \in [Events -> Int] /\ ref' = [ref EXCEPT ![e] = @ - 1] /\ ref' \in [Events -> Int]
  <2>1. ref \in [Events -> Int] /\ ref' = [ref EXCEPT ![e] = @ - 1]
    BY <1>1 DEF Types, EventTypes, Unref
  <2> QED BY <2>1
<1>8. ASSUME NEW d \in Events
      PROVE  Moved(d, 0, 0 - Number(e, d), 0 - Number(e, d))
  <2>1. Number(e, d) \in {0, 1} /\ Cardinality(ItemsOf(d)) \in Nat
        /\ Cardinality(FramesOf(stack, d)) \in Nat
    BY <1>1, RefTypes
  <2>2. Cardinality(FramesOf(stack', d)) = Cardinality(FramesOf(stack, d)) - Number(e, d)
    BY <1>3
  <2>3. Cardinality(ItemsOf(d)') = Cardinality(ItemsOf(d))
    BY <1>4
  <2>4. ref'[d] = ref[d] - Number(e, d) /\ ref[d] \in Int
    BY <1>7 DEF Number
  <2>5. appMem' = appMem
    OBVIOUS
  <2> QED BY <2>1, <2>2, <2>3, <2>4, <2>5, UnrefSum DEF Moved
<1>9. /\ Shape' /\ UNCHANGED <<origin, returned>> /\ lastActive' \in Stones \cup {None}
      /\ tasks' \in Nat /\ calls' \in 0 .. program.maxCalls
      /\ appMem' \in [Events -> BOOLEAN] /\ delivered' \in [Stones -> [Events -> Nat]]
  BY <1>1, <1>3 DEF Steps, loopVars, envVars, Types, OtherTypes, EventTypes
<1> QED BY <1>4, <1>5, <1>6, <1>7, <1>8, <1>9, MoveKeeps

(* A queue item takes over, or adds, a reference to an event.               *)
LEMMA EnqueueKeeps ==
  ASSUME IInv, NEW t \in Threads, Shape, Acts(t), Steps(t), Calm(t), ~At(t, "overflow"),
         NEW s \in Stones, NEW e \in Events, Enqueue(s, e),
         UNCHANGED <<program, store, appMem, origin, returned, storeVars, envVars>>,
         StoneTypes', ref' \in [Events -> Int],
         \A d \in Events : \E b, c \in Int :
           /\ Cardinality(FramesOf(stack', d)) = Cardinality(FramesOf(stack, d)) + b
           /\ ref'[d] = ref[d] + c /\ c = Number(e, d) + b /\ (c <= 0 \/ ref[d] > 0)
  PROVE  IInv'
<1>1. Types /\ StoreInv /\ ItemInv /\ RefInv /\ QueueTypes /\ OnePlace
  BY DEF IInv, Types, ItemInv
<1>2. /\ QueueTypes' /\ OnePlace'
      /\ Cardinality(Waiting') = Cardinality(Waiting) + 1
      /\ \A d \in Events : Cardinality(ItemsOf(d)') = Cardinality(ItemsOf(d)) + Number(e, d)
  BY <1>1, EnqueueItems
<1>3. StoreInv'
  BY <1>1, StoreSame
<1>4. inPlay' = Cardinality(Waiting') + Cardinality(Senders') /\ inPlay' \in Int
  <2>1. Senders' = Senders
    BY DEF Senders, Stones, storeVars
  <2>2. inPlay' = inPlay + 1 /\ inPlay = Cardinality(Waiting) + Cardinality(Senders)
    BY <1>1 DEF Enqueue, ItemInv
  <2>3. Cardinality(Waiting) \in Nat /\ Cardinality(Senders) \in Nat
    BY <1>1, ItemSets, SenderSets DEF Types
  <2> QED BY <1>2, <2>1, <2>2, <2>3
<1>5. ASSUME NEW d \in Events
      PROVE  \E a, b, c : Moved(d, a, b, c)
  <2>1. PICK b \in Int, c \in Int :
           /\ Cardinality(FramesOf(stack', d)) = Cardinality(FramesOf(stack, d)) + b
           /\ ref'[d] = ref[d] + c /\ c = Number(e, d) + b /\ (c <= 0 \/ ref[d] > 0)
    OBVIOUS
  <2>2. Number(e, d) \in Int
    <3>1. Number(e, d) \in {0, 1}
      BY <1>1, RefTypes
    <3> QED BY <3>1
  <2>3. Cardinality(ItemsOf(d)') = Cardinality(ItemsOf(d)) + Number(e, d)
    BY <1>2
  <2>4. appMem' = appMem
    OBVIOUS
  <2>5. c >= Number(e, d) + b
    BY <2>1, <2>2
  <2>6. Moved(d, Number(e, d), b, c)
    BY <2>1, <2>2, <2>3, <2>4, <2>5 DEF Moved
  <2> QED BY <2>6
<1>6. /\ Shape' /\ UNCHANGED <<origin, returned>> /\ lastActive' \in Stones \cup {None}
      /\ tasks' \in Nat /\ calls' \in 0 .. program.maxCalls
      /\ appMem' \in [Events -> BOOLEAN] /\ delivered' \in [Stones -> [Events -> Nat]]
  BY <1>1 DEF Steps, Enqueue, envVars, Types, OtherTypes, EventTypes
<1> QED BY <1>2, <1>3, <1>4, <1>5, <1>6, MoveKeeps

LEMMA HandlerReturnKeeps ==
  ASSUME IInv, NEW t \in Threads, HandlerReturn(t)
  PROVE  IInv'
<1>1. PICK s, e : s = Top(t).stone /\ e = Top(t).event
  OBVIOUS
<1>2. /\ LockFree /\ At(t, "handler") /\ processing' = [processing EXCEPT ![s] = FALSE]
      /\ UNCHANGED <<program, appMem, origin, returned, frozen, draining, storeVars, envVars>>
  BY <1>1 DEF HandlerReturn
<1>3. Top(t) \in FrameSet /\ Top(t).op = "handler" /\ Acts(t)
  BY <1>2, InCall DEF Acts
<1>4. s \in Stones /\ e \in Events
  BY <1>1, <1>3 DEF FrameSet
<1>5. StoneTypes'
  <2>1. processing' \in [Stones -> BOOLEAN]
    BY <1>2 DEF IInv, Types, StoneTypes
  <2> QED BY <1>2, <2>1 DEF IInv, Types, StoneTypes, storeVars, IsStore, Action, Stones
<1>6. CASE Unref(e) /\ Return(t) /\ UNCHANGED <<queueVars, loopVars>>
  BY <1>1, <1>2, <1>3, <1>4, <1>5, <1>6, UnrefKeeps
<1>7. CASE /\ Action[s] = "filter" /\ Enqueue(Head(Outputs[s]), e)
           /\ stack' = [stack EXCEPT ![t] =
                Append(Front(Front(@)), [Last(Front(@)) EXCEPT !.more = TRUE])]
           /\ UNCHANGED <<store, ref>>
  <2>1. PICK u : u = Head(Outputs[s])
    OBVIOUS
  <2>2. u \in Stones /\ Enqueue(u, e)
    BY <1>4, <1>7, <2>1, ProgramFacts DEF IInv, Types
  <2>3. ReturnWith(t, TRUE)
    BY <1>7 DEF ReturnWith
  <2>4. /\ Shape /\ Steps(t) /\ Calm(t)
        /\ \A d \in Events :
             /\ Cardinality(FramesOf(stack, d)) >= Number(Top(t).event, d)
             /\ Cardinality(FramesOf(stack', d)) =
                  Cardinality(FramesOf(stack, d)) - Number(Top(t).event, d)
    BY <1>2, <1>3, <2>3, UpMove
  <2>5. ref \in [Events -> Int] /\ ref' = ref
    BY <1>7 DEF IInv, Types, EventTypes
  <2>6. ASSUME NEW d \in Events
        PROVE  \E b, c \in Int :
           /\ Cardinality(FramesOf(stack', d)) = Cardinality(FramesOf(stack, d)) + b
           /\ ref'[d] = ref[d] + c /\ c = Number(e, d) + b /\ (c <= 0 \/ ref[d] > 0)
    <3>1. Number(e, d) \in {0, 1} /\ Cardinality(FramesOf(stack, d)) \in Nat
      BY RefTypes DEF IInv
    <3>2. Cardinality(FramesOf(stack', d)) = Cardinality(FramesOf(stack, d)) - Number(e, d)
      BY <1>1, <2>4
    <3>3. PICK b \in Int : b = 0 - Number(e, d)
      BY <3>1
    <3>4. /\ Cardinality(FramesOf(stack', d)) = Cardinality(FramesOf(stack, d)) + b
          /\ ref'[d] = ref[d] + 0 /\ 0 = Number(e, d) + b
      BY <2>5, <3>1, <3>2, <3>3
    <3> QED BY <3>4
  <2>7. ~At(t, "overflow") /\ ref' \in [Events -> Int]
    BY <1>3, <2>5 DEF At
  <2> QED BY <1>2, <1>3, <1>4, <1>5, <1>7, <2>2, <2>4, <2>6, <2>7, EnqueueKeeps
<1> QED BY <1>1, <1>6, <1>7 DEF HandlerReturn

LEMMA OneMore ==
  ASSUME NEW S, NEW f \in [S -> Int], NEW x \in S
  PROVE  [f EXCEPT ![x] = @ + 1] \in [S -> Int] /\ [f EXCEPT ![x] = @ - 1] \in [S -> Int]
OBVIOUS

LEMMA SplitOutputKeeps ==
  ASSUME IInv, NEW t \in Threads, SplitOutput(t)
  PROVE  IInv'
<1>1. PICK s, e : s = Top(t).stone /\ e = Top(t).event
  OBVIOUS
<1>2. /\ At(t, "split")
      /\ UNCHANGED <<program, appMem, origin, returned, stoneVars, storeVars, envVars>>
  BY <1>1 DEF SplitOutput
<1>3. Top(t) \in FrameSet /\ Top(t).op = "split" /\ Acts(t)
  <2>1. "split" \notin {"handler", "drain"}
    OBVIOUS
  <2> QED BY <1>2, <2>1, InCall
<1>4. s \in Stones /\ e \in Events
  BY <1>1, <1>3 DEF FrameSet
<1>5. StoneTypes'
  BY <1>2, StoneSame DEF IInv, Types
<1>6. CASE Top(t).item > Len(Outputs[s])
  <2>1. Unref(e) /\ Return(t) /\ UNCHANGED <<queueVars, loopVars>>
    BY <1>1, <1>6 DEF SplitOutput
  <2> QED BY <1>1, <1>2, <1>3, <1>4, <1>5, <2>1, UnrefKeeps
<1>7. CASE ~(Top(t).item > Len(Outputs[s]))
  <2>1. PICK u, f : u = Outputs[s][Top(t).item] /\ f = [Top(t) EXCEPT !.item = @ + 1]
    OBVIOUS
  <2>2. Enqueue(u, e) /\ ref' = [ref EXCEPT ![e] = @ + 1] /\ Replace(t, f) /\ UNCHANGED store
    BY <1>1, <1>7, <2>1 DEF SplitOutput
  <2>3. u \in Stones
    <3>1. Top(t).item \in Nat /\ Top(t).item # 0
      BY <1>3 DEF FrameSet
    <3>2. Outputs[s] \in Seq(Stones)
      BY <1>4, ProgramFacts DEF IInv, Types
    <3>3. Len(Outputs[s]) \in Nat
      BY <3>2, LenProperties
    <3>4. Top(t).item \in 1 .. Len(Outputs[s])
      BY <1>7, <3>1, <3>3
    <3> QED BY <2>1, <3>2, <3>4, ElementOfSeq
  <2>4. f \in FrameSet /\ f.op = "split" /\ f.event = e /\ f.op # "stone"
    BY <1>1, <1>3, <2>1 DEF FrameSet
  <2>5. /\ Shape /\ Acts(t) /\ Steps(t) /\ Calm(t)
        /\ \A d \in Events :
             /\ Cardinality(FramesOf(stack, d)) >= Number(Top(t).event, d)
             /\ Cardinality(FramesOf(stack', d)) =
                  Cardinality(FramesOf(stack, d)) - Number(Top(t).event, d) + Number(f.event, d)
    <3>1. "split" \notin {"handler", "drain", "limit", "overflow"}
      OBVIOUS
    <3> QED BY <1>2, <2>2, <2>4, <3>1, StayMove
  <2>6. ref \in [Events -> Int] /\ ref' \in [Events -> Int]
    <3>1. ref \in [Events -> Int]
      BY DEF IInv, Types, EventTypes
    <3> QED BY <1>4, <2>2, <3>1, OneMore
  <2>7. ref[e] > 0
    <3>1. Cardinality(FramesOf(stack, e)) >= Number(Top(t).event, e)
      BY <1>4, <2>5
    <3> QED BY <1>1, <1>4, <3>1, FrameHeld DEF IInv
  <2>8. ASSUME NEW d \in Events
        PROVE  \E b, c \in Int :
           /\ Cardinality(FramesOf(stack', d)) = Cardinality(FramesOf(stack, d)) + b
           /\ ref'[d] = ref[d] + c /\ c = Number(e, d) + b /\ (c <= 0 \/ ref[d] > 0)
    <3>1. Number(e, d) \in {0, 1} /\ Cardinality(FramesOf(stack, d)) \in Nat
          /\ (Number(e, d) = 1 <=> e = d)
      BY RefTypes DEF IInv
    <3>2. Cardinality(FramesOf(stack', d)) =
            Cardinality(FramesOf(stack, d)) - Number(e, d) + Number(e, d)
      BY <1>1, <2>4, <2>5
    <3>3. PICK c \in Int : c = Number(e, d)
      BY <3>1
    <3>4. Cardinality(FramesOf(stack', d)) = Cardinality(FramesOf(stack, d)) + 0
      BY <3>1, <3>2
    <3>5. ref'[d] = ref[d] + c /\ c = Number(e, d) + 0 /\ (c <= 0 \/ ref[d] > 0)
      BY <2>2, <2>6, <2>7, <3>1, <3>3 DEF Number
    <3> QED BY <3>4, <3>5
  <2>9. ~At(t, "overflow")
    BY <1>3 DEF At
  <2> QED BY <1>2, <1>4, <1>5, <2>2, <2>3, <2>5, <2>6, <2>8, <2>9, EnqueueKeeps
<1> QED BY <1>6, <1>7
-----------------------------------------------------------------------------
(* Steps that change one store.                                             *)
LEMMA StoreMove ==
  ASSUME Types, StoreInv, Shape, NEW t \in Threads, Acts(t), Steps(t), UNCHANGED program,
         NEW s \in Stones,
         \A u \in Stones : u # s =>
           /\ store'[u] = store[u] /\ numStored'[u] = numStored[u]
           /\ maxStored'[u] = maxStored[u]
           /\ ~AtOverflow(t, u) /\ ~AtOverflow(t, u)' /\ (AtPending(t, u)' => sending'[u])
           /\ Limiting(u) => Limiting(u)',
         Len(store'[s]) <= numStored'[s], maxStored'[s] >= -1,
         AtOverflow(t, s)' => store'[s] # <<>>, AtPending(t, s)' => sending'[s],
         maxStored'[s] # -1 /\ ~Limiting(s)' =>
           Len(store'[s]) <= maxStored'[s] + (IF AtOverflow(t, s)' THEN 1 ELSE 0)
  PROVE  StoreInv'
<1>1. Stones' = Stones
  BY DEF Stones
<1>2. \A u : /\ Overflowing(u) <=> AtOverflow(t, u)
             /\ Overflowing(u)' <=> AtOverflow(t, u)'
             /\ SendingNow(u)' <=> AtPending(t, u)'
  BY AtWork DEF Steps, Shape
<1>3. ASSUME NEW u \in Stones
      PROVE  /\ Len(store'[u]) <= numStored'[u] /\ maxStored'[u] >= -1
             /\ Overflowing(u)' => store'[u] # <<>>
             /\ SendingNow(u)' => sending'[u]
             /\ maxStored'[u] # -1 /\ ~Limiting(u)' =>
                  Len(store'[u]) <= maxStored'[u] + (IF Overflowing(u)' THEN 1 ELSE 0)
  <2>1. CASE u = s
    BY <1>2, <2>1
  <2>2. CASE u # s
    BY <1>2, <2>2 DEF StoreInv
  <2> QED BY <2>1, <2>2
<1> QED BY <1>1, <1>3 DEF StoreInv

LEMMA PlaySum ==
  ASSUME NEW p, NEW p2, NEW w \in Nat, NEW w2, NEW s \in Nat,
         p2 = p + 1, w2 = w + 1, p = w + s
  PROVE  p2 = w2 + s /\ p2 \in Int
OBVIOUS

LEMMA ForwardKeeps ==
  ASSUME IInv, NEW t \in Threads, Shape, Acts(t), Steps(t),
         ~At(t, "overflow")', \A u : ~AtPending(t, u)', \A u : Limiting(u) => Limiting(u)',
         NEW s \in Stones, IsStore(s), store[s] # <<>>, \A u : AtOverflow(t, u) => u = s,
         ForwardStored(s), numStored' = [numStored EXCEPT ![s] = @ - 1],
         UNCHANGED <<program, appMem, origin, returned, stoneVars, maxStored, sending, envVars>>,
         ref' \in [Events -> Int],
         \A d \in Events : \E b \in Int :
           /\ Cardinality(FramesOf(stack', d)) = Cardinality(FramesOf(stack, d)) + b
           /\ ref'[d] = ref[d] + b /\ (b <= 0 \/ ref[d] > 0)
  PROVE  IInv'
<1>1. Types /\ StoreInv /\ ItemInv /\ RefInv /\ QueueTypes /\ OnePlace
  BY DEF IInv, Types, ItemInv
<1>2. PICK u \in Stones : u = Head(Outputs[s])
  BY <1>1, ProgramFacts DEF IsStore, Types
<1>3. /\ store' = [store EXCEPT ![s] = Tail(@)]
      /\ queue' = [queue EXCEPT ![u] = Append(@, Head(store[s]))]
      /\ lastActive' = u /\ inPlay' = inPlay + 1
      /\ UNCHANGED <<items, freeItems>>
  BY <1>2 DEF ForwardStored
<1>4. /\ QueueTypes' /\ OnePlace'
      /\ Len(store[s]) \in Nat \ {0} /\ Len(store'[s]) = Len(store[s]) - 1
      /\ \A v \in Stones : v # s => store'[v] = store[v]
      /\ Cardinality(Waiting') = Cardinality(Waiting) + 1
      /\ \A d \in Events : Cardinality(ItemsOf(d)') = Cardinality(ItemsOf(d))
  BY <1>1, <1>3, ForwardItems
<1>5. /\ numStored \in [Stones -> Int] /\ maxStored \in [Stones -> Int]
      /\ numStored' \in [Stones -> Int] /\ numStored'[s] = numStored[s] - 1
      /\ \A v \in Stones : v # s => numStored'[v] = numStored[v]
  <2>1. numStored \in [Stones -> Int] /\ maxStored \in [Stones -> Int]
    BY <1>1 DEF Types, StoneTypes
  <2>2. numStored' \in [Stones -> Int]
    BY <2>1, OneMore
  <2> QED BY <2>1, <2>2
<1>6. StoreInv'
  <2>1. \A v : ~AtOverflow(t, v)'
    BY DEF AtOverflow
  <2>2. Len(store'[s]) <= numStored'[s]
    <3>1. Len(store[s]) <= numStored[s] /\ numStored[s] \in Int
      BY <1>1, <1>5 DEF StoreInv
    <3> QED BY <3>1, <1>4, <1>5
  <2>3. maxStored'[s] >= -1
    BY <1>1 DEF StoreInv
  <2>4. maxStored'[s] # -1 /\ ~Limiting(s)' => Len(store'[s]) <= maxStored'[s]
    <3>1. maxStored'[s] = maxStored[s] /\ maxStored[s] \in Int
      BY <1>5
    <3>2. maxStored[s] # -1 /\ ~Limiting(s) =>
            Len(store[s]) <= maxStored[s] + (IF Overflowing(s) THEN 1 ELSE 0)
      BY <1>1 DEF StoreInv
    <3>3. \A l, m \in Int : l <= m + 1 \/ l <= m + 0 => l - 1 <= m
      OBVIOUS
    <3>4. maxStored[s] # -1 /\ ~Limiting(s) =>
            Len(store[s]) <= maxStored[s] + 1 \/ Len(store[s]) <= maxStored[s] + 0
      BY <3>2
    <3>5. Len(store[s]) \in Int
      BY <1>4
    <3> QED BY <1>4, <3>1, <3>3, <3>4, <3>5
  <2>5. \A v \in Stones : v # s =>
           /\ store'[v] = store[v] /\ numStored'[v] = numStored[v]
           /\ maxStored'[v] = maxStored[v]
           /\ ~AtOverflow(t, v) /\ ~AtOverflow(t, v)' /\ (AtPending(t, v)' => sending'[v])
           /\ Limiting(v) => Limiting(v)'
    BY <1>4, <1>5, <2>1
  <2>6. /\ AtOverflow(t, s)' => store'[s] # <<>>
        /\ AtPending(t, s)' => sending'[s]
        /\ maxStored'[s] # -1 /\ ~Limiting(s)' =>
             Len(store'[s]) <= maxStored'[s] + (IF AtOverflow(t, s)' THEN 1 ELSE 0)
    <3>1. \A l, m \in Int : l <= m => l <= m + 0
      OBVIOUS
    <3>2. Len(store'[s]) \in Int /\ maxStored'[s] \in Int
      BY <1>4, <1>5
    <3> QED BY <2>1, <2>4, <3>1, <3>2
  <2> QED BY <1>1, <2>2, <2>3, <2>5, <2>6, StoreMove
<1>7. StoneTypes'
  BY <1>1, <1>5 DEF Types, StoneTypes, stoneVars, IsStore, Action, Stones
<1>8. inPlay' = Cardinality(Waiting') + Cardinality(Senders') /\ inPlay' \in Int
  <2>1. Senders' = Senders
    BY DEF Senders, Stones
  <2>2. inPlay = Cardinality(Waiting) + Cardinality(Senders)
    BY <1>1 DEF ItemInv
  <2>3. Cardinality(Waiting) \in Nat /\ Cardinality(Senders) \in Nat
    BY <1>1, ItemSets, SenderSets DEF Types
  <2>4. inPlay' = inPlay + 1 /\ Cardinality(Waiting') = Cardinality(Waiting) + 1
    BY <1>3, <1>4
  <2> QED BY <2>1, <2>2, <2>3, <2>4, PlaySum
<1>9. ASSUME NEW d \in Events
      PROVE  \E a, b, c : Moved(d, a, b, c)
  <2>1. PICK b \in Int :
           /\ Cardinality(FramesOf(stack', d)) = Cardinality(FramesOf(stack, d)) + b
           /\ ref'[d] = ref[d] + b /\ (b <= 0 \/ ref[d] > 0)
    OBVIOUS
  <2>2. Cardinality(ItemsOf(d)') = Cardinality(ItemsOf(d)) + 0
    <3>1. Cardinality(ItemsOf(d)) \in Nat
      BY <1>1, RefTypes
    <3> QED BY <1>4, <3>1
  <2>3. appMem' = appMem /\ 0 \in Int /\ b >= 0 + b /\ b = 0 + b
    BY <2>1
  <2>4. Moved(d, 0, b, b)
    BY <2>1, <2>2, <2>3 DEF Moved
  <2> QED BY <2>4
<1>10. /\ Shape' /\ UNCHANGED <<origin, returned>> /\ lastActive' \in Stones \cup {None}
       /\ tasks' \in Nat /\ calls' \in 0 .. program.maxCalls
       /\ appMem' \in [Events -> BOOLEAN] /\ delivered' \in [Stones -> [Events -> Nat]]
  BY <1>1, <1>3 DEF Steps, envVars, Types, OtherTypes, EventTypes
<1> QED BY <1>4, <1>6, <1>7, <1>8, <1>9, <1>10, MoveKeeps

LEMMA StoreOverflowKeeps ==
  ASSUME IInv, NEW t \in Threads, StoreOverflow(t)
  PROVE  IInv'
<1>1. PICK s : s = Top(t).stone
  OBVIOUS
<1>2. /\ At(t, "overflow") /\ ForwardStored(s) /\ Return(t)
      /\ numStored' = [numStored EXCEPT ![s] = @ - 1]
      /\ UNCHANGED <<program, eventVars, stoneVars, maxStored, sending, envVars>>
  BY <1>1 DEF StoreOverflow
<1>3. Top(t) \in FrameSet /\ Top(t).op = "overflow" /\ Acts(t)
  <2>1. "overflow" \notin {"handler", "drain"}
    OBVIOUS
  <2> QED BY <1>2, <2>1, InCall
<1>4. s \in Stones /\ IsStore(s) /\ Top(t).event = None
  BY <1>1, <1>3 DEF FrameSet
<1>5. store[s] # <<>>
  <2>1. Overflowing(s)
    BY <1>1, <1>2 DEF Overflowing
  <2> QED BY <1>4, <2>1 DEF IInv, StoreInv
<1>6. /\ Shape /\ Steps(t) /\ ~At(t, "overflow")' /\ (\A u : ~AtPending(t, u)') /\ Calm(t)
      /\ \A d \in Events :
           Cardinality(FramesOf(stack', d)) = Cardinality(FramesOf(stack, d)) - Number(Top(t).event, d)
  <2>1. "overflow" # "limit"
    OBVIOUS
  <2> QED BY <1>2, <1>3, <2>1, ReturnMove
<1>7. (\A u : Limiting(u) => Limiting(u)') /\ \A u : AtOverflow(t, u) => u = s
  BY <1>1, <1>6 DEF Calm, AtOverflow
<1>8. ref \in [Events -> Int] /\ ref' = ref /\ UNCHANGED <<appMem, origin, returned>>
  BY <1>2 DEF IInv, Types, EventTypes, eventVars
<1>9. ASSUME NEW d \in Events
      PROVE  \E b \in Int :
           /\ Cardinality(FramesOf(stack', d)) = Cardinality(FramesOf(stack, d)) + b
           /\ ref'[d] = ref[d] + b /\ (b <= 0 \/ ref[d] > 0)
  <2>1. Number(None, d) = 0 /\ Cardinality(FramesOf(stack, d)) \in Nat
    BY RefTypes DEF IInv
  <2>2. Cardinality(FramesOf(stack', d)) = Cardinality(FramesOf(stack, d)) - Number(None, d)
    BY <1>4, <1>6
  <2>3. Cardinality(FramesOf(stack', d)) = Cardinality(FramesOf(stack, d)) + 0
    BY <2>1, <2>2
  <2>4. ref'[d] = ref[d] + 0
    BY <1>8
  <2> QED BY <2>3, <2>4
<1> QED BY <1>2, <1>3, <1>4, <1>5, <1>6, <1>7, <1>8, <1>9, ForwardKeeps

LEMMA SendStoredNextKeeps ==
  ASSUME IInv, NEW t \in Threads, SendStoredNext(t)
  PROVE  IInv'
<1>1. PICK s : s = Top(t).stone
  OBVIOUS
<1>2. At(t, "send") /\ UNCHANGED <<program, eventVars, stoneVars, maxStored, sending, envVars>>
  BY DEF SendStoredNext
<1>3. Top(t) \in FrameSet /\ Top(t).op = "send" /\ Acts(t) /\ Shape /\ StackTypes
  <2>1. "send" \notin {"handler", "drain"}
    OBVIOUS
  <2> QED BY <1>2, <2>1, InCall
<1>4. s \in Stones /\ IsStore(s) /\ Top(t).event = None
  BY <1>1, <1>3 DEF FrameSet
<1>5. CASE store[s] = <<>>
  <2>1. Return(t) /\ UNCHANGED <<queueVars, numStored, loopVars>>
    BY <1>1, <1>5 DEF SendStoredNext
  <2>2. lastActive' \in Stones \cup {None} /\ UNCHANGED <<storeVars, inPlay>>
    BY <1>2, <2>1 DEF loopVars, storeVars, IInv, Types, OtherTypes
  <2> QED BY <1>2, <2>1, <2>2, QuietReturn
<1>6. CASE store[s] # <<>>
  <2>1. /\ ForwardStored(s) /\ numStored' = [numStored EXCEPT ![s] = @ - 1]
        /\ Call(t, <<Loop>>)
    BY <1>1, <1>6 DEF SendStoredNext
  <2>2. PICK n : n = Len(stack[t])
    OBVIOUS
  <2>3. /\ n \in Nat \ {0} /\ n + 1 > 1 /\ Top(t) = stack[t][n]
    BY <1>2, <2>2, InCall
  <2>4. PICK f : f = Loop
    OBVIOUS
  <2>5. f \in FrameSet /\ f.op = "loop" /\ f.event = None /\ f.op # "overflow" /\ f.op # "stone"
    BY <2>4, LoopType
  <2>6. On(f, n + 1, stack[t][n])
    BY <1>3, <2>3, <2>5 DEF On, Runners
  <2>7. Moves1(t, n, f)
    BY <1>3, <2>1, <2>2, <2>4, <2>5, CallMoves
  <2>8. Steps(t) /\ Calm(t) /\ \A u : ~AtPending(t, u)'
    BY <1>2, <1>3, <2>2, <2>5, <2>6, <2>7, CallStep
  <2>9. ASSUME NEW d \in Events
        PROVE  \E b \in Int :
           /\ Cardinality(FramesOf(stack', d)) = Cardinality(FramesOf(stack, d)) + b
           /\ ref'[d] = ref[d] + b /\ (b <= 0 \/ ref[d] > 0)
    <3>1. Number(None, d) = 0 /\ Cardinality(FramesOf(stack, d)) \in Nat
      BY RefTypes DEF IInv
    <3>2. Cardinality(FramesOf(stack', d)) = Cardinality(FramesOf(stack, d)) + Number(None, d)
      BY <1>3, <2>2, <2>5, <2>7, CallFrames
    <3>3. ref'[d] = ref[d] + 0
      BY <1>2 DEF IInv, Types, EventTypes, eventVars
    <3> QED BY <3>1, <3>2, <3>3
  <2>10. /\ ~At(t, "overflow")' /\ (\A u : Limiting(u) => Limiting(u)')
         /\ \A u : AtOverflow(t, u) => u = s
    BY <1>3, <2>8 DEF Calm, AtOverflow, At
  <2>11. UNCHANGED <<appMem, origin, returned>> /\ ref' \in [Events -> Int]
    BY <1>2 DEF IInv, Types, EventTypes, eventVars
  <2> QED BY <1>2, <1>3, <1>4, <1>6, <2>1, <2>8, <2>9, <2>10, <2>11, ForwardKeeps
<1> QED BY <1>5, <1>6

(* EVset_store_limit is done with a store.                                  *)
LEMMA LimitReturnKeeps ==
  ASSUME IInv, NEW t \in Threads, At(t, "limit"), NEW s, s = Top(t).stone,
         maxStored[s] = -1 \/ numStored[s] <= maxStored[s] \/ store[s] = <<>>,
         NEW e, e = Top(t).event, IF e = None THEN UNCHANGED ref ELSE Unref(e), Return(t),
         UNCHANGED <<program, queueVars, loopVars, appMem, origin, returned, stoneVars,
                     storeVars, envVars>>
  PROVE  IInv'
<1>1. Types /\ StoreInv /\ ItemInv /\ RefInv /\ QueueTypes /\ OnePlace
  BY DEF IInv, Types, ItemInv
<1>2. Top(t) \in FrameSet /\ Top(t).op = "limit" /\ Acts(t) /\ s \in Stones
      /\ e \in Events \cup {None} /\ ~At(t, "overflow")
  <2>1. "limit" \notin {"handler", "drain"}
    OBVIOUS
  <2>2. Top(t) \in FrameSet /\ Top(t).op = "limit" /\ Acts(t)
    BY <2>1, InCall
  <2> QED BY <2>2 DEF FrameSet, At
<1>3. /\ Shape /\ Steps(t) /\ ~At(t, "overflow")' /\ (\A u : ~AtPending(t, u)')
      /\ \A u : Limiting(u) /\ Top(t).stone # u => Limiting(u)'
      /\ \A d \in Events :
           Cardinality(FramesOf(stack', d)) = Cardinality(FramesOf(stack, d)) - Number(Top(t).event, d)
  BY <1>2, ReturnMove
<1>4. /\ QueueTypes' /\ OnePlace' /\ Waiting' = Waiting
      /\ \A d : ItemsOf(d)' = ItemsOf(d)
  BY <1>1, ItemSame DEF queueVars
<1>5. StoreInv'
  <2>1. store' = store /\ numStored' = numStored /\ maxStored' = maxStored
    BY DEF queueVars, storeVars
  <2>2. \A u \in Stones : u # s =>
           /\ store'[u] = store[u] /\ numStored'[u] = numStored[u]
           /\ maxStored'[u] = maxStored[u]
           /\ ~AtOverflow(t, u) /\ ~AtOverflow(t, u)' /\ (AtPending(t, u)' => sending'[u])
           /\ Limiting(u) => Limiting(u)'
    BY <1>2, <1>3, <2>1 DEF AtOverflow
  <2>3. Len(store[s]) <= numStored[s] /\ maxStored[s] >= -1
    BY <1>1, <1>2 DEF StoreInv
  <2>4. numStored[s] \in Int /\ maxStored[s] \in Int /\ Len(store[s]) \in Nat
    <3>1. store[s] \in Seq(1 .. Len(items))
      BY <1>1, <1>2 DEF QueueTypes
    <3> QED BY <1>1, <1>2, <3>1, LenProperties DEF Types, StoneTypes
  <2>5. store[s] = <<>> => Len(store[s]) = 0
    OBVIOUS
  <2>6. maxStored[s] # -1 => Len(store[s]) <= maxStored[s] + 0
    BY <2>3, <2>4, <2>5
  <2>7. /\ AtOverflow(t, s)' => store'[s] # <<>>
        /\ AtPending(t, s)' => sending'[s]
        /\ maxStored'[s] # -1 /\ ~Limiting(s)' =>
             Len(store'[s]) <= maxStored'[s] + (IF AtOverflow(t, s)' THEN 1 ELSE 0)
    BY <1>3, <2>1, <2>6 DEF AtOverflow
  <2> QED BY <1>1, <1>2, <1>3, <2>1, <2>2, <2>3, <2>7, StoreMove
<1>6. inPlay' = Cardinality(Waiting') + Cardinality(Senders') /\ inPlay' \in Int
  <2>1. Senders' = Senders /\ inPlay' = inPlay
    BY DEF Senders, Stones, storeVars, loopVars
  <2> QED BY <1>1, <1>4, <2>1 DEF ItemInv, Types, OtherTypes
<1>7. ASSUME NEW d \in Events
      PROVE  ref'[d] = ref[d] - Number(e, d) /\ ref[d] \in Int
  <2>1. ref[d] \in Int /\ ref \in [Events -> Int]
    BY <1>1 DEF Types, EventTypes
  <2>2. CASE e = None
    <3>1. Number(e, d) = 0
      BY <1>1, <2>2, RefTypes
    <3> QED BY <2>1, <2>2, <3>1
  <2>3. CASE e # None
    <3>1. ref' = [ref EXCEPT ![e] = @ - 1]
      BY <2>3 DEF Unref
    <3> QED BY <2>1, <3>1 DEF Number
  <2> QED BY <2>2, <2>3
<1>8. ref' \in [Events -> Int]
  <2>1. ref \in [Events -> Int]
    BY <1>1 DEF Types, EventTypes
  <2> QED BY <1>2, <2>1, OneMore DEF Unref
<1>9. ASSUME NEW d \in Events
      PROVE  Moved(d, 0, 0 - Number(e, d), 0 - Number(e, d))
  <2>1. Number(e, d) \in {0, 1} /\ Cardinality(ItemsOf(d)) \in Nat
        /\ Cardinality(FramesOf(stack, d)) \in Nat
    BY <1>1, RefTypes
  <2>2. Cardinality(FramesOf(stack', d)) = Cardinality(FramesOf(stack, d)) - Number(e, d)
    BY <1>3
  <2>3. Cardinality(ItemsOf(d)') = Cardinality(ItemsOf(d))
    BY <1>4
  <2>4. ref'[d] = ref[d] - Number(e, d) /\ ref[d] \in Int
    BY <1>7
  <2>5. appMem' = appMem
    OBVIOUS
  <2> QED BY <2>1, <2>2, <2>3, <2>4, <2>5, UnrefSum DEF Moved
<1>10. /\ Shape' /\ UNCHANGED <<origin, returned>> /\ lastActive' \in Stones \cup {None}
       /\ tasks' \in Nat /\ calls' \in 0 .. program.maxCalls /\ StoneTypes'
       /\ appMem' \in [Events -> BOOLEAN] /\ delivered' \in [Stones -> [Events -> Nat]]
  BY <1>1, <1>3, StoneSame DEF Steps, loopVars, envVars, Types, OtherTypes, EventTypes
<1> QED BY <1>4, <1>5, <1>6, <1>8, <1>9, <1>10, MoveKeeps

LEMMA SetStoreLimitNextKeeps ==
  ASSUME IInv, NEW t \in Threads, SetStoreLimitNext(t)
  PROVE  IInv'
<1>1. PICK s, e : s = Top(t).stone /\ e = Top(t).event
  OBVIOUS
<1>2. /\ At(t, "limit")
      /\ UNCHANGED <<program, appMem, origin, returned, stoneVars, maxStored, sending, envVars>>
  BY DEF SetStoreLimitNext
<1>3. Top(t) \in FrameSet /\ Top(t).op = "limit" /\ Acts(t) /\ Shape /\ StackTypes
      /\ stack[t] # <<>>
  <2>1. "limit" \notin {"handler", "drain"}
    OBVIOUS
  <2> QED BY <1>2, <2>1, InCall
<1>4. s \in Stones /\ IsStore(s) /\ e \in Events \cup {None}
  BY <1>1, <1>3 DEF FrameSet
<1>5. CASE maxStored[s] = -1 \/ numStored[s] <= maxStored[s] \/ store[s] = <<>>
  <2>1. /\ IF e = None THEN UNCHANGED ref ELSE Unref(e)
        /\ Return(t) /\ UNCHANGED <<queueVars, numStored, loopVars>>
    BY <1>1, <1>5 DEF SetStoreLimitNext
  <2>2. UNCHANGED storeVars
    BY <1>2, <2>1 DEF storeVars
  <2> QED BY <1>1, <1>2, <1>5, <2>1, <2>2, LimitReturnKeeps
<1>6. CASE ~(maxStored[s] = -1 \/ numStored[s] <= maxStored[s] \/ store[s] = <<>>)
  <2>1. PICK d0, f, g : d0 = items[Head(store[s])] /\ f = [Top(t) EXCEPT !.event = d0] /\ g = Loop
    OBVIOUS
  <2>2. /\ ForwardStored(s) /\ numStored' = [numStored EXCEPT ![s] = @ - 1]
        /\ ref' = [d \in Events |-> ref[d] + (IF d = d0 THEN 1 ELSE 0) - (IF d = e THEN 1 ELSE 0)]
        /\ Pushes(t, f, g)
    BY <1>1, <1>6, <2>1 DEF SetStoreLimitNext, Pushes
  <2>3. store[s] # <<>> /\ d0 \in Events /\ ref[d0] > 0
    <3>1. store[s] \in Seq(1 .. Len(items)) /\ store[s] # <<>>
      BY <1>4, <1>6 DEF IInv, Types, QueueTypes
    <3>2. Kept(s, Head(store[s]))
      BY <3>1, TailList DEF Kept
    <3> QED BY <1>4, <2>1, <3>1, <3>2, ItemHeld DEF IInv
  <2>4. f \in FrameSet /\ f.op = "limit" /\ f.event = d0 /\ f.stone = Top(t).stone
    BY <1>3, <2>1, <2>3 DEF FrameSet
  <2>5. g \in FrameSet /\ g.op = "loop" /\ g.event = None
    BY <2>1, LoopType
  <2>6. /\ Steps(t) /\ (\A u : AtOverflow(t, u)' <=> g.op = "overflow" /\ g.stone = u)
        /\ (\A u : AtPending(t, u)' => sending[u])
        /\ (\A u : Limiting(u) => Limiting(u)') /\ (g.op # "overflow" => Calm(t))
    <3>1. /\ "limit" \notin {"handler", "drain"} /\ UNCHANGED program
          /\ ("limit" = "limit" => f.stone = Top(t).stone)
          /\ \/ g.op = "loop" /\ "limit" \in Runners
             \/ g.op = "stone" /\ "limit" = "loop"
             \/ g.op \in {"split", "overflow", "handler"} /\ "limit" = "stone" /\ f.at = "items"
          /\ (g.op = "stone" /\ g.at = "pending" => sending[g.stone])
      BY <1>2, <2>4, <2>5 DEF Runners
    <3> QED BY <1>2, <2>2, <2>4, <2>5, <3>1, PushMove
  <2>7. ~At(t, "overflow")' /\ (\A u : ~AtPending(t, u)')
    <3>1. PICK n : n = Len(stack[t])
      OBVIOUS
    <3>2. Moves2(t, n - 1, f, g) /\ n - 1 \in Nat
      BY <1>2, <1>3, <2>2, <2>4, <2>5, <3>1, ReplaceMoves, InCall DEF Pushes
    <3>3. Top(t)' = g
      BY <3>2, TopMove
    <3> QED BY <2>5, <3>3 DEF At, AtPending
  <2>8. \A u : AtOverflow(t, u) => u = s
    BY <1>3 DEF AtOverflow, At
  <2>9. ref \in [Events -> Int] /\ ref' \in [Events -> Int]
    <3>1. ref \in [Events -> Int]
      BY DEF IInv, Types, EventTypes
    <3> QED BY <2>2, <3>1
  <2>10. ASSUME NEW d \in Events
         PROVE  \E b \in Int :
           /\ Cardinality(FramesOf(stack', d)) = Cardinality(FramesOf(stack, d)) + b
           /\ ref'[d] = ref[d] + b /\ (b <= 0 \/ ref[d] > 0)
    <3>1. /\ Number(None, d) = 0 /\ Cardinality(FramesOf(stack, d)) \in Nat
          /\ Number(e, d) \in {0, 1} /\ Number(d0, d) \in {0, 1} /\ (Number(d0, d) = 1 <=> d0 = d)
      BY RefTypes DEF IInv
    <3>2. Cardinality(FramesOf(stack', d)) =
            Cardinality(FramesOf(stack, d)) - Number(e, d) + Number(d0, d) + Number(None, d)
      BY <1>1, <1>3, <2>2, <2>4, <2>5, PushCount
    <3>3. ref'[d] = ref[d] + Number(d0, d) - Number(e, d) /\ ref[d] \in Int
      BY <2>2, <2>9 DEF Number
    <3>4. PICK b \in Int : b = Number(d0, d) - Number(e, d)
      BY <3>1
    <3>5. b <= 0 \/ ref[d] > 0
      BY <2>3, <3>1, <3>4
    <3>6. \A x, y, k, m, z \in Int : z = 0 => x - k + m + z = x + (m - k) /\ y + m - k = y + (m - k)
      OBVIOUS
    <3>7. Number(e, d) \in Int /\ Number(d0, d) \in Int /\ Number(None, d) \in Int
          /\ Cardinality(FramesOf(stack, d)) \in Int
      BY <3>1
    <3>8. Cardinality(FramesOf(stack', d)) = Cardinality(FramesOf(stack, d)) + b /\ ref'[d] = ref[d] + b
      BY <3>1, <3>2, <3>3, <3>4, <3>6, <3>7
    <3> QED BY <3>5, <3>8
  <2> QED BY <1>2, <1>3, <1>4, <2>2, <2>3, <2>6, <2>7, <2>8, <2>9, <2>10, ForwardKeeps
<1> QED BY <1>5, <1>6
-----------------------------------------------------------------------------
(* A stored event is sent (process_stone_pending_output): it gets one       *)
(* reference more, and the one the store had is not given back.             *)
LEMMA RefsMore ==
  ASSUME IInv, NEW e \in Events, ref[e] > 0, ref' = [ref EXCEPT ![e] = @ + 1], ~NoStores,
         \A d \in Events : Cardinality(ItemsOf(d)') = Cardinality(ItemsOf(d)),
         \A d \in Events : Cardinality(FramesOf(stack', d)) = Cardinality(FramesOf(stack, d)),
         \A d \in Events : appMem'[d] => appMem[d]
  PROVE  ref' \in [Events -> Int] /\ \A d \in Events : \E a, b, c : Moved(d, a, b, c)
<1>1. ref \in [Events -> Int] /\ ref' \in [Events -> Int]
  <2>1. ref \in [Events -> Int]
    BY DEF IInv, Types, EventTypes
  <2> QED BY <2>1, OneMore
<1>2. ASSUME NEW d \in Events PROVE Moved(d, 0, 0, Number(e, d))
  <2>1. Cardinality(ItemsOf(d)) \in Nat /\ Cardinality(FramesOf(stack, d)) \in Nat
    BY RefTypes DEF IInv
  <2>2. /\ Cardinality(ItemsOf(d)') = Cardinality(ItemsOf(d)) + 0
        /\ Cardinality(FramesOf(stack', d)) = Cardinality(FramesOf(stack, d)) + 0
    BY <2>1
  <2>3. /\ ref'[d] = ref[d] + Number(e, d) /\ Number(e, d) \in Int /\ Number(e, d) >= 0 + 0
        /\ Number(e, d) <= 0 \/ ref[d] > 0
    BY <1>1 DEF Number
  <2> QED BY <2>2, <2>3 DEF Moved
<1> QED BY <1>1, <1>2

LEMMA PendingOutputKeeps ==
  ASSUME IInv, NEW t \in Threads, PendingOutput(t)
  PROVE  IInv'
<1>1. PICK s : s = Top(t).stone
  OBVIOUS
<1>2. /\ At(t, "stone") /\ Top(t).at = "pending"
      /\ UNCHANGED <<program, appMem, origin, returned, stoneVars, envVars>>
  BY DEF PendingOutput
<1>3. Top(t) \in FrameSet /\ Top(t).op = "stone" /\ Acts(t) /\ Shape
  <2>1. "stone" \notin {"handler", "drain"}
    OBVIOUS
  <2> QED BY <1>2, <2>1, InCall
<1>4. s \in Stones /\ IsStore(s) /\ Top(t).event = None
  BY <1>1, <1>2, <1>3 DEF FrameSet
<1>5. CASE store[s] = <<>>
  <2>1. /\ Replace(t, [Top(t) EXCEPT !.op = "crashed"])
        /\ UNCHANGED <<queueVars, ref, storeVars, loopVars>>
    BY <1>1, <1>5 DEF PendingOutput
  <2> QED BY <1>2, <2>1, CrashKeeps DEF eventVars
<1>6. CASE store[s] # <<>>
  <2>0. Types /\ StoreInv /\ ItemInv /\ RefInv /\ QueueTypes /\ OnePlace
    BY DEF IInv, Types, ItemInv
  <2> PICK last \in BOOLEAN : last <=> numStored[s] = 1
    OBVIOUS
  <2>1. PICK u, e, f :
          /\ u = Head(Outputs[s]) /\ e = items[Head(store[s])]
          /\ f = [Top(t) EXCEPT !.at = "items", !.more = ~last]
    OBVIOUS
  <2>2. /\ store' = [store EXCEPT ![s] = Tail(@)]
        /\ queue' = [queue EXCEPT ![u] = Append(@, Head(store[s]))]
        /\ lastActive' = u /\ ref' = [ref EXCEPT ![e] = @ + 1]
        /\ numStored' = [numStored EXCEPT ![s] = @ - 1]
        /\ UNCHANGED <<items, freeItems, maxStored>>
    BY <1>1, <1>6, <2>1 DEF PendingOutput
  <2>3. inPlay' = IF last THEN inPlay ELSE inPlay + 1
    BY <1>1, <1>6, <2>1 DEF PendingOutput
  <2>4. sending' = [sending EXCEPT ![s] = ~last] /\ Replace(t, f)
    <3>1. last = (numStored[s] = 1)
      BY <2>1
    <3> QED BY <1>1, <1>6, <2>1, <3>1 DEF PendingOutput
  <2>5. u \in Stones
    BY <1>4, <2>0, <2>1, ProgramFacts DEF IsStore, Types
  <2>6. /\ QueueTypes' /\ OnePlace'
        /\ Len(store[s]) \in Nat \ {0} /\ Len(store'[s]) = Len(store[s]) - 1
        /\ \A v \in Stones : v # s => store'[v] = store[v]
        /\ Kept(s, Head(store[s]))
        /\ Cardinality(Waiting') = Cardinality(Waiting) + 1
        /\ \A d \in Events : Cardinality(ItemsOf(d)') = Cardinality(ItemsOf(d))
    BY <1>2, <1>4, <1>6, <2>0, <2>2, <2>5, ForwardItems
  <2>7. e \in Events /\ ref[e] > 0
    BY <1>4, <2>0, <2>1, <2>6, ItemHeld
  <2>8. f \in FrameSet /\ f.op = "stone" /\ f.at = "items" /\ f.event = None
    BY <1>3, <2>1 DEF FrameSet, Phases
  <2>9. /\ Steps(t) /\ Calm(t) /\ (\A v : ~AtPending(t, v)')
        /\ \A d \in Events :
             Cardinality(FramesOf(stack', d)) =
               Cardinality(FramesOf(stack, d)) - Number(Top(t).event, d) + Number(f.event, d)
    <3>1. "stone" \notin {"handler", "drain", "limit", "overflow"}
      OBVIOUS
    <3> QED BY <1>2, <2>4, <2>8, <3>1, StayMove
  <2>10. \A d \in Events : Cardinality(FramesOf(stack', d)) = Cardinality(FramesOf(stack, d))
    <3>1. TAKE d \in Events
    <3>2. Number(None, d) = 0 /\ Cardinality(FramesOf(stack, d)) \in Nat
      BY <2>0, RefTypes
    <3> QED BY <1>4, <2>8, <2>9, <3>2
  <2>11. sending[s] /\ s \in Senders
    <3>1. SendingNow(s)
      BY <1>1, <1>2 DEF SendingNow
    <3> QED BY <1>4, <2>0, <3>1 DEF StoreInv, Senders
  <2>12. /\ numStored \in [Stones -> Int] /\ maxStored \in [Stones -> Int]
         /\ sending \in [Stones -> BOOLEAN]
         /\ numStored' \in [Stones -> Int] /\ numStored'[s] = numStored[s] - 1
         /\ \A v \in Stones : v # s => numStored'[v] = numStored[v] /\ sending'[v] = sending[v]
    <3>1. /\ numStored \in [Stones -> Int] /\ maxStored \in [Stones -> Int]
          /\ sending \in [Stones -> BOOLEAN]
      BY <2>0 DEF Types, StoneTypes
    <3>2. numStored' \in [Stones -> Int]
      BY <1>4, <2>2, <3>1, OneMore
    <3> QED BY <1>4, <2>2, <2>4, <3>1, <3>2
  <2>13. StoneTypes'
    <3>1. sending' \in [Stones -> BOOLEAN] /\ \A v \in Stones : sending'[v] => IsStore(v)
      BY <1>4, <2>0, <2>4, <2>12 DEF Types, StoneTypes
    <3> QED BY <1>2, <2>0, <2>2, <2>12, <3>1 DEF Types, StoneTypes, stoneVars, IsStore, Action, Stones
  <2>14. StoreInv'
    <3>1. \A v : ~AtOverflow(t, v) /\ ~AtOverflow(t, v)'
      BY <1>3, <2>9 DEF AtOverflow, At, Calm
    <3>2. Len(store[s]) <= numStored[s] /\ maxStored[s] >= -1
          /\ (maxStored[s] # -1 /\ ~Limiting(s) =>
                Len(store[s]) <= maxStored[s] + (IF Overflowing(s) THEN 1 ELSE 0))
      BY <1>4, <2>0 DEF StoreInv
    <3>3. ~Overflowing(s)
      BY <1>3, <2>9, <3>1, AtWork DEF Steps, Shape
    <3>4. (Limiting(s) => Limiting(s)') /\ maxStored' = maxStored
          /\ \A v : Limiting(v) => Limiting(v)'
      BY <2>2, <2>9 DEF Calm
    <3>5. Len(store[s]) \in Int /\ numStored[s] \in Int /\ maxStored[s] \in Int
      BY <1>4, <2>6, <2>12
    <3>6. \A l, m \in Int : l <= m => l - 1 <= m - 1 /\ l - 1 <= m + 0
      OBVIOUS
    <3>7. Len(store'[s]) <= numStored'[s]
      BY <2>6, <2>12, <3>2, <3>5, <3>6
    <3>8. maxStored[s] # -1 /\ ~Limiting(s) => Len(store[s]) <= maxStored[s]
      BY <3>2, <3>3, <3>5
    <3>9. /\ AtOverflow(t, s)' => store'[s] # <<>>
          /\ AtPending(t, s)' => sending'[s]
          /\ maxStored'[s] # -1 /\ ~Limiting(s)' =>
               Len(store'[s]) <= maxStored'[s] + (IF AtOverflow(t, s)' THEN 1 ELSE 0)
      BY <2>6, <2>9, <3>1, <3>4, <3>5, <3>6, <3>8
    <3>10. \A v \in Stones : v # s =>
           /\ store'[v] = store[v] /\ numStored'[v] = numStored[v]
           /\ maxStored'[v] = maxStored[v]
           /\ ~AtOverflow(t, v) /\ ~AtOverflow(t, v)' /\ (AtPending(t, v)' => sending'[v])
           /\ Limiting(v) => Limiting(v)'
      BY <2>6, <2>9, <2>12, <3>1, <3>4
    <3> QED BY <1>2, <1>3, <1>4, <2>0, <2>9, <3>2, <3>4, <3>7, <3>9, <3>10, StoreMove
  <2>15. inPlay' = Cardinality(Waiting') + Cardinality(Senders') /\ inPlay' \in Int
    <3>1. inPlay = Cardinality(Waiting) + Cardinality(Senders)
      BY <2>0 DEF ItemInv
    <3>2. Cardinality(Waiting) \in Nat /\ Cardinality(Senders) \in Nat
      BY <1>4, <2>0, ItemSets, SenderSets DEF Types
    <3>3. CASE last
      <4>1. sending' = [sending EXCEPT ![s] = FALSE]
        BY <2>4, <3>3
      <4>2. Cardinality(Senders') = Cardinality(Senders) - 1
        BY <1>2, <1>4, <2>0, <2>11, <4>1, SendersSet, SenderSets DEF Types
      <4> QED BY <2>3, <2>6, <3>1, <3>2, <3>3, <4>2
    <3>4. CASE ~last
      <4>1. sending' = [sending EXCEPT ![s] = TRUE]
        BY <2>4, <3>4
      <4>2. Cardinality(Senders') = Cardinality(Senders)
        BY <1>2, <1>4, <2>0, <2>11, <4>1, SendersSet, SenderSets DEF Types
      <4>3. inPlay' = inPlay + 1
        BY <2>3, <3>4
      <4> QED BY <2>6, <3>1, <3>2, <4>2, <4>3, PlaySum
    <3> QED BY <2>1, <3>3, <3>4
  <2>16. ref' \in [Events -> Int] /\ \A d \in Events : \E a, b, c : Moved(d, a, b, c)
    <3>1. ~NoStores
      BY <1>4 DEF NoStores
    <3>2. \A d \in Events : appMem'[d] => appMem[d]
      BY <1>2
    <3> QED BY <2>2, <2>6, <2>7, <2>10, <3>1, <3>2, RefsMore
  <2>17. /\ Shape' /\ UNCHANGED <<origin, returned>> /\ lastActive' \in Stones \cup {None}
         /\ tasks' \in Nat /\ calls' \in 0 .. program.maxCalls
         /\ appMem' \in [Events -> BOOLEAN] /\ delivered' \in [Stones -> [Events -> Nat]]
    BY <1>2, <2>0, <2>2, <2>5, <2>9 DEF Steps, envVars, Types, OtherTypes, EventTypes
  <2> QED BY <1>2, <2>6, <2>13, <2>14, <2>15, <2>16, <2>17, MoveKeeps
<1> QED BY <1>5, <1>6

(* An event moves to the store.  When the limit is exceeded the oldest one  *)
(* is passed on before the lock is given up.                                *)
LEMMA StoreEventKeeps ==
  ASSUME IInv, NEW t \in Threads, StoreEvent(t)
  PROVE  IInv'
<1>1. PICK s, i, e, f, f2, g :
        /\ s = Top(t).stone /\ i = Top(t).item /\ e = items[i] /\ f = Advance(t)
        /\ f2 = [f EXCEPT !.more = TRUE]
        /\ g = Frame("overflow", "none", s, None, None, FALSE)
  OBVIOUS
<1>2. AtItem(t, {"store"}) /\ Queued(t)
  BY DEF StoreEvent
<1>3. /\ At(t, "stone") /\ Top(t).op = "stone" /\ Top(t).event = None
      /\ s \in Stones /\ Action[s] \in {"store"} /\ Waits(s, i) /\ e \in Events /\ ref[e] > 0
      /\ f \in FrameSet /\ f.op = "stone" /\ f.at = "items" /\ f.event = None
  BY <1>1, <1>2, AtItemFacts
<1>4. Acts(t) /\ Shape /\ StackTypes /\ stack[t] # <<>>
  <2>1. "stone" \notin {"handler", "drain"}
    OBVIOUS
  <2> QED BY <1>3, <2>1, InCall
<1>5. IsStore(s)
  BY <1>3 DEF IsStore
<1>6. f2 \in FrameSet /\ f2.op = "stone" /\ f2.at = "items" /\ f2.event = None
  BY <1>1, <1>3 DEF FrameSet
<1>7. g \in FrameSet /\ g.op = "overflow" /\ g.stone = s /\ g.event = None
  <2>1. s \in Nat
    BY <1>3, ProgramFacts DEF IInv, Types
  <2>2. "overflow" \in Ops /\ "none" \in Phases
    BY DEF Ops, Phases
  <2> QED BY <1>1, <1>3, <1>5, <2>1, <2>2 DEF Frame, FrameSet, None
<1>8. /\ queue' = [queue EXCEPT ![s] = RemoveFirst(@, i)]
      /\ store' = [store EXCEPT ![s] = Append(@, i)]
      /\ inPlay' = inPlay - 1
      /\ ref' = [ref EXCEPT ![e] = @ + 1] /\ appMem' = [appMem EXCEPT ![e] = FALSE]
      /\ numStored' = [numStored EXCEPT ![s] = @ + 1]
      /\ UNCHANGED <<program, items, freeItems, origin, returned, stoneVars,
                     maxStored, sending, lastActive, envVars>>
  BY <1>1 DEF StoreEvent
<1>9. Types /\ StoreInv /\ ItemInv /\ RefInv /\ QueueTypes /\ OnePlace
  BY DEF IInv, Types, ItemInv
<1>10. /\ QueueTypes' /\ OnePlace'
       /\ Len(store[s]) \in Nat /\ Len(store'[s]) = Len(store[s]) + 1
       /\ \A v \in Stones : v # s => store'[v] = store[v]
       /\ Cardinality(Waiting') = Cardinality(Waiting) - 1
       /\ \A d \in Events : Cardinality(ItemsOf(d)') = Cardinality(ItemsOf(d))
  BY <1>3, <1>8, <1>9, StoreItems
<1>11. /\ numStored \in [Stones -> Int] /\ maxStored \in [Stones -> Int]
       /\ numStored' \in [Stones -> Int] /\ numStored'[s] = numStored[s] + 1
       /\ \A v \in Stones : v # s => numStored'[v] = numStored[v]
  <2>1. numStored \in [Stones -> Int] /\ maxStored \in [Stones -> Int]
    BY <1>9 DEF Types, StoneTypes
  <2>2. numStored' \in [Stones -> Int]
    BY <1>3, <1>8, <2>1, OneMore
  <2> QED BY <1>3, <1>8, <2>1, <2>2
<1>12. /\ Steps(t) /\ (\A v : ~AtPending(t, v)')
       /\ \A v : AtOverflow(t, v)' <=> OverLimit(s) /\ v = s
       /\ \A v : Limiting(v) => Limiting(v)'
       /\ \A d \in Events : Cardinality(FramesOf(stack', d)) = Cardinality(FramesOf(stack, d))
  <2>1. \A d \in Events : Number(None, d) = 0 /\ Cardinality(FramesOf(stack, d)) \in Nat
    BY <1>9, RefTypes
  <2>2. CASE OverLimit(s)
    <3>1. Pushes(t, f2, g)
      BY <1>1, <2>2 DEF StoreEvent, Pushes
    <3>2. /\ "stone" \notin {"handler", "drain"} /\ UNCHANGED program
          /\ ("stone" = "limit" => f2.stone = Top(t).stone)
          /\ \/ g.op = "loop" /\ "stone" \in Runners
             \/ g.op = "stone" /\ "stone" = "loop"
             \/ g.op \in {"split", "overflow", "handler"} /\ "stone" = "stone" /\ f2.at = "items"
          /\ (g.op = "stone" /\ g.at = "pending" => sending[g.stone])
      BY <1>6, <1>7, <1>8
    <3>3. /\ Steps(t) /\ (\A v : AtOverflow(t, v)' <=> g.op = "overflow" /\ g.stone = v)
          /\ (\A v : Limiting(v) => Limiting(v)')
      BY <1>3, <1>6, <1>7, <3>1, <3>2, PushMove
    <3>4. \A v : ~AtPending(t, v)'
      <4>1. PICK n : n = Len(stack[t])
        OBVIOUS
      <4>2. Moves2(t, n - 1, f2, g) /\ n - 1 \in Nat
        BY <1>3, <1>4, <1>6, <1>7, <3>1, <4>1, ReplaceMoves, InCall DEF Pushes
      <4>3. Top(t)' = g
        BY <4>2, TopMove
      <4> QED BY <1>7, <4>3 DEF At, AtPending
    <3>5. ASSUME NEW d \in Events
          PROVE  Cardinality(FramesOf(stack', d)) = Cardinality(FramesOf(stack, d))
      <4>1. Cardinality(FramesOf(stack', d)) =
              Cardinality(FramesOf(stack, d)) - Number(None, d) + Number(None, d) + Number(None, d)
        BY <1>3, <1>4, <1>6, <1>7, <3>1, PushCount
      <4>2. Number(None, d) = 0 /\ Cardinality(FramesOf(stack, d)) \in Nat
        BY <2>1
      <4> QED BY <4>1, <4>2
    <3> QED BY <1>7, <2>2, <3>3, <3>4, <3>5
  <2>3. CASE ~OverLimit(s)
    <3>1. Replace(t, f)
      BY <1>1, <2>3 DEF StoreEvent
    <3>2. "stone" \notin {"handler", "drain", "limit", "overflow"}
      OBVIOUS
    <3>3. /\ Steps(t) /\ Calm(t) /\ (\A v : ~AtPending(t, v)')
          /\ \A d \in Events : Cardinality(FramesOf(stack', d)) =
               Cardinality(FramesOf(stack, d)) - Number(Top(t).event, d) + Number(f.event, d)
      BY <1>3, <1>8, <3>1, <3>2, StayMove
    <3>4. ASSUME NEW d \in Events
          PROVE  Cardinality(FramesOf(stack', d)) = Cardinality(FramesOf(stack, d))
      <4>1. Cardinality(FramesOf(stack', d)) =
              Cardinality(FramesOf(stack, d)) - Number(None, d) + Number(None, d)
        BY <1>3, <3>3
      <4>2. Number(None, d) = 0 /\ Cardinality(FramesOf(stack, d)) \in Nat
        BY <2>1
      <4> QED BY <4>1, <4>2
    <3> QED BY <2>3, <3>3, <3>4 DEF Calm, AtOverflow
  <2> QED BY <2>2, <2>3
<1>13. StoneTypes'
  BY <1>8, <1>9, <1>11 DEF Types, StoneTypes, stoneVars, IsStore, Action, Stones
<1>14. StoreInv'
  <2>1. \A v : ~AtOverflow(t, v)
    BY <1>3 DEF AtOverflow, At
  <2>2. Len(store[s]) <= numStored[s] /\ maxStored[s] >= -1
        /\ (maxStored[s] # -1 /\ ~Limiting(s) =>
              Len(store[s]) <= maxStored[s] + (IF Overflowing(s) THEN 1 ELSE 0))
    BY <1>3, <1>9 DEF StoreInv
  <2>3. ~Overflowing(s)
    BY <1>4, <1>12, <2>1, AtWork DEF Steps, Shape
  <2>4. Len(store[s]) \in Int /\ numStored[s] \in Int /\ maxStored[s] \in Int
    BY <1>3, <1>10, <1>11
  <2>5. Len(store'[s]) <= numStored'[s]
    BY <1>10, <1>11, <2>2, <2>4
  <2>6. store'[s] # <<>>
    <3>1. Len(store'[s]) # 0
      BY <1>10
    <3> QED BY <3>1
  <2>7. maxStored[s] # -1 /\ ~Limiting(s) => Len(store[s]) <= maxStored[s]
    BY <2>2, <2>3, <2>4
  <2>8. ~OverLimit(s) => (maxStored[s] # -1 => Len(store[s]) + 1 <= maxStored[s])
    BY <2>2, <2>4 DEF OverLimit
  <2>9. maxStored'[s] # -1 /\ ~Limiting(s)' =>
          Len(store'[s]) <= maxStored'[s] + (IF AtOverflow(t, s)' THEN 1 ELSE 0)
    <3>1. maxStored' = maxStored /\ (Limiting(s) => Limiting(s)')
      BY <1>8, <1>12
    <3>2. CASE OverLimit(s)
      <4>1. AtOverflow(t, s)'
        BY <1>12, <3>2
      <4>2. maxStored[s] # -1 /\ ~Limiting(s) => Len(store[s]) + 1 <= maxStored[s] + 1
        BY <2>4, <2>7
      <4> QED BY <1>10, <3>1, <4>1, <4>2
    <3>3. CASE ~OverLimit(s)
      <4>1. ~AtOverflow(t, s)'
        BY <1>12, <3>3
      <4>2. maxStored[s] # -1 => Len(store[s]) + 1 <= maxStored[s] + 0
        BY <2>4, <2>8, <3>3
      <4> QED BY <1>10, <3>1, <4>1, <4>2
    <3> QED BY <3>2, <3>3
  <2>10. AtOverflow(t, s)' => store'[s] # <<>>
    BY <2>6
  <2>11. \A v \in Stones : v # s =>
           /\ store'[v] = store[v] /\ numStored'[v] = numStored[v]
           /\ maxStored'[v] = maxStored[v]
           /\ ~AtOverflow(t, v) /\ ~AtOverflow(t, v)' /\ (AtPending(t, v)' => sending'[v])
           /\ Limiting(v) => Limiting(v)'
    BY <1>8, <1>10, <1>11, <1>12, <2>1
  <2> QED BY <1>3, <1>4, <1>8, <1>9, <1>12, <2>2, <2>5, <2>9, <2>10, <2>11, StoreMove
<1>15. inPlay' = Cardinality(Waiting') + Cardinality(Senders') /\ inPlay' \in Int
  <2>1. Senders' = Senders
    BY <1>8 DEF Senders, Stones
  <2>2. inPlay' = inPlay - 1 /\ inPlay = Cardinality(Waiting) + Cardinality(Senders)
    BY <1>8, <1>9 DEF ItemInv
  <2>3. Cardinality(Waiting) \in Nat /\ Cardinality(Senders) \in Nat
    BY <1>3, <1>9, ItemSets, SenderSets DEF Types
  <2> QED BY <1>10, <2>1, <2>2, <2>3
<1>16. appMem \in [Events -> BOOLEAN] /\ appMem' \in [Events -> BOOLEAN]
  <2>1. appMem \in [Events -> BOOLEAN]
    BY <1>9 DEF Types, EventTypes
  <2> QED BY <1>8, <2>1
<1>17. ref' \in [Events -> Int] /\ \A d \in Events : \E a, b, c : Moved(d, a, b, c)
  <2>1. ~NoStores
    BY <1>3, <1>5 DEF NoStores
  <2>2. \A d \in Events : appMem'[d] => appMem[d]
    BY <1>8, <1>16
  <2> QED BY <1>3, <1>8, <1>10, <1>12, <2>1, <2>2, RefsMore
<1>18. /\ Shape' /\ UNCHANGED <<origin, returned>> /\ lastActive' \in Stones \cup {None}
       /\ tasks' \in Nat /\ calls' \in 0 .. program.maxCalls
       /\ delivered' \in [Stones -> [Events -> Nat]]
  BY <1>8, <1>9, <1>12 DEF Steps, envVars, Types, OtherTypes, EventTypes
<1> QED BY <1>8, <1>10, <1>13, <1>14, <1>15, <1>16, <1>17, <1>18, MoveKeeps
-----------------------------------------------------------------------------
(* Calls of the application, outside or in a handler, and tasks.            *)
LEMMA CallMove ==
  ASSUME IInv, NEW t \in Threads, LockFree, UNCHANGED program, NEW f \in FrameSet,
         f.op \in {"submit", "send", "limit", "task"},
         stack[t] = <<>> \/ (At(t, "handler") /\ f.op # "task")
  PROVE  /\ Shape /\ Acts(t) /\ ~At(t, "overflow") /\ (\A u : ~AtOverflow(t, u))
         /\ Call(t, <<f>>) =>
              /\ Steps(t) /\ Calm(t) /\ (\A u : ~AtPending(t, u)')
              /\ f.op = "limit" => Limiting(f.stone)'
         /\ Call(t, <<f, Loop>>) => Steps(t) /\ Calm(t) /\ (\A u : ~AtPending(t, u)')
<1>1. Shape /\ StackTypes /\ stack[t] \in Seq(FrameSet)
  BY DEF IInv, Types, Shape, StackTypes
<1>2. Acts(t) /\ ~At(t, "overflow") /\ (\A u : ~AtOverflow(t, u))
  BY DEF Acts, LockFree, Locks, At, AtOverflow
<1>3. PICK n : n = Len(stack[t])
  OBVIOUS
<1>4. n \in Nat /\ (n = 0 <=> stack[t] = <<>>)
  BY <1>1, <1>3, LenProperties, EmptySeq
<1>5. n # 0 => stack[t][n].op = "handler"
  BY <1>3, <1>4, TopFrame, <1>1 DEF At
<1>6. On(f, n + 1, stack[t][n]) /\ f.op # "overflow" /\ f.op # "stone"
  BY <1>4, <1>5 DEF On
<1>7. PICK g : g = Loop
  OBVIOUS
<1>8. g \in FrameSet /\ g.op = "loop" /\ g.op # "overflow" /\ g.op # "stone"
  BY <1>7, LoopType
<1>9. On(g, n + 2, f)
  BY <1>4, <1>8 DEF On, Runners
<1>10. /\ Call(t, <<f>>) => Moves1(t, n, f)
       /\ Call(t, <<f, g>>) => Moves2(t, n, f, g)
  BY <1>1, <1>3, <1>8, CallMoves
<1>11. ASSUME Call(t, <<f>>)
       PROVE  /\ Steps(t) /\ Calm(t) /\ (\A u : ~AtPending(t, u)')
              /\ f.op = "limit" => Limiting(f.stone)'
  <2>1. Moves1(t, n, f)
    BY <1>10, <1>11
  <2> HIDE <1>11
  <2> QED BY <1>1, <1>2, <1>3, <1>6, <2>1, CallStep
<1>12. ASSUME Call(t, <<f, g>>)
       PROVE  Steps(t) /\ Calm(t) /\ (\A u : ~AtPending(t, u)')
  <2>1. Moves2(t, n, f, g)
    BY <1>10, <1>12
  <2> HIDE <1>12
  <2> QED BY <1>1, <1>2, <1>3, <1>6, <1>8, <1>9, <2>1, CallStep
<1> QED BY <1>1, <1>2, <1>7, <1>11, <1>12

LEMMA CallCount ==
  ASSUME StackTypes, NEW t \in Threads, NEW f \in FrameSet, NEW d \in Events,
         Call(t, <<f>>) \/ Call(t, <<f, Loop>>), \A x \in Events : Number(None, x) = 0
  PROVE  Cardinality(FramesOf(stack', d)) = Cardinality(FramesOf(stack, d)) + Number(f.event, d)
<1>1. PICK n, g : n = Len(stack[t]) /\ g = Loop
  OBVIOUS
<1>2. g \in FrameSet /\ g.event = None
  BY <1>1, LoopType
<1>3. CASE Call(t, <<f>>)
  <2>1. Moves1(t, n, f)
    BY <1>1, <1>3, CallMoves
  <2> QED BY <1>1, <2>1, CallFrames
<1>4. CASE Call(t, <<f, g>>)
  <2>1. Moves2(t, n, f, g)
    BY <1>1, <1>2, <1>4, CallMoves
  <2>2. Cardinality(FramesOf(stack', d)) =
          Cardinality(FramesOf(stack, d)) + Number(f.event, d) + Number(None, d)
    BY <1>1, <1>2, <2>1, CallFrames
  <2>3. Cardinality(FramesOf(stack, d)) \in Nat
    BY FiniteFrames DEF StackTypes
  <2>4. Number(None, d) = 0 /\ Number(f.event, d) \in Int
    BY DEF Number
  <2> QED BY <2>2, <2>3, <2>4
<1> QED BY <1>1, <1>3, <1>4

LEMMA MayCallFacts ==
  ASSUME NEW t \in Threads, MayCall(t)
  PROVE  LockFree /\ (stack[t] = <<>> \/ At(t, "handler"))
BY DEF MayCall

(* Calls that move no event.                                                *)
LEMMA QuietCall ==
  ASSUME IInv, NEW t \in Threads, LockFree, NEW f \in FrameSet, f.event = None,
         f.op \in {"send", "limit", "task"},
         stack[t] = <<>> \/ (At(t, "handler") /\ f.op # "task"),
         Call(t, <<f>>) \/ Call(t, <<f, Loop>>),
         UNCHANGED <<program, queueVars, eventVars, stoneVars, storeVars, loopVars, delivered>>,
         tasks' \in Nat, calls' \in 0 .. program.maxCalls
  PROVE  IInv'
<1>1. Acts(t) /\ Steps(t) /\ Calm(t) /\ ~At(t, "overflow")
  BY CallMove
<1>2. \A d \in Events : Cardinality(FramesOf(stack', d)) = Cardinality(FramesOf(stack, d))
  <2>1. TAKE d \in Events
  <2>2. (\A x \in Events : Number(None, x) = 0) /\ Cardinality(FramesOf(stack, d)) \in Nat /\ StackTypes
    BY RefTypes DEF IInv, Types
  <2>3. Cardinality(FramesOf(stack', d)) = Cardinality(FramesOf(stack, d)) + Number(f.event, d)
    BY <2>2, CallCount
  <2> QED BY <2>2, <2>3
<1>3. StoneTypes' /\ lastActive' \in Stones \cup {None} /\ inPlay' = inPlay
  BY StoneSame DEF IInv, Types, OtherTypes, loopVars
<1> QED BY <1>1, <1>2, <1>3, QuietKeeps

LEMMA SendStoredKeeps ==
  ASSUME IInv, NEW t \in Threads, NEW s, SendStored(t, s)
  PROVE  IInv'
<1>1. PICK f : f = Frame("send", "none", s, None, None, FALSE)
  OBVIOUS
<1>2. /\ s \in Stones /\ IsStore(s) /\ MayCall(t) /\ calls < program.maxCalls /\ calls' = calls + 1
      /\ Call(t, <<f>>)
      /\ UNCHANGED <<program, queueVars, eventVars, stoneVars, storeVars, loopVars, tasks, delivered>>
  BY <1>1 DEF SendStored, MayUse
<1>3. f \in FrameSet /\ f.op = "send" /\ f.event = None
  <2>1. s \in Nat /\ "send" \in Ops /\ "none" \in Phases
    BY <1>2, ProgramFacts DEF IInv, Types, Ops, Phases
  <2> QED BY <1>1, <1>2, <2>1 DEF Frame, FrameSet, None
<1>4. tasks' \in Nat /\ calls' \in 0 .. program.maxCalls
  BY <1>2, StoneAssumption DEF IInv, Types, OtherTypes
<1>5. LockFree /\ (stack[t] = <<>> \/ (At(t, "handler") /\ f.op # "task"))
  BY <1>2, <1>3, MayCallFacts
<1> QED BY <1>2, <1>3, <1>4, <1>5, QuietCall

LEMMA DeferredActionsKeeps ==
  ASSUME IInv, DeferredActions
  PROVE  IInv'
<1>1. PICK t, f : t = Server /\ f = Frame("task", "none", 1, None, None, FALSE)
  OBVIOUS
<1>2. /\ t \in Threads /\ tasks > 0 /\ LockFree /\ stack[t] = <<>> /\ tasks' = tasks - 1
      /\ Call(t, <<f, Loop>>)
      /\ UNCHANGED <<program, queueVars, eventVars, stoneVars, storeVars, loopVars, calls, delivered>>
  BY <1>1 DEF DeferredActions, Threads
<1>3. f \in FrameSet /\ f.op = "task" /\ f.event = None
  <2>1. "task" \in Ops /\ "none" \in Phases
    BY DEF Ops, Phases
  <2> QED BY <1>1, <2>1 DEF Frame, FrameSet, None
<1>4. tasks' \in Nat /\ calls' \in 0 .. program.maxCalls
  BY <1>2 DEF IInv, Types, OtherTypes
<1> QED BY <1>2, <1>3, <1>4, QuietCall
-----------------------------------------------------------------------------
(* Calls on stores.                                                         *)
LEMMA StillRefs ==
  ASSUME IInv, UNCHANGED <<ref, appMem>>,
         \A d \in Events : Cardinality(ItemsOf(d)') = Cardinality(ItemsOf(d)),
         \A d \in Events : Cardinality(FramesOf(stack', d)) = Cardinality(FramesOf(stack, d))
  PROVE  /\ ref' \in [Events -> Int] /\ appMem' \in [Events -> BOOLEAN]
         /\ \A d \in Events : \E a, b, c : Moved(d, a, b, c)
<1>1. ref \in [Events -> Int] /\ appMem \in [Events -> BOOLEAN]
  BY DEF IInv, Types, EventTypes
<1>2. ASSUME NEW d \in Events PROVE Moved(d, 0, 0, 0)
  <2>1. Cardinality(ItemsOf(d)) \in Nat /\ Cardinality(FramesOf(stack, d)) \in Nat
    BY RefTypes DEF IInv
  <2>2. /\ Cardinality(ItemsOf(d)') = Cardinality(ItemsOf(d)) + 0
        /\ Cardinality(FramesOf(stack', d)) = Cardinality(FramesOf(stack, d)) + 0
        /\ ref'[d] = ref[d] + 0 /\ appMem'[d] = appMem[d]
    BY <1>1, <2>1
  <2> QED BY <2>2 DEF Moved
<1> QED BY <1>1, <1>2

LEMMA SameFrames ==
  ASSUME UNCHANGED stack
  PROVE  \A d \in Events : Cardinality(FramesOf(stack', d)) = Cardinality(FramesOf(stack, d))
OBVIOUS

LEMMA SetStoreLimitKeeps ==
  ASSUME IInv, NEW t \in Threads, NEW s, NEW n \in Int, n >= -1, SetStoreLimit(t, s, n)
  PROVE  IInv'
<1>1. PICK f : f = Frame("limit", "none", s, None, None, FALSE)
  OBVIOUS
<1>2. /\ s \in Stones /\ IsStore(s) /\ MayCall(t) /\ calls < program.maxCalls /\ calls' = calls + 1
      /\ Call(t, <<f>>) /\ maxStored' = [maxStored EXCEPT ![s] = n]
      /\ UNCHANGED <<program, queueVars, eventVars, stoneVars, numStored, sending, loopVars,
                     tasks, delivered>>
  BY <1>1 DEF SetStoreLimit, MayUse
<1>3. f \in FrameSet /\ f.op = "limit" /\ f.event = None /\ f.stone = s
  <2>1. s \in Nat /\ "limit" \in Ops /\ "none" \in Phases
    BY <1>2, ProgramFacts DEF IInv, Types, Ops, Phases
  <2> QED BY <1>1, <1>2, <2>1 DEF Frame, FrameSet, None
<1>4. LockFree /\ (stack[t] = <<>> \/ (At(t, "handler") /\ f.op # "task"))
  BY <1>2, <1>3, MayCallFacts
<1>5. /\ Shape /\ Acts(t) /\ (\A u : ~AtOverflow(t, u))
      /\ Steps(t) /\ Calm(t) /\ (\A u : ~AtPending(t, u)') /\ Limiting(s)'
  BY <1>2, <1>3, <1>4, CallMove
<1>6. Types /\ StoreInv /\ ItemInv /\ RefInv /\ QueueTypes /\ OnePlace
  BY DEF IInv, Types, ItemInv
<1>7. /\ QueueTypes' /\ OnePlace' /\ Waiting' = Waiting
      /\ \A d : ItemsOf(d)' = ItemsOf(d)
  BY <1>2, <1>6, ItemSame DEF queueVars
<1>8. StoneTypes'
  <2>1. maxStored' \in [Stones -> Int]
    BY <1>2, <1>6 DEF Types, StoneTypes
  <2> QED BY <1>2, <1>6, <2>1 DEF Types, StoneTypes, stoneVars, IsStore, Action, Stones
<1>9. StoreInv'
  <2>1. \A v : ~AtOverflow(t, v)' /\ (Limiting(v) => Limiting(v)')
    BY <1>5 DEF AtOverflow, Calm
  <2>2. /\ store' = store /\ numStored' = numStored
        /\ \A v \in Stones : v # s => maxStored'[v] = maxStored[v]
        /\ maxStored'[s] = n
    BY <1>2, <1>6 DEF queueVars, Types, StoneTypes
  <2>3. Len(store[s]) <= numStored[s]
    BY <1>2, <1>6 DEF StoreInv
  <2> QED BY <1>2, <1>5, <1>6, <2>1, <2>2, <2>3, StoreMove
<1>10. inPlay' = Cardinality(Waiting') + Cardinality(Senders') /\ inPlay' \in Int
  <2>1. Senders' = Senders /\ inPlay' = inPlay
    BY <1>2 DEF Senders, Stones, loopVars
  <2> QED BY <1>6, <1>7, <2>1 DEF ItemInv, Types, OtherTypes
<1>11. \A d \in Events : Cardinality(FramesOf(stack', d)) = Cardinality(FramesOf(stack, d))
  <2>1. TAKE d \in Events
  <2>2. (\A x \in Events : Number(None, x) = 0) /\ Cardinality(FramesOf(stack, d)) \in Nat /\ StackTypes
    BY <1>6, RefTypes DEF Types
  <2>3. Cardinality(FramesOf(stack', d)) = Cardinality(FramesOf(stack, d)) + Number(f.event, d)
    BY <1>2, <1>3, <2>2, CallCount
  <2> QED BY <1>3, <2>2, <2>3
<1>12. /\ ref' \in [Events -> Int] /\ appMem' \in [Events -> BOOLEAN]
       /\ \A d \in Events : \E a, b, c : Moved(d, a, b, c)
  BY <1>2, <1>7, <1>11, StillRefs DEF eventVars
<1>13. /\ Shape' /\ UNCHANGED <<origin, returned>> /\ lastActive' \in Stones \cup {None}
       /\ tasks' \in Nat /\ calls' \in 0 .. program.maxCalls
       /\ delivered' \in [Stones -> [Events -> Nat]]
  BY <1>2, <1>5, <1>6, StoneAssumption DEF Steps, eventVars, loopVars, Types, OtherTypes, EventTypes
<1> QED BY <1>2, <1>7, <1>8, <1>9, <1>10, <1>12, <1>13, MoveKeeps

LEMMA ClearStoredKeeps ==
  ASSUME IInv, NEW t \in Threads, NEW s, ClearStored(t, s)
  PROVE  IInv'
<1>1. /\ s \in Stones /\ IsStore(s) /\ MayCall(t) /\ calls < program.maxCalls /\ calls' = calls + 1
      /\ ref' = [e \in Events |->
               ref[e] - Cardinality({p \in DOMAIN store[s] : items[store[s][p]] = e})]
      /\ store' = [store EXCEPT ![s] = <<>>]
      /\ UNCHANGED <<program, queue, items, freeItems, appMem, origin, returned,
                     stoneVars, storeVars, loopVars, tasks, delivered, stack>>
  BY DEF ClearStored, MayUse
<1>2. Types /\ StoreInv /\ ItemInv /\ RefInv /\ QueueTypes /\ OnePlace /\ Shape /\ LockFree
  BY <1>1, MayCallFacts DEF IInv, Types, ItemInv, Shape
<1>3. Acts(t) /\ Steps(t) /\ Calm(t) /\ ~At(t, "overflow")
  BY <1>1, <1>2, StillStep
<1>4. /\ QueueTypes' /\ OnePlace'
      /\ Len(store'[s]) = 0 /\ \A v \in Stones : v # s => store'[v] = store[v]
      /\ Cardinality(Waiting') = Cardinality(Waiting)
      /\ \A d \in Events :
           LET P == {p \in DOMAIN store[s] : items[store[s][p]] = d}
           IN  /\ Cardinality(P) \in Nat
               /\ Cardinality(ItemsOf(d)') = Cardinality(ItemsOf(d)) - Cardinality(P)
  BY <1>1, <1>2, ClearItems
<1>5. StoreInv'
  <2>1. \A v : ~AtOverflow(t, v) /\ ~AtOverflow(t, v)' /\ ~AtPending(t, v)'
               /\ (Limiting(v) => Limiting(v)')
    <3>1. ~At(t, "stone")'
      BY <1>1, <1>2 DEF LockFree, Locks, At, Top
    <3> QED BY <1>3, <3>1 DEF AtOverflow, AtPending, Calm
  <2>2. numStored' = numStored /\ maxStored' = maxStored
    BY <1>1 DEF storeVars
  <2>3. /\ Len(store[s]) <= numStored[s] /\ maxStored[s] >= -1
        /\ Len(store[s]) \in Nat /\ numStored[s] \in Int /\ maxStored[s] \in Int
    <3>1. store[s] \in Seq(1 .. Len(items))
      BY <1>1, <1>2 DEF QueueTypes
    <3> QED BY <1>1, <1>2, <3>1, LenProperties DEF StoreInv, Types, StoneTypes
  <2>4. Len(store'[s]) <= numStored'[s]
        /\ (maxStored'[s] # -1 => Len(store'[s]) <= maxStored'[s] + 0)
    BY <1>4, <2>2, <2>3
  <2> QED BY <1>1, <1>2, <1>3, <1>4, <2>1, <2>2, <2>3, <2>4, StoreMove
<1>6. StoneTypes'
  BY <1>1, <1>2, StoneSame DEF Types
<1>7. inPlay' = Cardinality(Waiting') + Cardinality(Senders') /\ inPlay' \in Int
  <2>1. Senders' = Senders /\ inPlay' = inPlay
    BY <1>1 DEF Senders, Stones, loopVars, storeVars
  <2> QED BY <1>2, <1>4, <2>1 DEF ItemInv, Types, OtherTypes
<1>8. \A d \in Events : Cardinality({p \in DOMAIN store[s] : items[store[s][p]] = d}) \in Nat
  BY <1>4
<1>9. ref \in [Events -> Int] /\ ref' \in [Events -> Int]
  <2>1. ref \in [Events -> Int]
    BY <1>2 DEF Types, EventTypes
  <2> QED BY <1>1, <1>8, <2>1
<1>10. ASSUME NEW d \in Events PROVE \E a, b, c : Moved(d, a, b, c)
  <2>1. PICK k : k = Cardinality({p \in DOMAIN store[s] : items[store[s][p]] = d})
    OBVIOUS
  <2>2. k \in Nat
    BY <1>8, <2>1
  <2>3. Cardinality(ItemsOf(d)') = Cardinality(ItemsOf(d)) - k
    BY <1>4, <2>1
  <2>4. ref'[d] = ref[d] - k /\ ref[d] \in Int
    BY <1>1, <1>9, <2>1
  <2>5. Cardinality(ItemsOf(d)) \in Nat /\ Cardinality(FramesOf(stack, d)) \in Nat
    BY <1>2, RefTypes
  <2>6. Cardinality(FramesOf(stack', d)) = Cardinality(FramesOf(stack, d)) /\ appMem' = appMem
    BY <1>1
  <2>7. /\ Cardinality(ItemsOf(d)') = Cardinality(ItemsOf(d)) + (0 - k)
        /\ Cardinality(FramesOf(stack', d)) = Cardinality(FramesOf(stack, d)) + 0
        /\ ref'[d] = ref[d] + (0 - k)
        /\ 0 - k \in Int /\ 0 - k = (0 - k) + 0 /\ 0 - k <= 0 /\ 0 - k >= (0 - k) + 0
    BY <2>2, <2>3, <2>4, <2>5, <2>6
  <2>8. Moved(d, 0 - k, 0, 0 - k)
    BY <2>6, <2>7 DEF Moved
  <2> QED BY <2>8
<1>11. /\ Shape' /\ UNCHANGED <<origin, returned>> /\ lastActive' \in Stones \cup {None}
       /\ tasks' \in Nat /\ calls' \in 0 .. program.maxCalls /\ appMem' \in [Events -> BOOLEAN]
       /\ delivered' \in [Stones -> [Events -> Nat]]
  BY <1>1, <1>2, <1>3, StoneAssumption DEF Steps, loopVars, Types, OtherTypes, EventTypes
<1> QED BY <1>1, <1>4, <1>5, <1>6, <1>7, <1>9, <1>10, <1>11, MoveKeeps

LEMMA StoreStartSendKeeps ==
  ASSUME IInv, NEW t \in Threads, NEW s, StoreStartSend(t, s)
  PROVE  IInv'
<1>1. /\ s \in Stones /\ IsStore(s) /\ MayCall(t) /\ calls < program.maxCalls /\ calls' = calls + 1
      /\ ~sending[s] /\ sending' = [sending EXCEPT ![s] = TRUE]
      /\ inPlay' = inPlay + 1 /\ tasks' = tasks + 1
      /\ UNCHANGED <<program, queueVars, eventVars, stoneVars, numStored, maxStored, lastActive,
                     delivered, stack>>
  BY DEF StoreStartSend, MayUse
<1>2. Types /\ StoreInv /\ ItemInv /\ QueueTypes /\ OnePlace /\ Shape /\ LockFree
  BY <1>1, MayCallFacts DEF IInv, Types, ItemInv, Shape
<1>3. Acts(t) /\ Steps(t) /\ Calm(t) /\ ~At(t, "overflow")
  BY <1>1, <1>2, StillStep
<1>4. /\ QueueTypes' /\ OnePlace' /\ Waiting' = Waiting
      /\ \A d : ItemsOf(d)' = ItemsOf(d)
  BY <1>1, <1>2, ItemSame DEF queueVars
<1>5. sending \in [Stones -> BOOLEAN] /\ \A u \in Stones : u # s => sending'[u] = sending[u]
  BY <1>1, <1>2 DEF Types, StoneTypes
<1>6. sending'[s] = TRUE
  BY <1>1, <1>5
<1>7. StoneTypes'
  <2>1. sending' \in [Stones -> BOOLEAN] /\ \A u \in Stones : sending'[u] => IsStore(u)
    BY <1>1, <1>2, <1>5 DEF Types, StoneTypes
  <2> QED BY <1>1, <1>2, <2>1 DEF Types, StoneTypes, stoneVars, IsStore, Action, Stones
<1>8. StoreInv'
  <2>1. /\ store' = store /\ numStored' = numStored /\ maxStored' = maxStored
        /\ \A u : ~AtOverflow(t, u) /\ ~AtOverflow(t, u)' /\ ~AtPending(t, u)'
                  /\ (Limiting(u) => Limiting(u)')
    <3>1. ~At(t, "stone")'
      BY <1>1, <1>2 DEF LockFree, Locks, At, Top
    <3> QED BY <1>1, <1>3, <3>1 DEF AtOverflow, AtPending, Calm, queueVars
  <2>2. /\ Len(store[s]) <= numStored[s] /\ maxStored[s] >= -1 /\ ~Overflowing(s)
        /\ maxStored[s] # -1 /\ ~Limiting(s) => Len(store[s]) <= maxStored[s] + 0
    <3>1. ~Overflowing(s)
      BY <1>2 DEF LockFree, Locks, At, Overflowing
    <3> QED BY <1>1, <1>2, <3>1 DEF StoreInv
  <2> QED BY <1>1, <1>2, <1>3, <2>1, <2>2, StoreMove
<1>9. inPlay' = Cardinality(Waiting') + Cardinality(Senders') /\ inPlay' \in Int
  <2>1. Senders' = Senders \cup {s} /\ s \notin Senders
    BY <1>1, <1>2, SendersSet DEF Types, Senders
  <2>2. Cardinality(Senders') = Cardinality(Senders) + 1 /\ Cardinality(Senders) \in Nat
    BY <1>1, <1>2, <2>1, SenderSets DEF Types
  <2>3. inPlay = Cardinality(Waiting) + Cardinality(Senders) /\ Cardinality(Waiting) \in Nat
    BY <1>2, ItemSets DEF ItemInv
  <2> QED BY <1>1, <1>4, <2>2, <2>3
<1>10. /\ ref' \in [Events -> Int] /\ appMem' \in [Events -> BOOLEAN]
       /\ \A d \in Events : \E a, b, c : Moved(d, a, b, c)
  BY <1>1, <1>4, SameFrames, StillRefs DEF eventVars
<1>11. /\ Shape' /\ UNCHANGED <<origin, returned>> /\ lastActive' \in Stones \cup {None}
       /\ tasks' \in Nat /\ calls' \in 0 .. program.maxCalls
       /\ delivered' \in [Stones -> [Events -> Nat]]
  BY <1>1, <1>2, <1>3, StoneAssumption DEF Steps, eventVars, Types, OtherTypes, EventTypes
<1> QED BY <1>1, <1>4, <1>7, <1>8, <1>9, <1>10, <1>11, MoveKeeps
-----------------------------------------------------------------------------
(* Reconfiguration.                                                         *)
LEMMA FreezeKeeps ==
  ASSUME IInv, NEW t \in Threads, NEW s, Freeze(t, s) \/ Unfreeze(t, s)
  PROVE  IInv'
<1>1. /\ s \in Stones /\ MayCall(t) /\ calls < program.maxCalls /\ calls' = calls + 1
      /\ \E b \in BOOLEAN : frozen' = [frozen EXCEPT ![s] = b]
      /\ tasks' = tasks \/ tasks' = tasks + 1
      /\ UNCHANGED <<program, queueVars, eventVars, draining, processing, storeVars, loopVars,
                     delivered, stack>>
  BY DEF Freeze, Unfreeze, MayUse
<1>2. Types /\ Shape /\ LockFree
  BY <1>1, MayCallFacts DEF IInv, Types, Shape
<1>3. Acts(t) /\ Steps(t) /\ Calm(t) /\ ~At(t, "overflow")
  BY <1>1, <1>2, StillStep
<1>4. StoneTypes'
  <2>1. frozen' \in [Stones -> BOOLEAN]
    BY <1>1, <1>2 DEF Types, StoneTypes
  <2> QED BY <1>1, <1>2, <2>1 DEF Types, StoneTypes, storeVars, IsStore, Action, Stones
<1>5. /\ lastActive' \in Stones \cup {None} /\ inPlay' = inPlay
      /\ tasks' \in Nat /\ calls' \in 0 .. program.maxCalls
  BY <1>1, <1>2, StoneAssumption DEF Types, OtherTypes, loopVars
<1> QED BY <1>1, <1>3, <1>4, <1>5, SameFrames, QuietKeeps

LEMMA TransferEventsKeeps ==
  ASSUME IInv, NEW t \in Threads, NEW s, NEW u, TransferEvents(t, s, u)
  PROVE  IInv'
<1>1. /\ s \in Stones /\ MayCall(t) /\ calls < program.maxCalls /\ calls' = calls + 1
      /\ u \in Stones \ {s}
      /\ queue' = [queue EXCEPT ![s] = <<>>, ![u] = @ \o queue[s]] /\ lastActive' = u
      /\ UNCHANGED <<program, store, items, freeItems, eventVars, stoneVars,
                     storeVars, inPlay, tasks, delivered, stack>>
  BY DEF TransferEvents, MayUse
<1>2. Types /\ StoreInv /\ ItemInv /\ QueueTypes /\ OnePlace /\ Shape /\ LockFree
  BY <1>1, MayCallFacts DEF IInv, Types, ItemInv, Shape
<1>3. Acts(t) /\ Steps(t) /\ Calm(t) /\ ~At(t, "overflow")
  BY <1>1, <1>2, StillStep
<1>4. /\ QueueTypes' /\ OnePlace' /\ Cardinality(Waiting') = Cardinality(Waiting)
      /\ \A d \in Events : Cardinality(ItemsOf(d)') = Cardinality(ItemsOf(d))
  BY <1>1, <1>2, TransferItems
<1>5. StoreInv' /\ StoneTypes'
  BY <1>1, <1>2, <1>3, StoreSame, StoneSame DEF Types
<1>6. inPlay' = Cardinality(Waiting') + Cardinality(Senders') /\ inPlay' \in Int
  <2>1. Senders' = Senders
    BY <1>1 DEF Senders, Stones, storeVars
  <2> QED BY <1>1, <1>2, <1>4, <2>1 DEF ItemInv, Types, OtherTypes
<1>7. /\ ref' \in [Events -> Int] /\ appMem' \in [Events -> BOOLEAN]
      /\ \A d \in Events : \E a, b, c : Moved(d, a, b, c)
  BY <1>1, <1>4, SameFrames, StillRefs DEF eventVars
<1>8. /\ Shape' /\ UNCHANGED <<origin, returned>> /\ lastActive' \in Stones \cup {None}
      /\ tasks' \in Nat /\ calls' \in 0 .. program.maxCalls
      /\ delivered' \in [Stones -> [Events -> Nat]]
  BY <1>1, <1>2, <1>3, StoneAssumption DEF Steps, eventVars, Types, OtherTypes, EventTypes
<1> QED BY <1>1, <1>4, <1>5, <1>6, <1>7, <1>8, MoveKeeps

(* EVdrain_stone is the only call of its thread, before and after a test.   *)
LEMMA DrainTestKeeps ==
  ASSUME IInv, NEW t \in Threads, NEW s \in Stones, NEW polls \in Nat, LockFree,
         stack[t] = <<>> \/ At(t, "drain"), DrainTest(t, s, polls),
         UNCHANGED <<program, queueVars, eventVars, frozen, processing, storeVars, loopVars,
                     tasks, delivered>>,
         calls' \in 0 .. program.maxCalls
  PROVE  IInv'
<1>1. Types /\ Shape /\ StackTypes /\ stack \in [Threads -> Seq(FrameSet)]
  BY DEF IInv, Types, Shape, StackTypes
<1>2. PICK n : n = Len(stack[t])
  OBVIOUS
<1>3. /\ n \in {0, 1} /\ (n = 0 => stack[t] = <<>>)
      /\ n = 1 => stack[t][1].event = None /\ stack[t][1].op = "drain"
  <2>1. CASE stack[t] = <<>>
    BY <1>2, <2>1
  <2>2. CASE stack[t] # <<>> /\ At(t, "drain")
    <3>1. Top(t).op = "drain" /\ Top(t) = stack[t][n] /\ Top(t) \in FrameSet
          /\ n \in Nat \ {0} /\ On(Top(t), n, stack[t][n - 1])
      BY <1>1, <1>2, <2>2, TopPlace DEF At
    <3>2. n = 1
      BY <3>1 DEF On
    <3> QED BY <3>1, <3>2 DEF FrameSet
  <2> QED BY <2>1, <2>2
<1>4. PICK f : f = Frame("drain", "none", s, None, polls, FALSE)
  OBVIOUS
<1>5. f \in FrameSet /\ f.op = "drain" /\ f.event = None
  <2>1. s \in Nat /\ "drain" \in Ops /\ "none" \in Phases
    BY <1>1, ProgramFacts DEF Types, Ops, Phases
  <2> QED BY <1>4, <2>1 DEF Frame, FrameSet, None
<1>6. /\ \E k \in {1, 2} : draining' = [draining EXCEPT ![s] = k]
  BY <1>4 DEF DrainTest
<1>7. PICK c : c \in {<<>>, <<f>>} /\ stack' = [stack EXCEPT ![t] = c]
  BY <1>4 DEF DrainTest
<1>8. c \in Seq(FrameSet) /\ Len(c) \in {0, 1} /\ (Len(c) = 1 => c[1] = f)
  <2>1. CASE c = <<>>
    BY <2>1
  <2>2. CASE c = <<f>>
    BY <1>5, <2>2
  <2> QED BY <1>7, <2>1, <2>2
<1>9. /\ stack' \in [Threads -> Seq(FrameSet)] /\ \A u \in Threads : u # t => stack'[u] = stack[u]
      /\ Len(stack'[t]) \in {0, 1} /\ (Len(stack'[t]) = 1 => stack'[t][1] = f)
  BY <1>1, <1>7, <1>8
<1>10. Stays(Threads, FrameSet, stack, stack', t, 0)
  BY <1>2, <1>3, <1>9 DEF Stays
<1>11. Moves0(t, 0) \/ Moves1(t, 0, f)
  BY <1>9, <1>10 DEF Moves0, Moves1
<1>12. Acts(t) /\ ~At(t, "overflow")
  BY DEF Acts, LockFree, Locks, At
<1>13. Nested'
  <2>1. On(f, 0 + 1, stack[t][0])
    BY <1>5 DEF On
  <2> QED BY <1>1, <1>5, <1>11, <2>1, NestedMove DEF Shape
<1>14. Steps(t)
  BY <1>1, <1>10, <1>12, <1>13, StepsMove
<1>15. Calm(t)
  <2>1. stack'[t] = <<>> \/ Top(t)' = f
    BY <1>11, TopMove
  <2>2. ~At(t, "overflow")' /\ \A u : ~AtPending(t, u)'
    BY <1>5, <2>1 DEF At, AtPending
  <2>3. \A u : Limiting(u) => Limiting(u)'
    <3>1. \A i \in 1 .. Len(stack[t]) : stack[t][i].op # "limit"
      BY <1>2, <1>3
    <3> QED BY <1>1, <1>10, <3>1, LimitMove
  <2> QED BY <2>2, <2>3 DEF Calm
<1>16. \A d \in Events : Cardinality(FramesOf(stack', d)) = Cardinality(FramesOf(stack, d))
  <2>1. TAKE d \in Events
  <2>2. d # None
    BY StoneAssumption DEF Events, None
  <2>3. Over(stack[t], 0, d) = 0 /\ Over(stack'[t], 0, d) = 0
    BY <1>2, <1>3, <1>5, <1>9, <2>2 DEF Over
  <2>4. /\ Cardinality(FramesOf(stack, d)) \in Nat
        /\ Cardinality(FramesOf(stack', d)) =
             Cardinality(FramesOf(stack, d)) - Over(stack[t], 0, d) + Over(stack'[t], 0, d)
    <3>1. \A m : m \in {0, 1} => m <= 0 + 2
      OBVIOUS
    <3>2. Len(stack[t]) <= 0 + 2 /\ Len(stack'[t]) <= 0 + 2
      BY <1>2, <1>3, <1>9, <3>1, Zenon
    <3> QED BY <1>1, <1>10, <3>2, FramesChange
  <2> QED BY <2>3, <2>4
<1>17. StoneTypes'
  <2>1. draining' \in [Stones -> 0 .. 2]
    BY <1>1, <1>6 DEF Types, StoneTypes
  <2> QED BY <1>1, <2>1 DEF Types, StoneTypes, storeVars, IsStore, Action, Stones
<1>18. lastActive' \in Stones \cup {None} /\ inPlay' = inPlay /\ tasks' \in Nat
  BY <1>1 DEF Types, OtherTypes, loopVars
<1> QED BY <1>12, <1>14, <1>15, <1>16, <1>17, <1>18, QuietKeeps

LEMMA DrainKeeps ==
  ASSUME IInv, NEW t \in Threads, NEW s, Drain(t, s)
  PROVE  IInv'
<1>1. /\ s \in Stones /\ MayCall(t) /\ calls < program.maxCalls /\ calls' = calls + 1
      /\ stack[t] = <<>> /\ DrainTest(t, s, 0)
      /\ UNCHANGED <<program, queueVars, eventVars, frozen, processing, storeVars, loopVars,
                     tasks, delivered>>
  BY DEF Drain, MayUse
<1>2. LockFree /\ calls' \in 0 .. program.maxCalls
  BY <1>1, MayCallFacts, StoneAssumption DEF IInv, Types, OtherTypes
<1> QED BY <1>1, <1>2, DrainTestKeeps

LEMMA DrainPollKeeps ==
  ASSUME IInv, NEW t \in Threads, DrainPoll(t)
  PROVE  IInv'
<1>1. PICK s, polls : s = Top(t).stone /\ polls = Top(t).item + 1
  OBVIOUS
<1>2. /\ LockFree /\ At(t, "drain") /\ DrainTest(t, s, polls)
      /\ UNCHANGED <<program, queueVars, eventVars, frozen, processing, storeVars, loopVars,
                     tasks, calls, delivered>>
  BY <1>1 DEF DrainPoll, envVars
<1>3. s \in Stones /\ polls \in Nat
  <2>1. Top(t) \in FrameSet /\ Top(t).op = "drain"
    BY <1>2, InCall
  <2> QED BY <1>1, <2>1 DEF FrameSet
<1>4. calls' \in 0 .. program.maxCalls
  BY <1>2 DEF IInv, Types, OtherTypes
<1> QED BY <1>2, <1>3, <1>4, DrainTestKeeps
-----------------------------------------------------------------------------
(* Submission.  The references of the event that is new.                    *)
LEMMA SubmitRefs ==
  ASSUME Types, RefInv, UNCHANGED <<program, delivered>>,
         NEW e \in Events, e = Len(origin) + 1, NEW k \in SubmitKinds, NEW s \in Stones,
         origin' = Append(origin, [kind |-> k, stone |-> s]),
         NEW m \in Nat, ref' = [ref EXCEPT ![e] = m],
         \A d \in Events : Refs(d)' = Refs(d) + (IF d = e THEN m ELSE 0),
         appMem' \in [Events -> BOOLEAN], returned' \in [Events -> BOOLEAN],
         \A d \in Events : d # e => appMem'[d] = appMem[d] /\ returned'[d] = returned[d],
         ~(returned'[e] /\ k = "app")
  PROVE  EventTypes' /\ RefInv'
<1>1. /\ ref \in [Events -> Int] /\ origin \in Seq([kind : SubmitKinds, stone : Stones])
      /\ delivered \in [Stones -> [Events -> Nat]]
  BY DEF Types, EventTypes
<1>2. Events' = Events /\ Stones' = Stones /\ NoStores' = NoStores
  BY DEF Events, Stones, NoStores, IsStore, Action
<1>3. PICK r, n : r = [kind |-> k, stone |-> s] /\ n = Len(origin)
  OBVIOUS
<1>4. r \in [kind : SubmitKinds, stone : Stones] /\ r.kind = k
  BY <1>3
<1>5. /\ n \in Nat /\ DOMAIN origin = 1 .. n
      /\ origin' \in Seq([kind : SubmitKinds, stone : Stones]) /\ Len(origin') = n + 1
      /\ origin'[n + 1] = r /\ \A i \in 1 .. n : origin'[i] = origin[i]
  BY <1>1, <1>3, <1>4, LenProperties, AppendProperties
<1>6. DOMAIN origin' = 1 .. n + 1
  BY <1>5, LenProperties
<1>7. ref' \in [Events -> Int] /\ ref'[e] = m /\ \A d \in Events : d # e => ref'[d] = ref[d]
  BY <1>1
<1>8. EventTypes'
  BY <1>1, <1>2, <1>5, <1>7 DEF EventTypes, SubmitKinds
<1>9. e = n + 1 /\ e <= MaxEvents /\ n + 1 <= MaxEvents
  BY <1>3 DEF Events
<1>10. ASSUME NEW d \in Events PROVE ref'[d] >= Refs(d)' /\ (NoStores => ref'[d] = Refs(d)')
  <2>1. Refs(d) \in Nat /\ ref[d] \in Int
    BY <1>1, RefTypes
  <2>2. CASE d = e
    <3>1. e > Len(origin)
      BY <1>3, <1>5, <1>9
    <3>2. ref[e] = 0 /\ ref[e] >= Refs(e)
      BY <3>1 DEF RefInv
    <3>3. Refs(d) = 0
      BY <2>1, <2>2, <3>2
    <3>4. Refs(d)' = m
      BY <2>2, <3>3
    <3> QED BY <1>7, <2>2, <3>4
  <2>3. CASE d # e
    <3>1. ref[d] >= Refs(d) /\ (NoStores => ref[d] = Refs(d))
      BY DEF RefInv
    <3>2. Refs(d)' = Refs(d)
      BY <2>1, <2>3
    <3> QED BY <1>7, <2>3, <3>1, <3>2
  <2> QED BY <2>2, <2>3
<1>11. AppDataReleased'
  <2>1. ASSUME NEW d \in 1 .. n + 1, returned'[d], origin'[d].kind = "app"
        PROVE  ~(appMem'[d] /\ ref'[d] > 0)
    <3>1. d # n + 1
      BY <1>4, <1>5, <1>9, <2>1
    <3>2. d \in 1 .. n /\ d \in Events /\ d # e
      BY <1>5, <1>9, <2>1, <3>1, StoneAssumption DEF Events
    <3>3. /\ appMem'[d] = appMem[d] /\ returned'[d] = returned[d] /\ ref'[d] = ref[d]
          /\ origin'[d] = origin[d]
      BY <1>5, <1>7, <3>2
    <3>4. returned[d] /\ origin[d].kind = "app" => ~(appMem[d] /\ ref[d] > 0)
      BY <1>5, <3>2 DEF RefInv, AppDataReleased
    <3> QED BY <2>1, <3>3, <3>4
  <2> QED BY <1>6, <2>1 DEF AppDataReleased
<1>12. ASSUME NEW d \in Events, d > n + 1 PROVE ref'[d] = 0 /\ ~returned'[d]
  <2>1. d > n /\ d # e /\ d \in Nat
    BY <1>5, <1>9, <1>12, StoneAssumption DEF Events
  <2>2. ref[d] = 0 /\ ~returned[d]
    BY <1>3, <2>1 DEF RefInv
  <2> QED BY <1>7, <2>1, <2>2
<1> QED BY <1>2, <1>5, <1>8, <1>9, <1>10, <1>11, <1>12 DEF RefInv

LEMMA SubmitMove ==
  ASSUME IInv, NEW t \in Threads, LockFree, NEW f \in FrameSet, f.op \in {"submit", "task"},
         stack[t] = <<>> \/ (At(t, "handler") /\ f.op # "task"), Call(t, <<f, Loop>>),
         NEW s \in Stones, NEW e \in Events, Enqueue(s, e),
         UNCHANGED <<program, store, stoneVars, storeVars, envVars>>
  PROVE  /\ StackTypes' /\ Nested' /\ OneLock' /\ QueueTypes' /\ StoneTypes' /\ OtherTypes'
         /\ StoreInv' /\ ItemInv'
         /\ \A d \in Events : Refs(d)' = Refs(d) + Number(e, d) + Number(f.event, d)
<1>1. Types /\ StoreInv /\ ItemInv /\ QueueTypes /\ OnePlace /\ StackTypes
  BY DEF IInv, Types, ItemInv
<1>2. f.op \in {"submit", "send", "limit", "task"}
  OBVIOUS
<1>3. Shape /\ Acts(t) /\ ~At(t, "overflow") /\ Steps(t) /\ Calm(t)
  BY <1>2, CallMove
<1>4. /\ QueueTypes' /\ OnePlace'
      /\ Cardinality(Waiting') = Cardinality(Waiting) + 1
      /\ \A d \in Events : Cardinality(ItemsOf(d)') = Cardinality(ItemsOf(d)) + Number(e, d)
  BY <1>1, EnqueueItems
<1>5. StoreInv' /\ StoneTypes'
  BY <1>1, <1>3, StoreSame, StoneSame DEF Types
<1>6. ItemInv' /\ inPlay' \in Int
  <2>1. Senders' = Senders
    BY DEF Senders, Stones, storeVars
  <2>2. inPlay' = inPlay + 1 /\ inPlay = Cardinality(Waiting) + Cardinality(Senders)
    BY <1>1 DEF Enqueue, ItemInv
  <2>3. Cardinality(Waiting) \in Nat /\ Cardinality(Senders) \in Nat
    BY <1>1, ItemSets, SenderSets DEF Types
  <2>4. inPlay' = Cardinality(Waiting') + Cardinality(Senders') /\ inPlay' \in Int
    BY <1>4, <2>1, <2>2, <2>3
  <2> QED BY <1>4, <2>4 DEF ItemInv
<1>7. OtherTypes'
  <2>1. /\ lastActive' \in Stones \cup {None} /\ tasks' \in Nat
        /\ calls' \in 0 .. program.maxCalls
    BY <1>1 DEF Enqueue, envVars, Types, OtherTypes
  <2> QED BY <1>1, <1>6, <2>1, OtherSame DEF Types
<1>8. ASSUME NEW d \in Events
      PROVE  Refs(d)' = Refs(d) + Number(e, d) + Number(f.event, d)
  <2>1. /\ (\A x \in Events : Number(None, x) = 0) /\ Cardinality(FramesOf(stack, d)) \in Nat
        /\ Cardinality(ItemsOf(d)) \in Nat /\ Number(e, d) \in {0, 1} /\ Number(f.event, d) \in {0, 1}
    BY <1>1, RefTypes
  <2>2. Cardinality(FramesOf(stack', d)) = Cardinality(FramesOf(stack, d)) + Number(f.event, d)
    BY <1>1, <2>1, CallCount
  <2>3. Cardinality(ItemsOf(d)') = Cardinality(ItemsOf(d)) + Number(e, d)
    BY <1>4
  <2>4. \A i, g, a, b \in Int : (i + a) + (g + b) = (i + g) + a + b
    OBVIOUS
  <2>5. Number(e, d) \in Int /\ Number(f.event, d) \in Int
    BY <2>1
  <2> QED BY <2>1, <2>2, <2>3, <2>4, <2>5, RefsNext DEF Refs
<1> QED BY <1>3, <1>4, <1>5, <1>6, <1>7, <1>8 DEF Steps, Shape

LEMMA SubmitKeeps ==
  ASSUME IInv, NEW t \in Threads, NEW s, NEW k, Submit(t, s, k)
  PROVE  IInv'
<1>1. PICK e, f : e = Len(origin) + 1 /\ f = Frame("submit", "none", s, e, None, FALSE)
  OBVIOUS
<1>2. /\ s \in program.entry /\ k \in program.kinds /\ MayCall(t) /\ e \in Events /\ Enqueue(s, e)
      /\ ref' = [ref EXCEPT ![e] = 2]
      /\ appMem' = [appMem EXCEPT ![e] = k \in {"app", "encoded"}]
      /\ origin' = Append(origin, [kind |-> k, stone |-> s])
      /\ Call(t, <<f, Loop>>)
      /\ UNCHANGED <<program, store, returned, stoneVars, storeVars, envVars>>
  BY <1>1 DEF Submit
<1>3. Types /\ RefInv /\ s \in Stones /\ k \in SubmitKinds
  <2>1. Types /\ RefInv
    BY DEF IInv
  <2>2. program \in Programs
    BY <2>1 DEF Types, OtherTypes
  <2>3. program.kinds \subseteq SubmitKinds
    BY <2>2, StoneAssumption
  <2> QED BY <1>2, <2>1, <2>3, ProgramFacts DEF Types
<1>4. f \in FrameSet /\ f.op = "submit" /\ f.event = e
  <2>1. s \in Nat /\ "submit" \in Ops /\ "none" \in Phases /\ e # None
    BY <1>2, <1>3, ProgramFacts, StoneAssumption DEF Types, Ops, Phases, Events, None
  <2> QED BY <1>1, <1>2, <1>3, <2>1 DEF Frame, FrameSet, None
<1>5. LockFree /\ (stack[t] = <<>> \/ (At(t, "handler") /\ f.op # "task"))
  BY <1>2, <1>4, MayCallFacts
<1>6. /\ StackTypes' /\ Nested' /\ OneLock' /\ QueueTypes' /\ StoneTypes' /\ OtherTypes'
      /\ StoreInv' /\ ItemInv'
      /\ \A d \in Events : Refs(d)' = Refs(d) + Number(e, d) + Number(f.event, d)
  <2>1. f.op \in {"submit", "task"}
    BY <1>4
  <2> QED BY <1>2, <1>3, <1>4, <1>5, <2>1, SubmitMove
<1>7. ASSUME NEW d \in Events PROVE Refs(d)' = Refs(d) + (IF d = e THEN 2 ELSE 0)
  <2>1. Refs(d) \in Nat
    BY <1>3, RefTypes
  <2>2. Number(e, d) = (IF d = e THEN 1 ELSE 0)
    BY DEF Number
  <2>3. Refs(d)' = Refs(d) + Number(e, d) + Number(e, d)
    BY <1>4, <1>6
  <2> QED BY <2>1, <2>2, <2>3
<1>8. ~returned[e]
  <2>1. e > Len(origin)
    <3>1. Len(origin) \in Nat
      BY <1>3, LenProperties DEF Types, EventTypes
    <3> QED BY <1>1, <3>1
  <2> QED BY <1>2, <1>3, <2>1 DEF RefInv
<1>9. /\ appMem' \in [Events -> BOOLEAN] /\ returned' \in [Events -> BOOLEAN]
      /\ \A d \in Events : d # e => appMem'[d] = appMem[d] /\ returned'[d] = returned[d]
      /\ delivered' = delivered /\ ~(returned'[e] /\ k = "app")
  BY <1>2, <1>3, <1>8 DEF Types, EventTypes, envVars
<1>10. EventTypes' /\ RefInv'
  <2>1. PICK m : m = 2
    OBVIOUS
  <2>2. /\ Types /\ RefInv /\ UNCHANGED <<program, delivered>>
        /\ e \in Events /\ e = Len(origin) + 1 /\ k \in SubmitKinds /\ s \in Stones
        /\ origin' = Append(origin, [kind |-> k, stone |-> s])
        /\ m \in Nat /\ ref' = [ref EXCEPT ![e] = m]
        /\ \A d \in Events : Refs(d)' = Refs(d) + (IF d = e THEN m ELSE 0)
    BY <1>1, <1>2, <1>3, <1>7, <1>9, <2>1
  <2> QED BY <1>9, <2>2, SubmitRefs
<1> QED BY <1>6, <1>10 DEF IInv, Types

LEMMA NetworkSubmitKeeps ==
  ASSUME IInv, NEW s, NetworkSubmit(s)
  PROVE  IInv'
<1>1. PICK t, e, f : /\ t = Server /\ e = Len(origin) + 1
                     /\ f = Frame("task", "none", s, None, None, FALSE)
  OBVIOUS
<1>2. /\ s \in program.entry /\ LockFree /\ stack[t] = <<>> /\ e \in Events /\ Enqueue(s, e)
      /\ ref' = [ref EXCEPT ![e] = 1]
      /\ origin' = Append(origin, [kind |-> "net", stone |-> s])
      /\ returned' = [returned EXCEPT ![e] = TRUE]
      /\ Call(t, <<f, Loop>>)
      /\ UNCHANGED <<program, store, appMem, stoneVars, storeVars, envVars>>
  BY <1>1 DEF NetworkSubmit
<1>3. Types /\ RefInv /\ s \in Stones /\ "net" \in SubmitKinds /\ t \in Threads
  BY <1>1, <1>2, ProgramFacts DEF IInv, Types, SubmitKinds, Threads
<1>4. f \in FrameSet /\ f.op = "task" /\ f.event = None
  <2>1. s \in Nat /\ "task" \in Ops /\ "none" \in Phases
    BY <1>3, ProgramFacts DEF Types, Ops, Phases
  <2> QED BY <1>1, <2>1 DEF Frame, FrameSet, None
<1>5. /\ StackTypes' /\ Nested' /\ OneLock' /\ QueueTypes' /\ StoneTypes' /\ OtherTypes'
      /\ StoreInv' /\ ItemInv'
      /\ \A d \in Events : Refs(d)' = Refs(d) + Number(e, d) + Number(f.event, d)
  <2>1. f.op \in {"submit", "task"}
    BY <1>4
  <2> QED BY <1>2, <1>3, <1>4, <2>1, SubmitMove
<1>6. ASSUME NEW d \in Events PROVE Refs(d)' = Refs(d) + (IF d = e THEN 1 ELSE 0)
  <2>1. Refs(d) \in Nat /\ Number(None, d) = 0
    BY <1>3, RefTypes
  <2>2. Number(e, d) = (IF d = e THEN 1 ELSE 0)
    BY DEF Number
  <2>3. Refs(d)' = Refs(d) + Number(e, d) + Number(None, d)
    BY <1>4, <1>5
  <2> QED BY <2>1, <2>2, <2>3
<1>7. /\ appMem' \in [Events -> BOOLEAN] /\ returned' \in [Events -> BOOLEAN]
      /\ \A d \in Events : d # e => appMem'[d] = appMem[d] /\ returned'[d] = returned[d]
      /\ delivered' = delivered /\ ~(returned'[e] /\ "net" = "app")
  BY <1>2, <1>3 DEF Types, EventTypes, envVars
<1>8. EventTypes' /\ RefInv'
  <2>1. PICK m, k : m = 1 /\ k = "net"
    OBVIOUS
  <2>2. /\ Types /\ RefInv /\ UNCHANGED <<program, delivered>>
        /\ e \in Events /\ e = Len(origin) + 1 /\ k \in SubmitKinds /\ s \in Stones
        /\ origin' = Append(origin, [kind |-> k, stone |-> s])
        /\ m \in Nat /\ ref' = [ref EXCEPT ![e] = m]
        /\ \A d \in Events : Refs(d)' = Refs(d) + (IF d = e THEN m ELSE 0)
        /\ ~(returned'[e] /\ k = "app")
    BY <1>1, <1>2, <1>3, <1>6, <1>7, <2>1
  <2> QED BY <1>7, <2>2, SubmitRefs
<1> QED BY <1>5, <1>8 DEF IInv, Types

(* The end of EVsubmit gives the reference of the call back.                *)
LEMMA SubmitReturnKeeps ==
  ASSUME IInv, NEW t \in Threads, SubmitReturn(t)
  PROVE  IInv'
<1>1. PICK e : e = Top(t).event
  OBVIOUS
<1>2. /\ At(t, "submit")
      /\ appMem' = [appMem EXCEPT ![e] = @ /\ ~(ref[e] # 1 /\ origin[e].kind = "app")]
      /\ ref' = [ref EXCEPT ![e] = @ - 1]
      /\ returned' = [returned EXCEPT ![e] = TRUE]
      /\ Return(t)
      /\ UNCHANGED <<program, queueVars, origin, stoneVars, storeVars, loopVars, envVars>>
  BY <1>1 DEF SubmitReturn, Unref
<1>3. Types /\ StoreInv /\ ItemInv /\ RefInv /\ QueueTypes /\ OnePlace /\ StackTypes
  BY DEF IInv, Types, ItemInv
<1>4. Top(t) \in FrameSet /\ Top(t).op = "submit" /\ Acts(t) /\ ~At(t, "overflow")
  <2>1. "submit" \notin {"handler", "drain"}
    OBVIOUS
  <2>2. Top(t) \in FrameSet /\ Top(t).op = "submit" /\ Acts(t)
    BY <1>2, <2>1, InCall
  <2> QED BY <2>2 DEF At
<1>5. e \in Events
  BY <1>1, <1>4 DEF FrameSet
<1>6. /\ Shape /\ Steps(t) /\ Calm(t)
      /\ \A d \in Events :
           /\ Cardinality(FramesOf(stack, d)) >= Number(e, d)
           /\ Cardinality(FramesOf(stack', d)) = Cardinality(FramesOf(stack, d)) - Number(e, d)
  <2>1. "submit" # "limit"
    OBVIOUS
  <2> QED BY <1>1, <1>2, <1>4, <2>1, ReturnMove
<1>7. /\ QueueTypes' /\ OnePlace' /\ Waiting' = Waiting
      /\ \A d : ItemsOf(d)' = ItemsOf(d)
  BY <1>2, <1>3, ItemSame DEF queueVars
<1>8. StoreInv' /\ StoneTypes'
  BY <1>2, <1>3, <1>4, <1>6, StoreSame, StoneSame DEF Types, queueVars
<1>9. ItemInv' /\ OtherTypes'
  <2>1. Senders' = Senders
    BY <1>2 DEF Senders, Stones, storeVars
  <2> QED BY <1>2, <1>3, <1>7, <2>1, OtherSame DEF ItemInv, Types, OtherTypes, loopVars, envVars
<1>10. /\ ref \in [Events -> Int] /\ appMem \in [Events -> BOOLEAN]
       /\ returned \in [Events -> BOOLEAN]
       /\ origin \in Seq([kind : SubmitKinds, stone : Stones])
       /\ Len(origin) \in Nat /\ DOMAIN origin = 1 .. Len(origin)
  <2>1. origin \in Seq([kind : SubmitKinds, stone : Stones])
    BY <1>3 DEF Types, EventTypes
  <2> QED BY <1>3, <2>1, LenProperties DEF Types, EventTypes
<1>11. /\ Events' = Events /\ NoStores' = NoStores /\ Stones' = Stones /\ origin' = origin
       /\ delivered' = delivered
  BY <1>2 DEF Events, NoStores, Stones, IsStore, Action, envVars
<1>12. ref[e] > 0
  BY <1>3, <1>5, <1>6, FrameHeld
<1>13. /\ ref' \in [Events -> Int] /\ ref'[e] = ref[e] - 1
       /\ \A d \in Events : d # e => ref'[d] = ref[d]
  BY <1>2, <1>5, <1>10
<1>14. /\ appMem' \in [Events -> BOOLEAN]
       /\ appMem'[e] => ~(ref[e] # 1 /\ origin[e].kind = "app")
       /\ \A d \in Events : d # e => appMem'[d] = appMem[d]
  BY <1>2, <1>5, <1>10
<1>15. /\ returned' \in [Events -> BOOLEAN]
       /\ \A d \in Events : d # e => returned'[d] = returned[d]
  BY <1>2, <1>5, <1>10
<1>16. EventTypes'
  BY <1>3, <1>10, <1>11, <1>13, <1>14, <1>15 DEF Types, EventTypes, SubmitKinds
<1>17. ASSUME NEW d \in Events PROVE ref'[d] >= Refs(d)' /\ (NoStores => ref'[d] = Refs(d)')
  <2>1. /\ Number(e, d) \in {0, 1} /\ Cardinality(ItemsOf(d)) \in Nat
        /\ Cardinality(FramesOf(stack, d)) \in Nat /\ ref[d] \in Int
    BY <1>3, <1>10, RefTypes
  <2>2. Refs(d)' = Cardinality(ItemsOf(d)) + (Cardinality(FramesOf(stack, d)) - Number(e, d))
    BY <1>6, <1>7, RefsNext
  <2>3. Refs(d) = Cardinality(ItemsOf(d)) + Cardinality(FramesOf(stack, d))
    BY DEF Refs
  <2>4. Refs(d)' = Refs(d) - Number(e, d) /\ Refs(d) \in Int
    BY <2>1, <2>2, <2>3
  <2>5. ref'[d] = ref[d] - Number(e, d)
    BY <1>13, <2>1 DEF Number
  <2>6. ref[d] >= Refs(d) /\ (NoStores => ref[d] = Refs(d))
    BY <1>3 DEF RefInv
  <2> QED BY <2>1, <2>4, <2>5, <2>6
<1>18. AppDataReleased'
  <2>1. ASSUME NEW d \in 1 .. Len(origin), returned'[d], origin[d].kind = "app"
        PROVE  ~(appMem'[d] /\ ref'[d] > 0)
    <3>1. d \in Events
      BY <1>3, <1>10, StoneAssumption DEF RefInv, Events
    <3>2. CASE d = e
      BY <1>10, <1>13, <1>14, <2>1, <3>2
    <3>3. CASE d # e
      <4>1. returned[d] /\ origin[d].kind = "app" => ~(appMem[d] /\ ref[d] > 0)
        BY <1>3, <1>10 DEF RefInv, AppDataReleased
      <4> QED BY <1>13, <1>14, <1>15, <2>1, <3>1, <3>3, <4>1
    <3> QED BY <3>2, <3>3
  <2> QED BY <1>10, <1>11, <2>1 DEF AppDataReleased
<1>19. ASSUME NEW d \in Events, d > Len(origin) PROVE ref'[d] = 0 /\ ~returned'[d]
  <2>1. ref[d] = 0 /\ ~returned[d]
    BY <1>3, <1>19 DEF RefInv
  <2>2. d # e
    BY <1>12, <2>1
  <2> QED BY <1>13, <1>15, <2>1, <2>2
<1>20. RefInv'
  BY <1>3, <1>11, <1>17, <1>18, <1>19 DEF RefInv
<1> QED BY <1>6, <1>7, <1>8, <1>9, <1>16, <1>20 DEF IInv, Types, Steps, Shape
-----------------------------------------------------------------------------
(* IInv is inductive.                                                       *)
LEMMA InitIInv == Init => IInv
<1> SUFFICES ASSUME Init PROVE IInv
  OBVIOUS
<1>1. /\ program \in Programs
      /\ queue = [s \in Stones |-> <<>>] /\ store = [s \in Stones |-> <<>>]
      /\ items = <<>> /\ freeItems = <<>>
      /\ ref = [e \in Events |-> 0] /\ appMem = [e \in Events |-> FALSE] /\ origin = <<>>
      /\ returned = [e \in Events |-> FALSE]
      /\ frozen = [s \in Stones |-> FALSE] /\ draining = [s \in Stones |-> 0]
      /\ processing = [s \in Stones |-> FALSE] /\ numStored = [s \in Stones |-> 0]
      /\ maxStored = [s \in Stones |-> program.limit] /\ sending = [s \in Stones |-> FALSE]
      /\ lastActive = None /\ inPlay = 0 /\ tasks = 0 /\ calls = 0
      /\ delivered = [s \in Stones |-> [e \in Events |-> 0]]
      /\ stack = [t \in Threads |-> <<>>]
  BY DEF Init
<1>2. program.maxCalls \in Nat /\ MaxEvents \in Nat
  BY <1>1, StoneAssumption
<1>3. OtherTypes
  <2>1. 0 \in 0 .. program.maxCalls
    BY <1>2
  <2> QED BY <1>1, <2>1 DEF OtherTypes
<1>4. program.limit \in Int /\ program.limit >= -1
  BY <1>3, ProgramFacts
<1>5. \A S : <<>> \in Seq(S)
  OBVIOUS
<1>6. StackTypes /\ Nested /\ OneLock
  <2>1. \A t \in Threads : stack[t] = <<>> /\ Len(stack[t]) = 0
    BY <1>1
  <2>2. \A d : d \notin 1 .. 0
    OBVIOUS
  <2>3. StackTypes
    BY <1>1, <1>5 DEF StackTypes
  <2>4. \A t \in Threads : ~Locks(t)
    BY <2>1 DEF Locks
  <2> QED BY <2>1, <2>2, <2>3, <2>4 DEF Nested, OneLock
<1>7. QueueTypes
  BY <1>1, <1>5 DEF QueueTypes
<1>8. EventTypes
  BY <1>1, <1>5 DEF EventTypes
<1>9. StoneTypes
  BY <1>1, <1>4 DEF StoneTypes
<1>10. \A s \in Stones : queue[s] = <<>> /\ store[s] = <<>> /\ Len(store[s]) = 0
  BY <1>1
<1>11. StoreInv
  <2>1. \A s : ~Overflowing(s) /\ ~SendingNow(s)
    BY <1>1 DEF Overflowing, SendingNow, At
  <2>2. \A s \in Stones : numStored[s] = 0 /\ maxStored[s] = program.limit
    BY <1>1
  <2> QED BY <1>4, <1>10, <2>1, <2>2 DEF StoreInv
<1>12. \A s \in Stones : \A i : ~Waits(s, i) /\ ~Kept(s, i)
  BY <1>10, NoList DEF Waits, Kept
<1>13. ItemInv
  <2>1. OnePlace
    BY <1>1, <1>10, <1>12, NoList DEF OnePlace
  <2>2. Waiting = {} /\ Senders = {}
    BY <1>1, <1>12 DEF Waiting, Senders
  <2> QED BY <1>1, <2>1, <2>2, FS_EmptySet DEF ItemInv
<1>14. ASSUME NEW d \in Events PROVE Refs(d) = 0
  <2>1. ItemsOf(d) = {}
    BY <1>12 DEF ItemsOf
  <2>2. FramesOf(stack, d) = {}
    <3>1. \A t \in Threads : stack[t] = <<>> /\ Len(stack[t]) = 0
      BY <1>1
    <3>2. \A n : n \notin 1 .. 0
      OBVIOUS
    <3> QED BY <3>1, <3>2 DEF FramesOf
  <2> QED BY <2>1, <2>2, FS_EmptySet DEF Refs
<1>15. RefInv
  <2>1. DOMAIN origin = {} /\ Len(origin) = 0
    BY <1>1
  <2>2. \A d \in Events : ref[d] = 0 /\ ~returned[d]
    BY <1>1
  <2> QED BY <1>2, <1>14, <2>1, <2>2 DEF RefInv, AppDataReleased
<1> QED BY <1>3, <1>6, <1>7, <1>8, <1>9, <1>11, <1>13, <1>15 DEF IInv, Types

LEMMA SameKeeps == IInv /\ UNCHANGED vars => IInv'
<1> SUFFICES ASSUME IInv, UNCHANGED vars PROVE IInv'
  OBVIOUS
<1>1. /\ UNCHANGED <<program, queue, store, items, freeItems>>
      /\ UNCHANGED <<ref, appMem, origin, returned>> /\ UNCHANGED <<frozen, draining, processing>>
      /\ UNCHANGED <<numStored, maxStored, sending>> /\ UNCHANGED <<lastActive, inPlay>>
      /\ UNCHANGED <<tasks, calls, delivered>> /\ UNCHANGED stack
  BY DEF vars, queueVars, eventVars, stoneVars, storeVars, loopVars, envVars
<1>2. Types /\ StoreInv /\ ItemInv /\ RefInv /\ QueueTypes /\ OnePlace
  BY DEF IInv, Types, ItemInv
<1>3. Threads' = Threads /\ FrameSet' = FrameSet /\ Stones' = Stones
  BY <1>1, SameProgram DEF Threads
<1>4. StackTypes' /\ Nested' /\ OneLock'
  BY <1>1, <1>2, <1>3 DEF IInv, Types, StackTypes, Nested, OneLock, Locks, Top
<1>5. QueueTypes' /\ OnePlace' /\ Waiting' = Waiting /\ \A d : ItemsOf(d)' = ItemsOf(d)
  BY <1>1, <1>2, ItemSame
<1>6. EventTypes' /\ StoneTypes'
  BY <1>1, <1>2, EventSame, StoneSame DEF Types, eventVars, stoneVars, storeVars
<1>7. OtherTypes'
  BY <1>1, <1>2, OtherSame DEF Types, OtherTypes
<1>8. StoreInv'
  BY <1>1, <1>2, <1>3 DEF StoreInv, Overflowing, SendingNow, Limiting, Frames, At, Top
<1>9. ItemInv'
  <2>1. Senders' = Senders
    BY <1>1, <1>3 DEF Senders
  <2> QED BY <1>1, <1>2, <1>5, <2>1 DEF ItemInv
<1>10. RefInv'
  <2>1. \A d \in Events : Refs(d)' = Refs(d) /\ Refs(d) \in Nat
    BY <1>1, <1>2, <1>5, RefsNext, RefTypes DEF Refs
  <2>2. ref \in [Events -> Int]
    BY <1>2 DEF Types, EventTypes
  <2> QED BY <1>1, <1>2, <2>1, <2>2, RefKept
<1> QED BY <1>4, <1>5, <1>6, <1>7, <1>8, <1>9, <1>10 DEF IInv, Types

LEMMA CallKeeps ==
  ASSUME IInv, NEW t \in Threads, AppCall(t)
  PROVE  IInv'
<1>1. CASE \E s \in AllStones, k \in SubmitKinds : Submit(t, s, k)
  BY <1>1, SubmitKeeps
<1>2. ASSUME NEW s \in AllStones,
             \/ Freeze(t, s) \/ Unfreeze(t, s) \/ Drain(t, s)
             \/ ClearStored(t, s) \/ SendStored(t, s)
             \/ StoreStartSend(t, s) \/ SetStoreLimit(t, s, 0)
             \/ \E u \in AllStones : TransferEvents(t, s, u)
      PROVE  IInv'
  <2>1. CASE Freeze(t, s) \/ Unfreeze(t, s)
    BY <2>1, FreezeKeeps
  <2>2. CASE Drain(t, s)
    BY <2>2, DrainKeeps
  <2>3. CASE ClearStored(t, s)
    BY <2>3, ClearStoredKeeps
  <2>4. CASE SendStored(t, s)
    BY <2>4, SendStoredKeeps
  <2>5. CASE StoreStartSend(t, s)
    BY <2>5, StoreStartSendKeeps
  <2>6. CASE SetStoreLimit(t, s, 0)
    <3>1. 0 \in Int /\ 0 >= -1
      OBVIOUS
    <3> QED BY <2>6, <3>1, SetStoreLimitKeeps
  <2>7. CASE \E u \in AllStones : TransferEvents(t, s, u)
    BY <2>7, TransferEventsKeeps
  <2> QED BY <1>2, <2>1, <2>2, <2>3, <2>4, <2>5, <2>6, <2>7
<1> QED BY <1>1, <1>2 DEF AppCall

LEMMA RunKeeps ==
  ASSUME IInv, NEW t \in Threads, Run(t)
  PROVE  IInv'
<1>1. CASE LoopActive(t)
  BY <1>1, LoopActiveKeeps
<1>2. CASE LoopScan(t)
  BY <1>2, LoopScanKeeps
<1>3. CASE LoopEnd(t)
  BY <1>3, LoopEndKeeps
<1>4. CASE PendingOutput(t)
  BY <1>4, PendingOutputKeeps
<1>5. CASE ItemsEnd(t)
  BY <1>5, ItemsEndKeeps
<1>6. CASE ItemGone(t)
  BY <1>6, ItemGoneKeeps
<1>7. CASE HandlerStart(t)
  BY <1>7, HandlerStartKeeps
<1>8. CASE HandlerReturn(t)
  BY <1>8, HandlerReturnKeeps
<1>9. CASE SplitStart(t)
  BY <1>9, SplitStartKeeps
<1>10. CASE SplitOutput(t)
  BY <1>10, SplitOutputKeeps
<1>11. CASE StoreEvent(t)
  BY <1>11, StoreEventKeeps
<1>12. CASE StoreOverflow(t)
  BY <1>12, StoreOverflowKeeps
<1>13. CASE SubmitReturn(t)
  BY <1>13, SubmitReturnKeeps
<1>14. CASE TaskReturn(t)
  BY <1>14, TaskReturnKeeps
<1>15. CASE SendStoredNext(t)
  BY <1>15, SendStoredNextKeeps
<1>16. CASE SetStoreLimitNext(t)
  BY <1>16, SetStoreLimitNextKeeps
<1>17. CASE DrainPoll(t)
  BY <1>17, DrainPollKeeps
<1>18. CASE DeferredActions
  BY <1>18, DeferredActionsKeeps
<1> QED BY <1>1, <1>2, <1>3, <1>4, <1>5, <1>6, <1>7, <1>8, <1>9, <1>10, <1>11, <1>12, <1>13,
           <1>14, <1>15, <1>16, <1>17, <1>18 DEF Run

LEMMA NextKeeps == IInv /\ [Next]_vars => IInv'
<1>1. ASSUME IInv, Next PROVE IInv'
  <2>1. ASSUME NEW t \in Threads, AppCall(t) PROVE IInv'
    BY <1>1, <2>1, CallKeeps
  <2>2. ASSUME NEW t \in Threads, Run(t) PROVE IInv'
    BY <1>1, <2>2, RunKeeps
  <2>3. ASSUME NEW s, NetworkSubmit(s) PROVE IInv'
    BY <1>1, <2>3, NetworkSubmitKeeps
  <2> QED BY <1>1, <2>1, <2>2, <2>3 DEF Next
<1> QED BY <1>1, SameKeeps

(* The inductive invariant holds, in every application.                     *)
THEOREM Invariant == Spec => []IInv
<1>1. Init => IInv
  BY InitIInv
<1>2. IInv /\ [Next]_vars => IInv'
  BY NextKeeps
<1> QED BY <1>1, <1>2, PTL DEF Spec
-----------------------------------------------------------------------------
(* What the runs check follows from IInv.                                   *)
LEMMA Held ==
  ASSUME Types, NEW e \in Events
  PROVE  Holders(e) = Refs(e)
<1>1. QueueTypes /\ items \in Seq(Events) /\ DOMAIN items = 1 .. Len(items)
  <2>1. items \in Seq(Events)
    BY DEF Types, QueueTypes
  <2> QED BY <2>1, LenProperties DEF Types
<1>2. ASSUME NEW s \in Stones, NEW i
      PROVE  /\ Contains(queue[s], i) <=> Waits(s, i)
             /\ Contains(store[s], i) <=> Kept(s, i)
  <2>1. queue[s] \in Seq(1 .. Len(items)) /\ store[s] \in Seq(1 .. Len(items))
    BY <1>1 DEF QueueTypes
  <2> QED BY <2>1, LenProperties DEF Contains, Waits, Kept, InList
<1>3. HoldingItems(e) = ItemsOf(e)
  BY <1>1, <1>2 DEF HoldingItems, ItemsOf, InQueue, InStore
<1>4. \A t \in Threads : DOMAIN stack[t] = 1 .. Len(stack[t]) /\ Len(stack[t]) \in Nat
  <2>1. \A t \in Threads : stack[t] \in Seq(FrameSet)
    BY DEF Types, StackTypes
  <2> QED BY <2>1, LenProperties
<1>5. HoldingFrames(e) = FramesOf(stack, e)
  <2>1. ASSUME NEW x \in HoldingFrames(e) PROVE x \in FramesOf(stack, e)
    <3>1. PICK t \in Threads : \E d \in DOMAIN stack[t] : stack[t][d].event = e /\ x = <<t, d>>
      BY DEF HoldingFrames
    <3>2. PICK d \in 1 .. Len(stack[t]) : stack[t][d].event = e /\ x = <<t, d>>
      BY <1>4, <3>1
    <3>3. d \in Nat
      BY <1>4, <3>2
    <3> QED BY <3>2, <3>3 DEF FramesOf
  <2>2. ASSUME NEW x \in FramesOf(stack, e) PROVE x \in HoldingFrames(e)
    <3>1. /\ x \in Threads \X Nat /\ x[2] \in 1 .. Len(stack[x[1]])
          /\ stack[x[1]][x[2]].event = e
      BY DEF FramesOf
    <3>2. PICK t, d : t \in Threads /\ x = <<t, d>> /\ x[1] = t /\ x[2] = d
      BY <3>1
    <3>3. d \in DOMAIN stack[t] /\ stack[t][d].event = e
      BY <1>4, <3>1, <3>2
    <3> QED BY <3>2, <3>3 DEF HoldingFrames
  <2> QED BY <2>1, <2>2
<1> QED BY <1>3, <1>5 DEF Holders, Refs

LEMMA HeldFollows == IInv => EventsHeld
<1> SUFFICES ASSUME IInv PROVE EventsHeld
  OBVIOUS
<1>1. Types /\ RefInv
  BY DEF IInv
<1>2. \A e \in Events : Holders(e) = Refs(e)
  BY <1>1, Held
<1>3. NoEarlyFree
  BY <1>1, <1>2 DEF NoEarlyFree, RefInv
<1>4. RefsGivenBack
  BY <1>1, <1>2 DEF RefsGivenBack, RefInv, NoStores
<1> QED BY <1>1, <1>3, <1>4 DEF EventsHeld, RefInv

LEMMA TypesFollow == IInv => TypeOK
<1> SUFFICES ASSUME IInv PROVE TypeOK
  OBVIOUS
<1>1. /\ StackTypes /\ QueueTypes /\ EventTypes /\ StoneTypes /\ OtherTypes /\ Types
      /\ StoreInv /\ ItemInv /\ RefInv
  BY DEF IInv, Types
<1>2. ref \in [Events -> Nat]
  <2>1. ref \in [Events -> Int]
    BY <1>1 DEF EventTypes
  <2>2. ASSUME NEW e \in Events PROVE ref[e] \in Nat
    <3>1. ref[e] >= Refs(e) /\ Refs(e) \in Nat /\ ref[e] \in Int
      BY <1>1, <2>1, RefTypes DEF RefInv
    <3> QED BY <3>1
  <2> QED BY <2>1, <2>2
<1>3. numStored \in [Stones -> Nat]
  <2>1. numStored \in [Stones -> Int]
    BY <1>1 DEF StoneTypes
  <2>2. ASSUME NEW s \in Stones PROVE numStored[s] \in Nat
    <3>1. store[s] \in Seq(1 .. Len(items))
      BY <1>1 DEF QueueTypes
    <3>2. Len(store[s]) <= numStored[s] /\ Len(store[s]) \in Nat /\ numStored[s] \in Int
      BY <1>1, <2>1, <3>1, LenProperties DEF StoreInv
    <3> QED BY <3>2
  <2> QED BY <2>1, <2>2
<1>4. inPlay \in Nat
  <2>1. Cardinality(Waiting) \in Nat
    BY <1>1, ItemSets
  <2>2. IsFiniteSet(Stones) /\ Senders \subseteq Stones
    BY <1>1, ProgramFacts DEF Senders
  <2>3. Cardinality(Senders) \in Nat
    BY <2>2, FS_Subset, FS_CardinalityType
  <2> QED BY <1>1, <2>1, <2>3 DEF ItemInv
<1>5. ASSUME NEW t \in Threads, NEW d \in DOMAIN stack[t]
      PROVE  /\ stack[t][d].op \in Ops /\ stack[t][d].at \in Phases
             /\ stack[t][d].event \in Events \cup {None}
             /\ stack[t][d].item \in Nat /\ stack[t][d].more \in BOOLEAN
  <2>1. stack[t] \in Seq(FrameSet)
    BY <1>1 DEF StackTypes
  <2>2. stack[t][d] \in FrameSet
    BY <2>1, LenProperties, ElementOfSeq
  <2> QED BY <2>2 DEF FrameSet
<1> QED BY <1>1, <1>2, <1>3, <1>4, <1>5 DEF TypeOK, QueueTypes, EventTypes, StoneTypes, OtherTypes

LEMMA QueuesFollow == IInv => QueuesExact
<1> SUFFICES ASSUME IInv PROVE QueuesExact
  OBVIOUS
<1>1. Types /\ QueueTypes /\ StoreInv /\ ItemInv /\ OnePlace
  BY DEF IInv, Types, ItemInv
<1>2. items \in Seq(Events) /\ DOMAIN items = 1 .. Len(items)
  <2>1. items \in Seq(Events)
    BY <1>1 DEF QueueTypes
  <2> QED BY <2>1, LenProperties
<1>3. ASSUME NEW s \in Stones, NEW i
      PROVE  /\ Contains(queue[s], i) <=> Waits(s, i)
             /\ Contains(store[s], i) <=> Kept(s, i)
  <2>1. queue[s] \in Seq(1 .. Len(items)) /\ store[s] \in Seq(1 .. Len(items))
    BY <1>1 DEF QueueTypes
  <2> QED BY <2>1, LenProperties DEF Contains, Waits, Kept, InList
<1>4. \A i : Contains(freeItems, i) <=> InList(freeItems, i)
  <2>1. freeItems \in Seq(1 .. Len(items))
    BY <1>1 DEF QueueTypes
  <2> QED BY <2>1, LenProperties DEF Contains, InList
<1>5. ItemsInOnePlace
  <2>1. IsInjective(freeItems) /\ \A s \in Stones : IsInjective(queue[s]) /\ IsInjective(store[s])
    BY <1>1 DEF OnePlace, Once, IsInjective
  <2>2. ASSUME NEW i
        PROVE  /\ \A s, u \in Stones : Contains(queue[s], i) /\ Contains(queue[u], i) => s = u
               /\ \A s, u \in Stones : Contains(store[s], i) /\ Contains(store[u], i) => s = u
               /\ ~(InQueue(i) /\ InStore(i))
               /\ Contains(freeItems, i) => ~InQueue(i) /\ ~InStore(i)
    BY <1>1, <1>3, <1>4 DEF OnePlace, InQueue, InStore
  <2> QED BY <2>1, <2>2 DEF ItemsInOnePlace
<1>6. InPlayExact
  <2>1. {i \in DOMAIN items : InQueue(i)} = Waiting
    BY <1>2, <1>3 DEF InQueue, Waiting
  <2> QED BY <1>1, <2>1 DEF InPlayExact, ItemInv, Senders
<1>7. StoreBounded
  <2>1. ASSUME LockFree, NEW s \in Stones, maxStored[s] # -1, ~Limiting(s)
        PROVE  Len(store[s]) <= maxStored[s]
    <3>1. ~Overflowing(s)
      BY <2>1 DEF Overflowing, LockFree, Locks, At
    <3>2. Len(store[s]) <= maxStored[s] + 0
      BY <1>1, <2>1, <3>1 DEF StoreInv
    <3>3. maxStored[s] \in Int
      BY <1>1 DEF Types, StoneTypes
    <3> QED BY <3>2, <3>3
  <2> QED BY <2>1 DEF StoreBounded
<1> QED BY <1>5, <1>6, <1>7, TypesFollow DEF QueuesExact

(* The references of an event are right, for every number of threads and    *)
(* every stone graph: nobody holds an event that was freed, without a store *)
(* an event is freed when nobody holds it (return_event, evp.c), and no     *)
(* event keeps the application's memory after EVsubmit.                     *)
THEOREM EventsAreHeld == Spec => []EventsHeld
BY Invariant, HeldFollows, PTL

(* The queues are right: every queue item is in one place, events_in_play   *)
(* counts what waits, and a store keeps to its limit (raw_enqueue_event,    *)
(* dequeue_event, dequeue_item, storage_queue_enqueue in evp.c).            *)
THEOREM QueuesAreExact == Spec => []QueuesExact
BY Invariant, QueuesFollow, PTL
-----------------------------------------------------------------------------
(* Stopped stones.  The handlers of a stone that run; a stone that has one  *)
(* is processing and is not reported as drained.  EVdrain_stone relies on   *)
(* is_processing, which the first handler to return clears: what follows is *)
(* about applications in which a stone runs one handler at a time.          *)
Handlers(s) ==
  {x \in Threads \X Nat : /\ x[2] \in 1 .. Len(stack[x[1]])
                          /\ stack[x[1]][x[2]].op = "handler"
                          /\ stack[x[1]][x[2]].stone = s}

OneHandler == \A s \in Stones : \A x, y \in Handlers(s) : x = y

StopInv == \A s \in Stones : Handlers(s) # {} => processing[s] /\ draining[s] # 2

(* A step that starts no handler.                                           *)
StartsNone ==
  /\ \A s : Handlers(s)' \subseteq Handlers(s)
  /\ \A u \in Threads : \A s : ~StartsHandler(u, s)

(* It changes the innermost calls of t, k calls stay.                       *)
LEMMA NewHandlers ==
  ASSUME NEW S, NEW t \in Threads, NEW k, Stays(Threads, S, stack, stack', t, k), NEW s,
         NEW x \in Handlers(s)'
  PROVE  \/ (x \in Handlers(s) /\ (x[1] = t => x[2] <= k))
         \/ (x[1] = t /\ x[2] > k /\ x[2] \in 1 .. Len(stack'[t])
             /\ stack'[t][x[2]].op = "handler" /\ stack'[t][x[2]].stone = s)
<1>1. /\ x \in Threads \X Nat /\ x[2] \in 1 .. Len(stack'[x[1]])
      /\ stack'[x[1]][x[2]].op = "handler" /\ stack'[x[1]][x[2]].stone = s
  BY DEF Handlers, Threads
<1>2. CASE x[1] # t
  BY <1>1, <1>2 DEF Stays, Handlers
<1>3. CASE x[1] = t
  <2>1. k \in Nat /\ x[2] \in Nat /\ k <= Len(stack[t]) /\ Len(stack[t]) \in Nat
    BY <1>1 DEF Stays
  <2>2. CASE x[2] <= k
    <3>1. x[2] \in 1 .. k /\ x[2] \in 1 .. Len(stack[t])
      BY <1>1, <1>3, <2>1, <2>2
    <3> QED BY <1>1, <1>3, <2>2, <3>1 DEF Stays, Handlers
  <2>3. CASE x[2] > k
    BY <1>1, <1>3, <2>3
  <2> QED BY <2>1, <2>2, <2>3
<1> QED BY <1>2, <1>3

LEMMA NoneStarts ==
  ASSUME NEW S, NEW t \in Threads, NEW k, Stays(Threads, S, stack, stack', t, k),
         \A d \in 1 .. Len(stack'[t]) : d > k => stack'[t][d].op # "handler"
  PROVE  StartsNone
<1>1. \A s : Handlers(s)' \subseteq Handlers(s)
  BY NewHandlers
<1>2. ASSUME NEW u \in Threads, NEW s, StartsHandler(u, s) PROVE FALSE
  <2>1. /\ Len(stack'[u]) > Len(stack[u]) /\ stack'[u][Len(stack'[u])].op = "handler"
    BY <1>2 DEF StartsHandler, Last
  <2>2. k \in Nat /\ Len(stack[t]) \in Nat /\ Len(stack'[t]) \in Nat /\ k <= Len(stack[t])
    BY DEF Stays
  <2>3. CASE u # t
    <3>1. stack'[u] = stack[u]
      BY <2>3 DEF Stays
    <3>2. stack'[u] \in Seq(S)
      BY DEF Stays
    <3>3. Len(stack'[u]) \in Nat
      BY <3>2, LenProperties
    <3> QED BY <2>1, <3>1, <3>3
  <2>4. CASE u = t
    <3>1. Len(stack'[t]) \in 1 .. Len(stack'[t]) /\ Len(stack'[t]) > k
      BY <2>1, <2>2, <2>4
    <3> QED BY <2>1, <2>4, <3>1
  <2> QED BY <2>3, <2>4
<1> QED BY <1>1, <1>2 DEF StartsNone

(* The stacks, for frames of any kind.                                      *)
LEMMA AnyFrames ==
  ASSUME StackTypes, NEW S, FrameSet \subseteq S
  PROVE  stack \in [Threads -> Seq(S)]
<1>1. \A t \in Threads : stack[t] \in Seq(S)
  BY SeqSub DEF StackTypes
<1> QED BY <1>1 DEF StackTypes

(* The changes of a stack that start no handler.                            *)
LEMMA CallStarts ==
  ASSUME StackTypes, NEW t \in Threads, NEW f, NEW g, f.op # "handler", g.op # "handler"
  PROVE  /\ Call(t, <<f>>) => StartsNone
         /\ Call(t, <<f, g>>) => StartsNone
<1> DEFINE S == FrameSet \cup {f, g}
<1>1. stack \in [Threads -> Seq(S)] /\ f \in S /\ g \in S
  BY AnyFrames
<1>2. PICK n : n = Len(stack[t])
  OBVIOUS
<1>3. n \in Nat
  <2>1. stack[t] \in Seq(S)
    BY <1>1
  <2> QED BY <1>2, <2>1, LenProperties
<1> HIDE DEF S
<1>4. ASSUME Call(t, <<f>>) PROVE StartsNone
  <2>1. /\ Stays(Threads, S, stack, stack', t, n)
        /\ Len(stack'[t]) = n + 1 /\ stack'[t][n + 1] = f
    <3> DEFINE st2 == Called1(stack, t, f)
    <3>1. /\ Stays(Threads, S, stack, st2, t, n)
          /\ Len(st2[t]) = n + 1 /\ st2[t][n + 1] = f
      BY <1>1, <1>2, CallOne
    <3>2. stack' = st2
      BY <1>4 DEF Called1, Call
    <3> HIDE DEF st2
    <3> QED BY <3>1, <3>2
  <2>2. \A d \in 1 .. n + 1 : d > n => d = n + 1
    BY <1>3
  <2> QED BY <2>1, <2>2, NoneStarts
<1>5. ASSUME Call(t, <<f, g>>) PROVE StartsNone
  <2>1. /\ Stays(Threads, S, stack, stack', t, n)
        /\ Len(stack'[t]) = n + 2 /\ stack'[t][n + 1] = f /\ stack'[t][n + 2] = g
    <3> DEFINE st2 == Called2(stack, t, f, g)
    <3>1. /\ Stays(Threads, S, stack, st2, t, n)
          /\ Len(st2[t]) = n + 2 /\ st2[t][n + 1] = f /\ st2[t][n + 2] = g
      BY <1>1, <1>2, CallTwo
    <3>2. stack' = st2
      BY <1>5 DEF Called2, Call
    <3> HIDE DEF st2
    <3> QED BY <3>1, <3>2
  <2>2. \A d \in 1 .. n + 2 : d > n => d = n + 1 \/ d = n + 2
    BY <1>3
  <2> QED BY <2>1, <2>2, NoneStarts
<1> QED BY <1>4, <1>5

LEMMA TopStarts ==
  ASSUME StackTypes, NEW t \in Threads, stack[t] # <<>>
  PROVE  /\ Return(t) => StartsNone
         /\ \A f : Replace(t, f) /\ f.op # "handler" => StartsNone
         /\ \A f, g : Pushes(t, f, g) /\ f.op # "handler" /\ g.op # "handler" => StartsNone
<1>1. stack \in [Threads -> Seq(FrameSet)]
  BY DEF StackTypes
<1>2. PICK n : n = Len(stack[t])
  OBVIOUS
<1>3. n \in Nat \ {0}
  <2>1. stack[t] \in Seq(FrameSet)
    BY <1>1
  <2> QED BY <1>2, <2>1, LenProperties, EmptySeq
<1>4. ASSUME Return(t) PROVE StartsNone
  <2>1. Stays(Threads, FrameSet, stack, stack', t, n - 1) /\ Len(stack'[t]) = n - 1
    BY <1>1, <1>2, <1>4, ReturnOne DEF Popped, Return
  <2>2. \A d \in 1 .. n - 1 : ~(d > n - 1)
    BY <1>3
  <2> QED BY <2>1, <2>2, NoneStarts
<1>5. ASSUME NEW f, Replace(t, f), f.op # "handler" PROVE StartsNone
  <2> DEFINE S == FrameSet \cup {f}
  <2>1. stack \in [Threads -> Seq(S)] /\ f \in S
    BY AnyFrames
  <2> HIDE DEF S
  <2>2. /\ Stays(Threads, S, stack, stack', t, n - 1)
        /\ Len(stack'[t]) = n /\ stack'[t][n] = f
    <3> DEFINE st2 == Swapped1(stack, t, f)
    <3>1. /\ Stays(Threads, S, stack, st2, t, n - 1)
          /\ Len(st2[t]) = n /\ st2[t][n] = f
      BY <1>2, <2>1, ReplaceOne
    <3>2. stack' = st2
      BY <1>5 DEF Swapped1, Replace
    <3> HIDE DEF st2
    <3> QED BY <3>1, <3>2
  <2>3. \A d \in 1 .. n : d > n - 1 => d = n
    BY <1>3
  <2> QED BY <1>5, <2>2, <2>3, NoneStarts
<1>6. ASSUME NEW f, NEW g, Pushes(t, f, g), f.op # "handler", g.op # "handler" PROVE StartsNone
  <2> DEFINE S == FrameSet \cup {f, g}
  <2>1. stack \in [Threads -> Seq(S)] /\ f \in S /\ g \in S
    BY AnyFrames
  <2> HIDE DEF S
  <2>2. /\ Stays(Threads, S, stack, stack', t, n - 1)
        /\ Len(stack'[t]) = n + 1 /\ stack'[t][n] = f /\ stack'[t][n + 1] = g
    <3> DEFINE st2 == Swapped2(stack, t, f, g)
    <3>1. /\ Stays(Threads, S, stack, st2, t, n - 1)
          /\ Len(st2[t]) = n + 1 /\ st2[t][n] = f /\ st2[t][n + 1] = g
      BY <1>2, <2>1, ReplaceTwo
    <3>2. stack' = st2
      BY <1>6 DEF Swapped2, Pushes
    <3> HIDE DEF st2
    <3> QED BY <3>1, <3>2
  <2>3. \A d \in 1 .. n + 1 : d > n - 1 => d = n \/ d = n + 1
    BY <1>3
  <2> QED BY <1>6, <2>2, <2>3, NoneStarts
<1> QED BY <1>4, <1>5, <1>6

LEMMA StillStarts == StackTypes /\ UNCHANGED stack => StartsNone
<1> SUFFICES ASSUME StackTypes, UNCHANGED stack PROVE StartsNone
  OBVIOUS
<1>1. \A s : Handlers(s)' = Handlers(s)
  BY DEF Handlers, Threads
<1>2. \A u \in Threads : Len(stack[u]) \in Nat
  <2>1. \A u \in Threads : stack[u] \in Seq(FrameSet)
    BY DEF StackTypes
  <2> QED BY <2>1, LenProperties
<1> QED BY <1>1, <1>2 DEF StartsNone, StartsHandler

LEMMA UpStarts ==
  ASSUME IInv, NEW t \in Threads, NEW op \in {"stone", "handler"}, At(t, op), NEW b,
         b = Last(Front(stack[t])), NEW f, f.op = b.op,
         stack' = [stack EXCEPT ![t] = Append(Front(Front(@)), f)]
  PROVE  /\ StartsNone
         /\ b \in FrameSet /\ b.op \in {"loop", "stone"}
         /\ \E S : Stays(Threads, S, stack, stack', t, Len(stack[t]) - 2)
         /\ \A d \in 1 .. Len(stack'[t]) : d > Len(stack[t]) - 2 => stack'[t][d].op # "handler"
<1>1. PICK n : n = Len(stack[t])
  OBVIOUS
<1>2. /\ stack[t] # <<>> /\ Shape /\ StackTypes /\ Top(t).op = op
      /\ n \in Nat \ {0} /\ On(Top(t), n, stack[t][n - 1])
  BY <1>1, InCall
<1>3. n > 1 /\ stack[t][n - 1].op \in {"loop", "stone"}
  BY <1>2 DEF On
<1> DEFINE S == FrameSet \cup {f}
<1>4. stack \in [Threads -> Seq(FrameSet)] /\ stack \in [Threads -> Seq(S)] /\ f \in S
  BY <1>2, AnyFrames DEF StackTypes
<1>5. b = stack[t][n - 1] /\ b \in FrameSet
  BY <1>1, <1>3, <1>4, ReturnTo, LoopType
<1> HIDE DEF S
<1>6. /\ Stays(Threads, S, stack, stack', t, n - 2)
      /\ Len(stack'[t]) = n - 1 /\ stack'[t][n - 1] = f
  <2> DEFINE st2 == Returned(stack, t, f)
  <2>1. /\ Stays(Threads, S, stack, st2, t, n - 2)
        /\ Len(st2[t]) = n - 1 /\ st2[t][n - 1] = f
    BY <1>1, <1>3, <1>4, ReturnTo
  <2>2. stack' = st2
    BY DEF Returned
  <2> HIDE DEF st2
  <2> QED BY <2>1, <2>2
<1>7. \A d \in 1 .. n - 1 : d > n - 2 => d = n - 1
  BY <1>2
<1>8. \A d \in 1 .. Len(stack'[t]) : d > n - 2 => stack'[t][d].op # "handler"
  BY <1>3, <1>5, <1>6, <1>7
<1>9. StartsNone
  BY <1>6, <1>8, NoneStarts
<1> QED BY <1>1, <1>3, <1>5, <1>6, <1>8, <1>9

(* Which steps start none: all but HandlerStart.                            *)
LEMMA ConsiderStarts ==
  ASSUME StackTypes, NEW t \in Threads, stack[t] # <<>>, NEW s, NEW class, NEW f,
         f.op # "handler", ConsiderStone(t, s, class, f)
  PROVE  StartsNone
<1>1. PICK g : g = Frame("stone", class, s, None, Head(queue[s]), FALSE)
  OBVIOUS
<1>2. g.op # "handler"
  BY <1>1 DEF Frame
<1>3. Replace(t, f) \/ Pushes(t, f, g)
  BY <1>1 DEF ConsiderStone, Pushes
<1> QED BY <1>2, <1>3, TopStarts

LEMMA LoopStarts ==
  ASSUME IInv, NEW t \in Threads, LoopActive(t) \/ LoopScan(t) \/ LoopEnd(t)
  PROVE  StartsNone
<1>1. At(t, "loop")
  BY DEF LoopActive, LoopScan, LoopEnd
<1>2. Top(t) \in FrameSet /\ Top(t).op = "loop" /\ stack[t] # <<>> /\ StackTypes
  BY <1>1, InCall
<1>3. ASSUME NEW p, NEW q, NEW r
      PROVE  /\ [Top(t) EXCEPT !.more = p].op = "loop" /\ [Top(t) EXCEPT !.stone = p].op = "loop"
             /\ [Top(t) EXCEPT !.at = p, !.more = q, !.stone = r].op = "loop"
  BY <1>2 DEF FrameSet
<1>4. CASE LoopActive(t)
  <2>1. CASE ConsiderStone(t, lastActive, "items", [Top(t) EXCEPT !.more = FALSE])
    BY <1>2, <1>3, <2>1, ConsiderStarts
  <2>2. CASE Replace(t, [Top(t) EXCEPT !.at = "scan", !.more = FALSE,
                 !.stone = IF inPlay > 0 THEN 1 ELSE Cardinality(Stones) + 1])
    BY <1>2, <1>3, <2>2, TopStarts
  <2> QED BY <1>4, <2>1, <2>2 DEF LoopActive
<1>5. CASE LoopScan(t)
  <2>1. CASE Replace(t, Loop)
    BY <1>2, <2>1, LoopType, TopStarts
  <2>2. CASE \E class : ConsiderStone(t, Top(t).stone, class, [Top(t) EXCEPT !.stone = @ + 1])
    BY <1>2, <1>3, <2>2, ConsiderStarts
  <2> QED BY <1>5, <2>1, <2>2 DEF LoopScan
<1>6. CASE LoopEnd(t)
  <2>1. CASE Replace(t, Loop)
    BY <1>2, <2>1, LoopType, TopStarts
  <2>2. CASE Return(t)
    BY <1>2, <2>2, TopStarts
  <2> QED BY <1>6, <2>1, <2>2 DEF LoopEnd
<1> QED BY <1>4, <1>5, <1>6

LEMMA PendingStarts ==
  ASSUME IInv, NEW t \in Threads, PendingOutput(t)
  PROVE  StartsNone
<1>1. PICK s : s = Top(t).stone
  OBVIOUS
<1>2. At(t, "stone")
  BY DEF PendingOutput
<1>3. Top(t) \in FrameSet /\ Top(t).op = "stone" /\ stack[t] # <<>> /\ StackTypes
  BY <1>2, InCall
<1>4. CASE store[s] = <<>>
  <2>1. Replace(t, [Top(t) EXCEPT !.op = "crashed"])
    BY <1>1, <1>4 DEF PendingOutput
  <2>2. PICK f : f = [Top(t) EXCEPT !.op = "crashed"]
    OBVIOUS
  <2>3. f.op # "handler" /\ Replace(t, f)
    BY <1>3, <2>1, <2>2 DEF FrameSet
  <2> QED BY <1>3, <2>3, TopStarts
<1>5. CASE store[s] # <<>>
  <2> PICK last \in BOOLEAN : last <=> numStored[s] = 1
    OBVIOUS
  <2>1. PICK u, e, f :
          /\ u = Head(Outputs[s]) /\ e = items[Head(store[s])]
          /\ f = [Top(t) EXCEPT !.at = "items", !.more = ~last]
    OBVIOUS
  <2>2. sending' = [sending EXCEPT ![s] = ~last] /\ Replace(t, f)
    <3>1. last = (numStored[s] = 1)
      BY <2>1
    <3> QED BY <1>1, <1>5, <2>1, <3>1 DEF PendingOutput
  <2>3. f.op # "handler"
    BY <1>3, <2>1 DEF FrameSet
  <2> QED BY <1>3, <2>2, <2>3, TopStarts
<1> QED BY <1>4, <1>5

LEMMA ItemStarts ==
  ASSUME IInv, NEW t \in Threads,
         PendingOutput(t) \/ ItemGone(t) \/ ItemsEnd(t) \/ SplitStart(t) \/ StoreEvent(t)
  PROVE  StartsNone
<1>1. At(t, "stone")
  BY DEF PendingOutput, ItemGone, ItemsEnd, SplitStart, StoreEvent, AtItem
<1>2. Top(t) \in FrameSet /\ Top(t).op = "stone" /\ stack[t] # <<>> /\ StackTypes
  BY <1>1, InCall
<1>3. ASSUME NEW p, NEW q
      PROVE  /\ [Top(t) EXCEPT !.op = "crashed"].op = "crashed"
             /\ [Top(t) EXCEPT !.at = p, !.more = q].op = "stone"
             /\ [Advance(t) EXCEPT !.more = p].op = "stone"
             /\ Advance(t).op = "stone"
  BY <1>2 DEF FrameSet, Advance
<1>4. CASE PendingOutput(t)
  BY <1>4, PendingStarts
<1>5. CASE ItemGone(t)
  BY <1>2, <1>3, <1>5, TopStarts DEF ItemGone
<1>6. CASE ItemsEnd(t)
  <2>1. PICK b, f : b = Last(Front(stack[t])) /\ f = [b EXCEPT !.more = @ \/ Top(t).more]
    OBVIOUS
  <2>2. stack' = [stack EXCEPT ![t] = Append(Front(Front(@)), f)]
    BY <1>6, <2>1 DEF ItemsEnd, ReturnMore, Below
  <2>3. b \in FrameSet
    <3>1. PICK n : n = Len(stack[t])
      OBVIOUS
    <3>2. On(Top(t), n, stack[t][n - 1]) /\ Shape
      BY <1>1, <3>1, InCall
    <3>3. n > 1
      BY <1>2, <3>2 DEF On
    <3>4. stack[t][n - 1] \in FrameSet
      BY <3>1, <3>2, <3>3, BelowTop DEF Shape
    <3> QED BY <2>1, <1>2, <3>1, <3>3, <3>4, LoopType, ReturnTo DEF StackTypes
  <2>4. f.op = b.op
    BY <2>1, <2>3 DEF FrameSet
  <2> QED BY <1>1, <2>1, <2>2, <2>4, UpStarts
<1>7. CASE SplitStart(t)
  <2>1. PICK f, g : /\ f = [Advance(t) EXCEPT !.more = @ \/ Outputs[Top(t).stone] # <<>>]
                    /\ g = Frame("split", "none", Top(t).stone, items[Top(t).item], 1, FALSE)
    OBVIOUS
  <2>2. Pushes(t, f, g)
    BY <1>7, <2>1 DEF SplitStart, Pushes
  <2>3. f.op # "handler" /\ g.op # "handler"
    BY <1>3, <2>1 DEF Frame
  <2> QED BY <1>2, <2>2, <2>3, TopStarts
<1>8. CASE StoreEvent(t)
  <2>1. PICK f, g : /\ f = [Advance(t) EXCEPT !.more = TRUE]
                    /\ g = Frame("overflow", "none", Top(t).stone, None, None, FALSE)
    OBVIOUS
  <2>2. Pushes(t, f, g) \/ Replace(t, Advance(t))
    BY <1>8, <2>1 DEF StoreEvent, Pushes
  <2>3. f.op # "handler" /\ g.op # "handler" /\ Advance(t).op # "handler"
    BY <1>3, <2>1 DEF Frame
  <2> QED BY <1>2, <2>2, <2>3, TopStarts
<1> QED BY <1>4, <1>5, <1>6, <1>7, <1>8

LEMMA OutputStarts ==
  ASSUME IInv, NEW t \in Threads,
         \/ SplitOutput(t) \/ StoreOverflow(t) \/ SubmitReturn(t) \/ TaskReturn(t)
         \/ SendStoredNext(t) \/ SetStoreLimitNext(t)
  PROVE  StartsNone
<1>1. StackTypes
  BY DEF IInv, Types
<1>2. stack[t] # <<>>
  BY DEF At, SplitOutput, StoreOverflow, SubmitReturn, TaskReturn, SendStoredNext, SetStoreLimitNext
<1>3. CASE Return(t)
  BY <1>1, <1>2, <1>3, TopStarts
<1>4. CASE SplitOutput(t)
  <2>1. PICK f : f = [Top(t) EXCEPT !.item = @ + 1]
    OBVIOUS
  <2>2. Return(t) \/ Replace(t, f)
    BY <1>4, <2>1 DEF SplitOutput
  <2>3. f.op # "handler"
    <3>1. Top(t) \in FrameSet /\ Top(t).op = "split"
      BY <1>4, InCall DEF SplitOutput
    <3> QED BY <2>1, <3>1 DEF FrameSet
  <2> QED BY <1>1, <1>2, <2>2, <2>3, TopStarts
<1>5. CASE SendStoredNext(t)
  <2>1. PICK g : g = Loop
    OBVIOUS
  <2>2. Return(t) \/ Call(t, <<g>>)
    BY <1>5, <2>1 DEF SendStoredNext
  <2>3. g.op # "handler"
    BY <2>1, LoopType
  <2> QED BY <1>1, <1>3, <2>2, <2>3, CallStarts
<1>6. CASE SetStoreLimitNext(t)
  <2>1. PICK e : e = items[Head(store[Top(t).stone])]
    OBVIOUS
  <2>2. PICK f, g : f = [Top(t) EXCEPT !.event = e] /\ g = Loop
    OBVIOUS
  <2>3. Return(t) \/ Pushes(t, f, g)
    BY <1>6, <2>1, <2>2 DEF SetStoreLimitNext, Pushes
  <2>4. f.op # "handler" /\ g.op # "handler"
    <3>1. Top(t) \in FrameSet /\ Top(t).op = "limit"
      BY <1>6, InCall DEF SetStoreLimitNext
    <3> QED BY <2>2, <3>1, LoopType DEF FrameSet
  <2> QED BY <1>1, <1>2, <2>3, <2>4, TopStarts
<1> QED BY <1>3, <1>4, <1>5, <1>6 DEF StoreOverflow, SubmitReturn, TaskReturn

LEMMA CallsStart ==
  ASSUME IInv, NEW t \in Threads, NEW s,
         \/ \E k : Submit(t, s, k)
         \/ Freeze(t, s) \/ Unfreeze(t, s) \/ ClearStored(t, s) \/ SendStored(t, s)
         \/ StoreStartSend(t, s) \/ SetStoreLimit(t, s, 0) \/ \E u : TransferEvents(t, s, u)
         \/ NetworkSubmit(s) \/ DeferredActions
  PROVE  StartsNone
<1>1. StackTypes /\ Server \in Threads
  BY DEF IInv, Types, Threads
<1>2. PICK g : g = Loop
  OBVIOUS
<1>3. g.op # "handler"
  BY <1>2, LoopType
<1>4. CASE UNCHANGED stack
  BY <1>1, <1>4, StillStarts
<1>5. ASSUME NEW k, Submit(t, s, k) PROVE StartsNone
  <2>1. PICK f : f = Frame("submit", "none", s, Len(origin) + 1, None, FALSE)
    OBVIOUS
  <2>2. Call(t, <<f, g>>) /\ f.op # "handler"
    BY <1>2, <1>5, <2>1 DEF Submit, Frame
  <2> QED BY <1>1, <1>3, <2>2, CallStarts
<1>6. CASE SendStored(t, s) \/ SetStoreLimit(t, s, 0)
  <2>1. \E op \in {"send", "limit"} : Call(t, <<Frame(op, "none", s, None, None, FALSE)>>)
    BY <1>6 DEF SendStored, SetStoreLimit
  <2>2. PICK f : f.op # "handler" /\ Call(t, <<f>>)
    BY <2>1 DEF Frame
  <2> QED BY <1>1, <1>3, <2>2, CallStarts
<1>7. CASE NetworkSubmit(s) \/ DeferredActions
  <2>1. \E i : Call(Server, <<Frame("task", "none", i, None, None, FALSE), g>>)
    BY <1>2, <1>7 DEF NetworkSubmit, DeferredActions
  <2>2. PICK f : f.op # "handler" /\ Call(Server, <<f, g>>)
    BY <2>1 DEF Frame
  <2> QED BY <1>1, <1>3, <2>2, CallStarts
<1> QED BY <1>4, <1>5, <1>6, <1>7
        DEF Freeze, Unfreeze, ClearStored, StoreStartSend, TransferEvents

LEMMA DrainStarts ==
  ASSUME IInv, NEW t \in Threads, NEW s, NEW polls, LockFree,
         stack[t] = <<>> \/ At(t, "drain"), DrainTest(t, s, polls)
  PROVE  StartsNone
<1>1. StackTypes /\ stack \in [Threads -> Seq(FrameSet)]
  BY DEF IInv, Types, StackTypes
<1>2. PICK f : f = Frame("drain", "none", s, None, polls, FALSE)
  OBVIOUS
<1>3. PICK c : c \in {<<>>, <<f>>} /\ stack' = [stack EXCEPT ![t] = c]
  BY <1>2 DEF DrainTest
<1> DEFINE S == FrameSet \cup {f}
<1>4. stack \in [Threads -> Seq(S)]
  BY <1>1, AnyFrames
<1>5. c \in Seq(S) /\ Len(c) \in {0, 1} /\ (Len(c) = 1 => c[1] = f)
  <2>1. CASE c = <<>>
    BY <2>1
  <2>2. CASE c = <<f>>
    BY <2>2
  <2> QED BY <1>3, <2>1, <2>2
<1>6. stack[t] \in Seq(S)
  BY <1>4
<1> HIDE DEF S
<1>7. /\ stack' \in [Threads -> Seq(S)] /\ stack'[t] = c
      /\ \A u \in Threads : u # t => stack'[u] = stack[u]
  BY <1>3, <1>4, <1>5
<1>8. Stays(Threads, S, stack, stack', t, 0)
  BY <1>5, <1>6, <1>7, LenProperties DEF Stays
<1>9. \A d \in 1 .. Len(stack'[t]) : stack'[t][d].op # "handler"
  <2>1. f.op # "handler"
    BY <1>2 DEF Frame
  <2>2. \A d \in 1 .. Len(c) : Len(c) = 1 /\ d = 1
    BY <1>5
  <2> QED BY <1>5, <1>7, <2>1, <2>2
<1> QED BY <1>8, <1>9, NoneStarts

(* A step that starts no handler keeps the stopped stones idle.             *)
LEMMA QuietStops ==
  ASSUME StopInv, StartsNone, UNCHANGED <<program, processing, draining>>
  PROVE  StopInv' /\ FrozenStartsNothing
<1>1. Stones' = Stones
  BY SameProgram
<1>2. FrozenStartsNothing
  BY DEF StartsNone, FrozenStartsNothing
<1>3. ASSUME NEW s \in Stones, Handlers(s)' # {} PROVE processing'[s] /\ draining'[s] # 2
  <2>1. Handlers(s) # {}
    BY <1>3 DEF StartsNone
  <2> QED BY <2>1 DEF StopInv
<1> QED BY <1>1, <1>2, <1>3 DEF StopInv

(* EVdrain_stone reports a stone as drained that has no handler.            *)
LEMMA DrainStops ==
  ASSUME IInv, StopInv, StartsNone, UNCHANGED <<program, processing>>, NEW t, NEW s, NEW polls,
         s \in Stones, DrainTest(t, s, polls)
  PROVE  StopInv' /\ FrozenStartsNothing
<1>1. Stones' = Stones
  BY SameProgram
<1>2. FrozenStartsNothing
  BY DEF StartsNone, FrozenStartsNothing
<1>3. draining \in [Stones -> 0 .. 2]
  BY DEF IInv, Types, StoneTypes
<1>4. ASSUME NEW v \in Stones, Handlers(v)' # {} PROVE processing'[v] /\ draining'[v] # 2
  <2>1. Handlers(v) # {}
    BY <1>4 DEF StartsNone
  <2>2. processing[v] /\ draining[v] # 2
    BY <2>1 DEF StopInv
  <2>3. CASE v = s
    <3>1. draining' = [draining EXCEPT ![s] = 1]
      BY <2>2, <2>3 DEF DrainTest, Undrained
    <3> QED BY <1>3, <2>2, <2>3, <3>1
  <2>4. CASE v # s
    <3>1. draining'[v] = draining[v]
      BY <1>3, <2>4 DEF DrainTest
    <3> QED BY <2>2, <3>1
  <2> QED BY <2>2, <2>3, <2>4
<1> QED BY <1>1, <1>2, <1>4 DEF StopInv

(* The only handler of a stone returns.                                     *)
LEMMA LastHandler ==
  ASSUME IInv, OneHandler, NEW t \in Threads, At(t, "handler"), NEW s \in Stones,
         s = Top(t).stone, NEW S, NEW k, Stays(Threads, S, stack, stack', t, k),
         k < Len(stack[t]),
         \A d \in 1 .. Len(stack'[t]) : d > k => stack'[t][d].op # "handler"
  PROVE  Handlers(s)' = {}
<1>1. PICK n : n = Len(stack[t])
  OBVIOUS
<1>2. Top(t).op = "handler" /\ n \in Nat \ {0} /\ Top(t) = stack[t][n]
  BY <1>1, InCall
<1>3. PICK x : x = <<t, n>>
  OBVIOUS
<1>4. x \in Handlers(s)
  BY <1>1, <1>2, <1>3 DEF Handlers
<1>5. ASSUME NEW y \in Handlers(s)' PROVE FALSE
  <2>1. y \in Handlers(s) /\ (y[1] = t => y[2] <= k)
    BY NewHandlers
  <2>2. y = x
    BY <1>4, <2>1 DEF OneHandler
  <2>3. n <= k /\ k < n /\ k \in Nat
    BY <1>1, <1>3, <2>1, <2>2 DEF Stays
  <2> QED BY <1>2, <2>3
<1> QED BY <1>5

LEMMA HandlerReturns ==
  ASSUME IInv, StopInv, OneHandler, NEW t \in Threads, HandlerReturn(t)
  PROVE  StopInv' /\ FrozenStartsNothing
<1>1. PICK s, e : s = Top(t).stone /\ e = Top(t).event
  OBVIOUS
<1>2. /\ At(t, "handler") /\ processing' = [processing EXCEPT ![s] = FALSE]
      /\ UNCHANGED <<program, draining>>
  BY <1>1 DEF HandlerReturn
<1>3. PICK n : n = Len(stack[t])
  OBVIOUS
<1>4. /\ Top(t) \in FrameSet /\ stack[t] # <<>> /\ StackTypes /\ n \in Nat \ {0}
  BY <1>2, <1>3, InCall
<1>5. s \in Stones
  BY <1>1, <1>2, <1>4, InCall DEF FrameSet
<1>6. StartsNone /\ Handlers(s)' = {}
  <2>1. CASE Return(t)
    <3>1. Stays(Threads, FrameSet, stack, stack', t, n - 1) /\ Len(stack'[t]) = n - 1
      BY <1>3, <1>4, <2>1, ReturnOne DEF Popped, Return, StackTypes
    <3>2. /\ \A d \in 1 .. n - 1 : ~(d > n - 1)
          /\ n - 1 < n
      BY <1>4
    <3>3. /\ \A d \in 1 .. Len(stack'[t]) : d > n - 1 => stack'[t][d].op # "handler"
          /\ n - 1 < Len(stack[t])
      BY <1>3, <3>1, <3>2
    <3> QED BY <1>1, <1>2, <1>4, <1>5, <2>1, <3>1, <3>3, LastHandler, TopStarts
  <2>2. CASE stack' = [stack EXCEPT ![t] =
               Append(Front(Front(@)), [Last(Front(@)) EXCEPT !.more = TRUE])]
    <3>1. PICK b, f : b = Last(Front(stack[t])) /\ f = [b EXCEPT !.more = TRUE]
      OBVIOUS
    <3>2. stack' = [stack EXCEPT ![t] = Append(Front(Front(@)), f)]
      BY <2>2, <3>1
    <3>3. b \in FrameSet
      <4>1. On(Top(t), n, stack[t][n - 1]) /\ Shape
        BY <1>2, <1>3, InCall
      <4>2. Top(t).op = "handler"
        BY <1>2, InCall
      <4>3. n > 1
        BY <4>1, <4>2 DEF On
      <4>4. stack[t][n - 1] \in FrameSet
        BY <1>3, <1>4, <4>1, <4>3, BelowTop DEF Shape
      <4> QED BY <1>3, <1>4, <3>1, <4>3, <4>4, LoopType, ReturnTo DEF StackTypes
    <3>4. f.op = b.op
      BY <3>1, <3>3 DEF FrameSet
    <3>5. /\ StartsNone
          /\ \E S : Stays(Threads, S, stack, stack', t, Len(stack[t]) - 2)
          /\ \A d \in 1 .. Len(stack'[t]) :
               d > Len(stack[t]) - 2 => stack'[t][d].op # "handler"
      BY <1>2, <3>1, <3>2, <3>4, UpStarts, ZenonT(90)
    <3>6. PICK S : Stays(Threads, S, stack, stack', t, n - 2)
      BY <1>3, <3>5
    <3>7. n - 2 < n
      BY <1>4
    <3>8. /\ \A d \in 1 .. Len(stack'[t]) : d > n - 2 => stack'[t][d].op # "handler"
          /\ n - 2 < Len(stack[t])
      BY <1>3, <3>5, <3>7
    <3> QED BY <1>1, <1>2, <1>5, <3>5, <3>6, <3>8, LastHandler
  <2> QED BY <2>1, <2>2 DEF HandlerReturn
<1>7. Stones' = Stones
  BY <1>2, SameProgram
<1>8. ASSUME NEW v \in Stones, Handlers(v)' # {} PROVE processing'[v] /\ draining'[v] # 2
  <2>1. v # s /\ Handlers(v) # {}
    BY <1>6, <1>8 DEF StartsNone
  <2>2. processing[v] /\ draining[v] # 2
    BY <2>1 DEF StopInv
  <2>3. processing \in [Stones -> BOOLEAN]
    BY DEF IInv, Types, StoneTypes
  <2> QED BY <1>2, <2>1, <2>2, <2>3
<1>9. FrozenStartsNothing
  BY <1>6 DEF StartsNone, FrozenStartsNothing
<1> QED BY <1>7, <1>8, <1>9 DEF StopInv

(* A handler starts: its stone is neither frozen nor draining.              *)
LEMMA HandlerStarts ==
  ASSUME IInv, StopInv, NEW t \in Threads, HandlerStart(t)
  PROVE  StopInv' /\ FrozenStartsNothing
<1>1. PICK s, f, g, e, at :
        /\ s = Top(t).stone /\ e = items[Top(t).item] /\ f = Advance(t)
        /\ at = (IF appMem[e] THEN "app" ELSE "own")
        /\ g = Frame("handler", at, s, e, None, FALSE)
  OBVIOUS
<1>2. AtItem(t, {"terminal", "filter"}) /\ Queued(t)
  BY DEF HandlerStart
<1>3. /\ At(t, "stone") /\ s \in Stones /\ ~frozen[s]
      /\ f \in FrameSet /\ f.op = "stone"
  BY <1>1, <1>2, AtItemFacts
<1>4. draining[s] = 0
  BY <1>1, <1>2 DEF AtItem, Stops
<1>5. /\ Pushes(t, f, g) /\ UNCHANGED <<program, draining>>
      /\ processing' = [processing EXCEPT ![s] = TRUE]
  BY <1>1 DEF HandlerStart, Pushes
<1>6. g.op = "handler" /\ g.stone = s
  BY <1>1 DEF Frame
<1>7. PICK n : n = Len(stack[t])
  OBVIOUS
<1>8. /\ stack[t] # <<>> /\ StackTypes /\ n \in Nat \ {0}
  BY <1>3, <1>7, InCall
<1> DEFINE S == FrameSet \cup {f, g}
<1>9. stack \in [Threads -> Seq(S)] /\ f \in S /\ g \in S
  BY <1>8, AnyFrames
<1> HIDE DEF S
<1>10. /\ Stays(Threads, S, stack, stack', t, n - 1)
       /\ Len(stack'[t]) = n + 1 /\ stack'[t][n] = f /\ stack'[t][n + 1] = g
  <2> DEFINE st2 == Swapped2(stack, t, f, g)
  <2>1. /\ Stays(Threads, S, stack, st2, t, n - 1)
        /\ Len(st2[t]) = n + 1 /\ st2[t][n] = f /\ st2[t][n + 1] = g
    BY <1>7, <1>8, <1>9, ReplaceTwo
  <2>2. stack' = st2
    BY <1>5 DEF Swapped2, Pushes
  <2> HIDE DEF st2
  <2> QED BY <2>1, <2>2
<1>11. \A d \in 1 .. n + 1 : d > n - 1 => d = n \/ d = n + 1
  BY <1>8
<1>12. Stones' = Stones
  BY <1>5, SameProgram
<1>13. ASSUME NEW v \in Stones, v # s PROVE Handlers(v)' \subseteq Handlers(v)
  <2>1. ASSUME NEW x \in Handlers(v)' PROVE x \in Handlers(v)
    BY <1>3, <1>6, <1>10, <1>11, <1>13, <2>1, NewHandlers
  <2> QED BY <2>1
<1>14. ASSUME NEW v \in Stones, Handlers(v)' # {} PROVE processing'[v] /\ draining'[v] # 2
  <2>1. processing \in [Stones -> BOOLEAN]
    BY DEF IInv, Types, StoneTypes
  <2>2. CASE v = s
    BY <1>3, <1>4, <1>5, <2>1, <2>2
  <2>3. CASE v # s
    <3>1. processing[v] /\ draining[v] # 2
      BY <1>13, <1>14, <2>3 DEF StopInv
    <3> QED BY <1>5, <2>1, <2>3, <3>1
  <2> QED BY <2>2, <2>3
<1>15. ASSUME NEW u \in Threads, NEW v \in Stones, StartsHandler(u, v) PROVE ~frozen[v]
  <2>1. Len(stack'[u]) > Len(stack[u]) /\ Last(stack'[u]).stone = v
    BY <1>15 DEF StartsHandler
  <2>2. u = t
    <3>1. ASSUME u # t PROVE FALSE
      <4>1. stack'[u] = stack[u]
        BY <1>10, <3>1 DEF Stays
      <4>2. stack[u] \in Seq(FrameSet)
        BY <1>8 DEF StackTypes
      <4>3. Len(stack[u]) \in Nat
        BY <4>2, LenProperties
      <4> QED BY <2>1, <4>1, <4>3
    <3> QED BY <3>1
  <2>3. Last(stack'[u]) = g
    BY <1>10, <2>2 DEF Last
  <2> QED BY <1>3, <1>6, <2>1, <2>3
<1> QED BY <1>12, <1>14, <1>15 DEF StopInv, FrozenStartsNothing

(* The steps of a run.                                                      *)
LEMMA RunStops ==
  ASSUME IInv, StopInv, OneHandler, NEW t \in Threads, Run(t)
  PROVE  StopInv' /\ FrozenStartsNothing
<1>1. CASE LoopActive(t) \/ LoopScan(t) \/ LoopEnd(t)
  <2>1. UNCHANGED <<program, processing, draining>>
    BY <1>1 DEF LoopActive, LoopScan, LoopEnd, stoneVars
  <2> QED BY <1>1, <2>1, LoopStarts, QuietStops
<1>2. CASE PendingOutput(t) \/ ItemGone(t) \/ ItemsEnd(t) \/ SplitStart(t) \/ StoreEvent(t)
  <2>1. UNCHANGED <<program, processing, draining>>
    BY <1>2 DEF PendingOutput, ItemGone, ItemsEnd, SplitStart, StoreEvent, stoneVars
  <2> QED BY <1>2, <2>1, ItemStarts, QuietStops
<1>3. CASE \/ SplitOutput(t) \/ StoreOverflow(t) \/ SubmitReturn(t) \/ TaskReturn(t)
           \/ SendStoredNext(t) \/ SetStoreLimitNext(t)
  <2>1. UNCHANGED <<program, processing, draining>>
    BY <1>3 DEF SplitOutput, StoreOverflow, SubmitReturn, TaskReturn, SendStoredNext,
                SetStoreLimitNext, stoneVars
  <2> QED BY <1>3, <2>1, OutputStarts, QuietStops
<1>4. CASE HandlerStart(t)
  BY <1>4, HandlerStarts
<1>5. CASE HandlerReturn(t)
  BY <1>5, HandlerReturns
<1>6. CASE DrainPoll(t)
  <2>1. PICK s, polls : s = Top(t).stone /\ polls = Top(t).item + 1
    OBVIOUS
  <2>2. /\ LockFree /\ At(t, "drain") /\ DrainTest(t, s, polls)
        /\ UNCHANGED <<program, processing>>
    BY <1>6, <2>1 DEF DrainPoll
  <2>3. s \in Stones
    <3>1. Top(t) \in FrameSet /\ Top(t).op = "drain"
      BY <2>2, InCall
    <3> QED BY <2>1, <3>1 DEF FrameSet
  <2>4. StartsNone
    BY <2>2, DrainStarts
  <2> QED BY <2>2, <2>3, <2>4, DrainStops
<1>7. CASE DeferredActions
  <2>1. UNCHANGED <<program, processing, draining>>
    BY <1>7 DEF DeferredActions, stoneVars
  <2> QED BY <1>7, <2>1, CallsStart, QuietStops
<1> QED BY <1>1, <1>2, <1>3, <1>4, <1>5, <1>6, <1>7 DEF Run

LEMMA CallStops ==
  ASSUME IInv, StopInv, NEW t \in Threads, NEW s,
         \/ \E k : Submit(t, s, k)
         \/ Freeze(t, s) \/ Unfreeze(t, s) \/ Drain(t, s)
         \/ ClearStored(t, s) \/ SendStored(t, s)
         \/ StoreStartSend(t, s) \/ SetStoreLimit(t, s, 0) \/ \E u : TransferEvents(t, s, u)
         \/ NetworkSubmit(s)
  PROVE  StopInv' /\ FrozenStartsNothing
<1>1. CASE Drain(t, s)
  <2>1. /\ MayUse(t, "drain", s) /\ stack[t] = <<>> /\ DrainTest(t, s, 0)
        /\ UNCHANGED <<program, processing>>
    BY <1>1 DEF Drain
  <2>2. s \in Stones /\ LockFree
    BY <2>1 DEF MayUse, MayCall
  <2>3. StartsNone
    BY <2>1, <2>2, DrainStarts
  <2> QED BY <2>1, <2>2, <2>3, DrainStops
<1>2. CASE ~Drain(t, s)
  <2>1. UNCHANGED <<program, processing, draining>>
    BY <1>2 DEF Submit, Freeze, Unfreeze, ClearStored, SendStored, StoreStartSend, SetStoreLimit,
                TransferEvents, NetworkSubmit, stoneVars
  <2>2. StartsNone
    BY <1>2, CallsStart
  <2> QED BY <2>1, <2>2, QuietStops
<1> QED BY <1>1, <1>2

LEMMA SameStops ==
  ASSUME IInv, StopInv, UNCHANGED vars
  PROVE  StopInv' /\ FrozenStartsNothing
<1>1. UNCHANGED <<program, processing, draining>> /\ UNCHANGED stack
  BY DEF vars, stoneVars
<1>2. StartsNone
  BY <1>1, StillStarts DEF IInv, Types
<1> QED BY <1>1, <1>2, QuietStops

LEMMA NextStops ==
  IInv /\ StopInv /\ OneHandler /\ [Next]_vars => StopInv' /\ FrozenStartsNothing
<1> SUFFICES ASSUME IInv, StopInv, OneHandler, [Next]_vars PROVE StopInv' /\ FrozenStartsNothing
  OBVIOUS
<1>1. ASSUME NEW t \in Threads, AppCall(t) PROVE StopInv' /\ FrozenStartsNothing
  <2>1. PICK s : \/ \E k : Submit(t, s, k)
                 \/ Freeze(t, s) \/ Unfreeze(t, s) \/ Drain(t, s)
                 \/ ClearStored(t, s) \/ SendStored(t, s)
                 \/ StoreStartSend(t, s) \/ SetStoreLimit(t, s, 0)
                 \/ \E u : TransferEvents(t, s, u)
    BY <1>1 DEF AppCall
  <2> QED BY <2>1, CallStops
<1>2. ASSUME NEW t \in Threads, Run(t) PROVE StopInv' /\ FrozenStartsNothing
  BY <1>2, RunStops
<1>3. ASSUME NEW s, NetworkSubmit(s) PROVE StopInv' /\ FrozenStartsNothing
  <2>1. Server \in Threads
    BY DEF Threads
  <2> QED BY <1>3, <2>1, CallStops
<1> QED BY <1>1, <1>2, <1>3, SameStops DEF Next

LEMMA InitStops == Init => StopInv
<1> SUFFICES ASSUME Init, NEW s \in Stones, Handlers(s) # {} PROVE FALSE
  BY DEF StopInv
<1>1. PICK x \in Threads \X Nat : x[2] \in 1 .. Len(stack[x[1]])
  BY DEF Handlers
<1>2. stack[x[1]] = <<>>
  BY <1>1 DEF Init
<1> QED BY <1>1, <1>2

LEMMA IdleFollows == IInv /\ StopInv => DrainedIsIdle
<1> SUFFICES ASSUME IInv, StopInv, NEW s \in Stones, draining[s] = 2, InHandler(s) PROVE FALSE
  BY DEF DrainedIsIdle
<1>1. PICK t \in Threads : \E f \in Frames(t) : f.op = "handler" /\ f.stone = s
  BY DEF InHandler
<1>2. PICK d \in DOMAIN stack[t] : stack[t][d].op = "handler" /\ stack[t][d].stone = s
  BY <1>1 DEF Frames
<1>3. stack[t] \in Seq(FrameSet)
  BY DEF IInv, Types, StackTypes
<1>4. d \in 1 .. Len(stack[t]) /\ d \in Nat
  BY <1>2, <1>3
<1>5. <<t, d>> \in Handlers(s)
  BY <1>2, <1>4 DEF Handlers
<1> QED BY <1>5 DEF StopInv

(* As long as no stone runs two handlers at a time, a stone that            *)
(* INT_EVdrain_stone reported as drained runs no handler and a frozen stone *)
(* starts none (INT_EVfreeze_stone, process_events_stone in evp.c).         *)
THEOREM StoppedAreIdle == Spec /\ []OneHandler => StoppedStonesIdle
<1>1. IInv /\ StopInv /\ OneHandler /\ [Next]_vars => IInv' /\ StopInv' /\ FrozenStartsNothing
  BY NextKeeps, NextStops
<1>2. IInv /\ StopInv => DrainedIsIdle
  BY IdleFollows
<1> QED BY InitIInv, InitStops, <1>1, <1>2, PTL DEF Spec, StoppedStonesIdle

-----------------------------------------------------------------------------
(* Events that wait when all is quiet.                                      *)

(* A change of the calls of t that leaves k of them.                        *)
Leaves(t, k) ==
  /\ \A u \in Threads : u # t => stack'[u] = stack[u]
  /\ k \in Nat /\ Len(stack[t]) \in Nat /\ Len(stack'[t]) \in Nat
  /\ k <= Len(stack[t]) /\ k <= Len(stack'[t])
  /\ \A i \in 1 .. k : stack'[t][i] = stack[t][i]

LEMMA StaysLeaves ==
  ASSUME NEW S, NEW t, NEW k, Stays(Threads, S, stack, stack', t, k)
  PROVE  Leaves(t, k)
BY DEF Stays, Leaves

Left(t, n)    == Leaves(t, n - 1) /\ Len(stack'[t]) = n - 1
Now(t, n, f)  == Leaves(t, n - 1) /\ Len(stack'[t]) = n /\ stack'[t][n] = f
Deeper(t, n, f, g) ==
  /\ Leaves(t, n - 1) /\ Len(stack'[t]) = n + 1
  /\ stack'[t][n] = f /\ stack'[t][n + 1] = g

(* Every way to change a stack.                                             *)
LEMMA StackShapes ==
  ASSUME StackTypes, NEW t \in Threads, NEW n, n = Len(stack[t]), NEW f, NEW g
  PROVE  /\ n \in Nat /\ (stack[t] # <<>> <=> n > 0)
         /\ stack[t] # <<>> /\ Return(t) => Left(t, n)
         /\ stack[t] # <<>> /\ Replace(t, f) => Now(t, n, f)
         /\ stack[t] # <<>> /\ Pushes(t, f, g) => Deeper(t, n, f, g)
         /\ Call(t, <<f>>) => Now(t, n + 1, f)
         /\ Call(t, <<f, g>>) => Deeper(t, n + 1, f, g)
         /\ n > 1 /\ stack' = [stack EXCEPT ![t] = Append(Front(Front(@)), f)] => Now(t, n - 1, f)
<1> DEFINE S == FrameSet \cup {f, g}
<1>1. stack \in [Threads -> Seq(S)] /\ f \in S /\ g \in S
  BY AnyFrames
<1>2. n \in Nat /\ (stack[t] # <<>> <=> n > 0)
  <2>1. stack[t] \in Seq(S)
    BY <1>1
  <2> QED BY <2>1, LenProperties, EmptySeq
<1>3. n + 1 - 1 = n /\ n + 1 + 1 = n + 2 /\ n - 1 - 1 = n - 2
  BY <1>2
<1> HIDE DEF S
<1>4. ASSUME stack[t] # <<>>, Return(t) PROVE Left(t, n)
  <2>1. Stays(Threads, S, stack, stack', t, n - 1) /\ Len(stack'[t]) = n - 1
    BY <1>1, <1>4, ReturnOne DEF Popped, Return
  <2> QED BY <2>1, StaysLeaves DEF Left
<1>5. ASSUME stack[t] # <<>>, Replace(t, f) PROVE Now(t, n, f)
  <2>1. PICK st2 : st2 = Swapped1(stack, t, f)
    OBVIOUS
  <2>2. /\ Stays(Threads, S, stack, st2, t, n - 1)
        /\ Len(st2[t]) = n /\ st2[t][n] = f
    BY <1>1, <1>5, <2>1, ReplaceOne
  <2>3. stack' = st2
    BY <1>5, <2>1 DEF Swapped1, Replace
  <2> QED BY <2>2, <2>3, StaysLeaves DEF Now
<1>6. ASSUME stack[t] # <<>>, Pushes(t, f, g) PROVE Deeper(t, n, f, g)
  <2>1. PICK st2 : st2 = Swapped2(stack, t, f, g)
    OBVIOUS
  <2>2. /\ Stays(Threads, S, stack, st2, t, n - 1)
        /\ Len(st2[t]) = n + 1 /\ st2[t][n] = f /\ st2[t][n + 1] = g
    BY <1>1, <1>6, <2>1, ReplaceTwo
  <2>3. stack' = st2
    BY <1>6, <2>1 DEF Swapped2, Pushes
  <2> QED BY <2>2, <2>3, StaysLeaves DEF Deeper
<1>7. ASSUME Call(t, <<f>>) PROVE Now(t, n + 1, f)
  <2>1. PICK st2 : st2 = Called1(stack, t, f)
    OBVIOUS
  <2>2. /\ Stays(Threads, S, stack, st2, t, n)
        /\ Len(st2[t]) = n + 1 /\ st2[t][n + 1] = f
    BY <1>1, <2>1, CallOne
  <2>3. stack' = st2
    BY <1>7, <2>1 DEF Called1, Call
  <2> QED BY <1>3, <2>2, <2>3, StaysLeaves DEF Now
<1>8. ASSUME Call(t, <<f, g>>) PROVE Deeper(t, n + 1, f, g)
  <2>1. PICK st2 : st2 = Called2(stack, t, f, g)
    OBVIOUS
  <2>2. /\ Stays(Threads, S, stack, st2, t, n)
        /\ Len(st2[t]) = n + 2 /\ st2[t][n + 1] = f /\ st2[t][n + 2] = g
    BY <1>1, <2>1, CallTwo
  <2>3. stack' = st2
    BY <1>8, <2>1 DEF Called2, Call
  <2> QED BY <1>3, <2>2, <2>3, StaysLeaves DEF Deeper
<1>9. ASSUME n > 1, stack' = [stack EXCEPT ![t] = Append(Front(Front(@)), f)] PROVE Now(t, n - 1, f)
  <2>1. PICK st2 : st2 = Returned(stack, t, f)
    OBVIOUS
  <2>2. /\ Stays(Threads, S, stack, st2, t, n - 2)
        /\ Len(st2[t]) = n - 1 /\ st2[t][n - 1] = f
    BY <1>1, <1>9, <2>1, ReturnTo
  <2>3. stack' = st2
    BY <1>9, <2>1 DEF Returned
  <2> QED BY <1>3, <2>2, <2>3, StaysLeaves DEF Now
<1> QED BY <1>2, <1>4, <1>5, <1>6, <1>7, <1>8, <1>9

(* The first item of a queue from which an item was taken.                  *)
LEMMA NextHead ==
  ASSUME NEW S, NEW q \in Seq(S), Once(q), NEW i, InList(q, i), RemoveFirst(q, i) # <<>>,
         NEW p, p = SelectInSeq(q, LAMBDA j : j = i)
  PROVE  /\ q # <<>>
         /\ Head(q) = i => p # Len(q) /\ Head(RemoveFirst(q, i)) = q[p + 1]
         /\ Head(q) # i => Head(RemoveFirst(q, i)) = Head(q)
<1> DEFINE I == {x \in 1 .. Len(q) : q[x] = i}
<1>1. Len(q) \in Nat /\ DOMAIN q = 1 .. Len(q)
  BY LenProperties
<1>2. PICK n \in 1 .. Len(q) : q[n] = i
  BY <1>1 DEF InList
<1>3. I = {n}
  BY <1>1, <1>2 DEF Once
<1>4. p = n
  <2>1. p = IF I # {} THEN Min(I) ELSE 0
    BY DEF SelectInSeq
  <2>2. Min(I) = n
    BY <1>1, <1>2, <1>3 DEF Min
  <2> QED BY <1>3, <2>1, <2>2
<1>5. RemoveFirst(q, i) = SubSeq(q, 1, n - 1) \o SubSeq(q, n + 1, Len(q))
  <2>1. SelectInSeq(q, LAMBDA v : v = i) = n
    BY <1>4
  <2> QED BY <1>2, <2>1 DEF RemoveFirst, RemoveAt
<1> HIDE DEF I
<1>6. q # <<>> /\ Head(q) = q[1] /\ 1 \in 1 .. Len(q)
  <2>1. Len(q) >= 1
    BY <1>1, <1>2
  <2>2. q # <<>>
    BY <2>1, EmptySeq
  <2> QED BY <1>1, <2>1, <2>2, HeadTailProperties
<1>7. PICK r : r = RemoveFirst(q, i)
  OBVIOUS
<1>8. PICK a, b : a = SubSeq(q, 1, n - 1) /\ b = SubSeq(q, n + 1, Len(q))
  OBVIOUS
<1>9. PICK l \in Nat : l = Len(q)
  BY <1>1
<1>10. /\ a \in Seq(S) /\ Len(a) = n - 1 /\ (n > 1 => a[1] = q[1])
       /\ b \in Seq(S) /\ Len(b) = l - n /\ (n < l => b[1] = q[n + 1])
  <2>1. \A x \in 1 .. l : q[x] \in S
    BY <1>9, ElementOfSeq
  <2>2. /\ a \in Seq(S) /\ Len(a) = IF 1 <= n - 1 THEN n - 1 - 1 + 1 ELSE 0
        /\ \A x \in 1 .. n - 1 - 1 + 1 : a[x] = q[1 + x - 1]
    <3>1. 1 \in Nat /\ n - 1 \in Nat /\ \A x \in 1 .. n - 1 : q[x] \in S
      BY <1>9, <2>1
    <3> QED BY <1>8, <3>1, SubSeqProperties
  <2>3. /\ b \in Seq(S) /\ Len(b) = IF n + 1 <= l THEN l - (n + 1) + 1 ELSE 0
        /\ \A x \in 1 .. l - (n + 1) + 1 : b[x] = q[(n + 1) + x - 1]
    <3>1. n + 1 \in Nat /\ l \in Nat /\ \A x \in n + 1 .. l : q[x] \in S
      BY <1>9, <2>1
    <3> QED BY <1>8, <1>9, <3>1, SubSeqProperties
  <2>4. /\ (IF 1 <= n - 1 THEN n - 1 - 1 + 1 ELSE 0) = n - 1
        /\ (IF n + 1 <= l THEN l - (n + 1) + 1 ELSE 0) = l - n
        /\ n > 1 => 1 \in 1 .. n - 1 - 1 + 1 /\ 1 + 1 - 1 = 1
        /\ n < l => 1 \in 1 .. l - (n + 1) + 1 /\ (n + 1) + 1 - 1 = n + 1
    BY <1>2, <1>9
  <2>5. Len(a) = n - 1 /\ Len(b) = l - n
    BY <2>2, <2>3, <2>4, Zenon
  <2>6. n > 1 => a[1] = q[1]
    <3> SUFFICES ASSUME n > 1 PROVE a[1] = q[1]
      OBVIOUS
    <3>1. a[1] = q[1 + 1 - 1]
      BY <2>2, <2>4, Zenon
    <3> QED BY <2>4, <3>1
  <2>7. n < l => b[1] = q[n + 1]
    <3> SUFFICES ASSUME n < l PROVE b[1] = q[n + 1]
      OBVIOUS
    <3>1. b[1] = q[(n + 1) + 1 - 1]
      BY <2>3, <2>4, Zenon
    <3> QED BY <2>4, <3>1
  <2> QED BY <2>2, <2>3, <2>5, <2>6, <2>7
<1>11. /\ r \in Seq(S) /\ Len(r) = (n - 1) + (l - n)
       /\ \A x \in 1 .. (n - 1) + (l - n) : r[x] = IF x <= n - 1 THEN a[x] ELSE b[x - (n - 1)]
  <2>1. r = a \o b
    BY <1>5, <1>7, <1>8
  <2> QED BY <1>10, <2>1, ConcatProperties
<1>12. r # <<>> => Head(r) = r[1] /\ Len(r) >= 1
  BY <1>11, HeadTailProperties, EmptySeq, LenProperties
<1>13. l > 1
  <2>1. (n - 1) + (l - n) >= 1
    BY <1>7, <1>11, <1>12
  <2> QED BY <1>2, <1>9, <2>1
<1>14. CASE n = 1
  <2>1. /\ 1 \in 1 .. (n - 1) + (l - n) /\ ~(1 <= n - 1) /\ 1 - (n - 1) = 1 /\ n < l
    BY <1>9, <1>13, <1>14
  <2>2. r[1] = q[n + 1]
    BY <1>10, <1>11, <2>1
  <2> QED BY <1>2, <1>4, <1>6, <1>7, <1>9, <1>12, <1>13, <1>14, <2>2
<1>15. CASE n # 1
  <2>1. 1 \in 1 .. (n - 1) + (l - n) /\ 1 <= n - 1 /\ n > 1
    BY <1>2, <1>9, <1>13, <1>15
  <2>2. r[1] = q[1]
    BY <1>10, <1>11, <2>1
  <2>3. q[1] # i
    BY <1>1, <1>2, <1>6, <1>15 DEF Once
  <2> QED BY <1>6, <1>7, <1>12, <2>2, <2>3
<1> QED BY <1>14, <1>15

(* The call f sees to the stone s, whose queue begins with h: it will go    *)
(* round again, has not come to the stone yet, or is at that item.          *)
CaresAll(f) ==
  \/ f.op = "crashed"
  \/ f.op \in {"loop", "stone"} /\ f.more
  \/ f.op = "loop" /\ f.at = "active"

Cares(f, s, h) ==
  \/ CaresAll(f)
  \/ f.op = "loop" /\ f.stone \in 1 .. s
  \/ f.op = "stone" /\ f.stone = s /\ f.item = h

Needs(s) == queue[s] # <<>> /\ ~frozen[s] /\ draining[s] = 0

(* Somebody sees to every stone with events that may be processed.          *)
CareInv ==
  \A s \in Stones : Needs(s) =>
    \/ tasks > 0
    \/ \E t \in Threads : \E i \in 1 .. Len(stack[t]) : Cares(stack[t][i], s, Head(queue[s]))

(* A call that enqueues has told the loop that there is more; a gentle      *)
(* application drains nothing.                                              *)
Gentle == program.usage \subseteq {"freeze", "unfreeze"}

Forwards(f, b) ==
  /\ f.op = "overflow" \/ (f.op = "split" /\ Outputs[f.stone] # <<>>) => b.more
  /\ f.op = "drain" => ~Gentle

MoreInv ==
  \A t \in Threads : \A d \in 1 .. Len(stack[t]) : Forwards(stack[t][d], stack[t][d - 1])

WatchInv == CareInv /\ MoreInv

(* Nothing changes at the head of the queue.                                *)
SameHead(s) == Needs(s) /\ Head(queue'[s]) = Head(queue[s])

Uncaring(t, k, s) ==
  \A i \in 1 .. Len(stack[t]) : i >= k => ~Cares(stack[t][i], s, Head(queue[s]))

LEMMA WatchStep ==
  ASSUME CareInv, UNCHANGED program, tasks \in Nat, tasks' \in Nat, tasks' >= tasks,
         NEW t \in Threads, NEW k, Leaves(t, k),
         \A s \in Stones : Needs(s)' =>
           \/ \E i \in 1 .. Len(stack'[t]) : Cares(stack'[t][i], s, Head(queue'[s]))
           \/ SameHead(s) /\ Uncaring(t, k + 1, s)
  PROVE  CareInv'
<1>1. Stones' = Stones /\ Threads' = Threads
  BY SameProgram DEF Threads
<1>2. ASSUME NEW s \in Stones, Needs(s)'
      PROVE  \/ tasks' > 0
             \/ \E u \in Threads : \E i \in 1 .. Len(stack'[u]) :
                  Cares(stack'[u][i], s, Head(queue'[s]))
  <2>1. CASE \E i \in 1 .. Len(stack'[t]) : Cares(stack'[t][i], s, Head(queue'[s]))
    BY <2>1
  <2>2. CASE SameHead(s) /\ Uncaring(t, k + 1, s)
    <3>1. CASE tasks > 0
      BY <3>1
    <3>2. CASE ~(tasks > 0)
      <4>1. PICK u \in Threads : \E i \in 1 .. Len(stack[u]) : Cares(stack[u][i], s, Head(queue[s]))
        BY <2>2, <3>2 DEF CareInv, SameHead
      <4>2. PICK i \in 1 .. Len(stack[u]) : Cares(stack[u][i], s, Head(queue[s]))
        BY <4>1
      <4>3. CASE u # t
        <5>1. stack'[u] = stack[u]
          BY <4>3 DEF Leaves
        <5> QED BY <2>2, <4>2, <5>1 DEF SameHead
      <4>4. CASE u = t
        <5>1. ~(i >= k + 1)
          BY <2>2, <4>2, <4>4 DEF Uncaring
        <5>2. k \in Nat /\ k <= Len(stack'[t]) /\ Len(stack'[t]) \in Nat
          BY DEF Leaves
        <5>3. i \in 1 .. k /\ i \in 1 .. Len(stack'[t])
          BY <5>1, <5>2
        <5>4. stack'[t][i] = stack[t][i]
          BY <5>3 DEF Leaves
        <5> QED BY <2>2, <4>2, <4>4, <5>3, <5>4 DEF SameHead
      <4> QED BY <4>3, <4>4
    <3> QED BY <3>1, <3>2
  <2> QED BY <1>2, <2>1, <2>2
<1> QED BY <1>1, <1>2 DEF CareInv

LEMMA MoreStep ==
  ASSUME MoreInv, Nested, UNCHANGED program, NEW t \in Threads, NEW k, Leaves(t, k),
         \A d \in 1 .. Len(stack'[t]) : d > k => Forwards(stack'[t][d], stack'[t][d - 1])
  PROVE  MoreInv'
<1>1. Outputs' = Outputs /\ Threads' = Threads
  BY SameProgram DEF Threads
<1>2. ASSUME NEW u \in Threads, NEW d \in 1 .. Len(stack'[u])
      PROVE  Forwards(stack'[u][d], stack'[u][d - 1])
  <2>1. CASE u # t
    <3>1. stack'[u] = stack[u]
      BY <2>1 DEF Leaves
    <3> QED BY <1>2, <3>1 DEF MoreInv
  <2>2. CASE u = t /\ d > k
    BY <2>2
  <2>3. CASE u = t /\ ~(d > k)
    <3>1. k \in Nat /\ k <= Len(stack[t]) /\ Len(stack[t]) \in Nat
      BY DEF Leaves
    <3>2. d \in 1 .. k /\ d \in 1 .. Len(stack[t])
      BY <2>3, <3>1
    <3>3. stack'[t][d] = stack[t][d] /\ Forwards(stack[t][d], stack[t][d - 1])
          /\ On(stack[t][d], d, stack[t][d - 1])
      BY <3>2 DEF Leaves, MoreInv, Nested
    <3>4. CASE d > 1
      <4>1. d - 1 \in 1 .. k
        BY <3>1, <3>2, <3>4
      <4>2. stack'[t][d - 1] = stack[t][d - 1]
        BY <4>1 DEF Leaves
      <4> QED BY <2>3, <3>3, <4>2
    <3>5. CASE ~(d > 1)
      BY <2>3, <3>3, <3>5 DEF On, Forwards
    <3> QED BY <3>4, <3>5
  <2> QED BY <2>1, <2>2, <2>3
<1>3. \A f, b : Forwards(f, b)' <=> Forwards(f, b)
  BY <1>1 DEF Forwards, Gentle
<1> QED BY <1>1, <1>2, <1>3 DEF MoreInv

(* The same for each way to change a stack.                                 *)
Peaceful == Types /\ Nested /\ WatchInv /\ UNCHANGED <<program, tasks>>

LEMMA LeftWatch ==
  ASSUME Peaceful, NEW t \in Threads, NEW n, n = Len(stack[t]), n > 0, Left(t, n),
         \A s \in Stones : Needs(s)' =>
           \/ n > 1 /\ CaresAll(stack[t][n - 1])
           \/ SameHead(s) /\ ~Cares(stack[t][n], s, Head(queue[s]))
  PROVE  WatchInv'
<1>1. /\ Leaves(t, n - 1) /\ n \in Nat \ {0} /\ Len(stack'[t]) = n - 1 /\ tasks \in Nat
  BY DEF Left, Leaves, Peaceful, Types, OtherTypes
<1>2. n - 1 + 1 = n /\ \A d \in 1 .. n - 1 : ~(d > n - 1)
  BY <1>1
<1>3. ASSUME NEW s \in Stones, Needs(s)'
      PROVE  \/ \E i \in 1 .. Len(stack'[t]) : Cares(stack'[t][i], s, Head(queue'[s]))
             \/ SameHead(s) /\ Uncaring(t, n, s)
  <2>1. CASE n > 1 /\ CaresAll(stack[t][n - 1])
    <3>1. n - 1 \in 1 .. n - 1
      BY <1>1, <2>1
    <3>2. stack'[t][n - 1] = stack[t][n - 1]
      BY <1>1, <3>1 DEF Leaves
    <3> QED BY <1>1, <2>1, <3>1, <3>2 DEF Cares
  <2>2. CASE SameHead(s) /\ ~Cares(stack[t][n], s, Head(queue[s]))
    <3>1. \A i \in 1 .. Len(stack[t]) : i >= n => i = n
      BY <1>1
    <3> QED BY <2>2, <3>1 DEF Uncaring
  <2> QED BY <1>3, <2>1, <2>2
<1>4. CareInv'
  BY <1>1, <1>2, <1>3, WatchStep DEF Peaceful, WatchInv
<1>5. MoreInv'
  BY <1>1, <1>2, MoreStep DEF Peaceful, WatchInv
<1> QED BY <1>4, <1>5 DEF WatchInv

LEMMA NowWatch ==
  ASSUME Peaceful, NEW t \in Threads, NEW m, NEW f, Now(t, m, f), m \in Nat \ {0},
         f.op \in {"split", "overflow", "drain"} => m > 1 /\ Forwards(f, stack[t][m - 1]),
         \A s \in Stones : Needs(s)' =>
           \/ Cares(f, s, Head(queue'[s]))
           \/ m > 1 /\ CaresAll(stack[t][m - 1])
           \/ SameHead(s) /\ Uncaring(t, m, s)
  PROVE  WatchInv'
<1>1. Leaves(t, m - 1) /\ Len(stack'[t]) = m /\ stack'[t][m] = f /\ tasks \in Nat
  BY DEF Now, Peaceful, Types, OtherTypes
<1>2. m - 1 + 1 = m /\ m \in 1 .. m /\ \A d \in 1 .. m : d > m - 1 => d = m
  OBVIOUS
<1>3. m > 1 => m - 1 \in 1 .. m - 1 /\ m - 1 \in 1 .. m /\ stack'[t][m - 1] = stack[t][m - 1]
  <2>1. m > 1 => m - 1 \in 1 .. m - 1 /\ m - 1 \in 1 .. m
    OBVIOUS
  <2> QED BY <1>1, <2>1 DEF Leaves
<1>4. ASSUME NEW s \in Stones, Needs(s)'
      PROVE  \/ \E i \in 1 .. Len(stack'[t]) : Cares(stack'[t][i], s, Head(queue'[s]))
             \/ SameHead(s) /\ Uncaring(t, m, s)
  <2>1. CASE Cares(f, s, Head(queue'[s]))
    BY <1>1, <1>2, <2>1
  <2>2. CASE m > 1 /\ CaresAll(stack[t][m - 1])
    BY <1>1, <1>3, <2>2 DEF Cares
  <2> QED BY <1>4, <2>1, <2>2
<1>5. CareInv'
  BY <1>1, <1>2, <1>4, WatchStep DEF Peaceful, WatchInv
<1>6. Forwards(f, stack'[t][m - 1])
  <2>1. CASE f.op \in {"split", "overflow", "drain"}
    BY <1>3, <2>1
  <2>2. CASE ~(f.op \in {"split", "overflow", "drain"})
    BY <2>2 DEF Forwards
  <2> QED BY <2>1, <2>2
<1>7. MoreInv'
  <2>1. \A d \in 1 .. Len(stack'[t]) : d > m - 1 => Forwards(stack'[t][d], stack'[t][d - 1])
    BY <1>1, <1>2, <1>6
  <2> QED BY <1>1, <2>1, MoreStep DEF Peaceful, WatchInv
<1> QED BY <1>5, <1>7 DEF WatchInv

LEMMA DeeperWatch ==
  ASSUME Peaceful, NEW t \in Threads, NEW m, NEW f, NEW g, Deeper(t, m, f, g), m \in Nat \ {0},
         f.op \notin {"split", "overflow", "drain"}, Forwards(g, f),
         \A s \in Stones : Needs(s)' =>
           \/ Cares(f, s, Head(queue'[s])) \/ Cares(g, s, Head(queue'[s]))
           \/ SameHead(s) /\ Uncaring(t, m, s)
  PROVE  WatchInv'
<1>1. /\ Leaves(t, m - 1) /\ Len(stack'[t]) = m + 1
      /\ stack'[t][m] = f /\ stack'[t][m + 1] = g /\ tasks \in Nat
  BY DEF Deeper, Peaceful, Types, OtherTypes
<1>2. /\ m - 1 + 1 = m /\ m + 1 - 1 = m /\ m \in 1 .. m + 1 /\ m + 1 \in 1 .. m + 1
      /\ \A d \in 1 .. m + 1 : d > m - 1 => d = m \/ d = m + 1
  OBVIOUS
<1>3. ASSUME NEW s \in Stones, Needs(s)'
      PROVE  \/ \E i \in 1 .. Len(stack'[t]) : Cares(stack'[t][i], s, Head(queue'[s]))
             \/ SameHead(s) /\ Uncaring(t, m, s)
  <2>1. CASE Cares(f, s, Head(queue'[s]))
    BY <1>1, <1>2, <2>1
  <2>2. CASE Cares(g, s, Head(queue'[s]))
    BY <1>1, <1>2, <2>2
  <2> QED BY <1>3, <2>1, <2>2
<1>4. CareInv'
  BY <1>1, <1>2, <1>3, WatchStep DEF Peaceful, WatchInv
<1>5. MoreInv'
  <2>1. Forwards(f, stack'[t][m - 1])
    BY DEF Forwards
  <2>2. ASSUME NEW d \in 1 .. Len(stack'[t]), d > m - 1
        PROVE  Forwards(stack'[t][d], stack'[t][d - 1])
    <3>1. d = m \/ d = m + 1
      BY <1>1, <1>2, <2>2
    <3> QED BY <1>1, <1>2, <2>1, <3>1
  <2> QED BY <1>1, <2>2, MoreStep DEF Peaceful, WatchInv
<1> QED BY <1>4, <1>5 DEF WatchInv

(* The innermost call of t, when there is one.                              *)
LEMMA TopCares ==
  ASSUME NEW t, NEW n \in Nat, n = Len(stack[t]), NEW s
  PROVE  /\ Uncaring(t, n + 1, s)
         /\ ~Cares(stack[t][n], s, Head(queue[s])) => Uncaring(t, n, s)
<1>1. \A i \in 1 .. n : ~(i >= n + 1) /\ (i >= n => i = n)
  OBVIOUS
<1> QED BY <1>1 DEF Uncaring

LEMMA HeadsStay ==
  ASSUME UNCHANGED <<queue, frozen, draining>>, NEW s, Needs(s)'
  PROVE  SameHead(s)
BY DEF SameHead, Needs

LEMMA AtWatch ==
  ASSUME IInv, WatchInv, UNCHANGED <<program, tasks>>, NEW t \in Threads, NEW op, At(t, op),
         NEW n, n = Len(stack[t])
  PROVE  /\ Peaceful /\ n \in Nat \ {0} /\ n > 0 /\ Top(t) = stack[t][n] /\ Top(t) \in FrameSet
         /\ Top(t).op = op /\ On(Top(t), n, stack[t][n - 1]) /\ Forwards(Top(t), stack[t][n - 1])
         /\ stack[t] # <<>> /\ StackTypes
<1>1. /\ stack[t] # <<>> /\ StackTypes /\ Top(t).op = op
      /\ n \in Nat \ {0} /\ n > 0
      /\ Top(t) = stack[t][n] /\ Top(t) \in FrameSet /\ On(Top(t), n, stack[t][n - 1])
  BY InCall
<1>2. Peaceful
  BY DEF Peaceful, IInv
<1>3. n \in 1 .. n
  BY <1>1
<1>4. Forwards(stack[t][n], stack[t][n - 1])
  BY <1>3 DEF WatchInv, MoreInv
<1> QED BY <1>1, <1>2, <1>4

(* process_local_actions goes to a stone, in turn or because it was active  *)
(* last.                                                                    *)
LEMMA ConsiderWatch ==
  ASSUME IInv, WatchInv, NEW t \in Threads, At(t, "loop"), NEW r, NEW class, NEW f,
         ConsiderStone(t, r, class, f), f.op = "loop",
         UNCHANGED <<program, tasks, queue, frozen, draining>>,
         \A s \in Stones : \A h : Cares(Top(t), s, h) => Cares(f, s, h) \/ s = r
  PROVE  WatchInv'
<1>1. PICK n : n = Len(stack[t])
  OBVIOUS
<1>2. /\ Peaceful /\ n \in Nat \ {0} /\ n > 0 /\ Top(t) = stack[t][n] /\ stack[t] # <<>> /\ StackTypes
  BY <1>1, AtWatch
<1>3. PICK g : g = Frame("stone", class, r, None, Head(queue[r]), FALSE)
  OBVIOUS
<1>4. g.op = "stone" /\ g.stone = r /\ g.item = Head(queue[r])
  BY <1>3 DEF Frame
<1>5. ASSUME NEW s \in Stones, Needs(s)'
      PROVE  /\ SameHead(s)
             /\ \/ Cares(f, s, Head(queue'[s])) \/ s = r
                \/ SameHead(s) /\ Uncaring(t, n, s)
  <2>1. SameHead(s)
    BY <1>5, HeadsStay
  <2>2. Uncaring(t, n, s) \/ Cares(Top(t), s, Head(queue[s]))
    BY <1>1, <1>2, TopCares
  <2> QED BY <2>1, <2>2 DEF SameHead
<1>6. CASE queue[r] = <<>> \/ draining[r] = 2 \/ frozen[r]
  <2>1. Now(t, n, f)
    <3>1. Replace(t, f)
      BY <1>6 DEF ConsiderStone
    <3> QED BY <1>1, <1>2, <3>1, StackShapes
  <2>2. ASSUME NEW s \in Stones, Needs(s)'
        PROVE  Cares(f, s, Head(queue'[s])) \/ (SameHead(s) /\ Uncaring(t, n, s))
    <3>1. s # r
      BY <1>5, <1>6, <2>2 DEF SameHead, Needs
    <3> QED BY <1>5, <2>2, <3>1
  <2>3. f.op \notin {"split", "overflow", "drain"}
    OBVIOUS
  <2> QED BY <1>2, <2>1, <2>2, <2>3, NowWatch
<1>7. CASE ~(queue[r] = <<>> \/ draining[r] = 2 \/ frozen[r])
  <2>1. Deeper(t, n, f, g)
    <3>1. Pushes(t, f, g)
      BY <1>3, <1>7 DEF ConsiderStone, Pushes
    <3> QED BY <1>1, <1>2, <3>1, StackShapes
  <2>2. ASSUME NEW s \in Stones, Needs(s)'
        PROVE  \/ Cares(f, s, Head(queue'[s])) \/ Cares(g, s, Head(queue'[s]))
               \/ SameHead(s) /\ Uncaring(t, n, s)
    <3>1. s = r => Cares(g, s, Head(queue'[s]))
      BY <1>4 DEF Cares
    <3> QED BY <1>5, <2>2, <3>1
  <2>3. f.op \notin {"split", "overflow", "drain"} /\ Forwards(g, f)
    BY <1>4 DEF Forwards
  <2> QED BY <1>2, <2>1, <2>2, <2>3, DeeperWatch
<1> QED BY <1>6, <1>7

(* A stone with events is in play.                                          *)
LEMMA NeedsPlay ==
  ASSUME IInv, NEW s \in Stones, queue[s] # <<>>
  PROVE  inPlay > 0 /\ Head(queue[s]) \in 1 .. Len(items)
<1>1. queue[s] \in Seq(1 .. Len(items)) /\ QueueTypes /\ IsFiniteSet(Stones)
  BY ProgramFacts DEF IInv, Types, QueueTypes
<1>2. Head(queue[s]) \in 1 .. Len(items) /\ InList(queue[s], Head(queue[s]))
  BY <1>1, TailList
<1>3. Head(queue[s]) \in Waiting
  BY <1>2 DEF Waiting, Waits
<1>4. IsFiniteSet(Waiting) /\ Cardinality(Waiting) \in Nat
  BY <1>1, ItemSets
<1>5. Cardinality(Waiting) # 0
  BY <1>3, <1>4, FS_EmptySet
<1>6. Cardinality(Senders) \in Nat
  <2>1. Senders \subseteq Stones
    BY DEF Senders
  <2> QED BY <1>1, <2>1, FS_Subset, FS_CardinalityType
<1>7. inPlay = Cardinality(Waiting) + Cardinality(Senders)
  BY DEF IInv, ItemInv
<1>8. \A a \in Nat, b \in Nat : a # 0 => a + b > 0
  OBVIOUS
<1> QED BY <1>2, <1>4, <1>5, <1>6, <1>7, <1>8

LEMMA ReplaceLoop ==
  ASSUME IInv, WatchInv, NEW t \in Threads, At(t, "loop"), Replace(t, Loop),
         UNCHANGED <<program, tasks>>
  PROVE  WatchInv'
<1>1. PICK n : n = Len(stack[t])
  OBVIOUS
<1>2. /\ Peaceful /\ n \in Nat \ {0} /\ n > 0 /\ stack[t] # <<>> /\ StackTypes
  BY <1>1, AtWatch
<1>3. Now(t, n, Loop)
  BY <1>1, <1>2, StackShapes
<1>4. \A s, h : Cares(Loop, s, h)
  BY LoopType DEF Cares, CaresAll
<1>5. Loop.op \notin {"split", "overflow", "drain"}
  BY LoopType
<1> QED BY <1>2, <1>3, <1>4, <1>5, NowWatch

LEMMA LoopWatch ==
  ASSUME IInv, WatchInv, NEW t \in Threads, LoopActive(t) \/ LoopScan(t) \/ LoopEnd(t)
  PROVE  WatchInv'
<1>1. At(t, "loop") /\ UNCHANGED <<program, tasks, queue, frozen, draining>>
  BY DEF LoopActive, LoopScan, LoopEnd, queueVars, stoneVars, envVars
<1>2. PICK n : n = Len(stack[t])
  OBVIOUS
<1>3. /\ Peaceful /\ n \in Nat \ {0} /\ n > 0 /\ Top(t) = stack[t][n] /\ Top(t) \in FrameSet
      /\ Top(t).op = "loop" /\ stack[t] # <<>> /\ StackTypes
  BY <1>1, <1>2, AtWatch
<1>4. PICK b : b = Top(t)
  OBVIOUS
<1>5. b \in FrameSet /\ b.op = "loop" /\ b.at \in {"active", "scan"} /\ b.stone \in Nat
  BY <1>3, <1>4 DEF FrameSet
<1>6. CASE LoopActive(t)
  <2>1. b.at = "active"
    BY <1>4, <1>6 DEF LoopActive
  <2>2. CASE b.more /\ lastActive # None
    <3>1. PICK f : f = [b EXCEPT !.more = FALSE]
      OBVIOUS
    <3>2. f.op = "loop" /\ f.at = "active"
      BY <1>5, <2>1, <3>1 DEF FrameSet
    <3>3. ConsiderStone(t, lastActive, "items", f)
      BY <1>4, <1>6, <2>2, <3>1 DEF LoopActive
    <3>4. \A s, h : Cares(f, s, h)
      BY <3>2 DEF Cares, CaresAll
    <3> QED BY <1>1, <3>2, <3>3, <3>4, ConsiderWatch
  <2>3. CASE ~(b.more /\ lastActive # None)
    <3>1. PICK k : k = IF inPlay > 0 THEN 1 ELSE Cardinality(Stones) + 1
      OBVIOUS
    <3>2. PICK f : f = [b EXCEPT !.at = "scan", !.more = FALSE, !.stone = k]
      OBVIOUS
    <3>3. f.op = "loop" /\ f.stone = k
      BY <1>5, <3>2 DEF FrameSet
    <3>4. Now(t, n, f)
      <4>1. Replace(t, f)
        BY <1>4, <1>6, <2>3, <3>1, <3>2 DEF LoopActive
      <4> QED BY <1>2, <1>3, <4>1, StackShapes
    <3>5. ASSUME NEW s \in Stones, Needs(s)' PROVE Cares(f, s, Head(queue'[s]))
      <4>1. queue[s] # <<>>
        BY <1>1, <3>5 DEF Needs
      <4>2. k = 1
        BY <3>1, <4>1, NeedsPlay
      <4>3. s \in Nat \ {0}
        BY ProgramFacts DEF IInv, Types
      <4>4. 1 \in 1 .. s
        BY <4>3
      <4> QED BY <3>3, <4>2, <4>4 DEF Cares
    <3>6. f.op \notin {"split", "overflow", "drain"}
      BY <3>3
    <3> QED BY <1>3, <3>4, <3>5, <3>6, NowWatch
  <2> QED BY <2>2, <2>3
<1>7. CASE LoopScan(t)
  <2>1. b.at = "scan"
    BY <1>4, <1>7 DEF LoopScan
  <2>2. CASE b.more /\ lastActive # None
    <3>1. Replace(t, Loop)
      BY <1>4, <1>7, <2>2 DEF LoopScan
    <3> QED BY <1>1, <3>1, ReplaceLoop
  <2>3. CASE ~(b.more /\ lastActive # None)
    <3>1. PICK f, class : /\ f = [b EXCEPT !.stone = @ + 1]
                          /\ class = IF sending[Top(t).stone] THEN "pending" ELSE "items"
      OBVIOUS
    <3>2. /\ f.op = "loop" /\ f.stone = b.stone + 1 /\ f.more = b.more
      BY <1>5, <3>1 DEF FrameSet
    <3>3. b.stone \in Stones /\ ConsiderStone(t, b.stone, class, f)
      BY <1>4, <1>7, <2>3, <3>1 DEF LoopScan
    <3>4. ASSUME NEW s \in Stones, NEW h, Cares(Top(t), s, h), s # b.stone
          PROVE  Cares(f, s, h)
      <4>1. CASE b.more
        BY <3>2, <4>1 DEF Cares, CaresAll
      <4>2. CASE ~b.more
        <5>1. b.stone \in 1 .. s /\ s \in Nat
          BY <1>4, <1>5, <2>1, <3>4, <4>2, ProgramFacts DEF Cares, CaresAll, IInv, Types
        <5>2. b.stone + 1 \in 1 .. s
          BY <3>4, <5>1
        <5> QED BY <3>2, <5>2 DEF Cares
      <4> QED BY <4>1, <4>2
    <3> QED BY <1>1, <3>2, <3>3, <3>4, ConsiderWatch
  <2> QED BY <2>2, <2>3
<1>8. CASE LoopEnd(t)
  <2>1. b.at = "scan" /\ b.stone \notin Stones
    BY <1>4, <1>8 DEF LoopEnd
  <2>2. CASE b.more
    <3>1. Replace(t, Loop)
      BY <1>4, <1>8, <2>2 DEF LoopEnd
    <3> QED BY <1>1, <3>1, ReplaceLoop
  <2>3. CASE ~b.more
    <3>1. Left(t, n)
      <4>1. Return(t)
        BY <1>4, <1>8, <2>3 DEF LoopEnd
      <4> QED BY <1>2, <1>3, <4>1, StackShapes
    <3>2. ASSUME NEW s \in Stones, Needs(s)'
          PROVE  SameHead(s) /\ ~Cares(stack[t][n], s, Head(queue[s]))
      <4>1. SameHead(s)
        BY <1>1, <3>2, HeadsStay
      <4>2. b.stone \notin 1 .. s
        <5>1. Stones = 1 .. Len(Action) /\ Len(Action) \in Nat
          BY ProgramFacts DEF IInv, Types
        <5>2. \A a \in Nat : \A x \in 1 .. a : 1 .. x \subseteq 1 .. a
          OBVIOUS
        <5> QED BY <2>1, <5>1, <5>2
      <4>3. ~Cares(b, s, Head(queue[s]))
        BY <1>5, <2>1, <2>3, <4>2 DEF Cares, CaresAll
      <4> QED BY <1>3, <1>4, <4>1, <4>3
    <3> QED BY <1>2, <1>3, <3>1, <3>2, LeftWatch
  <2> QED BY <2>2, <2>3
<1> QED BY <1>6, <1>7, <1>8

(* The loop over the items of a stone ends.                                 *)
LEMMA ItemsEndWatch ==
  ASSUME IInv, WatchInv, NEW t \in Threads, ItemsEnd(t)
  PROVE  WatchInv'
<1>1. At(t, "stone") /\ UNCHANGED <<program, tasks, queue, frozen, draining>>
  BY DEF ItemsEnd, queueVars, stoneVars, envVars
<1>2. PICK n : n = Len(stack[t])
  OBVIOUS
<1>3. /\ Peaceful /\ n \in Nat \ {0} /\ Top(t) = stack[t][n] /\ Top(t) \in FrameSet
      /\ Top(t).op = "stone" /\ stack[t] # <<>> /\ StackTypes /\ On(Top(t), n, stack[t][n - 1])
  BY <1>1, <1>2, AtWatch
<1>4. n > 1 /\ stack[t][n - 1].op = "loop"
  BY <1>3 DEF On
<1>5. PICK a, b : a = Top(t) /\ b = stack[t][n - 1]
  OBVIOUS
<1>6. /\ b \in FrameSet /\ b.op = "loop" /\ b.more \in BOOLEAN
      /\ a.op = "stone" /\ a.more \in BOOLEAN /\ a.stone \in Stones
  <2>1. stack[t][n - 1] \in FrameSet
    BY <1>2, <1>4, BelowTop DEF IInv, Types
  <2> QED BY <1>3, <1>4, <1>5, <2>1 DEF FrameSet
<1>7. PICK f : f = [b EXCEPT !.more = @ \/ a.more]
  OBVIOUS
<1>8. /\ f.op = "loop" /\ f.at = b.at /\ f.stone = b.stone
      /\ f.more = (b.more \/ a.more)
  BY <1>6, <1>7 DEF FrameSet
<1>9. Now(t, n - 1, f)
  <2>1. Last(Below(t)) = b
    <3>1. stack \in [Threads -> Seq(FrameSet)]
      BY <1>3 DEF StackTypes
    <3>2. Last(Front(stack[t])) = stack[t][Len(stack[t]) - 1]
      BY <1>2, <1>4, <1>6, <3>1, ReturnTo
    <3> QED BY <1>2, <1>5, <3>2 DEF Below
  <2>2. stack' = [stack EXCEPT ![t] = Append(Front(Front(@)), f)]
    BY <1>5, <1>7, <2>1 DEF ItemsEnd, ReturnMore
  <2> QED BY <1>2, <1>3, <1>4, <2>2, StackShapes
<1>10. ASSUME NEW s \in Stones, Needs(s)'
       PROVE  Cares(f, s, Head(queue'[s])) \/ (SameHead(s) /\ Uncaring(t, n - 1, s))
  <2>1. SameHead(s)
    BY <1>1, <1>10, HeadsStay
  <2>2. PICK h : h = Head(queue[s])
    OBVIOUS
  <2>3. Cares(b, s, h) => Cares(f, s, h)
    BY <1>6, <1>8 DEF Cares, CaresAll
  <2>4. Cares(a, s, h) => Cares(f, s, h)
    <3>1. CASE a.more
      BY <1>6, <1>8, <3>1 DEF Cares, CaresAll
    <3>2. CASE ~a.more
      <4>1. ~(a.stone = s /\ a.item = h)
        <5>1. h \in 1 .. Len(items) /\ ~frozen[s] /\ draining[s] = 0
          BY <2>1, <2>2, NeedsPlay DEF SameHead, Needs
        <5>2. a.item = None \/ Stops(a.stone)
          BY <1>5 DEF ItemsEnd
        <5>3. None \notin 1 .. Len(items)
          BY DEF None
        <5> QED BY <5>1, <5>2, <5>3 DEF Stops
      <4> QED BY <1>6, <3>2, <4>1 DEF Cares, CaresAll
    <3> QED BY <3>1, <3>2
  <2>5. Cares(a, s, h) \/ Cares(b, s, h) \/ Uncaring(t, n - 1, s)
    <3>1. \A i \in 1 .. n : i >= n - 1 => i = n \/ i = n - 1
      BY <1>3
    <3> QED BY <1>2, <1>3, <1>5, <2>2, <3>1 DEF Uncaring
  <2> QED BY <2>1, <2>2, <2>3, <2>4, <2>5 DEF SameHead
<1>11. n - 1 \in Nat \ {0} /\ f.op \notin {"split", "overflow", "drain"}
  BY <1>3, <1>4, <1>8
<1> QED BY <1>3, <1>9, <1>10, <1>11, NowWatch

LEMMA ItemGoneWatch ==
  ASSUME IInv, WatchInv, NEW t \in Threads, ItemGone(t)
  PROVE  WatchInv'
<1>1. At(t, "stone") /\ UNCHANGED <<program, tasks, queue, frozen, draining>>
  BY DEF ItemGone, AtItem, queueVars, stoneVars, envVars
<1>2. PICK n : n = Len(stack[t])
  OBVIOUS
<1>3. /\ Peaceful /\ n \in Nat \ {0} /\ Top(t) \in FrameSet /\ stack[t] # <<>> /\ StackTypes
  BY <1>1, <1>2, AtWatch
<1>4. PICK f : f = [Top(t) EXCEPT !.op = "crashed"]
  OBVIOUS
<1>5. f.op = "crashed"
  BY <1>3, <1>4 DEF FrameSet
<1>6. Now(t, n, f)
  <2>1. Replace(t, f)
    BY <1>4 DEF ItemGone
  <2> QED BY <1>2, <1>3, <2>1, StackShapes
<1>7. \A s, h : Cares(f, s, h)
  BY <1>5 DEF Cares, CaresAll
<1>8. f.op \notin {"split", "overflow", "drain"}
  BY <1>5
<1> QED BY <1>3, <1>6, <1>7, <1>8, NowWatch

(* An item is taken out of the queue: the call that took it goes on behind. *)
LEMMA AdvanceWatch ==
  ASSUME IInv, NEW t \in Threads, NEW K, AtItem(t, K), Queued(t),
         queue' = [queue EXCEPT ![Top(t).stone] = RemoveFirst(@, Top(t).item)],
         UNCHANGED <<frozen, draining>>, NEW s \in Stones, Needs(s)'
  PROVE  \/ Cares(Advance(t), s, Head(queue'[s]))
         \/ SameHead(s) /\ ~Cares(Top(t), s, Head(queue[s]))
<1>1. PICK r, i : r = Top(t).stone /\ i = Top(t).item
  OBVIOUS
<1>2. /\ Top(t) \in FrameSet /\ Top(t).op = "stone" /\ r \in Stones /\ Waits(r, i)
  BY <1>1, AtItemFacts
<1>3. PICK a, f : a = Top(t) /\ f = Advance(t)
  OBVIOUS
<1>4. /\ f.op = "stone" /\ f.stone = r /\ f.item = Behind(r, i) /\ f.more = a.more
  BY <1>1, <1>2, <1>3 DEF Advance, FrameSet
<1>5. queue \in [Stones -> Seq(1 .. Len(items))] /\ Once(queue[r])
  BY <1>2 DEF IInv, Types, QueueTypes, ItemInv, OnePlace
<1>6. /\ queue'[r] = RemoveFirst(queue[r], i) /\ \A u \in Stones : u # r => queue'[u] = queue[u]
  BY <1>1, <1>2, <1>5
<1>7. CASE a.more
  <2>1. CaresAll(f)
    BY <1>4, <1>7 DEF CaresAll
  <2> QED BY <1>3, <2>1 DEF Cares
<1>8. CASE ~a.more /\ s # r
  <2>1. queue'[s] = queue[s]
    BY <1>6, <1>8
  <2>2. SameHead(s)
    BY <2>1 DEF SameHead, Needs
  <2>3. ~Cares(a, s, Head(queue[s]))
    BY <1>1, <1>2, <1>3, <1>8 DEF Cares, CaresAll
  <2> QED BY <1>3, <2>2, <2>3
<1>9. CASE ~a.more /\ s = r
  <2>1. PICK q : q = queue[s]
    OBVIOUS
  <2>2. q \in Seq(1 .. Len(items)) /\ Once(q) /\ InList(q, i) /\ RemoveFirst(q, i) # <<>>
    BY <1>2, <1>5, <1>6, <1>9, <2>1 DEF Waits, Needs
  <2>3. PICK p : p = SelectInSeq(q, LAMBDA j : j = i)
    OBVIOUS
  <2>4. /\ q # <<>>
        /\ Head(q) = i => p # Len(q) /\ Head(RemoveFirst(q, i)) = q[p + 1]
        /\ Head(q) # i => Head(RemoveFirst(q, i)) = Head(q)
    BY <2>2, <2>3, NextHead
  <2>5. CASE Head(q) = i
    <3>1. f.item = q[p + 1]
      BY <1>4, <1>9, <2>1, <2>3, <2>4, <2>5 DEF Behind
    <3>2. f.item = Head(queue'[s])
      BY <1>6, <1>9, <2>1, <2>4, <2>5, <3>1
    <3> QED BY <1>3, <1>4, <1>9, <3>2 DEF Cares
  <2>6. CASE Head(q) # i
    <3>1. Head(queue'[s]) = Head(queue[s]) /\ queue[s] # <<>>
      BY <1>6, <1>9, <2>1, <2>4, <2>6
    <3>2. SameHead(s)
      BY <3>1 DEF SameHead, Needs
    <3>3. ~Cares(a, s, Head(queue[s]))
      BY <1>1, <1>2, <1>3, <1>9, <2>1, <2>6 DEF Cares, CaresAll
    <3> QED BY <1>3, <3>2, <3>3
  <2> QED BY <2>5, <2>6
<1> QED BY <1>7, <1>8, <1>9, <1>2, <1>3 DEF FrameSet

LEMMA TakeWatch ==
  ASSUME IInv, WatchInv, NEW t \in Threads, HandlerStart(t) \/ SplitStart(t) \/ StoreEvent(t)
  PROVE  WatchInv'
<1>1. PICK K : AtItem(t, K)
  BY DEF HandlerStart, SplitStart, StoreEvent
<1>2. /\ Queued(t) /\ UNCHANGED <<program, tasks, frozen, draining>>
      /\ queue' = [queue EXCEPT ![Top(t).stone] = RemoveFirst(@, Top(t).item)]
  BY DEF HandlerStart, SplitStart, StoreEvent, Dequeue, stoneVars, envVars
<1>3. PICK n : n = Len(stack[t])
  OBVIOUS
<1>4. /\ Peaceful /\ n \in Nat \ {0} /\ Top(t) = stack[t][n] /\ Top(t) \in FrameSet
      /\ stack[t] # <<>> /\ StackTypes
  <2>1. At(t, "stone")
    BY <1>1 DEF AtItem
  <2> QED BY <1>2, <1>3, <2>1, AtWatch
<1>5. PICK a : a = Advance(t)
  OBVIOUS
<1>6. a \in FrameSet /\ a.op = "stone" /\ a.stone = Top(t).stone
  BY <1>1, <1>2, <1>5, AtItemFacts
<1>7. ASSUME NEW s \in Stones, Needs(s)'
      PROVE  Cares(a, s, Head(queue'[s])) \/ (SameHead(s) /\ Uncaring(t, n, s))
  <2>1. \/ Cares(a, s, Head(queue'[s]))
        \/ SameHead(s) /\ ~Cares(Top(t), s, Head(queue[s]))
    BY <1>1, <1>2, <1>5, <1>7, AdvanceWatch
  <2> QED BY <1>3, <1>4, <2>1, TopCares
<1>8. CASE HandlerStart(t)
  <2>1. PICK g : g = Frame("handler", IF appMem[items[Top(t).item]] THEN "app" ELSE "own",
                           Top(t).stone, items[Top(t).item], None, FALSE)
    OBVIOUS
  <2>2. g.op = "handler"
    BY <2>1 DEF Frame
  <2>3. Deeper(t, n, a, g)
    <3>1. Pushes(t, a, g)
      BY <1>5, <1>8, <2>1 DEF HandlerStart, Pushes
    <3> QED BY <1>3, <1>4, <3>1, StackShapes
  <2>4. a.op \notin {"split", "overflow", "drain"} /\ Forwards(g, a)
    BY <1>6, <2>2 DEF Forwards
  <2> QED BY <1>4, <1>7, <2>3, <2>4, DeeperWatch
<1>9. CASE SplitStart(t)
  <2>1. PICK f, g : /\ f = [a EXCEPT !.more = @ \/ Outputs[Top(t).stone] # <<>>]
                    /\ g = Frame("split", "none", Top(t).stone, items[Top(t).item], 1, FALSE)
    OBVIOUS
  <2>2. /\ g.op = "split" /\ g.stone = Top(t).stone
        /\ f.op = "stone" /\ f.stone = a.stone /\ f.item = a.item
        /\ f.more = (a.more \/ Outputs[Top(t).stone] # <<>>)
    BY <1>6, <2>1 DEF Frame, FrameSet
  <2>3. Deeper(t, n, f, g)
    <3>1. Pushes(t, f, g)
      BY <1>5, <1>9, <2>1 DEF SplitStart, Pushes
    <3> QED BY <1>3, <1>4, <3>1, StackShapes
  <2>4. f.op \notin {"split", "overflow", "drain"} /\ Forwards(g, f)
    BY <2>2 DEF Forwards
  <2>5. \A s, h : Cares(a, s, h) => Cares(f, s, h)
    BY <1>6, <2>2 DEF Cares, CaresAll
  <2> QED BY <1>4, <1>7, <2>3, <2>4, <2>5, DeeperWatch
<1>10. CASE StoreEvent(t)
  <2>1. CASE OverLimit(Top(t).stone)
    <3>1. PICK f, g : /\ f = [a EXCEPT !.more = TRUE]
                      /\ g = Frame("overflow", "none", Top(t).stone, None, None, FALSE)
      OBVIOUS
    <3>2. g.op = "overflow" /\ f.op = "stone" /\ f.more = TRUE
      BY <1>6, <3>1 DEF Frame, FrameSet
    <3>3. Deeper(t, n, f, g)
      <4>1. Pushes(t, f, g)
        BY <1>5, <1>10, <2>1, <3>1 DEF StoreEvent, Pushes
      <4> QED BY <1>3, <1>4, <4>1, StackShapes
    <3>4. f.op \notin {"split", "overflow", "drain"} /\ Forwards(g, f)
      BY <3>2 DEF Forwards
    <3>5. \A s, h : Cares(f, s, h)
      BY <3>2 DEF Cares, CaresAll
    <3> QED BY <1>4, <3>3, <3>4, <3>5, DeeperWatch
  <2>2. CASE ~OverLimit(Top(t).stone)
    <3>1. Now(t, n, a)
      <4>1. Replace(t, a)
        BY <1>5, <1>10, <2>2 DEF StoreEvent
      <4> QED BY <1>3, <1>4, <4>1, StackShapes
    <3>2. a.op \notin {"split", "overflow", "drain"}
      BY <1>6
    <3> QED BY <1>4, <1>7, <3>1, <3>2, NowWatch
  <2> QED BY <2>1, <2>2
<1> QED BY <1>8, <1>9, <1>10

(* A call returns that saw to no stone, or to a loop that goes round again. *)
LEMMA ReturnWatch ==
  ASSUME IInv, WatchInv, NEW t \in Threads, NEW op, At(t, op), Return(t),
         UNCHANGED <<program, tasks>>, NEW n, n = Len(stack[t]),
         \/ op \notin {"loop", "stone", "crashed"} /\ UNCHANGED <<queue, frozen, draining>>
         \/ n > 1 /\ CaresAll(stack[t][n - 1])
  PROVE  WatchInv'
<1>1. /\ Peaceful /\ n \in Nat \ {0} /\ n > 0 /\ Top(t) = stack[t][n] /\ Top(t).op = op
      /\ stack[t] # <<>> /\ StackTypes
  BY AtWatch
<1>2. Left(t, n)
  BY <1>1, StackShapes
<1>3. ASSUME NEW s \in Stones, Needs(s)'
      PROVE  \/ n > 1 /\ CaresAll(stack[t][n - 1])
             \/ SameHead(s) /\ ~Cares(stack[t][n], s, Head(queue[s]))
  <2>1. CASE op \notin {"loop", "stone", "crashed"} /\ UNCHANGED <<queue, frozen, draining>>
    <3>1. SameHead(s)
      BY <1>3, <2>1, HeadsStay
    <3>2. ~Cares(stack[t][n], s, Head(queue[s]))
      BY <1>1, <2>1 DEF Cares, CaresAll
    <3> QED BY <3>1, <3>2
  <2> QED BY <2>1
<1> QED BY <1>1, <1>2, <1>3, LeftWatch

LEMMA LoopCares == \A s, h : Cares(Loop, s, h)
BY LoopType DEF Cares, CaresAll

LEMMA HandlerWatch ==
  ASSUME IInv, WatchInv, NEW t \in Threads, HandlerReturn(t)
  PROVE  WatchInv'
<1>1. At(t, "handler") /\ UNCHANGED <<program, tasks, frozen, draining>>
  BY DEF HandlerReturn, envVars
<1>2. PICK n : n = Len(stack[t])
  OBVIOUS
<1>3. /\ Peaceful /\ n \in Nat \ {0} /\ Top(t) = stack[t][n] /\ Top(t).op = "handler"
      /\ stack[t] # <<>> /\ StackTypes /\ On(Top(t), n, stack[t][n - 1])
  BY <1>1, <1>2, AtWatch
<1>4. CASE Return(t) /\ UNCHANGED <<queueVars, loopVars>>
  <2>1. UNCHANGED <<queue, frozen, draining>>
    BY <1>1, <1>4 DEF queueVars
  <2> QED BY <1>1, <1>2, <1>4, <2>1, ReturnWatch
<1>5. CASE stack' = [stack EXCEPT ![t] =
             Append(Front(Front(@)), [Last(Front(@)) EXCEPT !.more = TRUE])]
  <2>1. n > 1 /\ stack[t][n - 1].op = "stone"
    BY <1>3 DEF On
  <2>2. stack[t][n - 1] \in FrameSet
    BY <1>2, <2>1, BelowTop DEF IInv, Types
  <2>3. Last(Front(stack[t])) = stack[t][n - 1]
    <3>1. stack \in [Threads -> Seq(FrameSet)]
      BY <1>3 DEF StackTypes
    <3>2. Last(Front(stack[t])) = stack[t][Len(stack[t]) - 1]
      BY <1>2, <2>1, <2>2, <3>1, ReturnTo
    <3> QED BY <1>2, <3>2
  <2>4. PICK f : f = [stack[t][n - 1] EXCEPT !.more = TRUE]
    OBVIOUS
  <2>5. f.op = "stone" /\ f.more = TRUE
    BY <2>1, <2>2, <2>4 DEF FrameSet
  <2>6. Now(t, n - 1, f)
    <3>1. stack' = [stack EXCEPT ![t] = Append(Front(Front(@)), f)]
      BY <1>5, <2>3, <2>4
    <3> QED BY <1>2, <1>3, <2>1, <3>1, StackShapes
  <2>7. n - 1 \in Nat \ {0} /\ f.op \notin {"split", "overflow", "drain"} /\ \A s, h : Cares(f, s, h)
    BY <1>3, <2>1, <2>5 DEF Cares, CaresAll
  <2> QED BY <1>3, <2>6, <2>7, NowWatch
<1> QED BY <1>4, <1>5 DEF HandlerReturn

LEMMA OutputWatch ==
  ASSUME IInv, WatchInv, NEW t \in Threads, SplitOutput(t) \/ StoreOverflow(t)
  PROVE  WatchInv'
<1>1. PICK op \in {"split", "overflow"} : At(t, op)
  BY DEF SplitOutput, StoreOverflow
<1>2. UNCHANGED <<program, tasks, frozen, draining>>
  BY DEF SplitOutput, StoreOverflow, stoneVars, envVars
<1>3. PICK n : n = Len(stack[t])
  OBVIOUS
<1>4. /\ Peaceful /\ n \in Nat \ {0} /\ Top(t) = stack[t][n] /\ Top(t).op = op /\ Top(t) \in FrameSet
      /\ stack[t] # <<>> /\ StackTypes /\ On(Top(t), n, stack[t][n - 1])
      /\ Forwards(Top(t), stack[t][n - 1])
  BY <1>1, <1>2, <1>3, AtWatch
<1>5. n > 1 /\ stack[t][n - 1].op = "stone"
  BY <1>1, <1>4 DEF On
<1>6. CASE StoreOverflow(t)
  <2>1. Return(t) /\ At(t, "overflow")
    BY <1>6 DEF StoreOverflow
  <2>2. Top(t).op = "overflow"
    BY <2>1 DEF At
  <2>3. CaresAll(stack[t][n - 1])
    BY <1>4, <1>5, <2>2 DEF Forwards, CaresAll
  <2> QED BY <1>2, <1>3, <1>5, <2>1, <2>3, ReturnWatch
<1>7. CASE SplitOutput(t)
  <2>1. At(t, "split")
    BY <1>7 DEF SplitOutput
  <2>2. PICK s, k : s = Top(t).stone /\ k = Top(t).item
    OBVIOUS
  <2>3. Top(t).op = "split" /\ s \in Stones /\ k \in Nat \ {0}
    BY <1>4, <2>1, <2>2 DEF At, FrameSet
  <2>4. CASE k > Len(Outputs[s])
    <3>1. Return(t) /\ UNCHANGED queue
      BY <1>7, <2>2, <2>4 DEF SplitOutput, queueVars
    <3> QED BY <1>2, <1>3, <2>1, <3>1, ReturnWatch
  <2>5. CASE ~(k > Len(Outputs[s]))
    <3>1. PICK f : f = [Top(t) EXCEPT !.item = @ + 1]
      OBVIOUS
    <3>2. f.op = "split" /\ f.stone = s
      BY <1>4, <2>2, <2>3, <3>1 DEF FrameSet
    <3>3. Now(t, n, f)
      <4>1. Replace(t, f)
        BY <1>7, <2>2, <2>5, <3>1 DEF SplitOutput
      <4> QED BY <1>3, <1>4, <4>1, StackShapes
    <3>4. Outputs[s] # <<>>
      <4>1. Outputs[s] \in Seq(Stones)
        BY <2>3, ProgramFacts DEF IInv, Types
      <4>2. Len(Outputs[s]) # 0
        BY <2>3, <2>5, <4>1, LenProperties
      <4> QED BY <4>1, <4>2, EmptySeq
    <3>5. CaresAll(stack[t][n - 1]) /\ Forwards(f, stack[t][n - 1])
      <4>1. stack[t][n - 1].more
        BY <1>4, <2>2, <2>3, <3>4 DEF Forwards
      <4> QED BY <1>5, <3>2, <4>1 DEF CaresAll, Forwards
    <3> QED BY <1>4, <1>5, <3>3, <3>5, NowWatch
  <2> QED BY <2>4, <2>5
<1> QED BY <1>6, <1>7

(* Calls that run the loop, and the return from them.                       *)
LEMMA StoreCallWatch ==
  ASSUME IInv, WatchInv, NEW t \in Threads,
         SubmitReturn(t) \/ TaskReturn(t) \/ SendStoredNext(t) \/ SetStoreLimitNext(t)
  PROVE  WatchInv'
<1>1. PICK op \in {"submit", "task", "send", "limit"} : At(t, op)
  BY DEF SubmitReturn, TaskReturn, SendStoredNext, SetStoreLimitNext
<1>2. UNCHANGED <<program, tasks, frozen, draining>>
  BY DEF SubmitReturn, TaskReturn, SendStoredNext, SetStoreLimitNext, stoneVars, envVars
<1>3. PICK n : n = Len(stack[t])
  OBVIOUS
<1>4. /\ Peaceful /\ n \in Nat \ {0} /\ Top(t) = stack[t][n] /\ Top(t).op = op /\ Top(t) \in FrameSet
      /\ stack[t] # <<>> /\ StackTypes
  BY <1>1, <1>2, <1>3, AtWatch
<1>5. PICK s, e : s = Top(t).stone /\ e = Top(t).event
  OBVIOUS
<1>6. PICK g : g = [Top(t) EXCEPT !.event = items[Head(store[s])]]
  OBVIOUS
<1>7. (Return(t) /\ UNCHANGED queue) \/ Call(t, <<Loop>>) \/ Pushes(t, g, Loop)
  BY <1>5, <1>6 DEF SubmitReturn, TaskReturn, SendStoredNext, SetStoreLimitNext, queueVars, Pushes
<1>8. CASE Return(t) /\ UNCHANGED queue
  BY <1>1, <1>2, <1>3, <1>8, ReturnWatch
<1>9. CASE Call(t, <<Loop>>)
  <2>1. Now(t, n + 1, Loop)
    BY <1>3, <1>4, <1>9, StackShapes
  <2>2. n + 1 \in Nat \ {0} /\ Loop.op \notin {"split", "overflow", "drain"}
    BY <1>4, LoopType
  <2> QED BY <1>4, <2>1, <2>2, LoopCares, NowWatch
<1>10. CASE Pushes(t, g, Loop)
  <2>1. Deeper(t, n, g, Loop)
    BY <1>3, <1>4, <1>10, StackShapes
  <2>2. g.op \notin {"split", "overflow", "drain"}
    BY <1>4, <1>6 DEF FrameSet
  <2>3. Forwards(Loop, g)
    BY LoopType DEF Forwards
  <2> QED BY <1>4, <2>1, <2>2, <2>3, LoopCares, DeeperWatch
<1> QED BY <1>7, <1>8, <1>9, <1>10

LEMMA SubmitWatch ==
  ASSUME IInv, WatchInv, NEW t \in Threads, NEW s,
         (\E k : Submit(t, s, k)) \/ (t = Server /\ NetworkSubmit(s))
  PROVE  WatchInv'
<1>1. PICK f : f.op \in {"submit", "task"} /\ Call(t, <<f, Loop>>)
  <2>1. CASE \E k : Submit(t, s, k)
    <3>1. PICK g : g = Frame("submit", "none", s, Len(origin) + 1, None, FALSE)
      OBVIOUS
    <3>2. g.op = "submit"
      BY <3>1 DEF Frame
    <3>3. Call(t, <<g, Loop>>)
      BY <2>1, <3>1 DEF Submit
    <3> QED BY <3>2, <3>3
  <2>2. CASE t = Server /\ NetworkSubmit(s)
    <3>1. PICK g : g = Frame("task", "none", s, None, None, FALSE)
      OBVIOUS
    <3>2. g.op = "task"
      BY <3>1 DEF Frame
    <3>3. Call(t, <<g, Loop>>)
      BY <2>2, <3>1 DEF NetworkSubmit
    <3> QED BY <3>2, <3>3
  <2> QED BY <2>1, <2>2
<1>2. UNCHANGED <<program, tasks>>
  BY DEF Submit, NetworkSubmit, envVars
<1>3. PICK n : n = Len(stack[t])
  OBVIOUS
<1>4. f.op \notin {"split", "overflow", "drain"}
  BY <1>1
<1>5. Deeper(t, n + 1, f, Loop) /\ n \in Nat
  <2>1. StackTypes
    BY DEF IInv, Types
  <2> QED BY <1>1, <1>3, <2>1, StackShapes
<1>6. Forwards(Loop, f)
  BY LoopType DEF Forwards
<1>7. Peaceful /\ n + 1 \in Nat \ {0}
  BY <1>2, <1>5 DEF Peaceful, IInv
<1> QED BY <1>4, <1>5, <1>6, <1>7, LoopCares, DeeperWatch

LEMMA TaskWatch ==
  ASSUME IInv, WatchInv, DeferredActions
  PROVE  WatchInv'
<1>1. PICK f, n : f = Frame("task", "none", 1, None, None, FALSE) /\ n = Len(stack[Server])
  OBVIOUS
<1>2. Server \in Threads /\ Call(Server, <<f, Loop>>) /\ UNCHANGED program /\ StackTypes /\ Nested
  BY <1>1 DEF DeferredActions, Threads, IInv, Types
<1>3. Deeper(Server, n + 1, f, Loop) /\ n \in Nat
  BY <1>1, <1>2, StackShapes
<1>4. n + 1 - 1 = n /\ n + 1 + 1 = n + 2 /\ n + 2 - 1 = n + 1 /\ n + 2 \in 1 .. n + 2
      /\ \A d \in 1 .. n + 2 : d > n => d = n + 1 \/ d = n + 2
  BY <1>3
<1>5. /\ Leaves(Server, n) /\ Len(stack'[Server]) = n + 2
      /\ stack'[Server][n + 1] = f /\ stack'[Server][n + 2] = Loop
  BY <1>3, <1>4 DEF Deeper
<1>6. CareInv'
  <2>1. \A s, h : Cares(stack'[Server][n + 2], s, h)
    BY <1>5, LoopCares
  <2>2. Stones' = Stones /\ Threads' = Threads
    BY <1>2, SameProgram DEF Threads
  <2> QED BY <1>2, <1>4, <1>5, <2>1, <2>2 DEF CareInv
<1>7. MoreInv'
  <2>1. f.op = "task" /\ Loop.op = "loop"
    BY <1>1, LoopType DEF Frame
  <2>2. \A b : Forwards(f, b) /\ Forwards(Loop, b)
    BY <2>1 DEF Forwards
  <2>3. \A d \in 1 .. Len(stack'[Server]) : d > n =>
          Forwards(stack'[Server][d], stack'[Server][d - 1])
    BY <1>4, <1>5, <2>2
  <2> QED BY <1>2, <1>5, <2>3, MoreStep DEF WatchInv
<1> QED BY <1>6, <1>7 DEF WatchInv

(* EVdrain_stone takes its stone out of the loop.                           *)
LEMMA DrainWatch ==
  ASSUME IInv, WatchInv, NEW t \in Threads, NEW s, NEW polls, DrainTest(t, s, polls),
         stack[t] = <<>> \/ At(t, "drain"), ~Gentle,
         UNCHANGED <<program, tasks, queue, frozen>>
  PROVE  WatchInv'
<1>1. /\ StackTypes /\ Nested /\ tasks \in Nat /\ draining \in [Stones -> 0 .. 2]
      /\ stack \in [Threads -> Seq(FrameSet)]
  BY DEF IInv, Types, OtherTypes, StoneTypes, StackTypes
<1>2. PICK n : n = Len(stack[t])
  OBVIOUS
<1>3. n \in Nat /\ (n > 0 => n = 1 /\ stack[t][n].op = "drain")
  <2>1. CASE stack[t] = <<>>
    BY <1>2, <2>1
  <2>2. CASE At(t, "drain")
    <3>1. n \in Nat \ {0} /\ stack[t][n].op = "drain" /\ On(stack[t][n], n, stack[t][n - 1])
      BY <1>2, <2>2, InCall
    <3> QED BY <3>1 DEF On
  <2> QED BY <2>1, <2>2
<1>4. PICK f : f = Frame("drain", "none", s, None, polls, FALSE)
  OBVIOUS
<1>5. f.op = "drain"
  BY <1>4 DEF Frame
<1>6. /\ \A u \in Threads : u # t => stack'[u] = stack[u]
      /\ stack'[t] = <<>> \/ stack'[t] = <<f>>
      /\ \A v \in Stones : v # s => draining'[v] = draining[v]
      /\ s \in Stones => draining'[s] # 0
  <2>1. CASE ~Undrained(s)
    <3>1. /\ draining' = [draining EXCEPT ![s] = 2]
          /\ stack' = [stack EXCEPT ![t] = <<>>]
      BY <2>1 DEF DrainTest
    <3> QED BY <1>1, <3>1
  <2>2. CASE Undrained(s)
    <3>1. PICK q : q = IF polls > program.maxPolls THEN <<>> ELSE <<f>>
      OBVIOUS
    <3>2. /\ draining' = [draining EXCEPT ![s] = 1]
          /\ stack' = [stack EXCEPT ![t] = q]
      BY <1>4, <2>2, <3>1 DEF DrainTest
    <3> QED BY <1>1, <3>1, <3>2
  <2> QED BY <2>1, <2>2
<1>7. \A d \in 1 .. Len(stack'[t]) : stack'[t][d].op = "drain"
  BY <1>5, <1>6
<1>8. Leaves(t, 0)
  <2>1. Len(stack'[t]) \in Nat
    BY <1>6
  <2> QED BY <1>2, <1>3, <1>6, <2>1 DEF Leaves
<1>9. ASSUME NEW v \in Stones, Needs(v)'
      PROVE  SameHead(v) /\ Uncaring(t, 0 + 1, v)
  <2>1. v # s
    BY <1>6, <1>9 DEF Needs
  <2>2. SameHead(v)
    BY <1>6, <1>9, <2>1 DEF Needs, SameHead
  <2>3. \A i \in 1 .. Len(stack[t]) : stack[t][i].op = "drain"
    BY <1>2, <1>3
  <2>4. Uncaring(t, 0 + 1, v)
    BY <2>3 DEF Uncaring, Cares, CaresAll
  <2> QED BY <2>2, <2>4
<1>10. CareInv'
  BY <1>1, <1>8, <1>9, WatchStep DEF WatchInv
<1>11. MoreInv'
  <2>1. \A d \in 1 .. Len(stack'[t]) : d > 0 => Forwards(stack'[t][d], stack'[t][d - 1])
    BY <1>7 DEF Forwards
  <2> QED BY <1>1, <1>8, <2>1, MoreStep DEF WatchInv
<1> QED BY <1>10, <1>11 DEF WatchInv

(* In a moderate application nothing is sent from a store in the            *)
(* background, and somebody sees to every stone.                            *)
NoSending == \A s \in Stones : ~sending[s]

QuietInv == Moderate => NoSending /\ WatchInv

LEMMA NoneSends ==
  ASSUME NoSending, UNCHANGED <<program, sending>>
  PROVE  NoSending'
BY SameProgram DEF NoSending

LEMMA RunWatch ==
  ASSUME IInv, NoSending, WatchInv, NEW t \in Threads, Run(t)
  PROVE  NoSending' /\ WatchInv'
<1>1. CASE LoopActive(t) \/ LoopScan(t) \/ LoopEnd(t)
  <2>1. UNCHANGED <<program, sending>>
    BY <1>1 DEF LoopActive, LoopScan, LoopEnd, storeVars
  <2> QED BY <1>1, <2>1, LoopWatch, NoneSends
<1>2. CASE PendingOutput(t)
  <2>1. At(t, "stone") /\ Top(t).at = "pending"
    BY <1>2 DEF PendingOutput
  <2>2. Top(t).stone \in Stones
    <3>1. Top(t) \in FrameSet /\ Top(t).op = "stone"
      BY <2>1, InCall
    <3> QED BY <3>1 DEF FrameSet
  <2>3. SendingNow(Top(t).stone)
    BY <2>1 DEF SendingNow
  <2> QED BY <2>2, <2>3 DEF NoSending, IInv, StoreInv
<1>3. CASE ItemGone(t) \/ ItemsEnd(t)
  <2>1. UNCHANGED <<program, sending>>
    BY <1>3 DEF ItemGone, ItemsEnd, storeVars
  <2> QED BY <1>3, <2>1, ItemGoneWatch, ItemsEndWatch, NoneSends
<1>4. CASE HandlerStart(t) \/ SplitStart(t) \/ StoreEvent(t)
  <2>1. UNCHANGED <<program, sending>>
    BY <1>4 DEF HandlerStart, SplitStart, StoreEvent, storeVars
  <2> QED BY <1>4, <2>1, TakeWatch, NoneSends
<1>5. CASE HandlerReturn(t)
  <2>1. UNCHANGED <<program, sending>>
    BY <1>5 DEF HandlerReturn, storeVars
  <2> QED BY <1>5, <2>1, HandlerWatch, NoneSends
<1>6. CASE SplitOutput(t) \/ StoreOverflow(t)
  <2>1. UNCHANGED <<program, sending>>
    BY <1>6 DEF SplitOutput, StoreOverflow, storeVars
  <2> QED BY <1>6, <2>1, OutputWatch, NoneSends
<1>7. CASE SubmitReturn(t) \/ TaskReturn(t) \/ SendStoredNext(t) \/ SetStoreLimitNext(t)
  <2>1. UNCHANGED <<program, sending>>
    BY <1>7 DEF SubmitReturn, TaskReturn, SendStoredNext, SetStoreLimitNext, storeVars
  <2> QED BY <1>7, <2>1, StoreCallWatch, NoneSends
<1>8. CASE DrainPoll(t)
  <2>1. PICK s, polls : s = Top(t).stone /\ polls = Top(t).item + 1
    OBVIOUS
  <2>2. /\ At(t, "drain") /\ DrainTest(t, s, polls)
        /\ UNCHANGED <<program, tasks, queue, frozen, sending>>
    BY <1>8, <2>1 DEF DrainPoll, queueVars, storeVars, envVars
  <2>3. ~Gentle
    <3>1. Top(t).op = "drain" /\ Forwards(Top(t), stack[t][Len(stack[t]) - 1])
      BY <2>2, AtWatch
    <3> QED BY <3>1 DEF Forwards
  <2> QED BY <2>2, <2>3, DrainWatch, NoneSends
<1>9. CASE DeferredActions
  <2>1. UNCHANGED <<program, sending>>
    BY <1>9 DEF DeferredActions, storeVars
  <2> QED BY <1>9, <2>1, TaskWatch, NoneSends
<1> QED BY <1>1, <1>2, <1>3, <1>4, <1>5, <1>6, <1>7, <1>8, <1>9 DEF Run

LEMMA FreezeWatch ==
  ASSUME IInv, WatchInv, NEW t, NEW s, Freeze(t, s) \/ Unfreeze(t, s)
  PROVE  WatchInv'
<1>1. UNCHANGED <<program, stack, queue, draining>> /\ tasks \in Nat
      /\ frozen \in [Stones -> BOOLEAN]
  BY DEF Freeze, Unfreeze, queueVars, IInv, Types, OtherTypes, StoneTypes
<1>2. Stones' = Stones /\ Threads' = Threads /\ Outputs' = Outputs
  BY <1>1, SameProgram DEF Threads
<1>3. MoreInv'
  BY <1>1, <1>2 DEF WatchInv, MoreInv, Forwards, Gentle
<1>4. CASE Unfreeze(t, s)
  <2>1. tasks' > 0
    BY <1>1, <1>4 DEF Unfreeze
  <2> QED BY <1>3, <2>1 DEF WatchInv, CareInv
<1>5. CASE Freeze(t, s)
  <2>1. tasks' = tasks /\ \A v \in Stones : Needs(v)' => Needs(v)
    <3>1. tasks' = tasks /\ frozen' = [frozen EXCEPT ![s] = TRUE]
      BY <1>5 DEF Freeze
    <3>2. \A v \in Stones : frozen'[v] = frozen[v] \/ frozen'[v]
      BY <1>1, <3>1
    <3> QED BY <1>1, <3>1, <3>2 DEF Needs
  <2>2. CareInv'
    BY <1>1, <1>2, <2>1 DEF WatchInv, CareInv
  <2> QED BY <1>3, <2>2 DEF WatchInv
<1> QED BY <1>4, <1>5

LEMMA CallWatch ==
  ASSUME IInv, Moderate, NoSending, WatchInv, NEW t \in Threads, NEW s,
         \/ \E k : Submit(t, s, k)
         \/ Freeze(t, s) \/ Unfreeze(t, s) \/ Drain(t, s)
         \/ ClearStored(t, s) \/ SendStored(t, s)
         \/ StoreStartSend(t, s) \/ SetStoreLimit(t, s, 0) \/ \E u : TransferEvents(t, s, u)
         \/ t = Server /\ NetworkSubmit(s)
  PROVE  NoSending' /\ WatchInv'
<1>1. CASE (\E k : Submit(t, s, k)) \/ (t = Server /\ NetworkSubmit(s))
  <2>1. UNCHANGED <<program, sending>>
    BY <1>1 DEF Submit, NetworkSubmit, storeVars
  <2> QED BY <1>1, <2>1, SubmitWatch, NoneSends
<1>2. CASE Freeze(t, s) \/ Unfreeze(t, s)
  <2>1. UNCHANGED <<program, sending>>
    BY <1>2 DEF Freeze, Unfreeze, storeVars
  <2> QED BY <1>2, <2>1, FreezeWatch, NoneSends
<1>3. CASE Drain(t, s)
  <2>1. /\ stack[t] = <<>> /\ DrainTest(t, s, 0)
        /\ UNCHANGED <<program, tasks, queue, frozen, sending>>
    BY <1>3 DEF Drain, queueVars, storeVars
  <2>2. ~Gentle
    BY <1>3 DEF Drain, MayUse, Gentle
  <2> QED BY <2>1, <2>2, DrainWatch, NoneSends
<1>4. CASE \/ ClearStored(t, s) \/ SendStored(t, s) \/ StoreStartSend(t, s)
           \/ SetStoreLimit(t, s, 0) \/ \E u : TransferEvents(t, s, u)
  <2>1. \E c \in {"clear", "send", "startsend", "limit", "transfer"} : c \in program.usage
    BY <1>4 DEF ClearStored, SendStored, StoreStartSend, SetStoreLimit, TransferEvents, MayUse
  <2> QED BY <2>1 DEF Moderate
<1> QED BY <1>1, <1>2, <1>3, <1>4

LEMMA OneProgram == [Next]_vars => UNCHANGED program
<1>1. ASSUME NEW t \in Threads, AppCall(t) PROVE UNCHANGED program
  BY <1>1 DEF AppCall, Submit, Freeze, Unfreeze, Drain, ClearStored, SendStored, StoreStartSend,
              SetStoreLimit, TransferEvents
<1>2. ASSUME NEW t \in Threads, Run(t) PROVE UNCHANGED program
  <2>1. CASE LoopActive(t) \/ LoopScan(t) \/ LoopEnd(t) \/ PendingOutput(t)
    BY <2>1 DEF LoopActive, LoopScan, LoopEnd, PendingOutput
  <2>2. CASE ItemsEnd(t) \/ ItemGone(t) \/ HandlerStart(t) \/ HandlerReturn(t)
    BY <2>2 DEF ItemsEnd, ItemGone, HandlerStart, HandlerReturn
  <2>3. CASE SplitStart(t) \/ SplitOutput(t) \/ StoreEvent(t) \/ StoreOverflow(t)
    BY <2>3 DEF SplitStart, SplitOutput, StoreEvent, StoreOverflow
  <2>4. CASE SubmitReturn(t) \/ TaskReturn(t) \/ SendStoredNext(t) \/ SetStoreLimitNext(t)
    BY <2>4 DEF SubmitReturn, TaskReturn, SendStoredNext, SetStoreLimitNext
  <2>5. CASE DrainPoll(t) \/ DeferredActions
    BY <2>5 DEF DrainPoll, DeferredActions
  <2> QED BY <1>2, <2>1, <2>2, <2>3, <2>4, <2>5 DEF Run
<1>3. ASSUME NEW s, NetworkSubmit(s) PROVE UNCHANGED program
  BY <1>3 DEF NetworkSubmit
<1>4. UNCHANGED vars => UNCHANGED program
  BY DEF vars
<1> QED BY <1>1, <1>2, <1>3, <1>4 DEF Next

LEMMA NextWatch == IInv /\ QuietInv /\ [Next]_vars => QuietInv'
<1> SUFFICES ASSUME IInv, QuietInv, [Next]_vars, Moderate' PROVE NoSending' /\ WatchInv'
  BY DEF QuietInv
<1>1. UNCHANGED program
  BY OneProgram
<1>2. Moderate /\ NoSending /\ WatchInv
  BY <1>1 DEF Moderate, QuietInv
<1>3. ASSUME NEW t \in Threads, AppCall(t) PROVE NoSending' /\ WatchInv'
  <2>1. PICK s : \/ \E k : Submit(t, s, k)
                 \/ Freeze(t, s) \/ Unfreeze(t, s) \/ Drain(t, s)
                 \/ ClearStored(t, s) \/ SendStored(t, s)
                 \/ StoreStartSend(t, s) \/ SetStoreLimit(t, s, 0)
                 \/ \E u : TransferEvents(t, s, u)
    BY <1>3 DEF AppCall
  <2> QED BY <1>2, <2>1, CallWatch
<1>4. ASSUME NEW t \in Threads, Run(t) PROVE NoSending' /\ WatchInv'
  BY <1>2, <1>4, RunWatch
<1>5. ASSUME NEW s, NetworkSubmit(s) PROVE NoSending' /\ WatchInv'
  <2>1. Server \in Threads
    BY DEF Threads
  <2> QED BY <1>2, <1>5, <2>1, CallWatch
<1>6. ASSUME UNCHANGED vars PROVE NoSending' /\ WatchInv'
  <2>1. UNCHANGED <<program, stack, queue, draining, frozen, tasks, sending>>
    BY <1>6 DEF vars, queueVars, stoneVars, storeVars, envVars
  <2>2. Stones' = Stones /\ Threads' = Threads /\ Outputs' = Outputs
    BY <2>1, SameProgram DEF Threads
  <2>3. MoreInv'
    BY <1>2, <2>1, <2>2 DEF WatchInv, MoreInv, Forwards, Gentle
  <2>4. CareInv'
    BY <1>2, <2>1, <2>2 DEF WatchInv, CareInv, Needs
  <2> QED BY <1>2, <2>1, <2>3, <2>4, NoneSends DEF WatchInv
<1> QED BY <1>3, <1>4, <1>5, <1>6 DEF Next

LEMMA InitWatch == Init => QuietInv
<1> SUFFICES ASSUME Init PROVE NoSending /\ WatchInv
  BY DEF QuietInv
<1>1. NoSending /\ \A s \in Stones : ~Needs(s)
  BY DEF Init, NoSending, Needs
<1>2. \A t \in Threads : stack[t] = <<>>
  BY DEF Init
<1>3. MoreInv
  <2>1. \A d : d \notin 1 .. Len(<<>>)
    OBVIOUS
  <2> QED BY <1>2, <2>1 DEF MoreInv
<1> QED BY <1>1, <1>3 DEF WatchInv, CareInv

LEMMA QuietFollows == IInv /\ QuietInv => NoStrandedEvent
<1> SUFFICES ASSUME IInv, QuietInv, Moderate, Quiet,
                    NEW s \in Stones, ~frozen[s], draining[s] = 0, queue[s] # <<>>
             PROVE  FALSE
  BY DEF NoStrandedEvent
<1>1. CareInv /\ Needs(s) /\ ~(tasks > 0)
  BY DEF QuietInv, WatchInv, Needs, Quiet
<1>2. PICK t \in Threads : \E i \in 1 .. Len(stack[t]) : Cares(stack[t][i], s, Head(queue[s]))
  BY <1>1 DEF CareInv
<1>3. PICK i \in 1 .. Len(stack[t]) : Cares(stack[t][i], s, Head(queue[s]))
  BY <1>2
<1>4. i \in DOMAIN stack[t]
  <2>1. stack[t] \in Seq(FrameSet)
    BY DEF IInv, Types, StackTypes
  <2> QED BY <2>1, LenProperties
<1>5. stack[t][i].op = "drain"
  BY <1>4 DEF Quiet, Frames
<1> QED BY <1>3, <1>5 DEF Cares, CaresAll

(* In an application that neither transfers events nor sends what it        *)
(* stored, no event waits on a stone that could process it once no thread   *)
(* is in the loop and none is about to enter it (process_local_actions,     *)
(* INT_EVunfreeze_stone in evp.c).                                          *)
THEOREM NoEventIsStranded == Spec => []NoStrandedEvent
<1>1. IInv /\ QuietInv /\ [Next]_vars => IInv' /\ QuietInv'
  BY NextKeeps, NextWatch
<1>2. IInv /\ QuietInv => NoStrandedEvent
  BY QuietFollows
<1> QED BY InitIInv, InitWatch, <1>1, <1>2, PTL DEF Spec

(* Splits serve their outputs.  An event that was submitted to a split      *)
(* waits there, is in Action_Split, or has been given to all the outputs;   *)
(* one that was given to a terminal waits there or has been handled.        *)
Named(s, u, k) == {p \in 1 .. Len(Outputs[s]) : p < k /\ Outputs[s][p] = u}
AllNamed(s, u) == {p \in 1 .. Len(Outputs[s]) : Outputs[s][p] = u}
Holding(s, e)  == {i \in 1 .. Len(items) : Waits(s, i) /\ items[i] = e}
Given(e, u)    == delivered[u][e] + Cardinality(Holding(u, e))

InSplit(t, e) == At(t, "split") /\ Top(t).event = e /\ Top(t).stone = origin[e].stone
NotSplit(e)   == \A t \in Threads : ~InSplit(t, e)

Served(s, e, u) ==
  \/ (\E i : Holding(s, e) = {i}) /\ NotSplit(e) /\ Given(e, u) = 0
  \/ /\ Holding(s, e) = {}
     /\ \E t \in Threads : InSplit(t, e) /\ Given(e, u) = Cardinality(Named(s, u, Top(t).item))
  \/ Holding(s, e) = {} /\ NotSplit(e) /\ Given(e, u) = Cardinality(AllNamed(s, u))

Serves(s, u) ==
  Action[s] = "split" /\ Action[u] = "terminal" /\ AllNamed(s, u) # {}

ServeInv ==
  /\ \A s \in Stones : draining[s] = 0
  /\ \A e \in Events : e > Len(origin) => \A u \in Stones : delivered[u][e] = 0
  /\ \A e \in 1 .. Len(origin) :
       /\ origin[e].stone \in program.entry
       /\ \A u \in Stones : Serves(origin[e].stone, u) => Served(origin[e].stone, e, u)

(* No stone leads back to a split that events are submitted to, and the     *)
(* terminals it names are named by no other stone.                          *)
Leads(p, r, u) == \E k \in 1 .. Len(p.outputs[r]) : p.outputs[r][k] = u

OwnOutputs ==
  \A p \in Programs : p.usage \subseteq {"freeze", "unfreeze"} =>
    \A s \in p.entry : p.action[s] = "split" =>
      \A r \in DOMAIN p.action :
        /\ ~Leads(p, r, s)
        /\ r # s => \A u \in DOMAIN p.action :
             p.action[u] = "terminal" /\ Leads(p, s, u) => ~Leads(p, r, u)

(* What the outputs of other stones cannot be.                              *)
LEMMA OutputsApart ==
  ASSUME OwnOutputs, Gentle, OtherTypes, NEW s \in program.entry, NEW u \in Stones, Serves(s, u),
         NEW r \in Stones, NEW k \in 1 .. Len(Outputs[r])
  PROVE  Outputs[r][k] # s /\ (r # s => Outputs[r][k] # u)
<1>1. program \in Programs
  BY DEF OtherTypes
<1>2. Leads(program, r, Outputs[r][k])
  BY DEF Leads, Outputs
<1>3. Leads(program, s, u)
  BY DEF Serves, AllNamed, Leads, Outputs
<1>4. /\ ~Leads(program, r, s)
      /\ r # s => \A v \in Stones : Action[v] = "terminal" /\ Leads(program, s, v) => ~Leads(program, r, v)
  BY <1>1 DEF OwnOutputs, Gentle, Serves, Stones, Action
<1> QED BY <1>2, <1>3, <1>4 DEF Serves

LEMMA HoldingSets ==
  ASSUME QueueTypes
  PROVE  \A y, e : IsFiniteSet(Holding(y, e)) /\ Cardinality(Holding(y, e)) \in Nat
<1>1. IsFiniteSet(1 .. Len(items))
  BY LenProperties, UpTo DEF QueueTypes
<1>2. \A y, e : Holding(y, e) \subseteq 1 .. Len(items)
  BY DEF Holding
<1> QED BY <1>1, <1>2, FS_Subset, FS_CardinalityType

LEMMA NamedSets ==
  ASSUME OtherTypes, NEW s \in Stones, NEW u
  PROVE  /\ Cardinality(Named(s, u, 1)) = 0
         /\ \A k \in 1 .. Len(Outputs[s]) :
              Cardinality(Named(s, u, k + 1)) =
                Cardinality(Named(s, u, k)) + (IF Outputs[s][k] = u THEN 1 ELSE 0)
         /\ \A k \in Nat : k > Len(Outputs[s]) => Named(s, u, k) = AllNamed(s, u)
         /\ \A k : Cardinality(Named(s, u, k)) \in Nat
<1>1. Len(Outputs[s]) \in Nat
  <2>1. Outputs[s] \in Seq(Stones)
    BY ProgramFacts
  <2> QED BY <2>1, LenProperties
<1>2. ASSUME NEW k PROVE IsFiniteSet(Named(s, u, k)) /\ Cardinality(Named(s, u, k)) \in Nat
  <2>1. IsFiniteSet(1 .. Len(Outputs[s]))
    BY <1>1, UpTo
  <2>2. Named(s, u, k) \subseteq 1 .. Len(Outputs[s])
    BY DEF Named
  <2> QED BY <2>1, <2>2, FS_Subset, FS_CardinalityType
<1>3. Named(s, u, 1) = {}
  BY <1>1 DEF Named
<1>4. ASSUME NEW k \in 1 .. Len(Outputs[s])
      PROVE  Cardinality(Named(s, u, k + 1)) =
               Cardinality(Named(s, u, k)) + (IF Outputs[s][k] = u THEN 1 ELSE 0)
  <2>1. k \notin Named(s, u, k)
    BY DEF Named
  <2>2. CASE Outputs[s][k] = u
    <3>1. Named(s, u, k + 1) = Named(s, u, k) \cup {k}
      BY <1>1, <2>2 DEF Named
    <3> QED BY <1>2, <2>1, <2>2, <3>1, FS_AddElement
  <2>3. CASE Outputs[s][k] # u
    <3>1. Named(s, u, k + 1) = Named(s, u, k)
      BY <1>1, <2>3 DEF Named
    <3> QED BY <1>2, <2>3, <3>1
  <2> QED BY <2>2, <2>3
<1>5. ASSUME NEW k \in Nat, k > Len(Outputs[s]) PROVE Named(s, u, k) = AllNamed(s, u)
  BY <1>1, <1>5 DEF Named, AllNamed
<1> QED BY <1>2, <1>3, <1>4, <1>5, FS_EmptySet

LEMMA NamedNext ==
  ASSUME OtherTypes, NEW s \in Stones, NEW u, NEW k \in 1 .. Len(Outputs[s]), NEW x, x = Outputs[s][k]
  PROVE  Cardinality(Named(s, u, k + 1)) =
           Cardinality(Named(s, u, k)) + (IF x = u THEN 1 ELSE 0)
BY NamedSets

(* What waits where, after an event was enqueued or an item taken.          *)
LEMMA EnqueueHolds ==
  ASSUME QueueTypes, OnePlace, NEW x \in Stones, NEW d \in Events, Enqueue(x, d)
  PROVE  /\ \A y \in Stones : \A e : y # x \/ e # d => Holding(y, e)' = Holding(y, e)
         /\ Holding(x, d)' = Holding(x, d) \cup {NewItem} /\ NewItem \notin Holding(x, d)
<1>1. /\ NewItem \in 1 .. Len(items') /\ \A u \in Stones : ~Waits(u, NewItem)
      /\ 1 .. Len(items') = (1 .. Len(items)) \cup {NewItem}
      /\ items'[NewItem] = d
      /\ \A i \in 1 .. Len(items) : i # NewItem => items'[i] = items[i]
  BY TakesNew
<1>2. PICK n : n = NewItem
  OBVIOUS
<1>3. queue' = [queue EXCEPT ![x] = Append(queue[x], n)] /\ queue \in [Stones -> Seq(1 .. Len(items))]
  BY <1>2 DEF Enqueue, QueueTypes
<1>4. \A v : InList(Append(queue[x], n), v) <=> InList(queue[x], v) \/ v = n
  <2>1. queue[x] \in Seq((1 .. Len(items)) \cup {n})
    BY <1>3, SeqSub
  <2> QED BY <2>1, AddList
<1>5. \A y \in Stones : \A i : Waits(y, i)' <=> Waits(y, i) \/ (y = x /\ i = n)
  BY <1>3, <1>4 DEF Waits
<1>6. \A y \in Stones : \A i : Waits(y, i) => i # n
  BY <1>1, <1>2
<1>7. ASSUME NEW y \in Stones, NEW e, y # x \/ e # d PROVE Holding(y, e)' = Holding(y, e)
  BY <1>1, <1>2, <1>5, <1>6, <1>7 DEF Holding
<1>8. Holding(x, d)' = Holding(x, d) \cup {n} /\ n \notin Holding(x, d)
  BY <1>1, <1>2, <1>5, <1>6 DEF Holding
<1> QED BY <1>2, <1>7, <1>8

Taken(r, i) == queue' = [queue EXCEPT ![r] = RemoveFirst(@, i)]

LEMMA DequeueHolds ==
  ASSUME QueueTypes, OnePlace, NEW r \in Stones, NEW i, Waits(r, i), NEW d, d = items[i],
         UNCHANGED items, Taken(r, i)
  PROVE  /\ \A y \in Stones : \A e : y # r \/ e # d => Holding(y, e)' = Holding(y, e)
         /\ Holding(r, d)' = Holding(r, d) \ {i} /\ i \in Holding(r, d)
<1>1. queue \in [Stones -> Seq(1 .. Len(items))] /\ Once(queue[r])
  BY DEF QueueTypes, OnePlace
<1>2. \A v : InList(RemoveFirst(queue[r], i), v) <=> InList(queue[r], v) /\ v # i
  BY <1>1, TakeList
<1>3. i \in 1 .. Len(items)
  BY ItemSets
<1>4. \A y \in Stones : \A v : Waits(y, v)' <=> Waits(y, v) /\ ~(y = r /\ v = i)
  BY <1>1, <1>2 DEF Waits, Taken
<1>5. ASSUME NEW y \in Stones, NEW e, y # r \/ e # d PROVE Holding(y, e)' = Holding(y, e)
  BY <1>4, <1>5 DEF Holding
<1>6. Holding(r, d)' = Holding(r, d) \ {i} /\ i \in Holding(r, d)
  BY <1>3, <1>4 DEF Holding
<1> QED BY <1>5, <1>6

(* A step that has nothing to do with a split.                              *)
SameSplit(e) ==
  \A t \in Threads : /\ InSplit(t, e)' <=> InSplit(t, e)
                     /\ InSplit(t, e) => (Top(t).item)' = Top(t).item

Out(t) == (\A x \in Threads : x # t => stack'[x] = stack[x]) /\ ~At(t, "split")'

LEMMA OutSplits ==
  ASSUME NEW t \in Threads, Out(t), ~At(t, "split"), NEW e, origin'[e] = origin[e]
  PROVE  SameSplit(e)
<1>1. ~InSplit(t, e) /\ ~InSplit(t, e)'
  BY DEF InSplit, Out
<1>2. ASSUME NEW x \in Threads, x # t
      PROVE  /\ InSplit(x, e)' <=> InSplit(x, e)
             /\ InSplit(x, e) => Top(x)'.item = Top(x).item
  <2>1. stack'[x] = stack[x]
    BY <1>2 DEF Out
  <2> QED BY <2>1 DEF InSplit, At, Top
<1> QED BY <1>1, <1>2 DEF SameSplit

LEMMA TopIs ==
  ASSUME StackTypes', NEW t \in Threads, NEW n, n = Len(stack'[t])
  PROVE  n \in Nat /\ (n = 0 => stack'[t] = <<>>) /\ Top(t)' = stack'[t][n]
<1>1. stack'[t] \in Seq(FrameSet')
  BY DEF StackTypes, Threads
<1>2. n \in Nat /\ (n = 0 => stack'[t] = <<>>)
  BY <1>1, EmptySeq, LenProperties
<1> QED BY <1>2 DEF Top, Last

LEMMA OutOthers ==
  ASSUME NEW t \in Threads, NEW k, Leaves(t, k)
  PROVE  \A x \in Threads : x # t => stack'[x] = stack[x]
BY DEF Leaves

LEMMA OutLeft ==
  ASSUME IInv, StackTypes', NEW t \in Threads, stack[t] # <<>>, Left(t, Len(stack[t]))
  PROVE  Out(t)
<1>1. PICK n : n = Len(stack[t])
  OBVIOUS
<1>2. n \in Nat \ {0} /\ Leaves(t, n - 1) /\ Len(stack'[t]) = n - 1
  <2>1. n \in Nat \ {0}
    BY <1>1, TopFrame DEF IInv, Types
  <2> QED BY <1>1, <2>1 DEF Left
<1>3. CASE n = 1
  <2>1. stack'[t] = <<>>
    BY <1>2, <1>3, TopIs
  <2> QED BY <1>2, <2>1, OutOthers DEF Out, At
<1>4. CASE n # 1
  <2>1. n > 1 /\ n - 1 \in 1 .. n - 1
    BY <1>2, <1>4
  <2>2. stack[t][n] \in FrameSet /\ On(stack[t][n], n, stack[t][n - 1])
    BY <1>1, <2>1, BelowTop DEF IInv, Types
  <2>3. stack[t][n - 1].op # "split"
    BY <1>2, <1>4, <2>2 DEF On, FrameSet, Ops, Runners
  <2>4. Top(t)' = stack[t][n - 1]
    <3>1. Top(t)' = stack'[t][n - 1]
      BY <1>2, TopIs
    <3> QED BY <1>2, <2>1, <3>1 DEF Leaves
  <2> QED BY <1>2, <2>3, <2>4, OutOthers DEF Out, At
<1> QED BY <1>3, <1>4

LEMMA OutNow ==
  ASSUME StackTypes', NEW t \in Threads, NEW m, NEW f, Now(t, m, f), f.op # "split"
  PROVE  Out(t)
<1>1. Leaves(t, m - 1) /\ Len(stack'[t]) = m /\ stack'[t][m] = f
  BY DEF Now
<1>2. Top(t)' = f
  BY <1>1, TopIs
<1> QED BY <1>1, <1>2, OutOthers DEF Out, At

LEMMA OutDeeper ==
  ASSUME StackTypes', NEW t \in Threads, NEW m, NEW f, NEW g, Deeper(t, m, f, g), g.op # "split"
  PROVE  Out(t)
<1>1. Leaves(t, m - 1) /\ Len(stack'[t]) = m + 1 /\ stack'[t][m + 1] = g
  BY DEF Deeper
<1>2. Top(t)' = g
  BY <1>1, TopIs
<1> QED BY <1>1, <1>2, OutOthers DEF Out, At

(* Every way to change a stack, but for Action_Split.                       *)
LEMMA OutMoves ==
  ASSUME IInv, StackTypes', NEW t \in Threads, NEW f, NEW g, f.op # "split", g.op # "split",
         \/ stack[t] # <<>> /\ (Return(t) \/ Replace(t, f) \/ Pushes(t, f, g))
         \/ Call(t, <<f>>) \/ Call(t, <<f, g>>)
         \/ Len(stack[t]) > 1 /\ stack' = [stack EXCEPT ![t] = Append(Front(Front(@)), f)]
  PROVE  Out(t)
<1>1. PICK n : n = Len(stack[t])
  OBVIOUS
<1>2. StackTypes
  BY DEF IInv, Types
<1>3. \/ (stack[t] # <<>> /\ Left(t, n)) \/ Now(t, n, f) \/ Deeper(t, n, f, g)
      \/ Now(t, n + 1, f) \/ Deeper(t, n + 1, f, g) \/ Now(t, n - 1, f)
  BY <1>1, <1>2, StackShapes
<1> QED BY <1>1, <1>3, OutLeft, OutNow, OutDeeper

LEMMA ServedSame ==
  ASSUME UNCHANGED program, NEW s, NEW e, NEW u, Served(s, e, u),
         Holding(s, e)' = Holding(s, e), Given(e, u)' = Given(e, u), SameSplit(e)
  PROVE  Served(s, e, u)'
<1>1. \A k : Named(s, u, k)' = Named(s, u, k) /\ AllNamed(s, u)' = AllNamed(s, u)
  BY SameProgram DEF Named, AllNamed
<1>2. Threads' = Threads
  BY DEF Threads
<1>3. NotSplit(e)' <=> NotSplit(e)
  BY <1>2 DEF NotSplit, SameSplit
<1>4. CASE (\E i : Holding(s, e) = {i}) /\ NotSplit(e) /\ Given(e, u) = 0
  BY <1>3, <1>4 DEF Served
<1>5. CASE /\ Holding(s, e) = {}
           /\ \E t \in Threads : InSplit(t, e) /\ Given(e, u) = Cardinality(Named(s, u, Top(t).item))
  <2>1. PICK t \in Threads : InSplit(t, e) /\ Given(e, u) = Cardinality(Named(s, u, Top(t).item))
    BY <1>5
  <2>2. InSplit(t, e)' /\ (Top(t).item)' = Top(t).item
    BY <2>1 DEF SameSplit
  <2>3. Given(e, u)' = Cardinality(Named(s, u, Top(t).item)')
    BY <1>1, <2>1, <2>2
  <2> QED BY <1>2, <1>5, <2>2, <2>3 DEF Served
<1>6. CASE Holding(s, e) = {} /\ NotSplit(e) /\ Given(e, u) = Cardinality(AllNamed(s, u))
  BY <1>1, <1>3, <1>6 DEF Served
<1> QED BY <1>4, <1>5, <1>6 DEF Served

LEMMA ServeStep ==
  ASSUME ServeInv, UNCHANGED <<program, draining, origin>>,
         \A e \in Events : e > Len(origin) => \A u \in Stones : delivered'[u][e] = 0,
         \A e \in 1 .. Len(origin) : \A u \in Stones :
           LET s == origin[e].stone IN
           s \in program.entry /\ Serves(s, u) /\ Served(s, e, u) => Served(s, e, u)'
  PROVE  ServeInv'
<1>1. /\ Stones' = Stones /\ Events' = Events /\ \A s, u : Serves(s, u)' <=> Serves(s, u)
  BY SameProgram DEF Serves, AllNamed, Events
<1>2. ASSUME NEW e \in 1 .. Len(origin)
      PROVE  /\ origin'[e].stone \in (program.entry)'
             /\ \A u \in Stones : Serves(origin[e].stone, u) => Served(origin[e].stone, e, u)'
  BY DEF ServeInv
<1> QED BY <1>1, <1>2 DEF ServeInv

LEMMA AwayServes ==
  ASSUME ServeInv, NEW t \in Threads, Out(t), ~At(t, "split"),
         UNCHANGED <<program, draining, origin, delivered>>,
         \A e \in 1 .. Len(origin) : \A u \in Stones :
           LET s == origin[e].stone IN
           s \in program.entry /\ Serves(s, u) =>
             Holding(s, e)' = Holding(s, e) /\ Holding(u, e)' = Holding(u, e)
  PROVE  ServeInv'
<1>1. ASSUME NEW e \in 1 .. Len(origin), NEW u \in Stones, NEW s, s = origin[e].stone,
             s \in program.entry, Serves(s, u), Served(s, e, u)
      PROVE  Served(s, e, u)'
  <2>1. Holding(s, e)' = Holding(s, e) /\ Given(e, u)' = Given(e, u)
    BY <1>1 DEF Given
  <2>2. SameSplit(e)
    BY OutSplits
  <2> QED BY <1>1, <2>1, <2>2, ServedSame
<1>2. \A e \in Events : e > Len(origin) => \A u \in Stones : delivered'[u][e] = 0
  BY DEF ServeInv
<1> QED BY <1>1, <1>2, ServeStep

LEMMA IdleServes ==
  ASSUME ServeInv, NEW t \in Threads, Out(t), ~At(t, "split"),
         UNCHANGED <<program, draining, origin, delivered, queue, items>>
  PROVE  ServeInv'
<1>1. \A y, e : Holding(y, e)' = Holding(y, e)
  BY DEF Holding, Waits
<1> QED BY <1>1, AwayServes

(* An event that is new is nowhere.                                         *)
LEMMA NewEvent ==
  ASSUME IInv, NEW e \in Events, e > Len(origin)
  PROVE  /\ \A y \in Stones : Holding(y, e) = {}
         /\ \A t \in Threads : stack[t] # <<>> => Top(t).event # e
<1>1. Refs(e) <= 0
  BY DEF IInv, RefInv
<1>2. /\ IsFiniteSet(ItemsOf(e)) /\ Cardinality(ItemsOf(e)) \in Nat
      /\ IsFiniteSet(FramesOf(stack, e)) /\ Cardinality(FramesOf(stack, e)) \in Nat
  <2>1. IsFiniteSet(ItemsOf(e)) /\ Cardinality(ItemsOf(e)) \in Nat
    BY ItemSets DEF IInv, Types
  <2>2. IsFiniteSet(FramesOf(stack, e))
    BY FiniteFrames DEF IInv, Types, StackTypes
  <2> QED BY <2>1, <2>2, FS_CardinalityType
<1>3. Cardinality(ItemsOf(e)) = 0 /\ Cardinality(FramesOf(stack, e)) = 0
  <2>1. \A a \in Nat, b \in Nat : a + b <= 0 => a = 0 /\ b = 0
    OBVIOUS
  <2> QED BY <1>1, <1>2, <2>1 DEF Refs
<1>4. ItemsOf(e) = {} /\ FramesOf(stack, e) = {}
  BY <1>2, <1>3, FS_EmptySet
<1>5. \A y \in Stones : Holding(y, e) = {}
  BY <1>4 DEF Holding, ItemsOf
<1>6. ASSUME NEW t \in Threads, stack[t] # <<>>, Top(t).event = e PROVE FALSE
  <2>1. PICK n : n = Len(stack[t])
    OBVIOUS
  <2>2. n \in Nat /\ n \in 1 .. Len(stack[t]) /\ stack[t][n].event = e
    BY <1>6, <2>1, TopFrame DEF IInv, Types
  <2>3. <<t, n>> \in FramesOf(stack, e)
    BY <2>2 DEF FramesOf
  <2> QED BY <1>4, <2>3
<1> QED BY <1>5, <1>6

LEMMA SubmitServes ==
  ASSUME IInv, ServeInv, NEW t \in Threads, Out(t), ~At(t, "split"), NEW r \in program.entry,
         NEW d \in Events, d = Len(origin) + 1, NEW k, origin' = Append(origin, [kind |-> k, stone |-> r]),
         Enqueue(r, d), UNCHANGED <<program, draining, delivered>>
  PROVE  ServeInv'
<1>1. /\ Stones' = Stones /\ Events' = Events /\ Threads' = Threads
      /\ \A s, u : Serves(s, u)' <=> Serves(s, u)
  BY SameProgram DEF Serves, AllNamed, Events, Threads
<1>2. /\ Len(origin) \in Nat /\ Len(origin') = d /\ origin'[d].stone = r
      /\ \A e \in 1 .. Len(origin) : origin'[e] = origin[e]
  <2>1. origin \in Seq([kind : SubmitKinds, stone : Stones])
    BY DEF IInv, Types, EventTypes
  <2>2. PICK v : v = [kind |-> k, stone |-> r]
    OBVIOUS
  <2>3. origin \in Seq([kind : SubmitKinds, stone : Stones] \cup {v}) /\ origin' = Append(origin, v)
    BY <2>1, <2>2, SeqSub
  <2>4. /\ Len(origin) \in Nat /\ Len(origin') = Len(origin) + 1 /\ origin'[Len(origin) + 1] = v
        /\ \A e \in 1 .. Len(origin) : origin'[e] = origin[e]
    BY <2>3, AppendProperties, LenProperties
  <2> QED BY <2>2, <2>4
<1>3. /\ d > Len(origin) /\ \A e \in 1 .. Len(origin') : e # d => e \in 1 .. Len(origin)
      /\ \A e \in Events : e > Len(origin') => e > Len(origin)
      /\ \A e \in 1 .. Len(origin) : e # d
  BY <1>2 DEF Events
<1>4. r \in Stones /\ QueueTypes /\ OnePlace
  BY ProgramFacts DEF IInv, Types, ItemInv
<1>5. /\ \A y \in Stones : \A e : y # r \/ e # d => Holding(y, e)' = Holding(y, e)
      /\ Holding(r, d)' = Holding(r, d) \cup {NewItem}
  BY <1>4, EnqueueHolds
<1>6. ASSUME NEW e \in 1 .. Len(origin), NEW u \in Stones, NEW s, s = origin[e].stone, Serves(s, u)
      PROVE  s \in program.entry /\ Served(s, e, u)'
  <2>1. s \in program.entry /\ Served(s, e, u)
    BY <1>6 DEF ServeInv
  <2>2. s \in Stones /\ e # d
    BY <1>3, <2>1, ProgramFacts DEF IInv, Types
  <2>3. Holding(s, e)' = Holding(s, e) /\ Given(e, u)' = Given(e, u)
    BY <1>5, <2>2 DEF Given
  <2>4. SameSplit(e)
    BY <1>2, OutSplits
  <2> QED BY <2>1, <2>3, <2>4, ServedSame
<1>7. ASSUME NEW u \in Stones, Serves(r, u)
      PROVE  Served(r, d, u)'
  <2>1. u # r
    BY <1>7 DEF Serves
  <2>2. Holding(r, d)' = {NewItem} /\ Holding(u, d)' = {}
    BY <1>3, <1>4, <1>5, <2>1, NewEvent
  <2>3. delivered'[u][d] = 0
    BY <1>3 DEF ServeInv
  <2>4. Given(d, u)' = 0
    <3>1. Cardinality(Holding(u, d)') = 0
      BY <2>2, FS_EmptySet
    <3> QED BY <2>3, <3>1 DEF Given
  <2>5. ASSUME NEW x \in Threads, InSplit(x, d)' PROVE FALSE
    <3>1. x # t
      BY <2>5 DEF InSplit, Out
    <3>2. stack'[x] = stack[x]
      BY <3>1 DEF Out
    <3>3. stack[x] # <<>> /\ Top(x).event = d
      BY <2>5, <3>2 DEF InSplit, At, Top
    <3> QED BY <1>3, <3>3, NewEvent
  <2>6. NotSplit(d)'
    BY <1>1, <2>5 DEF NotSplit
  <2> QED BY <2>2, <2>4, <2>6 DEF Served
<1>8. ASSUME NEW e \in 1 .. Len(origin')
      PROVE  /\ origin'[e].stone \in program.entry
             /\ \A u \in Stones : Serves(origin'[e].stone, u) => Served(origin[e].stone, e, u)'
  <2>1. CASE e = d
    BY <1>2, <1>7, <2>1
  <2>2. CASE e # d
    <3>1. e \in 1 .. Len(origin) /\ origin'[e] = origin[e]
      BY <1>2, <1>3, <2>2
    <3>2. origin[e].stone \in program.entry
      BY <3>1 DEF ServeInv
    <3> QED BY <1>6, <3>1, <3>2
  <2> QED BY <2>1, <2>2
<1>9. \A e \in Events : e > Len(origin') => \A u \in Stones : delivered'[u][e] = 0
  BY <1>3 DEF ServeInv
<1>10. \A s \in Stones : draining'[s] = 0
  BY DEF ServeInv
<1> QED BY <1>1, <1>8, <1>9, <1>10 DEF ServeInv

(* Action_Terminal and Action_Filter: the event is handled.                 *)
LEMMA HandlerServes ==
  ASSUME IInv, ServeInv, NEW t \in Threads, HandlerStart(t), Out(t)
  PROVE  ServeInv'
<1>1. PICK r, i, d : r = Top(t).stone /\ i = Top(t).item /\ d = items[i]
  OBVIOUS
<1>2. /\ At(t, "stone") /\ r \in Stones /\ Waits(r, i) /\ Action[r] \in {"terminal", "filter"}
      /\ d \in Events /\ ref[d] > 0
  BY <1>1, AtItemFacts DEF HandlerStart
<1>3. /\ Taken(r, i)
      /\ delivered' = [delivered EXCEPT ![r][d] = @ + 1]
      /\ UNCHANGED <<program, draining, origin, items>>
  BY <1>1 DEF HandlerStart, Dequeue, Taken, eventVars
<1>4. /\ \A y \in Stones : \A e : y # r \/ e # d => Holding(y, e)' = Holding(y, e)
      /\ Holding(r, d)' = Holding(r, d) \ {i} /\ i \in Holding(r, d)
  <2>1. QueueTypes /\ OnePlace
    BY DEF IInv, Types, ItemInv
  <2>2. Waits(r, i) /\ Taken(r, i) /\ UNCHANGED items /\ d = items[i] /\ r \in Stones
    BY <1>1, <1>2, <1>3
  <2> QED BY <2>1, <2>2, DequeueHolds
<1>5. /\ \A u \in Stones, e \in Events : u # r \/ e # d => delivered'[u][e] = delivered[u][e]
      /\ delivered'[r][d] = delivered[r][d] + 1 /\ delivered[r][d] \in Nat
  BY <1>2, <1>3 DEF IInv, Types, EventTypes
<1>6. ASSUME NEW e \in Events, e > Len(origin), NEW u \in Stones
      PROVE  delivered'[u][e] = 0
  <2>1. e # d
    BY <1>2, <1>6 DEF IInv, RefInv
  <2> QED BY <1>5, <1>6, <2>1 DEF ServeInv
<1>7. ASSUME NEW e \in 1 .. Len(origin), NEW u \in Stones, NEW s, s = origin[e].stone,
             s \in program.entry, Serves(s, u), Served(s, e, u)
      PROVE  Served(s, e, u)'
  <2>1. s \in Stones /\ s # r /\ e \in Events
    <3>1. Len(origin) <= MaxEvents /\ Len(origin) \in Nat /\ MaxEvents \in Nat
      BY StoneAssumption, LenProperties DEF IInv, RefInv, Types, EventTypes
    <3>2. e \in Events
      BY <3>1 DEF Events
    <3> QED BY <1>2, <1>7, <3>2, ProgramFacts DEF IInv, Types, Serves
  <2>2. Holding(s, e)' = Holding(s, e)
    BY <1>4, <2>1
  <2>3. Given(e, u)' = Given(e, u)
    <3>1. CASE u = r /\ e = d
      <4>1. Cardinality(Holding(r, d)') = Cardinality(Holding(r, d)) - 1 /\ Cardinality(Holding(r, d)) \in Nat
        <5>1. IsFiniteSet(Holding(r, d)) /\ Cardinality(Holding(r, d)) \in Nat
          BY HoldingSets DEF IInv, Types
        <5> QED BY <1>4, <5>1, FS_RemoveElement
      <4>2. \A a \in Nat, c \in Nat : (a + 1) + (c - 1) = a + c
        OBVIOUS
      <4>3. (delivered[r][d] + 1) + (Cardinality(Holding(r, d)) - 1) = delivered[r][d] + Cardinality(Holding(r, d))
        BY <1>5, <4>1, <4>2
      <4> QED BY <1>5, <3>1, <4>1, <4>3 DEF Given
    <3>2. CASE ~(u = r /\ e = d)
      BY <1>4, <1>5, <2>1, <3>2 DEF Given
    <3> QED BY <3>1, <3>2
  <2>4. SameSplit(e)
    <3>1. ~At(t, "split")
      BY <1>2 DEF At
    <3> QED BY <1>3, <3>1, OutSplits
  <2> QED BY <1>3, <1>7, <2>2, <2>3, <2>4, ServedSame
<1> QED BY <1>3, <1>6, <1>7, ServeStep

(* Action_Split takes the event.                                            *)
LEMMA SplitStartServes ==
  ASSUME IInv, StackTypes', ServeInv, NEW t \in Threads, SplitStart(t)
  PROVE  ServeInv'
<1>1. PICK r, i, d : r = Top(t).stone /\ i = Top(t).item /\ d = items[i]
  OBVIOUS
<1>2. /\ At(t, "stone") /\ r \in Stones /\ Waits(r, i) /\ Action[r] = "split" /\ stack[t] # <<>>
  BY <1>1, AtItemFacts DEF SplitStart, At
<1>3. /\ Taken(r, i)
      /\ UNCHANGED <<program, draining, origin, items, delivered>>
  BY <1>1 DEF SplitStart, Dequeue, Taken, eventVars, stoneVars, envVars
<1>4. /\ \A y \in Stones : \A e : y # r \/ e # d => Holding(y, e)' = Holding(y, e)
      /\ Holding(r, d)' = Holding(r, d) \ {i} /\ i \in Holding(r, d)
  <2>1. QueueTypes /\ OnePlace
    BY DEF IInv, Types, ItemInv
  <2>2. Waits(r, i) /\ Taken(r, i) /\ UNCHANGED items /\ d = items[i] /\ r \in Stones
    BY <1>1, <1>2, <1>3
  <2> QED BY <2>1, <2>2, DequeueHolds
<1>5. PICK f, g : /\ f = [Advance(t) EXCEPT !.more = @ \/ Outputs[r] # <<>>]
                  /\ g = Frame("split", "none", r, d, 1, FALSE)
  OBVIOUS
<1>6. g.op = "split" /\ g.stone = r /\ g.event = d /\ g.item = 1
  BY <1>5 DEF Frame
<1>7. PICK n : n = Len(stack[t])
  OBVIOUS
<1>8. Deeper(t, n, f, g) /\ n \in Nat
  <2>1. Pushes(t, f, g)
    BY <1>1, <1>5 DEF SplitStart, Pushes
  <2> QED BY <1>2, <1>7, <2>1, StackShapes DEF IInv, Types
<1>9. /\ Top(t)' = g /\ At(t, "split")' /\ \A x \in Threads : x # t => stack'[x] = stack[x]
  <2>1. Leaves(t, n - 1) /\ Len(stack'[t]) = n + 1 /\ stack'[t][n + 1] = g
    BY <1>8 DEF Deeper
  <2>2. Top(t)' = g
    BY <2>1, TopIs
  <2>3. stack'[t] # <<>>
    <3>1. n + 1 # 0
      BY <1>8
    <3> QED BY <2>1, <3>1
  <2> QED BY <1>6, <2>1, <2>2, <2>3, OutOthers DEF At
<1>10. ASSUME NEW e \in 1 .. Len(origin), NEW u \in Stones, NEW s, s = origin[e].stone,
              s \in program.entry, Serves(s, u), Served(s, e, u)
       PROVE  Served(s, e, u)'
  <2>1. s \in Stones /\ u # r
    BY <1>2, <1>10, ProgramFacts DEF IInv, Types, Serves
  <2>2. Given(e, u)' = Given(e, u)
    BY <1>3, <1>4, <2>1 DEF Given
  <2>3. CASE r = s /\ d = e
    <3>1. Holding(s, e) # {}
      BY <1>4, <2>3
    <3>2. PICK j : Holding(s, e) = {j} /\ NotSplit(e) /\ Given(e, u) = 0
      BY <1>10, <3>1 DEF Served
    <3>3. Holding(s, e)' = {}
      BY <1>4, <2>3, <3>2
    <3>4. InSplit(t, e)' /\ (Top(t).item)' = 1
      BY <1>3, <1>6, <1>9, <1>10, <2>3 DEF InSplit
    <3>5. Cardinality(Named(s, u, 1)') = 0
      <4>1. Named(s, u, 1)' = Named(s, u, 1)
        BY <1>3, SameProgram DEF Named
      <4> QED BY <2>1, <4>1, NamedSets DEF IInv, Types
    <3>6. Threads' = Threads
      BY DEF Threads
    <3>7. Given(e, u)' = Cardinality(Named(s, u, Top(t).item)')
      BY <2>2, <3>2, <3>4, <3>5 DEF Named
    <3> QED BY <3>3, <3>4, <3>6, <3>7 DEF Served
  <2>4. CASE ~(r = s /\ d = e)
    <3>1. Holding(s, e)' = Holding(s, e)
      BY <1>4, <2>1, <2>4
    <3>2. ~InSplit(t, e) /\ ~InSplit(t, e)'
      BY <1>2, <1>3, <1>6, <1>9, <1>10, <2>4 DEF InSplit, At
    <3>3. ASSUME NEW x \in Threads, x # t
          PROVE  (InSplit(x, e)' <=> InSplit(x, e)) /\ (InSplit(x, e) => (Top(x).item)' = Top(x).item)
      BY <1>3, <1>9, <3>3 DEF InSplit, At, Top
    <3>4. SameSplit(e)
      BY <3>2, <3>3 DEF SameSplit
    <3> QED BY <1>3, <1>10, <2>2, <3>1, <3>4, ServedSame
  <2> QED BY <2>3, <2>4
<1>11. \A e \in Events : e > Len(origin) => \A u \in Stones : delivered'[u][e] = 0
  BY <1>3 DEF ServeInv
<1> QED BY <1>3, <1>10, <1>11, ServeStep

(* Action_Split gives the event to the next output, or is done with it.     *)
LEMMA OnlySplit ==
  ASSUME IInv, NEW t \in Threads, At(t, "split"), NEW x \in Threads, At(x, "split")
  PROVE  x = t
<1>1. Locks(t) /\ Locks(x)
  BY DEF At, Locks
<1> QED BY <1>1 DEF IInv, OneLock

LEMMA InSplitServed ==
  ASSUME IInv, NEW t \in Threads, NEW s, NEW e, NEW u, InSplit(t, e), Served(s, e, u)
  PROVE  Holding(s, e) = {} /\ Given(e, u) = Cardinality(Named(s, u, Top(t).item))
<1>1. ~NotSplit(e)
  BY DEF NotSplit
<1>2. Holding(s, e) = {}
  BY <1>1 DEF Served
<1>3. PICK x \in Threads : InSplit(x, e) /\ Given(e, u) = Cardinality(Named(s, u, Top(x).item))
  BY <1>1 DEF Served
<1>4. x = t
  BY <1>3, OnlySplit DEF InSplit
<1> QED BY <1>2, <1>3, <1>4

LEMMA SplitEndServes ==
  ASSUME IInv, ServeInv, NEW t \in Threads, At(t, "split"), Out(t),
         Top(t).item > Len(Outputs[Top(t).stone]),
         UNCHANGED <<program, draining, origin, delivered, queue, items>>
  PROVE  ServeInv'
<1>1. \A y, e : Holding(y, e)' = Holding(y, e)
  BY DEF Holding, Waits
<1>2. \A e, u : Given(e, u)' = Given(e, u)
  BY <1>1 DEF Given
<1>3. ASSUME NEW e, NEW x \in Threads, x # t
      PROVE  ~InSplit(x, e) /\ ~InSplit(x, e)'
  <2>1. stack'[x] = stack[x] /\ ~At(x, "split")
    BY <1>3, OnlySplit DEF Out
  <2> QED BY <2>1 DEF InSplit, At, Top
<1>4. \A e : ~InSplit(t, e)'
  BY DEF InSplit, Out
<1>5. Top(t).item \in Nat /\ Top(t).op = "split"
  <2>1. Top(t) \in FrameSet /\ Top(t).op = "split"
    BY InCall
  <2> QED BY <2>1 DEF FrameSet
<1>6. ASSUME NEW e \in 1 .. Len(origin), NEW u \in Stones, NEW s, s = origin[e].stone,
             s \in program.entry, Serves(s, u), Served(s, e, u)
      PROVE  Served(s, e, u)'
  <2>1. CASE InSplit(t, e)
    <3>1. s = Top(t).stone /\ s \in Stones
      BY <1>6, <2>1, ProgramFacts DEF InSplit, IInv, Types
    <3>2. Holding(s, e) = {} /\ Given(e, u) = Cardinality(AllNamed(s, u))
      BY <1>5, <1>6, <2>1, <3>1, InSplitServed, NamedSets DEF IInv, Types
    <3>3. NotSplit(e)'
      <4>1. Threads' = Threads
        BY DEF Threads
      <4> QED BY <1>3, <1>4, <4>1 DEF NotSplit
    <3>4. AllNamed(s, u)' = AllNamed(s, u)
      BY SameProgram DEF AllNamed
    <3> QED BY <1>1, <1>2, <3>2, <3>3, <3>4 DEF Served
  <2>2. CASE ~InSplit(t, e)
    <3>1. SameSplit(e)
      BY <1>3, <1>4, <2>2 DEF SameSplit
    <3> QED BY <1>1, <1>2, <1>6, <3>1, ServedSame
  <2> QED BY <2>1, <2>2
<1>7. \A e \in Events : e > Len(origin) => \A u \in Stones : delivered'[u][e] = 0
  BY DEF ServeInv
<1> QED BY <1>6, <1>7, ServeStep

LEMMA SplitNextServes ==
  ASSUME IInv, StackTypes', ServeInv, OwnOutputs, Gentle, NEW t \in Threads, At(t, "split"),
         NEW r, NEW d, NEW k, r = Top(t).stone, d = Top(t).event, k = Top(t).item,
         k <= Len(Outputs[r]), Enqueue(Outputs[r][k], d),
         Replace(t, [Top(t) EXCEPT !.item = @ + 1]),
         UNCHANGED <<program, draining, origin, delivered>>
  PROVE  ServeInv'
<1>1. /\ Top(t) \in FrameSet /\ Top(t).op = "split" /\ stack[t] # <<>> /\ StackTypes
      /\ r \in Stones /\ d \in Events /\ k \in Nat \ {0}
  <2>1. Top(t) \in FrameSet /\ Top(t).op = "split" /\ stack[t] # <<>> /\ StackTypes
    BY InCall
  <2> QED BY <2>1 DEF FrameSet
<1>2. PICK f, n : f = [Top(t) EXCEPT !.item = @ + 1] /\ n = Len(stack[t])
  OBVIOUS
<1>3. f.op = "split" /\ f.stone = r /\ f.event = d /\ f.item = k + 1
  BY <1>1, <1>2 DEF FrameSet
<1>4. Now(t, n, f) /\ n \in Nat \ {0}
  <2>1. Replace(t, f)
    BY <1>2
  <2>2. n \in Nat /\ n > 0
    BY <1>1, <1>2, TopFrame
  <2>3. Now(t, n, f)
    BY <1>1, <1>2, <2>1, StackShapes
  <2> QED BY <2>2, <2>3
<1>5. Top(t)' = f /\ At(t, "split")' /\ \A x \in Threads : x # t => stack'[x] = stack[x]
  <2>1. Leaves(t, n - 1) /\ Len(stack'[t]) = n /\ stack'[t][n] = f
    BY <1>4 DEF Now
  <2>2. Top(t)' = f
    BY <2>1, TopIs
  <2>3. stack'[t] # <<>>
    BY <1>4, <2>1
  <2> QED BY <1>3, <2>1, <2>2, <2>3, OutOthers DEF At
<1>6. /\ Outputs[r] \in Seq(Stones) /\ Len(Outputs[r]) \in Nat /\ k \in 1 .. Len(Outputs[r])
      /\ Outputs[r][k] \in Stones
  <2>1. Outputs[r] \in Seq(Stones)
    BY <1>1, ProgramFacts DEF IInv, Types
  <2>2. Len(Outputs[r]) \in Nat
    BY <2>1, LenProperties
  <2>3. k \in 1 .. Len(Outputs[r])
    BY <1>1, <2>2
  <2> QED BY <2>1, <2>2, <2>3, ElementOfSeq
<1>7. PICK x \in Stones : x = Outputs[r][k]
  BY <1>6
<1>8. /\ \A y \in Stones : \A e : y # x \/ e # d => Holding(y, e)' = Holding(y, e)
      /\ Holding(x, d)' = Holding(x, d) \cup {NewItem} /\ NewItem \notin Holding(x, d)
  <2>1. QueueTypes /\ OnePlace /\ Enqueue(x, d)
    BY <1>7 DEF IInv, Types, ItemInv
  <2> QED BY <1>1, <2>1, EnqueueHolds
<1>9. ASSUME NEW e, NEW v \in Threads, v # t
      PROVE  ~InSplit(v, e) /\ ~InSplit(v, e)'
  <2>1. stack'[v] = stack[v] /\ ~At(v, "split")
    BY <1>5, <1>9, OnlySplit
  <2> QED BY <2>1 DEF InSplit, At, Top
<1>10. ASSUME NEW e \in 1 .. Len(origin), NEW u \in Stones, NEW s, s = origin[e].stone,
              s \in program.entry, Serves(s, u), Served(s, e, u)
       PROVE  Served(s, e, u)'
  <2>1. s \in Stones /\ OtherTypes
    BY <1>10, ProgramFacts DEF IInv, Types
  <2>2. x # s /\ (r # s => x # u)
    BY <1>1, <1>6, <1>7, <1>10, <2>1, OutputsApart
  <2>3. Holding(s, e)' = Holding(s, e)
    BY <1>8, <2>1, <2>2
  <2>4. CASE r = s /\ d = e
    <3>1. InSplit(t, e) /\ InSplit(t, e)' /\ (Top(t).item)' = k + 1
      BY <1>3, <1>5, <1>10, <2>4 DEF InSplit
    <3>2. Holding(s, e) = {} /\ Given(e, u) = Cardinality(Named(s, u, k))
      BY <1>10, <3>1, InSplitServed
    <3>3. Given(e, u)' = Given(e, u) + (IF x = u THEN 1 ELSE 0)
      <4>1. CASE x = u
        <5>1. IsFiniteSet(Holding(x, d)) /\ Cardinality(Holding(x, d)) \in Nat
          BY HoldingSets DEF IInv, Types
        <5>2. Cardinality(Holding(x, d)') = Cardinality(Holding(x, d)) + 1
          BY <1>8, <5>1, FS_AddElement
        <5>3. delivered[u][e] \in Nat
          BY <1>1, <2>4 DEF IInv, Types, EventTypes
        <5>4. \A a, b \in Nat : a + (b + 1) = (a + b) + 1
          OBVIOUS
        <5>5. delivered[u][e] + (Cardinality(Holding(x, d)) + 1) = (delivered[u][e] + Cardinality(Holding(x, d))) + 1
          BY <5>1, <5>3, <5>4
        <5> QED BY <2>4, <4>1, <5>2, <5>5 DEF Given
      <4>2. CASE x # u
        <5>1. Holding(u, e)' = Holding(u, e)
          BY <1>8, <4>2
        <5>2. Given(e, u) \in Nat
          <6>1. delivered[u][e] \in Nat /\ Cardinality(Holding(u, e)) \in Nat
            BY <1>1, <2>4, HoldingSets DEF IInv, Types, EventTypes
          <6> QED BY <6>1 DEF Given
        <5>3. Given(e, u)' = Given(e, u)
          BY <5>1 DEF Given
        <5> QED BY <4>2, <5>2, <5>3
      <4> QED BY <4>1, <4>2
    <3>4. Cardinality(Named(s, u, k + 1)) = Cardinality(Named(s, u, k)) + (IF x = u THEN 1 ELSE 0)
      <4>1. k \in 1 .. Len(Outputs[s]) /\ Outputs[s][k] = x
        BY <1>6, <1>7, <2>4
      <4> QED BY <2>1, <4>1, NamedNext
    <3>5. Given(e, u)' = Cardinality(Named(s, u, Top(t).item)')
      <4>1. Given(e, u)' = Cardinality(Named(s, u, k + 1))
        BY <3>2, <3>3, <3>4
      <4>2. Named(s, u, Top(t).item)' = Named(s, u, k + 1)
        BY <3>1, SameProgram DEF Named
      <4> QED BY <4>1, <4>2
    <3>6. Threads' = Threads
      BY DEF Threads
    <3> QED BY <2>3, <3>1, <3>2, <3>5, <3>6 DEF Served
  <2>5. CASE ~(r = s /\ d = e)
    <3>1. ~InSplit(t, e) /\ ~InSplit(t, e)'
      BY <1>3, <1>5, <1>10, <2>5 DEF InSplit
    <3>2. SameSplit(e)
      BY <1>9, <3>1 DEF SameSplit
    <3>3. Given(e, u)' = Given(e, u)
      <4>1. Holding(u, e)' = Holding(u, e)
        BY <1>8, <2>2, <2>5
      <4> QED BY <4>1 DEF Given
    <3> QED BY <1>10, <2>3, <3>2, <3>3, ServedSame
  <2> QED BY <2>4, <2>5
<1>11. \A e \in Events : e > Len(origin) => \A u \in Stones : delivered'[u][e] = 0
  BY DEF ServeInv
<1> QED BY <1>10, <1>11, ServeStep

(* Steps that move no event.                                                *)
LEMMA FirstOutput ==
  ASSUME OtherTypes, NEW r \in Stones, Action[r] \in {"filter", "store"}
  PROVE  1 \in 1 .. Len(Outputs[r]) /\ Head(Outputs[r]) = Outputs[r][1] /\ Outputs[r][1] \in Stones
<1>1. Outputs[r] \in Seq(Stones) /\ Outputs[r] # <<>> /\ Head(Outputs[r]) \in Stones
  BY ProgramFacts
<1>2. Len(Outputs[r]) \in Nat /\ Len(Outputs[r]) # 0
  BY <1>1, LenProperties, EmptySeq
<1>3. Head(Outputs[r]) = Outputs[r][1]
  BY <1>1, HeadTailProperties
<1> QED BY <1>1, <1>2, <1>3

LEMMA StillServes ==
  ASSUME ServeInv, UNCHANGED <<program, draining, origin, delivered, queue, items, stack>>
  PROVE  ServeInv'
<1>1. \A y, e : Holding(y, e)' = Holding(y, e)
  BY DEF Holding, Waits
<1>2. \A e, u : Given(e, u)' = Given(e, u)
  BY <1>1 DEF Given
<1>3. \A e : SameSplit(e)
  BY DEF SameSplit, InSplit, At, Top
<1>4. ASSUME NEW e \in 1 .. Len(origin), NEW u \in Stones, NEW s, s = origin[e].stone,
             s \in program.entry, Serves(s, u), Served(s, e, u)
      PROVE  Served(s, e, u)'
  BY <1>1, <1>2, <1>3, <1>4, ServedSame
<1>5. \A e \in Events : e > Len(origin) => \A u \in Stones : delivered'[u][e] = 0
  BY DEF ServeInv
<1> QED BY <1>4, <1>5, ServeStep

LEMMA ConsiderOut ==
  ASSUME IInv, StackTypes', NEW t \in Threads, At(t, "loop"), NEW r, NEW class, NEW f,
         ConsiderStone(t, r, class, f), f.op = "loop"
  PROVE  Out(t)
<1>1. PICK g : g = Frame("stone", class, r, None, Head(queue[r]), FALSE)
  OBVIOUS
<1>2. f.op # "split" /\ g.op # "split" /\ stack[t] # <<>>
  BY <1>1 DEF Frame, At
<1>3. Replace(t, f) \/ Pushes(t, f, g)
  BY <1>1 DEF ConsiderStone, Pushes
<1> QED BY <1>2, <1>3, OutMoves

LEMMA LoopOut ==
  ASSUME IInv, StackTypes', NEW t \in Threads, LoopActive(t) \/ LoopScan(t) \/ LoopEnd(t)
  PROVE  Out(t)
<1>1. At(t, "loop")
  BY DEF LoopActive, LoopScan, LoopEnd
<1>2. PICK b : b = Top(t)
  OBVIOUS
<1>3. b \in FrameSet /\ b.op = "loop" /\ stack[t] # <<>>
  BY <1>1, <1>2, InCall
<1>4. Loop.op # "split"
  BY LoopType
<1>5. CASE LoopActive(t)
  <2>1. CASE b.more /\ lastActive # None
    <3>1. PICK f : f = [b EXCEPT !.more = FALSE]
      OBVIOUS
    <3>2. f.op = "loop"
      BY <1>3, <3>1 DEF FrameSet
    <3>3. ConsiderStone(t, lastActive, "items", f)
      BY <1>2, <1>5, <2>1, <3>1 DEF LoopActive
    <3> QED BY <1>1, <3>2, <3>3, ConsiderOut
  <2>2. CASE ~(b.more /\ lastActive # None)
    <3>1. PICK k : k = IF inPlay > 0 THEN 1 ELSE Cardinality(Stones) + 1
      OBVIOUS
    <3>2. PICK f : f = [b EXCEPT !.at = "scan", !.more = FALSE, !.stone = k]
      OBVIOUS
    <3>3. f.op # "split"
      BY <1>3, <3>2 DEF FrameSet
    <3>4. Replace(t, f)
      BY <1>2, <1>5, <2>2, <3>1, <3>2 DEF LoopActive
    <3> QED BY <1>3, <3>3, <3>4, OutMoves
  <2> QED BY <2>1, <2>2
<1>6. CASE LoopScan(t)
  <2>1. CASE b.more /\ lastActive # None
    <3>1. Replace(t, Loop)
      BY <1>2, <1>6, <2>1 DEF LoopScan
    <3> QED BY <1>3, <1>4, <3>1, OutMoves
  <2>2. CASE ~(b.more /\ lastActive # None)
    <3>1. PICK f, class : /\ f = [b EXCEPT !.stone = @ + 1]
                          /\ class = IF sending[Top(t).stone] THEN "pending" ELSE "items"
      OBVIOUS
    <3>2. f.op = "loop"
      BY <1>3, <3>1 DEF FrameSet
    <3>3. ConsiderStone(t, b.stone, class, f)
      BY <1>2, <1>6, <2>2, <3>1 DEF LoopScan
    <3> QED BY <1>1, <3>2, <3>3, ConsiderOut
  <2> QED BY <2>1, <2>2
<1>7. CASE LoopEnd(t)
  <2>1. Replace(t, Loop) \/ Return(t)
    BY <1>7 DEF LoopEnd
  <2> QED BY <1>3, <1>4, <2>1, OutMoves
<1> QED BY <1>5, <1>6, <1>7

LEMMA QuietOut ==
  ASSUME IInv, StackTypes', NEW t \in Threads,
         ItemsEnd(t) \/ ItemGone(t) \/ SubmitReturn(t) \/ TaskReturn(t)
  PROVE  Out(t)
<1>1. PICK op \in {"stone", "submit", "task"} : At(t, op)
  BY DEF ItemsEnd, ItemGone, AtItem, SubmitReturn, TaskReturn
<1>2. PICK n : n = Len(stack[t])
  OBVIOUS
<1>3. /\ stack[t] # <<>> /\ StackTypes /\ n \in Nat \ {0} /\ Top(t) \in FrameSet /\ Top(t).op = op
      /\ On(Top(t), n, stack[t][n - 1])
  BY <1>1, <1>2, InCall
<1>4. Loop.op # "split"
  BY LoopType
<1>5. CASE SubmitReturn(t) \/ TaskReturn(t)
  <2>1. Return(t)
    BY <1>5 DEF SubmitReturn, TaskReturn
  <2> QED BY <1>3, <1>4, <2>1, OutMoves
<1>6. CASE ItemGone(t)
  <2>1. PICK f : f = [Top(t) EXCEPT !.op = "crashed"]
    OBVIOUS
  <2>2. f.op # "split"
    BY <1>3, <2>1 DEF FrameSet
  <2>3. Replace(t, f)
    BY <1>6, <2>1 DEF ItemGone
  <2> QED BY <1>3, <2>2, <2>3, OutMoves
<1>7. CASE ItemsEnd(t)
  <2>1. Top(t).op = "stone"
    BY <1>7 DEF ItemsEnd, At
  <2>2. n > 1 /\ stack[t][n - 1].op = "loop"
    BY <1>3, <2>1 DEF On
  <2>3. stack[t][n - 1] \in FrameSet
    BY <1>2, <2>2, BelowTop DEF IInv, Types
  <2>4. Last(Below(t)) = stack[t][n - 1]
    <3>1. stack \in [Threads -> Seq(FrameSet)]
      BY <1>3 DEF StackTypes
    <3>2. Last(Front(stack[t])) = stack[t][Len(stack[t]) - 1]
      BY <1>2, <2>2, <2>3, <3>1, ReturnTo
    <3> QED BY <1>2, <3>2 DEF Below
  <2>5. PICK f : f = [stack[t][n - 1] EXCEPT !.more = @ \/ Top(t).more]
    OBVIOUS
  <2>6. f.op # "split"
    BY <2>2, <2>3, <2>5 DEF FrameSet
  <2>7. stack' = [stack EXCEPT ![t] = Append(Front(Front(@)), f)]
    BY <1>7, <2>4, <2>5 DEF ItemsEnd, ReturnMore
  <2> QED BY <1>2, <1>4, <2>2, <2>6, <2>7, OutMoves
<1> QED BY <1>5, <1>6, <1>7

LEMMA QuietServes ==
  ASSUME IInv, StackTypes', ServeInv, NEW t \in Threads,
         \/ LoopActive(t) \/ LoopScan(t) \/ LoopEnd(t)
         \/ ItemsEnd(t) \/ ItemGone(t) \/ SubmitReturn(t) \/ TaskReturn(t)
  PROVE  ServeInv'
<1>1. Out(t)
  BY LoopOut, QuietOut
<1>2. ~At(t, "split")
  BY DEF LoopActive, LoopScan, LoopEnd, ItemsEnd, ItemGone, AtItem, SubmitReturn, TaskReturn, At
<1>3. UNCHANGED <<program, draining, origin, delivered, queue, items>>
  BY DEF LoopActive, LoopScan, LoopEnd, ItemsEnd, ItemGone, SubmitReturn, TaskReturn,
         queueVars, eventVars, stoneVars, envVars
<1> QED BY <1>1, <1>2, <1>3, IdleServes

LEMMA DeferredServes ==
  ASSUME IInv, StackTypes', ServeInv, DeferredActions
  PROVE  ServeInv'
<1>1. PICK f : f = Frame("task", "none", 1, None, None, FALSE)
  OBVIOUS
<1>2. f.op # "split" /\ Loop.op # "split"
  BY <1>1, LoopType DEF Frame
<1>3. Server \in Threads /\ Call(Server, <<f, Loop>>) /\ stack[Server] = <<>>
  BY <1>1 DEF DeferredActions, Threads
<1>4. Out(Server) /\ ~At(Server, "split")
  BY <1>2, <1>3, OutMoves DEF At
<1>5. UNCHANGED <<program, draining, origin, delivered, queue, items>>
  BY DEF DeferredActions, queueVars, eventVars, stoneVars
<1> QED BY <1>3, <1>4, <1>5, IdleServes

(* Events that stores and filters pass on.                                  *)
LEMMA ForwardServes ==
  ASSUME IInv, ServeInv, OwnOutputs, Gentle, NEW t \in Threads, Out(t), ~At(t, "split"),
         NEW r \in Stones, Action[r] = "store", ForwardStored(r),
         UNCHANGED <<program, draining, origin, delivered>>
  PROVE  ServeInv'
<1>1. OtherTypes /\ queue \in [Stones -> Seq(1 .. Len(items))]
  BY DEF IInv, Types, QueueTypes
<1>2. PICK x : x = Head(Outputs[r])
  OBVIOUS
<1>3. 1 \in 1 .. Len(Outputs[r]) /\ x = Outputs[r][1] /\ x \in Stones
  BY <1>1, <1>2, FirstOutput
<1>4. items' = items /\ \A y \in Stones : y # x => queue'[y] = queue[y]
  BY <1>1, <1>2 DEF ForwardStored
<1>5. \A y \in Stones : \A e : y # x => Holding(y, e)' = Holding(y, e)
  BY <1>4 DEF Holding, Waits
<1>6. ASSUME NEW e \in 1 .. Len(origin), NEW u \in Stones, NEW s, s \in program.entry, Serves(s, u)
      PROVE  Holding(s, e)' = Holding(s, e) /\ Holding(u, e)' = Holding(u, e)
  <2>1. s \in Stones /\ r # s
    BY <1>1, <1>6, ProgramFacts DEF Serves
  <2>2. x # s /\ x # u
    BY <1>1, <1>3, <1>6, <2>1, OutputsApart
  <2> QED BY <1>5, <2>1, <2>2
<1> QED BY <1>6, AwayServes

LEMMA StoreServes ==
  ASSUME IInv, StackTypes', ServeInv, OwnOutputs, Gentle, NEW t \in Threads,
         StoreOverflow(t) \/ SendStoredNext(t) \/ SetStoreLimitNext(t)
  PROVE  ServeInv'
<1>1. PICK op \in {"overflow", "send", "limit"} : At(t, op)
  BY DEF StoreOverflow, SendStoredNext, SetStoreLimitNext
<1>2. PICK r, e : r = Top(t).stone /\ e = Top(t).event
  OBVIOUS
<1>3. stack[t] # <<>> /\ Top(t) \in FrameSet /\ Top(t).op = op
  BY <1>1, InCall
<1>4. r \in Stones /\ Action[r] = "store"
  BY <1>2, <1>3 DEF FrameSet, IsStore
<1>5. PICK g : g = [Top(t) EXCEPT !.event = items[Head(store[r])]]
  OBVIOUS
<1>6. g.op # "split" /\ Loop.op # "split" /\ ~At(t, "split")
  BY <1>3, <1>5, LoopType DEF FrameSet, At
<1>7. UNCHANGED <<program, draining, origin, delivered>>
  BY DEF StoreOverflow, SendStoredNext, SetStoreLimitNext, eventVars, stoneVars, envVars
<1>8. /\ Return(t) \/ Call(t, <<Loop>>) \/ Pushes(t, g, Loop)
      /\ ForwardStored(r) \/ UNCHANGED <<queue, items>>
  BY <1>2, <1>5 DEF StoreOverflow, SendStoredNext, SetStoreLimitNext, Pushes, queueVars
<1>9. Out(t)
  BY <1>3, <1>6, <1>8, OutMoves
<1> QED BY <1>4, <1>6, <1>7, <1>8, <1>9, ForwardServes, IdleServes

LEMMA ReturnServes ==
  ASSUME IInv, StackTypes', ServeInv, OwnOutputs, Gentle, NEW t \in Threads, HandlerReturn(t)
  PROVE  ServeInv'
<1>1. PICK n : n = Len(stack[t])
  OBVIOUS
<1>2. PICK r, d : r = Top(t).stone /\ d = Top(t).event
  OBVIOUS
<1>3. At(t, "handler") /\ UNCHANGED <<program, draining, origin, delivered>>
  BY DEF HandlerReturn, envVars
<1>4. /\ stack[t] # <<>> /\ StackTypes /\ n \in Nat \ {0} /\ Top(t) \in FrameSet
      /\ Top(t).op = "handler" /\ On(Top(t), n, stack[t][n - 1])
  BY <1>1, <1>3, InCall
<1>5. r \in Stones /\ d \in Events /\ OtherTypes /\ QueueTypes /\ OnePlace
  BY <1>2, <1>4 DEF FrameSet, IInv, Types, ItemInv
<1>6. ~At(t, "split") /\ Loop.op # "split"
  BY <1>4, LoopType DEF At
<1>7. CASE Return(t) /\ UNCHANGED <<queueVars, loopVars>>
  <2>1. Out(t)
    BY <1>4, <1>6, <1>7, OutMoves
  <2> QED BY <1>3, <1>6, <1>7, <2>1, IdleServes DEF queueVars
<1>8. CASE /\ Action[r] = "filter"
           /\ Enqueue(Head(Outputs[r]), d)
           /\ stack' = [stack EXCEPT ![t] =
                Append(Front(Front(@)), [Last(Front(@)) EXCEPT !.more = TRUE])]
  <2>1. n > 1 /\ stack[t][n - 1].op = "stone"
    BY <1>4 DEF On
  <2>2. stack[t][n - 1] \in FrameSet
    BY <1>1, <2>1, BelowTop DEF IInv, Types
  <2>3. Last(Front(stack[t])) = stack[t][n - 1]
    <3>1. stack \in [Threads -> Seq(FrameSet)]
      BY <1>4 DEF StackTypes
    <3>2. Last(Front(stack[t])) = stack[t][Len(stack[t]) - 1]
      BY <1>1, <2>1, <2>2, <3>1, ReturnTo
    <3> QED BY <1>1, <3>2
  <2>4. PICK f : f = [stack[t][n - 1] EXCEPT !.more = TRUE]
    OBVIOUS
  <2>5. f.op # "split"
    BY <2>1, <2>2, <2>4 DEF FrameSet
  <2>6. Out(t)
    <3>1. stack' = [stack EXCEPT ![t] = Append(Front(Front(@)), f)]
      BY <1>8, <2>3, <2>4
    <3> QED BY <1>1, <1>6, <2>1, <2>5, <3>1, OutMoves
  <2>7. PICK x : x = Head(Outputs[r])
    OBVIOUS
  <2>8. 1 \in 1 .. Len(Outputs[r]) /\ x = Outputs[r][1] /\ x \in Stones /\ Enqueue(x, d)
    BY <1>5, <1>8, <2>7, FirstOutput
  <2>9. \A y \in Stones : \A e : y # x => Holding(y, e)' = Holding(y, e)
    BY <1>5, <2>8, EnqueueHolds
  <2>10. ASSUME NEW e \in 1 .. Len(origin), NEW u \in Stones, NEW s, s \in program.entry, Serves(s, u)
         PROVE  Holding(s, e)' = Holding(s, e) /\ Holding(u, e)' = Holding(u, e)
    <3>1. s \in Stones /\ r # s
      BY <1>5, <1>8, <2>10, ProgramFacts DEF Serves
    <3>2. x # s /\ x # u
      BY <1>5, <2>8, <2>10, <3>1, OutputsApart
    <3> QED BY <2>9, <3>1, <3>2
  <2> QED BY <1>3, <1>6, <2>6, <2>10, AwayServes
<1> QED BY <1>2, <1>7, <1>8 DEF HandlerReturn

LEMMA StoreEventServes ==
  ASSUME IInv, StackTypes', ServeInv, NEW t \in Threads, StoreEvent(t)
  PROVE  ServeInv'
<1>1. PICK r, i, d : r = Top(t).stone /\ i = Top(t).item /\ d = items[i]
  OBVIOUS
<1>2. AtItem(t, {"store"}) /\ Queued(t)
  BY DEF StoreEvent
<1>3. /\ At(t, "stone") /\ r \in Stones /\ Waits(r, i) /\ Action[r] = "store"
      /\ Advance(t).op = "stone" /\ Advance(t) \in FrameSet
  BY <1>1, <1>2, AtItemFacts
<1>4. PICK f, g : /\ f = [Advance(t) EXCEPT !.more = TRUE]
                  /\ g = Frame("overflow", "none", r, None, None, FALSE)
  OBVIOUS
<1>5. f.op # "split" /\ g.op # "split" /\ Advance(t).op # "split" /\ ~At(t, "split") /\ stack[t] # <<>>
  BY <1>3, <1>4 DEF FrameSet, Frame, At
<1>6. Replace(t, Advance(t)) \/ Pushes(t, f, g)
  BY <1>1, <1>4 DEF StoreEvent, Pushes
<1>7. Out(t)
  BY <1>5, <1>6, OutMoves
<1>8. Taken(r, i) /\ UNCHANGED <<program, draining, origin, delivered, items>>
  BY <1>1 DEF StoreEvent, Taken, stoneVars, envVars
<1>9. \A y \in Stones : \A e : y # r => Holding(y, e)' = Holding(y, e)
  <2>1. QueueTypes /\ OnePlace
    BY DEF IInv, Types, ItemInv
  <2>2. Waits(r, i) /\ Taken(r, i) /\ UNCHANGED items /\ d = items[i] /\ r \in Stones
    BY <1>1, <1>3, <1>8
  <2> QED BY <2>1, <2>2, DequeueHolds
<1>10. ASSUME NEW e \in 1 .. Len(origin), NEW u \in Stones, NEW s, s \in program.entry, Serves(s, u)
       PROVE  Holding(s, e)' = Holding(s, e) /\ Holding(u, e)' = Holding(u, e)
  <2>1. s \in Stones /\ r # s /\ r # u
    BY <1>3, <1>10, ProgramFacts DEF Serves, IInv, Types
  <2> QED BY <1>9, <2>1
<1> QED BY <1>5, <1>7, <1>8, <1>10, AwayServes

(* The step of a thread.                                                    *)
LEMMA SplitServes ==
  ASSUME IInv, StackTypes', ServeInv, OwnOutputs, Gentle, NEW t \in Threads, SplitOutput(t)
  PROVE  ServeInv'
<1>1. PICK r, d, k : r = Top(t).stone /\ d = Top(t).event /\ k = Top(t).item
  OBVIOUS
<1>2. At(t, "split") /\ UNCHANGED <<program, draining, origin, delivered>>
  BY DEF SplitOutput, stoneVars, envVars
<1>3. stack[t] # <<>> /\ Top(t) \in FrameSet /\ Top(t).op = "split"
  BY <1>2, InCall
<1>4. r \in Stones /\ k \in Nat /\ Len(Outputs[r]) \in Nat
  <2>1. r \in Stones /\ k \in Nat
    BY <1>1, <1>3 DEF FrameSet
  <2>2. Outputs[r] \in Seq(Stones)
    BY <2>1, ProgramFacts DEF IInv, Types
  <2> QED BY <2>1, <2>2, LenProperties
<1>5. CASE k > Len(Outputs[r])
  <2>1. Return(t) /\ UNCHANGED <<queue, items>>
    BY <1>1, <1>5 DEF SplitOutput, queueVars
  <2>2. Out(t)
    BY <1>3, <2>1, LoopType, OutMoves
  <2> QED BY <1>1, <1>2, <1>5, <2>1, <2>2, SplitEndServes
<1>6. CASE ~(k > Len(Outputs[r]))
  <2>1. Enqueue(Outputs[r][k], d) /\ Replace(t, [Top(t) EXCEPT !.item = @ + 1])
    BY <1>1, <1>6 DEF SplitOutput
  <2>2. k <= Len(Outputs[r])
    BY <1>4, <1>6
  <2> QED BY <1>1, <1>2, <2>1, <2>2, SplitNextServes
<1> QED BY <1>5, <1>6

LEMMA HandlerStartServes ==
  ASSUME IInv, StackTypes', ServeInv, NEW t \in Threads, HandlerStart(t)
  PROVE  ServeInv'
<1>1. PICK r, i, e : r = Top(t).stone /\ i = Top(t).item /\ e = items[i]
  OBVIOUS
<1>2. AtItem(t, {"terminal", "filter"}) /\ Queued(t)
  BY DEF HandlerStart
<1>3. At(t, "stone") /\ Advance(t).op = "stone"
  BY <1>2, AtItemFacts
<1>4. PICK f, g : /\ f = Advance(t)
                  /\ g = Frame("handler", IF appMem[e] THEN "app" ELSE "own", r, e, None, FALSE)
  OBVIOUS
<1>5. f.op # "split" /\ g.op # "split" /\ stack[t] # <<>>
  BY <1>3, <1>4 DEF Frame, At
<1>6. Pushes(t, f, g)
  BY <1>1, <1>4 DEF HandlerStart, Pushes
<1>7. Out(t)
  BY <1>5, <1>6, OutMoves
<1> QED BY <1>7, HandlerServes

LEMMA RunServes ==
  ASSUME IInv, StackTypes', QuietInv, ServeInv, OwnOutputs, Gentle, NEW t \in Threads, Run(t)
  PROVE  ServeInv'
<1>1. Moderate /\ NoSending /\ WatchInv
  BY DEF QuietInv, Gentle, Moderate
<1>2. CASE PendingOutput(t)
  <2>1. At(t, "stone") /\ Top(t).at = "pending"
    BY <1>2 DEF PendingOutput
  <2>2. Top(t).stone \in Stones
    <3>1. Top(t) \in FrameSet /\ Top(t).op = "stone"
      BY <2>1, InCall
    <3> QED BY <3>1 DEF FrameSet
  <2>3. SendingNow(Top(t).stone)
    BY <2>1 DEF SendingNow
  <2> QED BY <1>1, <2>2, <2>3 DEF NoSending, IInv, StoreInv
<1>3. CASE DrainPoll(t)
  <2>1. At(t, "drain") /\ UNCHANGED <<program, tasks>>
    BY <1>3 DEF DrainPoll, envVars
  <2>2. Top(t).op = "drain" /\ Forwards(Top(t), stack[t][Len(stack[t]) - 1])
    BY <1>1, <2>1, AtWatch
  <2> QED BY <2>2 DEF Forwards
<1>4. CASE \/ LoopActive(t) \/ LoopScan(t) \/ LoopEnd(t)
           \/ ItemsEnd(t) \/ ItemGone(t) \/ SubmitReturn(t) \/ TaskReturn(t)
  BY <1>4, QuietServes
<1>5. CASE StoreOverflow(t) \/ SendStoredNext(t) \/ SetStoreLimitNext(t)
  BY <1>5, StoreServes
<1>6. CASE HandlerStart(t)
  BY <1>6, HandlerStartServes
<1>7. CASE HandlerReturn(t)
  BY <1>7, ReturnServes
<1>8. CASE SplitStart(t)
  BY <1>8, SplitStartServes
<1>9. CASE SplitOutput(t)
  BY <1>9, SplitServes
<1>10. CASE StoreEvent(t)
  BY <1>10, StoreEventServes
<1>11. CASE DeferredActions
  BY <1>11, DeferredServes
<1> QED BY <1>2, <1>3, <1>4, <1>5, <1>6, <1>7, <1>8, <1>9, <1>10, <1>11 DEF Run

(* The calls of the application, and events from the network.               *)
LEMMA EntryServes ==
  ASSUME IInv, StackTypes', ServeInv, NEW t \in Threads, NEW s,
         (\E k : Submit(t, s, k)) \/ (t = Server /\ NetworkSubmit(s))
  PROVE  ServeInv'
<1>1. PICK d : d = Len(origin) + 1
  OBVIOUS
<1>2. PICK f : f.op \in {"submit", "task"} /\ Call(t, <<f, Loop>>)
  <2>1. CASE \E k : Submit(t, s, k)
    <3>1. PICK g : g = Frame("submit", "none", s, d, None, FALSE)
      OBVIOUS
    <3>2. g.op = "submit"
      BY <3>1 DEF Frame
    <3>3. Call(t, <<g, Loop>>)
      BY <1>1, <2>1, <3>1 DEF Submit
    <3> QED BY <3>2, <3>3
  <2>2. CASE t = Server /\ NetworkSubmit(s)
    <3>1. PICK g : g = Frame("task", "none", s, None, None, FALSE)
      OBVIOUS
    <3>2. g.op = "task"
      BY <3>1 DEF Frame
    <3>3. Call(t, <<g, Loop>>)
      BY <2>2, <3>1 DEF NetworkSubmit
    <3> QED BY <3>2, <3>3
  <2> QED BY <2>1, <2>2
<1>3. PICK k : /\ s \in program.entry /\ d \in Events /\ Enqueue(s, d)
               /\ origin' = Append(origin, [kind |-> k, stone |-> s])
  BY <1>1 DEF Submit, NetworkSubmit
<1>4. UNCHANGED <<program, draining, delivered>>
  BY DEF Submit, NetworkSubmit, stoneVars, envVars
<1>5. Out(t)
  <2>1. f.op # "split" /\ Loop.op # "split"
    BY <1>2, LoopType
  <2> QED BY <1>2, <2>1, OutMoves
<1>6. ~At(t, "split")
  <2>1. CASE \E j : Submit(t, s, j)
    <3>1. MayCall(t)
      BY <2>1 DEF Submit
    <3> QED BY <3>1, MayCallFacts DEF At
  <2>2. CASE t = Server /\ NetworkSubmit(s)
    BY <2>2 DEF NetworkSubmit, At
  <2> QED BY <2>1, <2>2
<1> QED BY <1>1, <1>3, <1>4, <1>5, <1>6, SubmitServes

LEMMA CallServes ==
  ASSUME IInv, StackTypes', ServeInv, Gentle, NEW t \in Threads, AppCall(t)
  PROVE  ServeInv'
<1>1. PICK s : \/ \E k : Submit(t, s, k)
               \/ Freeze(t, s) \/ Unfreeze(t, s) \/ Drain(t, s)
               \/ ClearStored(t, s) \/ SendStored(t, s)
               \/ StoreStartSend(t, s) \/ SetStoreLimit(t, s, 0)
               \/ \E u : TransferEvents(t, s, u)
  BY DEF AppCall
<1>2. CASE \E k : Submit(t, s, k)
  BY <1>2, EntryServes
<1>3. CASE Freeze(t, s) \/ Unfreeze(t, s)
  <2>1. UNCHANGED <<program, draining, origin, delivered, queue, items, stack>>
    BY <1>3 DEF Freeze, Unfreeze, queueVars, eventVars
  <2> QED BY <2>1, StillServes
<1>4. CASE \/ Drain(t, s) \/ ClearStored(t, s) \/ SendStored(t, s) \/ StoreStartSend(t, s)
           \/ SetStoreLimit(t, s, 0) \/ \E u : TransferEvents(t, s, u)
  <2>1. \E c \in {"drain", "clear", "send", "startsend", "limit", "transfer"} : c \in program.usage
    BY <1>4 DEF Drain, ClearStored, SendStored, StoreStartSend, SetStoreLimit, TransferEvents, MayUse
  <2> QED BY <2>1 DEF Gentle
<1> QED BY <1>1, <1>2, <1>3, <1>4

GentleServes == Gentle => ServeInv

LEMMA NextServes ==
  ASSUME OwnOutputs
  PROVE  IInv /\ QuietInv /\ GentleServes /\ [Next]_vars => GentleServes'
<1> SUFFICES ASSUME IInv, QuietInv, GentleServes, [Next]_vars, Gentle' PROVE ServeInv'
  BY DEF GentleServes
<1>1. UNCHANGED program
  BY OneProgram
<1>2. Gentle /\ ServeInv
  BY <1>1 DEF Gentle, GentleServes
<1>3. StackTypes'
  BY NextKeeps DEF IInv, Types
<1>4. ASSUME NEW t \in Threads, AppCall(t) PROVE ServeInv'
  BY <1>2, <1>3, <1>4, CallServes
<1>5. ASSUME NEW t \in Threads, Run(t) PROVE ServeInv'
  BY <1>2, <1>3, <1>5, RunServes
<1>6. ASSUME NEW s, NetworkSubmit(s) PROVE ServeInv'
  <2>1. Server \in Threads
    BY DEF Threads
  <2> QED BY <1>2, <1>3, <1>6, <2>1, EntryServes
<1>7. ASSUME UNCHANGED vars PROVE ServeInv'
  <2>1. UNCHANGED <<program, draining, origin, delivered, queue, items, stack>>
    BY <1>7 DEF vars, queueVars, eventVars, stoneVars, envVars
  <2> QED BY <1>2, <2>1, StillServes
<1> QED BY <1>4, <1>5, <1>6, <1>7 DEF Next

LEMMA InitServes == Init => GentleServes
<1> SUFFICES ASSUME Init PROVE ServeInv
  BY DEF GentleServes
<1>1. /\ \A s \in Stones : draining[s] = 0
      /\ \A u \in Stones : \A e \in Events : delivered[u][e] = 0
      /\ origin = <<>>
  BY DEF Init
<1>2. \A e : e \notin 1 .. Len(<<>>)
  OBVIOUS
<1> QED BY <1>1, <1>2 DEF ServeInv

LEMMA DoneFollows == IInv /\ QuietInv /\ GentleServes => QuietMeansDone
<1> SUFFICES ASSUME IInv, QuietInv, GentleServes PROVE NoStrandedEvent /\ SplitServesAll
  BY DEF QuietMeansDone
<1>1. NoStrandedEvent
  BY QuietFollows
<1>2. ASSUME Quiet, Gentle, NEW e \in DOMAIN origin, NEW u \in Stones, NEW s, s = origin[e].stone,
             Action[s] = "split", Action[u] = "terminal",
             NEW n, n = Cardinality({p \in DOMAIN Outputs[s] : Outputs[s][p] = u}), n > 0,
             ~frozen[s], ~frozen[u]
      PROVE  delivered[u][e] = n
  <2>1. e \in 1 .. Len(origin) /\ e \in Events
    <3>1. origin \in Seq([kind : SubmitKinds, stone : Stones])
      BY DEF IInv, Types, EventTypes
    <3>2. e \in 1 .. Len(origin) /\ Len(origin) \in Nat
      BY <1>2, <3>1, LenProperties
    <3>3. Len(origin) <= MaxEvents /\ MaxEvents \in Nat
      BY StoneAssumption DEF IInv, RefInv
    <3> QED BY <3>2, <3>3 DEF Events
  <2>2. ServeInv /\ Moderate
    BY <1>2 DEF GentleServes, Gentle, Moderate
  <2>3. s \in program.entry /\ s \in Stones
    BY <1>2, <2>1, <2>2, ProgramFacts DEF ServeInv, IInv, Types
  <2>4. n = Cardinality(AllNamed(s, u)) /\ AllNamed(s, u) # {}
    <3>1. Outputs[s] \in Seq(Stones)
      BY <2>3, ProgramFacts DEF IInv, Types
    <3>2. DOMAIN Outputs[s] = 1 .. Len(Outputs[s])
      BY <3>1, LenProperties
    <3>3. n = Cardinality(AllNamed(s, u))
      BY <1>2, <3>2 DEF AllNamed
    <3> QED BY <1>2, <3>3, FS_EmptySet
  <2>5. Served(s, e, u)
    BY <1>2, <2>1, <2>2, <2>4 DEF ServeInv, Serves
  <2>6. queue[s] = <<>> /\ queue[u] = <<>>
    BY <1>1, <1>2, <2>2, <2>3 DEF NoStrandedEvent, ServeInv
  <2>7. Holding(s, e) = {} /\ Holding(u, e) = {}
    BY <2>6, NoList DEF Holding, Waits
  <2>8. NotSplit(e)
    <3>1. ASSUME NEW t \in Threads, At(t, "split") PROVE FALSE
      <4>1. Len(stack[t]) \in 1 .. Len(stack[t]) /\ Top(t) = stack[t][Len(stack[t])]
        BY <3>1, TopFrame DEF At, IInv, Types
      <4>2. DOMAIN stack[t] = 1 .. Len(stack[t])
        <5>1. stack[t] \in Seq(FrameSet)
          BY DEF IInv, Types, StackTypes
        <5> QED BY <5>1, LenProperties
      <4>3. Top(t) \in Frames(t)
        BY <4>1, <4>2 DEF Frames
      <4> QED BY <1>2, <3>1, <4>3 DEF Quiet, At
    <3> QED BY <3>1 DEF NotSplit, InSplit
  <2>9. Given(e, u) = Cardinality(AllNamed(s, u))
    BY <2>5, <2>7, <2>8 DEF Served, NotSplit
  <2>10. delivered[u][e] \in Nat /\ Cardinality(Holding(u, e)) = 0
    BY <2>1, <2>7, FS_EmptySet DEF IInv, Types, EventTypes
  <2> QED BY <2>4, <2>9, <2>10 DEF Given
<1>3. SplitServesAll
  BY <1>2 DEF SplitServesAll, Gentle
<1> QED BY <1>1, <1>3

(* Once everything is quiet there is nothing left that could be done: no    *)
(* event waits on a stone that works, and an event that was submitted to a  *)
(* split was handled exactly once for every time the split names a terminal *)
(* that works, if nothing else in the graph leads to the split or to its    *)
(* terminals (process_local_actions and Action_Split in evp.c).             *)
THEOREM QuietIsDone == OwnOutputs /\ Spec => []QuietMeansDone
<1> SUFFICES ASSUME OwnOutputs PROVE Spec => []QuietMeansDone
  OBVIOUS
<1>1. IInv /\ QuietInv /\ GentleServes /\ [Next]_vars => IInv' /\ QuietInv' /\ GentleServes'
  BY NextKeeps, NextWatch, NextServes
<1>2. IInv /\ QuietInv /\ GentleServes => QuietMeansDone
  BY DoneFollows
<1> QED BY InitIInv, InitWatch, InitServes, <1>1, <1>2, PTL DEF Spec
===============================================================================
