--------------------------- MODULE EVBridgeProofs ---------------------------
(***************************************************************************)
(* Proofs about bridge stones, for every number of stones, every set of    *)
(* threads and connections, every bound and every set of programs: the     *)
(* references of connections, and the events of the stones.                *)
(***************************************************************************)
EXTENDS EVBridge, SequenceTheorems, FiniteSetTheorems, TLAPS

-----------------------------------------------------------------------------
(* Types.                                                                  *)

Closers == {"closing", "handler"}
Ats     == Sending \cup Closers \cup {"pass", "drain"}

Frames ==
  {f \in [at : Ats, stone : Int \cup {None}, conn : Conns \cup {None}, hooks : Seq(Stones)] :
     /\ f.at = "pass" => f.stone \in Int
     /\ f.at \in Sending \cup {"drain"} => f.stone \in Stones
     /\ f.at \in Closers \cup {"blocked"} => f.conn \in Conns
     /\ f.at = "handler" => f.hooks # <<>>}

Connection ==
  [used : BOOLEAN, refs : Int, listed : BOOLEAN, closed : BOOLEAN, failed : BOOLEAN,
   pending : BOOLEAN, hooks : Seq(Stones)]

BridgeTypes ==
  /\ queue \in [Stones -> Nat] /\ outputting \in [Stones -> BOOLEAN]
  /\ conn \in [Stones -> Conns \cup {None}] /\ connFailed \in [Stones -> BOOLEAN]
  /\ frozen \in [Stones -> BOOLEAN] /\ draining \in [Stones -> 0 .. 2]

ConnTypes == conns \in [Conns -> Connection] /\ shared \in Conns \cup {None}

OtherTypes ==
  /\ program \in Programs /\ tasks \in Nat
  /\ delayPending \in BOOLEAN /\ alive \in BOOLEAN /\ discarded \subseteq Stones

StackTypes == stack \in [Threads -> Seq(Frames)]

Types == BridgeTypes /\ ConnTypes /\ OtherTypes /\ StackTypes

-----------------------------------------------------------------------------
(* The inductive invariant.  The frames of a set of stacks: those that     *)
(* send the events of a stone, those of the failure of a connection.       *)

Sends(f, s)  == f.at \in Sending /\ f.stone = s
Closes(f, c) == f.at \in Closers /\ f.conn = c

OneSender(st) ==
  \A s \in Stones, t, u \in Threads : \A i \in 1 .. Len(st[t]), j \in 1 .. Len(st[u]) :
    Sends(st[t][i], s) /\ Sends(st[u][j], s) => t = u /\ i = j
OneCloser(st) ==
  \A c \in Conns, t, u \in Threads : \A i \in 1 .. Len(st[t]), j \in 1 .. Len(st[u]) :
    Closes(st[t][i], c) /\ Closes(st[u][j], c) => t = u /\ i = j

(* What is so of the stone of a frame that sends, whatever other threads   *)
(* do: is_outputting keeps them from its connection.                       *)
SendSound(f) ==
  f.at \in Sending =>
    /\ outputting[f.stone] /\ draining[f.stone] # 2
    /\ f.at = "connecting" => conn[f.stone] = None
    /\ f.at # "connecting" => conn[f.stone] # None \/ connFailed[f.stone]
    /\ f.at = "blocked" => queue[f.stone] > 0 \/ "transfer" \in program.usage
SendersSound == \A t \in Threads : \A i \in 1 .. Len(stack[t]) : SendSound(stack[t][i])

(* The connection of a frame that runs close handlers is still in the list. *)
CloseSound(f) == f.at \in Closers => conns[f.conn].listed /\ conns[f.conn].failed
ClosersSound == \A t \in Threads : \A i \in 1 .. Len(stack[t]) : CloseSound(stack[t][i])

Holders(f, c) == {s \in Stones : f[s] = c}

CountedAt(c) ==
  /\ conns[c].refs = Has(conns[c].listed) + Has(conns[c].used /\ ~conns[c].failed)
                       + Has(shared = c) + Cardinality(Holders(conn, c))
  /\ conns[c].used /\ ~conns[c].failed => conns[c].listed
  /\ ~conns[c].used => ~conns[c].listed /\ ~conns[c].failed /\ ~conns[c].pending
Counted == \A c \in Conns : CountedAt(c)
HeldUsed ==
  /\ \A s \in Stones : conn[s] # None => conns[conn[s]].used
  /\ shared # None => conns[shared].used

RefsInv == Types /\ OneSender(stack) /\ SendersSound /\ OneCloser(stack) /\ ClosersSound
             /\ Counted /\ HeldUsed

(* Events that wait for nothing are seen by a task that is due, or by a    *)
(* pass that has not come to their stone yet.                              *)
Comes(f, s)   == (f.at = "pass" /\ f.stone <= s) \/ (f.at \in Sending /\ f.stone < s)
SomeSender(s) == \E t \in Threads : \E i \in 1 .. Len(stack[t]) : Sends(stack[t][i], s)
SomeComer(s)  == \E t \in Threads : \E i \in 1 .. Len(stack[t]) : Comes(stack[t][i], s)
Waits(s)      == queue[s] > 0 /\ ~frozen[s] /\ draining[s] # 2 /\ ~outputting[s]
Seen(s)       == Waits(s) => tasks > 0 \/ SomeComer(s)

(* Why is_outputting stays set when nobody sends.                           *)
Reason(s)    == connFailed[s] \/ conn[s] = None \/ "transfer" \in program.usage
Explained(s) ==
  /\ outputting[s] => SomeSender(s) \/ Reason(s)
  /\ s \in discarded => connFailed[s]
EventInv ==
  /\ delayPending => tasks > 0
  /\ \A s \in Stones : Seen(s) /\ Explained(s)

(* Where writes may be pending when the peer dies, the application has a   *)
(* reference from the start and keeps it.                                  *)
ReferenceKept ==
  \A p \in Programs : p.mortal /\ p.blocks => p.open /\ "unshare" \notin p.usage

KeptFrame(f) ==
  /\ f.at \in Closers => ~alive
  /\ f.at = "blocked" =>
       /\ program.blocks
       /\ ~program.mortal => conn[f.stone] = f.conn
       /\ program.mortal => f.conn = First
  /\ f.at \in {"connecting", "unsent"} /\ program.mortal /\ program.blocks => ~alive
KeptConn(c) ==
  /\ conns[c].pending => program.blocks
  /\ program.mortal /\ program.blocks =>
       /\ conns[c].used /\ ~conns[c].failed => c = First
       /\ conns[c].pending => c = First
       /\ alive /\ conns[c].used => c = First
KeptData ==
  /\ ~program.mortal => alive
  /\ program.mortal /\ program.blocks => shared = First /\ (alive => First \in Usable)
  /\ \A c \in Conns : KeptConn(c)
KeptFrames == \A t \in Threads : \A i \in 1 .. Len(stack[t]) : KeptFrame(stack[t][i])
KeptInv == KeptData /\ KeptFrames
-----------------------------------------------------------------------------
(* Stacks.  An action changes one position of the stacks: the innermost    *)
(* call of a thread goes on or returns, or the thread makes a call.        *)

Changes(st, st2, t, n, f) ==
  /\ st2 \in [Threads -> Seq(Frames)]
  /\ \A u \in Threads : \A i \in 1 .. Len(st2[u]) :
       IF u = t /\ i = n THEN st2[u][i] = f
       ELSE i \in 1 .. Len(st[u]) /\ st2[u][i] = st[u][i]
  /\ \A u \in Threads : \A i \in 1 .. Len(st[u]) :
       (u = t /\ i = n) \/ (i \in 1 .. Len(st2[u]) /\ st2[u][i] = st[u][i])

(* What is below the innermost call.                                        *)
LEMMA FrontProperties ==
  ASSUME NEW s \in Seq(Frames), s # <<>>
  PROVE  /\ Front(s) \in Seq(Frames) /\ Len(Front(s)) = Len(s) - 1
         /\ \A i \in 1 .. Len(s) - 1 : Front(s)[i] = s[i]
<1>1. Len(s) \in Nat /\ Len(s) > 0 /\ \A i \in 1 .. Len(s) - 1 : s[i] \in Frames
  BY EmptySeq, LenProperties, ElementOfSeq
<1>2. /\ SubSeq(s, 1, Len(s) - 1) \in Seq(Frames)
      /\ Len(SubSeq(s, 1, Len(s) - 1)) = IF 1 <= Len(s) - 1 THEN Len(s) - 1 - 1 + 1 ELSE 0
      /\ \A i \in 1 .. Len(s) - 1 - 1 + 1 : SubSeq(s, 1, Len(s) - 1)[i] = s[1 + i - 1]
  BY <1>1, SubSeqProperties
<1>3. \A n \in Nat : n > 0 =>
        /\ (IF 1 <= n - 1 THEN n - 1 - 1 + 1 ELSE 0) = n - 1 /\ n - 1 - 1 + 1 = n - 1
        /\ \A i \in 1 .. n - 1 : 1 + i - 1 = i
  OBVIOUS
<1> QED BY <1>1, <1>2, <1>3 DEF Front

(* The innermost call of a thread goes on as another.                       *)
LEMMA GotoChanges ==
  ASSUME NEW st \in [Threads -> Seq(Frames)], NEW t \in Threads, st[t] # <<>>,
         NEW f \in Frames
  PROVE  LET st2 == [st EXCEPT ![t] = Append(Front(@), f)]
         IN  Changes(st, st2, t, Len(st[t]), f) /\ Len(st2[t]) = Len(st[t])
<1> DEFINE s == st[t]
           n == Len(s)
           p == Append(Front(s), f)
<1>1. s \in Seq(Frames) /\ n \in Nat /\ n > 0 /\ \A i \in 1 .. n : s[i] \in Frames
  BY EmptySeq, LenProperties, ElementOfSeq
<1>2. /\ Front(s) \in Seq(Frames) /\ Len(Front(s)) = n - 1
      /\ \A i \in 1 .. n - 1 : Front(s)[i] = s[i]
  BY <1>1, FrontProperties
<1>3. /\ p \in Seq(Frames) /\ Len(p) = n - 1 + 1
      /\ \A i \in 1 .. n - 1 : p[i] = Front(s)[i]
      /\ p[n - 1 + 1] = f
  BY <1>2, AppendProperties
<1>4. Len(p) = n /\ p[n] = f /\ \A i \in 1 .. n : i # n => p[i] = s[i]
  BY <1>1, <1>2, <1>3
<1> DEFINE st2 == [st EXCEPT ![t] = p]
<1>5. st2 \in [Threads -> Seq(Frames)] /\ st2[t] = p /\ \A u \in Threads : u # t => st2[u] = st[u]
  BY <1>3
<1> HIDE DEF p, st2
<1>6. Changes(st, st2, t, n, f)
  BY <1>4, <1>5 DEF Changes
<1> QED BY <1>6, <1>5, <1>4 DEF p, st2

(* A thread makes a call.                                                   *)
LEMMA CallChanges ==
  ASSUME NEW st \in [Threads -> Seq(Frames)], NEW t \in Threads, NEW f \in Frames
  PROVE  LET st2 == [st EXCEPT ![t] = Append(@, f)]
         IN  Changes(st, st2, t, Len(st[t]) + 1, f) /\ Len(st2[t]) = Len(st[t]) + 1
<1> DEFINE s == st[t]
           n == Len(s)
           p == Append(s, f)
<1>1. s \in Seq(Frames) /\ n \in Nat
  BY LenProperties
<1>2. p \in Seq(Frames) /\ Len(p) = n + 1 /\ p[n + 1] = f /\ \A i \in 1 .. n : p[i] = s[i]
  BY <1>1, AppendProperties
<1>3. \A i \in 1 .. n + 1 : i # n + 1 => i \in 1 .. n /\ p[i] = s[i]
  BY <1>1, <1>2
<1>4. 1 .. n \subseteq 1 .. n + 1 /\ n + 1 \notin 1 .. n
  BY <1>1
<1> DEFINE st2 == [st EXCEPT ![t] = p]
<1>5. st2 \in [Threads -> Seq(Frames)] /\ st2[t] = p /\ \A u \in Threads : u # t => st2[u] = st[u]
  BY <1>2
<1> HIDE DEF p, st2, n
<1>6. Changes(st, st2, t, n + 1, f)
  <2>1. st[t] = s /\ Len(s) = n
    BY DEF n
  <2> QED BY <1>2, <1>3, <1>4, <1>5, <2>1 DEF Changes
<1> QED BY <1>6, <1>5, <1>2 DEF p, st2, n

(* A call returns.                                                          *)
LEMMA ReturnChanges ==
  ASSUME NEW st \in [Threads -> Seq(Frames)], NEW t \in Threads, st[t] # <<>>, NEW f
  PROVE  Changes(st, [st EXCEPT ![t] = Front(@)], t, Len(st[t]), f)
<1> DEFINE s == st[t]
           n == Len(s)
           p == Front(s)
<1>1. s \in Seq(Frames) /\ n \in Nat /\ n > 0 /\ \A i \in 1 .. n : s[i] \in Frames
  BY EmptySeq, LenProperties, ElementOfSeq
<1>2. /\ p \in Seq(Frames) /\ Len(p) = n - 1
      /\ \A i \in 1 .. n - 1 : p[i] = s[i]
  BY <1>1, FrontProperties
<1> DEFINE st2 == [st EXCEPT ![t] = p]
<1>3. st2 \in [Threads -> Seq(Frames)] /\ st2[t] = p /\ \A u \in Threads : u # t => st2[u] = st[u]
  BY <1>2
<1>4. \A i \in 1 .. n - 1 : i \in 1 .. n /\ i # n
  BY <1>1
<1>5. \A i \in 1 .. n : i # n => i \in 1 .. n - 1
  BY <1>1
<1> HIDE DEF p, st2, n
<1>6. Changes(st, st2, t, n, f)
  <2>1. st[t] = s /\ Len(s) = n
    BY DEF n
  <2> QED BY <1>2, <1>3, <1>4, <1>5, <2>1 DEF Changes
<1> QED BY <1>6 DEF p, st2, n

(* The innermost call is one of the frames.                                 *)
LEMMA TopFrame ==
  ASSUME StackTypes, NEW t \in Threads, stack[t] # <<>>
  PROVE  /\ Len(stack[t]) \in 1 .. Len(stack[t]) /\ Len(stack[t]) \in Nat
         /\ Top(t) = stack[t][Len(stack[t])] /\ Top(t) \in Frames
<1>1. stack[t] \in Seq(Frames)
  BY DEF StackTypes
<1>2. Len(stack[t]) \in Nat \ {0}
  BY <1>1, EmptySeq
<1>3. Len(stack[t]) \in 1 .. Len(stack[t])
  BY <1>2
<1> QED BY <1>1, <1>2, <1>3, ElementOfSeq DEF Top, Last

(* The frames that actions make.                                            *)
LEMMA FrameTypes ==
  /\ \A at \in {"connecting", "loop", "unsent", "drain"}, s \in Stones : Frame(at, s, None) \in Frames
  /\ \A s \in Stones, c \in Conns : Frame("blocked", s, c) \in Frames
  /\ \A i \in Int : Frame("pass", i, None) \in Frames
<1>1. <<>> \in Seq(Stones) /\ Stones \subseteq Int
  BY BridgeAssumption
<1> QED BY <1>1 DEF Frames, Frame, Ats, Closers, Sending
LEMMA ClosingType ==
  ASSUME ConnTypes, NEW c \in Conns
  PROVE  /\ Closing(c) \in Frames
         /\ Closing(c).at = "closing" /\ Closing(c).conn = c
<1>1. conns[c].hooks \in Seq(Stones)
  BY DEF ConnTypes, Connection
<1> QED BY <1>1 DEF Closing, Frames, Frame, Ats, Closers, Sending
-----------------------------------------------------------------------------
(* What a change of the stacks keeps.                                       *)

(* The frames at other positions than the one that changes.                 *)
Other(g, t, n) ==
  \E u \in Threads : \E i \in 1 .. Len(stack[u]) : ~(u = t /\ i = n) /\ stack[u][i] = g

OnlySends(st, s, t, n) ==
  \A u \in Threads : \A i \in 1 .. Len(st[u]) : Sends(st[u][i], s) => u = t /\ i = n
OnlyCloses(st, c, t, n) ==
  \A u \in Threads : \A i \in 1 .. Len(st[u]) : Closes(st[u][i], c) => u = t /\ i = n

LEMMA OneSenderChange ==
  ASSUME NEW st, NEW st2, NEW t, NEW n, NEW f, OneSender(st), Changes(st, st2, t, n, f),
         \A s \in Stones : Sends(f, s) => OnlySends(st, s, t, n)
  PROVE  OneSender(st2)
<1>1. ASSUME NEW s \in Stones, NEW u \in Threads, NEW v \in Threads,
             NEW i \in 1 .. Len(st2[u]), NEW j \in 1 .. Len(st2[v]),
             Sends(st2[u][i], s), Sends(st2[v][j], s)
      PROVE  u = v /\ i = j
  <2>1. /\ IF u = t /\ i = n THEN st2[u][i] = f
           ELSE i \in 1 .. Len(st[u]) /\ st2[u][i] = st[u][i]
        /\ IF v = t /\ j = n THEN st2[v][j] = f
           ELSE j \in 1 .. Len(st[v]) /\ st2[v][j] = st[v][j]
    BY DEF Changes
  <2>2. CASE Sends(f, s)
    BY <1>1, <2>1, <2>2 DEF OnlySends, OnlyCloses
  <2>3. CASE ~Sends(f, s)
    BY <1>1, <2>1, <2>3 DEF OneSender
  <2> QED BY <2>2, <2>3
<1> QED BY <1>1 DEF OneSender

LEMMA OneCloserChange ==
  ASSUME NEW st, NEW st2, NEW t, NEW n, NEW f, OneCloser(st), Changes(st, st2, t, n, f),
         \A c \in Conns : Closes(f, c) => OnlyCloses(st, c, t, n)
  PROVE  OneCloser(st2)
<1>1. ASSUME NEW c \in Conns, NEW u \in Threads, NEW v \in Threads,
             NEW i \in 1 .. Len(st2[u]), NEW j \in 1 .. Len(st2[v]),
             Closes(st2[u][i], c), Closes(st2[v][j], c)
      PROVE  u = v /\ i = j
  <2>1. /\ IF u = t /\ i = n THEN st2[u][i] = f
           ELSE i \in 1 .. Len(st[u]) /\ st2[u][i] = st[u][i]
        /\ IF v = t /\ j = n THEN st2[v][j] = f
           ELSE j \in 1 .. Len(st[v]) /\ st2[v][j] = st[v][j]
    BY DEF Changes
  <2>2. CASE Closes(f, c)
    BY <1>1, <2>1, <2>2 DEF OnlySends, OnlyCloses
  <2>3. CASE ~Closes(f, c)
    BY <1>1, <2>1, <2>3 DEF OneCloser
  <2> QED BY <2>2, <2>3
<1> QED BY <1>1 DEF OneCloser

(* The innermost call goes on: it is about the same stone or connection, or *)
(* nobody was about the new one.                                            *)
LEMMA GoesOn ==
  ASSUME StackTypes, OneSender(stack), OneCloser(stack),
         NEW t \in Threads, stack[t] # <<>>, NEW f \in Frames, Goto(t, f),
         \A s \in Stones : Sends(f, s) =>
           \/ Sends(Top(t), s)
           \/ \A u \in Threads : \A i \in 1 .. Len(stack[u]) : ~Sends(stack[u][i], s),
         \A c \in Conns : Closes(f, c) => Closes(Top(t), c)
  PROVE  /\ Changes(stack, stack', t, Len(stack[t]), f)
         /\ Len(stack'[t]) = Len(stack[t])
         /\ OneSender(stack') /\ OneCloser(stack')
<1>1. /\ Changes(stack, stack', t, Len(stack[t]), f)
      /\ Len(stack'[t]) = Len(stack[t])
  BY GotoChanges DEF Goto, StackTypes
<1>2. Len(stack[t]) \in 1 .. Len(stack[t]) /\ Top(t) = stack[t][Len(stack[t])]
  BY TopFrame
<1>3. \A s \in Stones : Sends(f, s) => OnlySends(stack, s, t, Len(stack[t]))
  BY <1>2 DEF OnlySends, OnlyCloses, OneSender
<1>4. \A c \in Conns : Closes(f, c) => OnlyCloses(stack, c, t, Len(stack[t]))
  BY <1>2 DEF OnlySends, OnlyCloses, OneCloser
<1> QED BY <1>1, <1>3, <1>4, OneSenderChange, OneCloserChange

(* A thread makes a call that does not send; if it runs close handlers, it  *)
(* is the only one that runs those of its connection.                       *)
LEMMA Calling ==
  ASSUME StackTypes, OneSender(stack), OneCloser(stack),
         NEW t \in Threads, NEW f \in Frames, Call(t, f), f.at \notin Sending,
         \A c \in Conns : Closes(f, c) =>
           \A u \in Threads : \A i \in 1 .. Len(stack[u]) : ~Closes(stack[u][i], c)
  PROVE  /\ Changes(stack, stack', t, Len(stack[t]) + 1, f)
         /\ Len(stack'[t]) = Len(stack[t]) + 1
         /\ OneSender(stack') /\ OneCloser(stack')
<1>1. /\ Changes(stack, stack', t, Len(stack[t]) + 1, f)
      /\ Len(stack'[t]) = Len(stack[t]) + 1
  BY CallChanges DEF Call, StackTypes
<1>2. \A s \in Stones : Sends(f, s) => OnlySends(stack, s, t, Len(stack[t]) + 1)
  BY DEF Sends
<1>3. \A c \in Conns : Closes(f, c) => OnlyCloses(stack, c, t, Len(stack[t]) + 1)
  BY DEF OnlySends, OnlyCloses
<1> QED BY <1>1, <1>2, <1>3, OneSenderChange, OneCloserChange

(* The innermost call returns.                                              *)
LEMMA Returning ==
  ASSUME StackTypes, OneSender(stack), OneCloser(stack),
         NEW t \in Threads, stack[t] # <<>>, stack' = [stack EXCEPT ![t] = Front(@)]
  PROVE  /\ Changes(stack, stack', t, Len(stack[t]), Top(t))
         /\ Len(stack'[t]) = Len(stack[t]) - 1
         /\ OneSender(stack') /\ OneCloser(stack')
<1>1. Changes(stack, stack', t, Len(stack[t]), Top(t))
  BY ReturnChanges DEF StackTypes
<1>2. Len(stack[t]) \in 1 .. Len(stack[t]) /\ Top(t) = stack[t][Len(stack[t])]
  BY TopFrame
<1>3. \A s \in Stones : Sends(Top(t), s) => OnlySends(stack, s, t, Len(stack[t]))
  BY <1>2 DEF OnlySends, OnlyCloses, OneSender
<1>4. \A c \in Conns : Closes(Top(t), c) => OnlyCloses(stack, c, t, Len(stack[t]))
  BY <1>2 DEF OnlySends, OnlyCloses, OneCloser
<1>5. stack'[t] = Front(stack[t]) /\ stack[t] \in Seq(Frames)
  BY DEF StackTypes
<1>6. Len(stack'[t]) = Len(stack[t]) - 1
  BY <1>5, FrontProperties
<1> QED BY <1>1, <1>3, <1>4, <1>6, OneSenderChange, OneCloserChange

(* The other frames when the innermost call of a thread changes.            *)
LEMMA OtherFrames ==
  ASSUME StackTypes, OneSender(stack), OneCloser(stack), SendersSound, ClosersSound,
         NEW t \in Threads, stack[t] # <<>>, NEW g, Other(g, t, Len(stack[t]))
  PROVE  /\ g \in Frames /\ SendSound(g) /\ CloseSound(g)
         /\ \A s \in Stones : Sends(Top(t), s) => ~Sends(g, s)
         /\ \A c \in Conns : Closes(Top(t), c) => ~Closes(g, c)
<1>0. PICK u \in Threads : \E i \in 1 .. Len(stack[u]) :
        ~(u = t /\ i = Len(stack[t])) /\ stack[u][i] = g
  BY DEF Other
<1>1. PICK i \in 1 .. Len(stack[u]) : ~(u = t /\ i = Len(stack[t])) /\ stack[u][i] = g
  BY <1>0
<1>2. stack[u] \in Seq(Frames)
  BY DEF StackTypes
<1>3. g \in Frames
  BY <1>1, <1>2, ElementOfSeq
<1>4. SendSound(g)
  BY <1>1 DEF SendersSound
<1>5. CloseSound(g)
  BY <1>1 DEF ClosersSound
<1>6. Len(stack[t]) \in 1 .. Len(stack[t]) /\ Top(t) = stack[t][Len(stack[t])]
  BY TopFrame
<1>7. \A s \in Stones : Sends(Top(t), s) => ~Sends(g, s)
  BY <1>1, <1>6 DEF OneSender
<1>8. \A c \in Conns : Closes(Top(t), c) => ~Closes(g, c)
  BY <1>1, <1>6 DEF OneCloser
<1> QED BY <1>3, <1>4, <1>5, <1>7, <1>8

(* All frames are sound after a step if the new one is and the others are.  *)
LEMMA SoundChange ==
  ASSUME NEW t, NEW n, NEW f, Changes(stack, stack', t, n, f),
         n \in 1 .. Len(stack'[t]) => SendSound(f)' /\ CloseSound(f)',
         \A g : Other(g, t, n) => SendSound(g)' /\ CloseSound(g)'
  PROVE  SendersSound' /\ ClosersSound'
<1>1. ASSUME NEW u \in Threads, NEW i \in 1 .. Len(stack'[u])
      PROVE  \E g : g = stack'[u][i] /\ SendSound(g)' /\ CloseSound(g)'
  <2>1. IF u = t /\ i = n THEN stack'[u][i] = f
        ELSE i \in 1 .. Len(stack[u]) /\ stack'[u][i] = stack[u][i]
    BY DEF Changes
  <2>2. CASE u = t /\ i = n
    BY <2>1, <2>2
  <2>3. CASE ~(u = t /\ i = n)
    <3>1. Other(stack[u][i], t, n)
      BY <2>1, <2>3 DEF Other
    <3> QED BY <2>1, <2>3, <3>1
  <2> QED BY <2>2, <2>3
<1>2. SendersSound'
  BY <1>1 DEF SendersSound, SendSound
<1>3. ClosersSound'
  BY <1>1 DEF ClosersSound, CloseSound
<1> QED BY <1>2, <1>3
-----------------------------------------------------------------------------
(* Connections and who holds them.                                          *)

LEMMA HoldersCount ==
  ASSUME NEW f, NEW c
  PROVE  /\ IsFiniteSet(Holders(f, c)) /\ Cardinality(Holders(f, c)) \in Nat
         /\ \A s \in Stones : f[s] = c => Cardinality(Holders(f, c)) >= 1
         /\ (\A s \in Stones : f[s] # c) => Cardinality(Holders(f, c)) = 0
<1>1. IsFiniteSet(Stones)
  <2>1. Cardinality(Stones) \in Nat /\ Stones = 1 .. Cardinality(Stones)
    BY BridgeAssumption
  <2>2. \A n \in Nat : IsFiniteSet(1 .. n)
    BY FS_Interval
  <2> QED BY <2>1, <2>2
<1>2. Holders(f, c) \subseteq Stones
  BY DEF Holders
<1>3. IsFiniteSet(Holders(f, c)) /\ Cardinality(Holders(f, c)) \in Nat
  BY <1>1, <1>2, FS_Subset, FS_CardinalityType
<1>4. Cardinality(Holders(f, c)) = 0 <=> Holders(f, c) = {}
  BY <1>3, FS_EmptySet
<1>5. \A s \in Stones : f[s] = c => Cardinality(Holders(f, c)) # 0
  BY <1>4 DEF Holders
<1>6. (\A s \in Stones : f[s] # c) => Cardinality(Holders(f, c)) = 0
  BY <1>4 DEF Holders
<1> QED BY <1>3, <1>5, <1>6

(* A stone takes a connection or lets go of it.                             *)
Differ(f, g, s) == \A w \in Stones : w # s => g[w] = f[w]

LEMMA HoldersUpdate ==
  ASSUME NEW f, NEW g, NEW s \in Stones, NEW c, Differ(f, g, s)
  PROVE  /\ f[s] = c /\ g[s] # c => Cardinality(Holders(g, c)) = Cardinality(Holders(f, c)) - 1
         /\ f[s] # c /\ g[s] = c => Cardinality(Holders(g, c)) = Cardinality(Holders(f, c)) + 1
         /\ (f[s] = c <=> g[s] = c) => Cardinality(Holders(g, c)) = Cardinality(Holders(f, c))
<1> DEFINE S == Holders(f, c)
           T == Holders(g, c)
<1>1. IsFiniteSet(S) /\ Cardinality(S) \in Nat /\ IsFiniteSet(S \ {s})
  BY HoldersCount, FS_RemoveElement
<1>2. s \in S <=> f[s] = c
  BY DEF Holders, Differ
<1>3. g[s] = c => T = (S \ {s}) \cup {s}
  BY DEF Holders, Differ
<1>4. g[s] # c => T = S \ {s}
  BY DEF Holders, Differ
<1> HIDE DEF S, T
<1>5. Cardinality(S \ {s}) = IF f[s] = c THEN Cardinality(S) - 1 ELSE Cardinality(S)
  BY <1>1, <1>2, FS_RemoveElement
<1>6. Cardinality((S \ {s}) \cup {s}) = Cardinality(S \ {s}) + 1
  BY <1>1, FS_AddElement
<1>7. Cardinality(T) = IF g[s] = c THEN Cardinality(S \ {s}) + 1 ELSE Cardinality(S \ {s})
  BY <1>3, <1>4, <1>6
<1>8. /\ f[s] = c /\ g[s] # c => Cardinality(T) = Cardinality(S) - 1
      /\ f[s] # c /\ g[s] = c => Cardinality(T) = Cardinality(S) + 1
      /\ (f[s] = c <=> g[s] = c) => Cardinality(T) = Cardinality(S)
  BY <1>1, <1>5, <1>7
<1> QED BY <1>8 DEF S, T

LEMMA StoneTakes ==
  ASSUME NEW f, NEW g, NEW s \in Stones, NEW c \in Conns, Differ(f, g, s),
         f[s] = None, g[s] = c
  PROVE  /\ \A d \in Conns : d # c => Cardinality(Holders(g, d)) = Cardinality(Holders(f, d))
         /\ Cardinality(Holders(g, c)) = Cardinality(Holders(f, c)) + 1
<1>1. None \notin Conns
  BY BridgeAssumption
<1>2. ASSUME NEW d \in Conns, d # c
      PROVE  Cardinality(Holders(g, d)) = Cardinality(Holders(f, d))
  <2>1. f[s] = d <=> g[s] = d
    BY <1>1, <1>2
  <2> QED BY <2>1, HoldersUpdate
<1>3. f[s] # c
  BY <1>1
<1>4. Cardinality(Holders(g, c)) = Cardinality(Holders(f, c)) + 1
  BY <1>3, HoldersUpdate
<1> QED BY <1>2, <1>4

LEMMA StoneLeaves ==
  ASSUME NEW f, NEW g, NEW s \in Stones, NEW c \in Conns, Differ(f, g, s),
         f[s] = c, g[s] = None
  PROVE  /\ \A d \in Conns : d # c => Cardinality(Holders(g, d)) = Cardinality(Holders(f, d))
         /\ Cardinality(Holders(g, c)) = Cardinality(Holders(f, c)) - 1
<1>1. None \notin Conns
  BY BridgeAssumption
<1>2. ASSUME NEW d \in Conns, d # c
      PROVE  Cardinality(Holders(g, d)) = Cardinality(Holders(f, d))
  <2>1. f[s] = d <=> g[s] = d
    BY <1>1, <1>2
  <2> QED BY <2>1, HoldersUpdate
<1>3. g[s] # c
  BY <1>1
<1>4. Cardinality(Holders(g, c)) = Cardinality(Holders(f, c)) - 1
  BY <1>3, HoldersUpdate
<1> QED BY <1>2, <1>4

(* What the operations do to the structure they are about.                  *)
LEMMA BreakEffect ==
  ASSUME NEW cs \in [Conns -> Connection], NEW c \in Conns
  PROVE  \E e \in Connection :
           /\ Break(cs, c) = [cs EXCEPT ![c] = e]
           /\ e.refs = cs[c].refs - 1 /\ e.used = cs[c].used /\ e.listed = cs[c].listed
           /\ e.closed = cs[c].closed /\ e.failed = TRUE /\ e.pending = FALSE
<1> DEFINE n == cs[c].refs - 1
           e == [cs[c] EXCEPT !.failed = TRUE, !.pending = FALSE, !.hooks = <<>>, !.refs = n]
<1>1. cs[c] \in Connection /\ n \in Int /\ <<>> \in Seq(Stones)
  BY DEF Connection
<1>2. Break(cs, c) = [cs EXCEPT ![c] = e]
  BY <1>1 DEF Break, Dereference, Connection
<1> HIDE DEF n
<1>3. e \in Connection
  BY <1>1 DEF Connection
<1>4. /\ e.refs = n /\ e.used = cs[c].used /\ e.listed = cs[c].listed
      /\ e.closed = cs[c].closed /\ e.failed = TRUE /\ e.pending = FALSE
  BY <1>1 DEF Connection
<1> HIDE DEF e
<1> QED BY <1>2, <1>3, <1>4 DEF n

LEMMA UnlistEffect ==
  ASSUME NEW cs \in [Conns -> Connection], NEW c \in Conns
  PROVE  \E e \in Connection :
           /\ Unlist(cs, c) = [cs EXCEPT ![c] = e]
           /\ e.refs = cs[c].refs - 1 /\ e.used = cs[c].used /\ e.listed = FALSE
           /\ e.closed = TRUE /\ e.failed = cs[c].failed /\ e.pending = cs[c].pending
<1> DEFINE n == cs[c].refs - 1
           e == [cs[c] EXCEPT !.closed = TRUE, !.listed = FALSE, !.refs = n]
<1>1. cs[c] \in Connection /\ n \in Int
  BY DEF Connection
<1>2. Unlist(cs, c) = [cs EXCEPT ![c] = e]
  BY <1>1 DEF Unlist, Dereference, Connection
<1> HIDE DEF n
<1>3. e \in Connection
  BY <1>1 DEF Connection
<1>4. /\ e.refs = n /\ e.used = cs[c].used /\ e.listed = FALSE
      /\ e.closed = TRUE /\ e.failed = cs[c].failed /\ e.pending = cs[c].pending
  BY <1>1 DEF Connection
<1> HIDE DEF e
<1> QED BY <1>2, <1>3, <1>4 DEF n

LEMMA CloseEffect ==
  ASSUME NEW cs \in [Conns -> Connection], NEW c \in Conns
  PROVE  \E e \in Connection :
           /\ Close(cs, c) = [cs EXCEPT ![c] = e]
           /\ e.refs = cs[c].refs - 1 /\ e.used = cs[c].used /\ e.listed = cs[c].listed
           /\ e.closed = TRUE /\ e.failed = cs[c].failed /\ e.pending = cs[c].pending
<1> DEFINE n == cs[c].refs - 1
           e == [cs[c] EXCEPT !.closed = TRUE, !.refs = n]
<1>1. cs[c] \in Connection /\ n \in Int
  BY DEF Connection
<1>2. Close(cs, c) = [cs EXCEPT ![c] = e]
  BY <1>1 DEF Close, Dereference, Connection
<1> HIDE DEF n
<1>3. e \in Connection
  BY <1>1 DEF Connection
<1>4. /\ e.refs = n /\ e.used = cs[c].used /\ e.listed = cs[c].listed
      /\ e.closed = TRUE /\ e.failed = cs[c].failed /\ e.pending = cs[c].pending
  BY <1>1 DEF Connection
<1> HIDE DEF e
<1> QED BY <1>2, <1>3, <1>4 DEF n

LEMMA TakeEffect ==
  ASSUME NEW cs \in [Conns -> Connection], NEW c \in Conns, NEW h \in Seq(Stones)
  PROVE  \E e \in Connection :
           /\ [cs EXCEPT ![c].refs = @ + 1, ![c].hooks = h] = [cs EXCEPT ![c] = e]
           /\ e.refs = cs[c].refs + 1 /\ e.used = cs[c].used /\ e.listed = cs[c].listed
           /\ e.closed = cs[c].closed /\ e.failed = cs[c].failed /\ e.pending = cs[c].pending
<1> DEFINE n == cs[c].refs + 1
           e == [cs[c] EXCEPT !.refs = n, !.hooks = h]
<1>1. cs[c] \in Connection /\ n \in Int
  BY DEF Connection
<1>2. [cs EXCEPT ![c].refs = @ + 1, ![c].hooks = h] = [cs EXCEPT ![c] = e]
  BY <1>1 DEF Connection
<1> HIDE DEF n
<1>3. e \in Connection
  BY <1>1 DEF Connection
<1>4. /\ e.refs = n /\ e.used = cs[c].used /\ e.listed = cs[c].listed
      /\ e.closed = cs[c].closed /\ e.failed = cs[c].failed /\ e.pending = cs[c].pending
  BY <1>1 DEF Connection
<1> HIDE DEF e
<1> QED BY <1>2, <1>3, <1>4 DEF n

LEMMA ShareEffect ==
  ASSUME NEW cs \in [Conns -> Connection], NEW c \in Conns
  PROVE  \E e \in Connection :
           /\ [cs EXCEPT ![c].refs = @ + 1] = [cs EXCEPT ![c] = e]
           /\ e.refs = cs[c].refs + 1 /\ e.used = cs[c].used /\ e.listed = cs[c].listed
           /\ e.closed = cs[c].closed /\ e.failed = cs[c].failed /\ e.pending = cs[c].pending
<1> DEFINE n == cs[c].refs + 1
           e == [cs[c] EXCEPT !.refs = n]
<1>1. cs[c] \in Connection /\ n \in Int
  BY DEF Connection
<1>2. [cs EXCEPT ![c].refs = @ + 1] = [cs EXCEPT ![c] = e]
  BY <1>1 DEF Connection
<1> HIDE DEF n
<1>3. e \in Connection
  BY <1>1 DEF Connection
<1>4. /\ e.refs = n /\ e.used = cs[c].used /\ e.listed = cs[c].listed
      /\ e.closed = cs[c].closed /\ e.failed = cs[c].failed /\ e.pending = cs[c].pending
  BY <1>1 DEF Connection
<1> HIDE DEF e
<1> QED BY <1>2, <1>3, <1>4 DEF n

(* A stone gives up its connection after a write that was refused.          *)
LEMMA GiveUpEffect ==
  ASSUME NEW cs \in [Conns -> Connection], NEW c \in Conns
  PROVE  \E e \in Connection :
           /\ Close(FailClosed(cs, c), c) = [cs EXCEPT ![c] = e]
           /\ e.refs = (IF cs[c].failed THEN cs[c].refs - 1 ELSE cs[c].refs - 3)
           /\ e.used = cs[c].used /\ e.failed = TRUE /\ e.closed = TRUE
           /\ e.listed = (IF cs[c].failed THEN cs[c].listed ELSE FALSE)
           /\ e.pending = (IF cs[c].failed THEN cs[c].pending ELSE FALSE)
<1>1. CASE cs[c].failed
  <2>1. FailClosed(cs, c) = cs
    BY <1>1 DEF FailClosed
  <2>2. cs[c].failed = TRUE
    BY <1>1 DEF Connection
  <2>3. PICK e \in Connection :
          /\ Close(cs, c) = [cs EXCEPT ![c] = e]
          /\ e.refs = cs[c].refs - 1 /\ e.used = cs[c].used /\ e.listed = cs[c].listed
          /\ e.closed = TRUE /\ e.failed = cs[c].failed /\ e.pending = cs[c].pending
    BY CloseEffect
  <2>4. /\ Close(FailClosed(cs, c), c) = [cs EXCEPT ![c] = e]
        /\ e.used = cs[c].used /\ e.failed = TRUE /\ e.closed = TRUE
    BY <2>1, <2>2, <2>3
  <2>5. /\ e.refs = (IF cs[c].failed THEN cs[c].refs - 1 ELSE cs[c].refs - 3)
        /\ e.listed = (IF cs[c].failed THEN cs[c].listed ELSE FALSE)
        /\ e.pending = (IF cs[c].failed THEN cs[c].pending ELSE FALSE)
    BY <1>1, <2>3
  <2> QED BY <2>4, <2>5
<1>2. CASE ~cs[c].failed
  <2>1. PICK x \in Connection :
          /\ Break(cs, c) = [cs EXCEPT ![c] = x]
          /\ x.refs = cs[c].refs - 1 /\ x.used = cs[c].used
          /\ x.failed = TRUE /\ x.pending = FALSE
    BY BreakEffect
  <2> DEFINE b == [cs EXCEPT ![c] = x]
  <2>2. b \in [Conns -> Connection] /\ b[c] = x
    OBVIOUS
  <2>3. PICK y \in Connection :
          /\ Unlist(b, c) = [b EXCEPT ![c] = y]
          /\ y.refs = b[c].refs - 1 /\ y.used = b[c].used /\ y.listed = FALSE
          /\ y.failed = b[c].failed /\ y.pending = b[c].pending
    BY <2>2, UnlistEffect
  <2> DEFINE u == [b EXCEPT ![c] = y]
  <2>4. u \in [Conns -> Connection] /\ u[c] = y
    BY <2>2
  <2>5. PICK e \in Connection :
          /\ Close(u, c) = [u EXCEPT ![c] = e]
          /\ e.refs = u[c].refs - 1 /\ e.used = u[c].used /\ e.listed = u[c].listed
          /\ e.closed = TRUE /\ e.failed = u[c].failed /\ e.pending = u[c].pending
    BY <2>4, CloseEffect
  <2>6. [u EXCEPT ![c] = e] = [cs EXCEPT ![c] = e]
    OBVIOUS
  <2>7. FailClosed(cs, c) = u
    BY <1>2, <2>1, <2>3 DEF FailClosed
  <2>8. e.refs = cs[c].refs - 3
    <3>1. x.refs \in Int /\ cs[c].refs \in Int
      BY DEF Connection
    <3>2. e.refs = cs[c].refs - 1 - 1 - 1
      BY <2>1, <2>2, <2>3, <2>4, <2>5
    <3> QED BY <3>1, <3>2
  <2>9. e.used = cs[c].used /\ e.listed = FALSE /\ e.failed = TRUE /\ e.pending = FALSE
    BY <2>1, <2>2, <2>3, <2>4, <2>5
  <2> HIDE DEF b, u
  <2>10. Close(FailClosed(cs, c), c) = [cs EXCEPT ![c] = e]
    BY <2>5, <2>6, <2>7
  <2> QED BY <1>2, <2>5, <2>8, <2>9, <2>10
<1> QED BY <1>1, <1>2

(* A structure changes, and perhaps who holds it: the count stays exact.    *)
LEMMA CountUpdate ==
  ASSUME ConnTypes, Counted, HeldUsed,
         conn \in [Stones -> Conns \cup {None}], conn' \in [Stones -> Conns \cup {None}],
         NEW c \in Conns, NEW e \in Connection, conns' = [conns EXCEPT ![c] = e],
         shared' \in {shared, c, None},
         \A s \in Stones : conn'[s] \in {conn[s], c, None},
         \A d \in Conns : d # c =>
           /\ shared = d <=> shared' = d
           /\ Cardinality(Holders(conn', d)) = Cardinality(Holders(conn, d)),
         e.refs = Has(e.listed) + Has(e.used /\ ~e.failed)
                    + Has(shared' = c) + Cardinality(Holders(conn', c)),
         e.used, ~e.failed => e.listed
  PROVE  ConnTypes' /\ Counted' /\ HeldUsed'
<1>1. conns' \in [Conns -> Connection] /\ shared' \in Conns \cup {None}
  BY DEF ConnTypes
<1>2. conns'[c] = e /\ \A d \in Conns : d # c => conns'[d] = conns[d]
  BY DEF ConnTypes
<1>3. ASSUME NEW d \in Conns PROVE CountedAt(d)'
  <2>1. CASE d = c
    BY <2>1, <1>2 DEF CountedAt
  <2>2. CASE d # c
    <3>1. conns'[d] = conns[d] /\ (shared = d <=> shared' = d)
          /\ Cardinality(Holders(conn', d)) = Cardinality(Holders(conn, d))
      BY <2>2, <1>2
    <3>2. Has(shared' = d) = Has(shared = d)
      BY <3>1 DEF Has
    <3>3. CountedAt(d)
      BY DEF Counted
    <3> QED BY <3>1, <3>2, <3>3 DEF CountedAt
  <2> QED BY <2>1, <2>2
<1>4. \A d \in Conns : conns[d].used => conns'[d].used
  BY <1>2
<1>5. HeldUsed'
  <2>1. ASSUME NEW s \in Stones, conn'[s] # None PROVE conns'[conn'[s]].used
    BY <2>1, <1>2, <1>4 DEF HeldUsed
  <2>2. ASSUME shared' # None PROVE conns'[shared'].used
    BY <2>2, <1>2, <1>4 DEF HeldUsed, ConnTypes
  <2> QED BY <2>1, <2>2 DEF HeldUsed
<1> QED BY <1>1, <1>3, <1>5 DEF ConnTypes, Counted
-----------------------------------------------------------------------------
(* Every step keeps the counts.                                             *)

LEMMA CountSame ==
  ASSUME ConnTypes, Counted, HeldUsed, conn' = conn, conns' = conns, shared' = shared
  PROVE  ConnTypes' /\ Counted' /\ HeldUsed'
<1>1. ConnTypes'
  BY DEF ConnTypes
<1>2. Counted'
  BY DEF Counted, CountedAt
<1>3. HeldUsed'
  BY DEF HeldUsed
<1> QED BY <1>1, <1>2, <1>3

(* What the innermost call is about.                                        *)
LEMMA TopAt ==
  ASSUME StackTypes, NEW t \in Threads, NEW at, In(t, at)
  PROVE  /\ stack[t] # <<>> /\ Top(t) \in Frames /\ Top(t).at = at
         /\ Len(stack[t]) \in 1 .. Len(stack[t]) /\ Len(stack[t]) \in Nat
         /\ Top(t) = stack[t][Len(stack[t])]
         /\ at = "pass" => Top(t).stone \in Int
         /\ at \in Sending \cup {"drain"} => Top(t).stone \in Stones
         /\ at \in Closers \cup {"blocked"} => Top(t).conn \in Conns
         /\ Top(t).hooks \in Seq(Stones) /\ Top(t).conn \in Conns \cup {None}
         /\ at = "handler" => Top(t).hooks # <<>>
<1>1. /\ stack[t] # <<>> /\ Top(t) \in Frames /\ Top(t).at = at
      /\ Len(stack[t]) \in 1 .. Len(stack[t]) /\ Len(stack[t]) \in Nat
      /\ Top(t) = stack[t][Len(stack[t])]
  BY TopFrame DEF In
<1> QED BY <1>1 DEF Frames

(* The frame on top and what it is about are sound.                         *)
LEMMA TopSound ==
  ASSUME StackTypes, SendersSound, ClosersSound, NEW t \in Threads, stack[t] # <<>>
  PROVE  SendSound(Top(t)) /\ CloseSound(Top(t))
BY TopFrame DEF SendersSound, ClosersSound


LEMMA GotoKeeps ==
  ASSUME RefsInv, NEW t \in Threads, stack[t] # <<>>, NEW f \in Frames, Goto(t, f),
         \A s \in Stones : Sends(f, s) =>
           \/ Sends(Top(t), s)
           \/ \A u \in Threads : \A i \in 1 .. Len(stack[u]) : ~Sends(stack[u][i], s),
         \A c \in Conns : Closes(f, c) => Closes(Top(t), c),
         BridgeTypes', OtherTypes', ConnTypes' /\ Counted' /\ HeldUsed',
         SendSound(f)' /\ CloseSound(f)',
         \A g \in Frames :
           /\ SendSound(g) /\ CloseSound(g)
           /\ \A s \in Stones : Sends(Top(t), s) => ~Sends(g, s)
           /\ \A c \in Conns : Closes(Top(t), c) => ~Closes(g, c)
           => SendSound(g)' /\ CloseSound(g)'
  PROVE  RefsInv'
<1>1. /\ Changes(stack, stack', t, Len(stack[t]), f)
      /\ OneSender(stack') /\ OneCloser(stack')
  BY GoesOn DEF RefsInv, Types
<1>2. \A g : Other(g, t, Len(stack[t])) => SendSound(g)' /\ CloseSound(g)'
  BY OtherFrames DEF RefsInv, Types
<1>3. SendersSound' /\ ClosersSound'
  BY <1>1, <1>2, SoundChange
<1>4. StackTypes'
  BY <1>1 DEF StackTypes, Changes
<1> QED BY <1>1, <1>3, <1>4 DEF RefsInv, Types

LEMMA ReturnKeeps ==
  ASSUME RefsInv, NEW t \in Threads, stack[t] # <<>>, stack' = [stack EXCEPT ![t] = Front(@)],
         BridgeTypes', OtherTypes', ConnTypes' /\ Counted' /\ HeldUsed',
         \A g \in Frames :
           /\ SendSound(g) /\ CloseSound(g)
           /\ \A s \in Stones : Sends(Top(t), s) => ~Sends(g, s)
           /\ \A c \in Conns : Closes(Top(t), c) => ~Closes(g, c)
           => SendSound(g)' /\ CloseSound(g)'
  PROVE  RefsInv'
<1>1. /\ Changes(stack, stack', t, Len(stack[t]), Top(t))
      /\ Len(stack'[t]) = Len(stack[t]) - 1
      /\ OneSender(stack') /\ OneCloser(stack')
  BY Returning DEF RefsInv, Types
<1>2. \A g : Other(g, t, Len(stack[t])) => SendSound(g)' /\ CloseSound(g)'
  BY OtherFrames DEF RefsInv, Types
<1>3. Len(stack[t]) \notin 1 .. Len(stack'[t])
  <2>1. Len(stack[t]) \in Nat
    BY TopFrame DEF RefsInv, Types
  <2>2. \A n, m \in Int : m = n - 1 => n \notin 1 .. m
    OBVIOUS
  <2> QED BY <1>1, <2>1, <2>2
<1>4. SendersSound' /\ ClosersSound'
  BY <1>1, <1>2, <1>3, SoundChange
<1>5. StackTypes'
  BY <1>1 DEF StackTypes, Changes
<1> QED BY <1>1, <1>4, <1>5 DEF RefsInv, Types

LEMMA CallKeeps ==
  ASSUME RefsInv, NEW t \in Threads, NEW f \in Frames, Call(t, f), f.at \notin Sending,
         \A c \in Conns : Closes(f, c) =>
           \A u \in Threads : \A i \in 1 .. Len(stack[u]) : ~Closes(stack[u][i], c),
         BridgeTypes', OtherTypes', ConnTypes' /\ Counted' /\ HeldUsed',
         CloseSound(f)',
         \A g \in Frames : SendSound(g) /\ CloseSound(g) => SendSound(g)' /\ CloseSound(g)'
  PROVE  RefsInv'
<1>1. /\ Changes(stack, stack', t, Len(stack[t]) + 1, f)
      /\ OneSender(stack') /\ OneCloser(stack')
  BY Calling DEF RefsInv, Types
<1>2. \A g : Other(g, t, Len(stack[t]) + 1) => SendSound(g)' /\ CloseSound(g)'
  <2>1. ASSUME NEW g, Other(g, t, Len(stack[t]) + 1)
        PROVE  g \in Frames /\ SendSound(g) /\ CloseSound(g)
    <3>1. PICK u \in Threads : \E i \in 1 .. Len(stack[u]) : stack[u][i] = g
      BY <2>1 DEF Other
    <3>2. PICK i \in 1 .. Len(stack[u]) : stack[u][i] = g
      BY <3>1
    <3>3. stack[u] \in Seq(Frames)
      BY DEF RefsInv, Types, StackTypes
    <3>4. g \in Frames
      BY <3>2, <3>3, ElementOfSeq
    <3> QED BY <3>2, <3>4 DEF RefsInv, SendersSound, ClosersSound
  <2> QED BY <2>1
<1>3. SendSound(f)'
  BY DEF SendSound
<1>4. SendersSound' /\ ClosersSound'
  BY <1>1, <1>2, <1>3, SoundChange
<1>5. StackTypes'
  BY <1>1 DEF StackTypes, Changes
<1> QED BY <1>1, <1>4, <1>5 DEF RefsInv, Types

(* A step that leaves the stacks alone.                                     *)
LEMMA StayKeeps ==
  ASSUME RefsInv, stack' = stack,
         BridgeTypes', OtherTypes', ConnTypes' /\ Counted' /\ HeldUsed',
         \A g \in Frames : SendSound(g) /\ CloseSound(g) => SendSound(g)' /\ CloseSound(g)'
  PROVE  RefsInv'
<1>1. ASSUME NEW u \in Threads, NEW i \in 1 .. Len(stack[u])
      PROVE  stack[u][i] \in Frames /\ SendSound(stack[u][i]) /\ CloseSound(stack[u][i])
  <2>1. stack[u] \in Seq(Frames)
    BY DEF RefsInv, Types, StackTypes
  <2> QED BY <2>1, ElementOfSeq DEF RefsInv, SendersSound, ClosersSound
<1>2. SendersSound'
  BY <1>1 DEF SendersSound, SendSound
<1>3. ClosersSound'
  BY <1>1 DEF ClosersSound, CloseSound
<1>4. StackTypes' /\ OneSender(stack') /\ OneCloser(stack')
  BY DEF RefsInv, Types, StackTypes
<1> QED BY <1>2, <1>3, <1>4 DEF RefsInv, Types
-----------------------------------------------------------------------------
(* The pass over the stones.                                                *)

LEMMA NobodySends ==
  ASSUME SendersSound, NEW s \in Stones, ~outputting[s]
  PROVE  \A u \in Threads : \A i \in 1 .. Len(stack[u]) : ~Sends(stack[u][i], s)
BY DEF SendersSound, SendSound, Sends

LEMMA NobodyCloses ==
  ASSUME ClosersSound, NEW c \in Conns, ~conns[c].failed
  PROVE  \A u \in Threads : \A i \in 1 .. Len(stack[u]) : ~Closes(stack[u][i], c)
BY DEF ClosersSound, CloseSound, Closes

LEMMA NextStoneFrame ==
  ASSUME NEW s \in Stones
  PROVE  /\ NextStone(s) \in Frames /\ NextStone(s).at = "pass" /\ NextStone(s).stone = s + 1
         /\ \A x : ~Sends(NextStone(s), x) /\ ~Closes(NextStone(s), x)
         /\ SendSound(NextStone(s))' /\ CloseSound(NextStone(s))'
<1>1. s + 1 \in Int
  BY BridgeAssumption
<1>2. NextStone(s) \in Frames
  BY <1>1, FrameTypes DEF NextStone
<1>3. NextStone(s).at = "pass" /\ NextStone(s).stone = s + 1
  BY DEF NextStone, Frame
<1> HIDE DEF NextStone
<1>4. \A x : ~Sends(NextStone(s), x) /\ ~Closes(NextStone(s), x)
  BY <1>3 DEF Sends, Closes, Sending, Closers
<1>5. SendSound(NextStone(s))' /\ CloseSound(NextStone(s))'
  BY <1>3 DEF SendSound, CloseSound, Sending, Closers
<1> QED BY <1>2, <1>3, <1>4, <1>5

LEMMA SendFrame ==
  ASSUME NEW at \in {"connecting", "loop", "unsent"}, NEW s \in Stones
  PROVE  /\ Frame(at, s, None) \in Frames
         /\ Frame(at, s, None).at = at /\ Frame(at, s, None).stone = s
         /\ \A x : Sends(Frame(at, s, None), x) <=> x = s
         /\ \A x : ~Closes(Frame(at, s, None), x)
         /\ CloseSound(Frame(at, s, None))'
<1>1. Frame(at, s, None) \in Frames
  BY FrameTypes
<1>2. Frame(at, s, None).at = at /\ Frame(at, s, None).stone = s
  BY DEF Frame
<1>3. at \in Sending /\ at \notin Closers
  BY DEF Sending, Closers
<1> QED BY <1>1, <1>2, <1>3 DEF Sends, Closes, CloseSound

LEMMA SameSound ==
  ASSUME NEW g, outputting' = outputting, draining' = draining, conn' = conn,
         connFailed' = connFailed, queue' = queue, program' = program, conns' = conns
  PROVE  SendSound(g) /\ CloseSound(g) => SendSound(g)' /\ CloseSound(g)'
BY DEF SendSound, CloseSound

LEMMA SkipRefs ==
  ASSUME RefsInv, NEW t \in Threads, NEW s \in Stones, Skip(t, s)
  PROVE  RefsInv'
<1>1. stack[t] # <<>> /\ Goto(t, NextStone(s))
  BY TopAt DEF Skip, Running, In
<1>2. /\ outputting' = outputting /\ draining' = draining /\ conn' = conn /\ frozen' = frozen
      /\ connFailed' = connFailed /\ queue' = queue /\ program' = program /\ conns' = conns
      /\ shared' = shared /\ alive' = alive /\ discarded' = discarded
  BY DEF Skip, bridges, input, outcome
<1>3. BridgeTypes'
  BY <1>2 DEF RefsInv, Types, BridgeTypes
<1>4. OtherTypes'
  <2>1. tasks' \in Nat /\ delayPending' \in BOOLEAN
    BY DEF Skip, Defers, Held, RefsInv, Types, OtherTypes
  <2> QED BY <1>2, <2>1 DEF RefsInv, Types, OtherTypes
<1>5. ConnTypes' /\ Counted' /\ HeldUsed'
  BY <1>2, CountSame DEF RefsInv, Types
<1> QED BY <1>1, <1>2, <1>3, <1>4, <1>5, NextStoneFrame, SameSound, GotoKeeps

(* A stone whose connection failed before is left outputting.               *)
LEMMA StartGivesUpRefs ==
  ASSUME RefsInv, NEW t \in Threads, NEW s \in Stones, StartGivesUp(t, s)
  PROVE  RefsInv'
<1>1. stack[t] # <<>> /\ Goto(t, NextStone(s))
  BY TopAt DEF StartGivesUp, Starts, In
<1>2. /\ outputting' = [outputting EXCEPT ![s] = TRUE] /\ draining' = draining /\ conn' = conn
      /\ frozen' = frozen /\ connFailed' = connFailed /\ queue' = queue /\ program' = program
      /\ conns' = conns /\ shared' = shared /\ alive' = alive /\ discarded' = discarded
      /\ tasks' = tasks /\ delayPending' = delayPending
  BY DEF StartGivesUp, Starts, deferral, input, outcome
<1>3. BridgeTypes'
  BY <1>2 DEF RefsInv, Types, BridgeTypes
<1>4. OtherTypes'
  BY <1>2 DEF RefsInv, Types, OtherTypes
<1>5. ConnTypes' /\ Counted' /\ HeldUsed'
  BY <1>2, CountSame DEF RefsInv, Types
<1>6. \A g : SendSound(g) /\ CloseSound(g) => SendSound(g)' /\ CloseSound(g)'
  <2>1. \A x : outputting[x] => outputting'[x]
    BY <1>2 DEF RefsInv, Types, BridgeTypes
  <2> QED BY <1>2, <2>1 DEF SendSound, CloseSound
<1> QED BY <1>1, <1>3, <1>4, <1>5, <1>6, NextStoneFrame, GotoKeeps

(* The stone has a connection, and its loop starts.                         *)
LEMMA StartSendsRefs ==
  ASSUME RefsInv, NEW t \in Threads, NEW s \in Stones, StartSends(t, s)
  PROVE  RefsInv'
<1> DEFINE f == Frame("loop", s, None)
<1>1. stack[t] # <<>> /\ Goto(t, f)
  BY TopAt DEF StartSends, Starts, In
<1>2. /\ outputting' = [outputting EXCEPT ![s] = TRUE] /\ draining' = draining /\ conn' = conn
      /\ frozen' = frozen /\ connFailed' = connFailed /\ queue' = queue /\ program' = program
      /\ conns' = conns /\ shared' = shared /\ alive' = alive /\ discarded' = discarded
      /\ tasks' = tasks /\ delayPending' = delayPending
      /\ conn[s] # None /\ ~outputting[s] /\ draining[s] # 2
  BY DEF StartSends, Starts, Held, deferral, input, outcome
<1>3. BridgeTypes'
  BY <1>2 DEF RefsInv, Types, BridgeTypes
<1>4. OtherTypes'
  BY <1>2 DEF RefsInv, Types, OtherTypes
<1>5. ConnTypes' /\ Counted' /\ HeldUsed'
  BY <1>2, CountSame DEF RefsInv, Types
<1>6. \A x : outputting[x] => outputting'[x]
  BY <1>2 DEF RefsInv, Types, BridgeTypes
<1>7. \A g : SendSound(g) /\ CloseSound(g) => SendSound(g)' /\ CloseSound(g)'
  BY <1>2, <1>6 DEF SendSound, CloseSound
<1>8. outputting'[s]
  BY <1>2 DEF RefsInv, Types, BridgeTypes
<1>9. /\ f \in Frames /\ f.at = "loop" /\ f.stone = s
      /\ \A x : Sends(f, x) <=> x = s
      /\ \A x : ~Closes(f, x)
      /\ CloseSound(f)'
  BY SendFrame
<1> HIDE DEF f
<1>10. SendSound(f)'
  BY <1>2, <1>8, <1>9 DEF SendSound
<1>11. \A x \in Stones : Sends(f, x) =>
         \A u \in Threads : \A i \in 1 .. Len(stack[u]) : ~Sends(stack[u][i], x)
  BY <1>2, <1>9, NobodySends DEF RefsInv
<1> QED BY <1>1, <1>3, <1>4, <1>5, <1>7, <1>9, <1>10, <1>11, GotoKeeps

(* It has none and connects.                                                *)
LEMMA StartConnectsRefs ==
  ASSUME RefsInv, NEW t \in Threads, NEW s \in Stones, StartConnects(t, s)
  PROVE  RefsInv'
<1> DEFINE f == Frame("connecting", s, None)
<1>1. stack[t] # <<>> /\ Goto(t, f)
  BY TopAt DEF StartConnects, Starts, In
<1>2. /\ outputting' = [outputting EXCEPT ![s] = TRUE] /\ draining' = draining /\ conn' = conn
      /\ frozen' = frozen /\ connFailed' = connFailed /\ queue' = queue /\ program' = program
      /\ conns' = conns /\ shared' = shared /\ alive' = alive /\ discarded' = discarded
      /\ tasks' = tasks /\ delayPending' = delayPending
      /\ conn[s] = None /\ ~outputting[s] /\ draining[s] # 2
  BY DEF StartConnects, Starts, Held, deferral, input, outcome
<1>3. BridgeTypes'
  BY <1>2 DEF RefsInv, Types, BridgeTypes
<1>4. OtherTypes'
  BY <1>2 DEF RefsInv, Types, OtherTypes
<1>5. ConnTypes' /\ Counted' /\ HeldUsed'
  BY <1>2, CountSame DEF RefsInv, Types
<1>6. \A x : outputting[x] => outputting'[x]
  BY <1>2 DEF RefsInv, Types, BridgeTypes
<1>7. \A g : SendSound(g) /\ CloseSound(g) => SendSound(g)' /\ CloseSound(g)'
  BY <1>2, <1>6 DEF SendSound, CloseSound
<1>8. outputting'[s]
  BY <1>2 DEF RefsInv, Types, BridgeTypes
<1>9. /\ f \in Frames /\ f.at = "connecting" /\ f.stone = s
      /\ \A x : Sends(f, x) <=> x = s
      /\ \A x : ~Closes(f, x)
      /\ CloseSound(f)'
  BY SendFrame
<1> HIDE DEF f
<1>10. SendSound(f)'
  BY <1>2, <1>8, <1>9 DEF SendSound
<1>11. \A x \in Stones : Sends(f, x) =>
         \A u \in Threads : \A i \in 1 .. Len(stack[u]) : ~Sends(stack[u][i], x)
  BY <1>2, <1>9, NobodySends DEF RefsInv
<1> QED BY <1>1, <1>3, <1>4, <1>5, <1>7, <1>9, <1>10, <1>11, GotoKeeps

(* It finds the connection of another stone.                                *)
LEMMA StartFindsRefs ==
  ASSUME RefsInv, NEW t \in Threads, NEW s \in Stones, StartFinds(t, s)
  PROVE  RefsInv'
<1> DEFINE f == Frame("loop", s, None)
<1>1. stack[t] # <<>> /\ Goto(t, f)
  BY TopAt DEF StartFinds, Starts, In
<1>2. /\ outputting' = [outputting EXCEPT ![s] = TRUE] /\ draining' = draining
      /\ frozen' = frozen /\ connFailed' = connFailed /\ queue' = queue /\ program' = program
      /\ shared' = shared /\ alive' = alive /\ discarded' = discarded
      /\ tasks' = tasks /\ delayPending' = delayPending
      /\ conn[s] = None /\ ~outputting[s] /\ draining[s] # 2
  BY DEF StartFinds, Starts, Held, deferral, input, outcome
<1>3. PICK c \in Usable :
        /\ conns' = [conns EXCEPT ![c].refs = @ + 1, ![c].hooks = Append(@, s)]
        /\ conn' = [conn EXCEPT ![s] = c]
  BY DEF StartFinds
<1>4. c \in Conns /\ conns[c].used /\ ~conns[c].failed /\ c # None
  BY BridgeAssumption DEF Usable
<1>5. conn \in [Stones -> Conns \cup {None}] /\ conns \in [Conns -> Connection]
  BY DEF RefsInv, Types, BridgeTypes, ConnTypes
<1>6. conn' \in [Stones -> Conns \cup {None}] /\ conn'[s] = c
      /\ \A x \in Stones : x # s => conn'[x] = conn[x]
  BY <1>3, <1>4, <1>5
<1>7. ConnTypes' /\ Counted' /\ HeldUsed' /\ \A d \in Conns : conns'[d].listed = conns[d].listed
                                              /\ conns'[d].failed = conns[d].failed
  <2>1. Append(conns[c].hooks, s) \in Seq(Stones)
    BY <1>4, <1>5, AppendProperties DEF Connection
  <2>2. PICK e \in Connection :
           /\ [conns EXCEPT ![c].refs = @ + 1, ![c].hooks = Append(conns[c].hooks, s)]
                = [conns EXCEPT ![c] = e]
           /\ e.refs = conns[c].refs + 1 /\ e.used = conns[c].used /\ e.listed = conns[c].listed
           /\ e.closed = conns[c].closed /\ e.failed = conns[c].failed
           /\ e.pending = conns[c].pending
    BY <1>4, <1>5, <2>1, TakeEffect, ZenonT(90)
  <2>3. conns' = [conns EXCEPT ![c] = e]
    BY <1>3, <1>5, <2>2
  <2>4. /\ \A d \in Conns : d # c => Cardinality(Holders(conn', d)) = Cardinality(Holders(conn, d))
        /\ Cardinality(Holders(conn', c)) = Cardinality(Holders(conn, c)) + 1
    <3>1. Differ(conn, conn', s) /\ conn[s] = None /\ conn'[s] = c
      BY <1>2, <1>6 DEF Differ
    <3> QED BY <1>4, <3>1, StoneTakes
  <2>5. e.refs = Has(e.listed) + Has(e.used /\ ~e.failed) + Has(shared' = c)
                   + Cardinality(Holders(conn', c))
    <3>1. CountedAt(c)
      BY <1>4 DEF RefsInv, Counted
    <3>2. Cardinality(Holders(conn, c)) \in Nat
      BY HoldersCount
    <3> QED BY <1>2, <2>2, <2>4, <3>1, <3>2 DEF CountedAt, Has
  <2>6. e.used /\ (~e.failed => e.listed)
    BY <1>4, <2>2 DEF RefsInv, Counted, CountedAt
  <2>7. ConnTypes' /\ Counted' /\ HeldUsed'
    BY <1>2, <1>4, <1>5, <1>6, <2>3, <2>4, <2>5, <2>6, CountUpdate DEF RefsInv, Types
  <2>8. \A d \in Conns : conns'[d].listed = conns[d].listed /\ conns'[d].failed = conns[d].failed
    BY <1>5, <2>2, <2>3
  <2> QED BY <2>7, <2>8
<1>8. BridgeTypes'
  BY <1>2, <1>6 DEF RefsInv, Types, BridgeTypes
<1>9. OtherTypes'
  BY <1>2 DEF RefsInv, Types, OtherTypes
<1>10. \A u \in Threads : \A i \in 1 .. Len(stack[u]) : ~Sends(stack[u][i], s)
  BY <1>2, NobodySends DEF RefsInv
<1>12. outputting'[s] /\ \A x : outputting[x] => outputting'[x]
  BY <1>2 DEF RefsInv, Types, BridgeTypes
<1>13. /\ f \in Frames /\ f.at = "loop" /\ f.stone = s
       /\ \A x : Sends(f, x) <=> x = s
       /\ \A x : ~Closes(f, x)
       /\ CloseSound(f)'
  BY SendFrame
<1> HIDE DEF f
<1>14. SendSound(f)'
  BY <1>2, <1>4, <1>6, <1>12, <1>13 DEF SendSound
<1>15. ASSUME NEW g \in Frames, SendSound(g), CloseSound(g) PROVE SendSound(g)' /\ CloseSound(g)'
  <2>1. g.at \in Closers => g.conn \in Conns
    BY DEF Frames
  <2>2. CloseSound(g)'
    BY <1>7, <1>15, <2>1 DEF CloseSound
  <2>3. g.at \in Sending => g.stone # s /\ g.stone \in Stones
    BY <1>2, <1>15 DEF SendSound, Frames
  <2>4. SendSound(g)'
    BY <1>2, <1>6, <1>12, <1>15, <2>3 DEF SendSound
  <2> QED BY <2>2, <2>4
<1>16. \A x \in Stones : Sends(f, x) =>
         \A u \in Threads : \A i \in 1 .. Len(stack[u]) : ~Sends(stack[u][i], x)
  BY <1>10, <1>13
<1> QED BY <1>1, <1>7, <1>8, <1>9, <1>13, <1>14, <1>15, <1>16, GotoKeeps
-----------------------------------------------------------------------------
(* Connecting, and the loop over the queue.                                 *)

(* A thread that sends goes on with a stone that only it sends.             *)
LEMMA SenderTop ==
  ASSUME RefsInv, NEW t \in Threads, NEW at \in Sending, In(t, at)
  PROVE  /\ stack[t] # <<>> /\ Top(t).at = at /\ Top(t).stone \in Stones
         /\ SendSound(Top(t))
         /\ \A x : Sends(Top(t), x) <=> x = Top(t).stone
         /\ \A x : ~Closes(Top(t), x)
<1>1. stack[t] # <<>> /\ Top(t).at = at /\ Top(t).stone \in Stones
  BY TopAt DEF RefsInv, Types
<1>2. SendSound(Top(t))
  BY <1>1, TopSound DEF RefsInv, Types
<1>3. at \notin Closers
  BY DEF Sending, Closers
<1> QED BY <1>1, <1>2, <1>3 DEF Sends, Closes

LEMMA ConnectedRefs ==
  ASSUME RefsInv, NEW t \in Threads, Connected(t)
  PROVE  RefsInv'
<1>0. PICK s \in Stones : s = Top(t).stone
  BY SenderTop DEF Connected, Acquires, Sending
<1> DEFINE f == Frame("loop", s, None)
<1>1. /\ stack[t] # <<>> /\ Top(t).at = "connecting" /\ Top(t).stone = s
      /\ SendSound(Top(t))
      /\ \A x : Sends(Top(t), x) <=> x = s
      /\ \A x : ~Closes(Top(t), x)
  BY <1>0, SenderTop DEF Connected, Acquires, Sending
<1>2. Goto(t, f)
  BY <1>0 DEF Connected
<1>3. /\ outputting' = outputting /\ draining' = draining
      /\ frozen' = frozen /\ connFailed' = connFailed /\ queue' = queue /\ program' = program
      /\ shared' = shared /\ alive' = alive /\ discarded' = discarded
      /\ tasks' = tasks /\ delayPending' = delayPending
  BY DEF Connected, input, outcome
<1>4. outputting[s] /\ draining[s] # 2 /\ conn[s] = None
  BY <1>1 DEF SendSound, Sending
<1> DEFINE e == IF alive THEN [Opened EXCEPT !.hooks = <<s>>]
                ELSE [Unused EXCEPT !.used = TRUE, !.refs = 1, !.closed = TRUE, !.failed = TRUE]
<1>5. PICK c \in Conns :
        ~conns[c].used /\ conns' = [conns EXCEPT ![c] = e] /\ conn' = [conn EXCEPT ![s] = c]
  BY <1>0 DEF Connected
<1>6. conn \in [Stones -> Conns \cup {None}] /\ conns \in [Conns -> Connection] /\ c # None
  BY BridgeAssumption DEF RefsInv, Types, BridgeTypes, ConnTypes
<1>7. conn' \in [Stones -> Conns \cup {None}] /\ conn'[s] = c
      /\ \A x \in Stones : x # s => conn'[x] = conn[x]
  BY <1>1, <1>5, <1>6
<1>8. \A x \in Stones : conn[x] # c
  BY <1>5, <1>6 DEF RefsInv, HeldUsed
<1>9. shared # c
  BY <1>5, <1>6 DEF RefsInv, HeldUsed
<1>10. /\ \A d \in Conns : d # c => Cardinality(Holders(conn', d)) = Cardinality(Holders(conn, d))
       /\ Cardinality(Holders(conn', c)) = Cardinality(Holders(conn, c)) + 1
  <2>1. Differ(conn, conn', s)
    BY <1>7 DEF Differ
  <2> QED BY <1>1, <1>4, <1>7, <2>1, StoneTakes
<1>11. Cardinality(Holders(conn', c)) = 1
  <2>1. Cardinality(Holders(conn, c)) = 0
    BY <1>8, HoldersCount
  <2> QED BY <1>10, <2>1
<1>12. /\ e \in Connection /\ e.used /\ (~e.failed => e.listed)
       /\ alive => e.refs = 3 /\ e.listed /\ ~e.failed
       /\ ~alive => e.refs = 1 /\ ~e.listed /\ e.failed
  <2>1. <<s>> \in Seq(Stones) /\ <<>> \in Seq(Stones)
    BY <1>1
  <2>2. CASE alive
    <3>1. e = [used |-> TRUE, refs |-> 3, listed |-> TRUE, closed |-> FALSE, failed |-> FALSE,
               pending |-> FALSE, hooks |-> <<s>>]
      BY <2>2 DEF Opened, Unused
    <3> HIDE DEF e
    <3>2. e \in Connection
      BY <2>1, <3>1 DEF Connection
    <3>3. e.used /\ e.refs = 3 /\ e.listed /\ ~e.failed
      BY <3>1
    <3> QED BY <2>2, <3>2, <3>3
  <2>3. CASE ~alive
    <3>1. e = [used |-> TRUE, refs |-> 1, listed |-> FALSE, closed |-> TRUE, failed |-> TRUE,
               pending |-> FALSE, hooks |-> <<>>]
      BY <2>3 DEF Unused
    <3> HIDE DEF e
    <3>2. e \in Connection
      BY <2>1, <3>1 DEF Connection
    <3>3. e.used /\ e.refs = 1 /\ ~e.listed /\ e.failed
      BY <3>1
    <3> QED BY <2>3, <3>2, <3>3
  <2> QED BY <2>2, <2>3
<1> HIDE DEF e
<1>13. e.refs = Has(e.listed) + Has(e.used /\ ~e.failed) + Has(shared' = c)
                  + Cardinality(Holders(conn', c))
  <2>1. CASE alive
    BY <1>3, <1>9, <1>11, <1>12, <2>1 DEF Has
  <2>2. CASE ~alive
    BY <1>3, <1>9, <1>11, <1>12, <2>2 DEF Has
  <2> QED BY <2>1, <2>2
<1>14. ConnTypes' /\ Counted' /\ HeldUsed'
  <2>1. \A x \in Stones : conn'[x] \in {conn[x], c, None}
    BY <1>7
  <2> QED BY <1>3, <1>5, <1>6, <1>7, <1>10, <1>12, <1>13, <2>1, CountUpdate DEF RefsInv, Types
<1>15. BridgeTypes'
  BY <1>3, <1>7 DEF RefsInv, Types, BridgeTypes
<1>16. OtherTypes'
  BY <1>3 DEF RefsInv, Types, OtherTypes
<1>17. /\ f \in Frames /\ f.at = "loop" /\ f.stone = s
       /\ \A x : Sends(f, x) <=> x = s
       /\ \A x : ~Closes(f, x)
       /\ CloseSound(f)'
  BY <1>1, SendFrame
<1> HIDE DEF f
<1>18. SendSound(f)'
  BY <1>3, <1>4, <1>6, <1>7, <1>17 DEF SendSound
<1>19. ASSUME NEW g \in Frames, SendSound(g), CloseSound(g), ~Sends(g, s)
       PROVE  SendSound(g)' /\ CloseSound(g)'
  <2>1. g.at \in Closers => g.conn \in Conns /\ g.conn # c
    BY <1>5, <1>19 DEF Frames, CloseSound, RefsInv, Counted, CountedAt
  <2>2. CloseSound(g)'
    BY <1>5, <1>6, <1>19, <2>1 DEF CloseSound
  <2>3. g.at \in Sending => g.stone # s /\ g.stone \in Stones
    BY <1>19 DEF Sends, Frames
  <2>4. SendSound(g)'
    BY <1>3, <1>7, <1>19, <2>3 DEF SendSound
  <2> QED BY <2>2, <2>4
<1> QED BY <1>1, <1>2, <1>14, <1>15, <1>16, <1>17, <1>18, <1>19, GotoKeeps

LEMMA ConnectFailsRefs ==
  ASSUME RefsInv, NEW t \in Threads, ConnectFails(t)
  PROVE  RefsInv'
<1>1. stack[t] # <<>> /\ Top(t).stone \in Stones /\ Goto(t, NextStone(Top(t).stone))
  BY SenderTop DEF ConnectFails, Acquires, Sending
<1>2. /\ outputting' = outputting /\ draining' = draining /\ conn' = conn /\ frozen' = frozen
      /\ connFailed' = connFailed /\ queue' = queue /\ program' = program /\ conns' = conns
      /\ shared' = shared /\ alive' = alive /\ discarded' = discarded
      /\ tasks' = tasks /\ delayPending' = delayPending
  BY DEF ConnectFails, bridges, input, outcome
<1>3. BridgeTypes'
  BY <1>2 DEF RefsInv, Types, BridgeTypes
<1>4. OtherTypes'
  BY <1>2 DEF RefsInv, Types, OtherTypes
<1>5. ConnTypes' /\ Counted' /\ HeldUsed'
  BY <1>2, CountSame DEF RefsInv, Types
<1> QED BY <1>1, <1>2, <1>3, <1>4, <1>5, NextStoneFrame, SameSound, GotoKeeps

LEMMA LoopEndsRefs ==
  ASSUME RefsInv, NEW t \in Threads, NEW s \in Stones, LoopEnds(t, s)
  PROVE  RefsInv'
<1>1. /\ stack[t] # <<>> /\ Top(t).stone = s /\ Goto(t, NextStone(s))
      /\ \A x : Sends(Top(t), x) <=> x = s
  BY SenderTop DEF LoopEnds, Loops, Running, Sending
<1>2. /\ outputting' = [outputting EXCEPT ![s] = FALSE] /\ draining' = draining /\ conn' = conn
      /\ frozen' = frozen /\ connFailed' = connFailed /\ queue' = queue /\ program' = program
      /\ conns' = conns /\ shared' = shared /\ alive' = alive /\ discarded' = discarded
      /\ tasks' = tasks /\ delayPending' = delayPending
  BY DEF LoopEnds, deferral, input, outcome
<1>3. BridgeTypes'
  BY <1>2 DEF RefsInv, Types, BridgeTypes
<1>4. OtherTypes'
  BY <1>2 DEF RefsInv, Types, OtherTypes
<1>5. ConnTypes' /\ Counted' /\ HeldUsed'
  BY <1>2, CountSame DEF RefsInv, Types
<1>6. ASSUME NEW g \in Frames, SendSound(g), CloseSound(g), ~Sends(g, s)
      PROVE  SendSound(g)' /\ CloseSound(g)'
  <2>1. g.at \in Sending => g.stone # s /\ g.stone \in Stones
    BY <1>6 DEF Sends, Frames
  <2>2. \A x \in Stones : x # s => outputting'[x] = outputting[x]
    BY <1>2 DEF RefsInv, Types, BridgeTypes
  <2> QED BY <1>2, <1>6, <2>1, <2>2 DEF SendSound, CloseSound
<1> QED BY <1>1, <1>3, <1>4, <1>5, <1>6, NextStoneFrame, GotoKeeps

LEMMA LoopWaitsRefs ==
  ASSUME RefsInv, NEW t \in Threads, NEW s \in Stones, LoopWaits(t, s)
  PROVE  RefsInv'
<1>0. PICK c \in Conns : c = conn[s]
  BY DEF LoopWaits, RefsInv, Types, BridgeTypes
<1> DEFINE f == Frame("blocked", s, c)
<1>1. /\ stack[t] # <<>> /\ Top(t).stone = s /\ Top(t).at = "loop" /\ SendSound(Top(t))
      /\ \A x : Sends(Top(t), x) <=> x = s
      /\ Goto(t, f)
  BY <1>0, SenderTop DEF LoopWaits, Sending
<1>2. /\ outputting' = outputting /\ draining' = draining /\ conn' = conn /\ frozen' = frozen
      /\ connFailed' = connFailed /\ queue' = queue /\ program' = program /\ conns' = conns
      /\ shared' = shared /\ alive' = alive /\ discarded' = discarded
      /\ tasks' = tasks /\ delayPending' = delayPending
      /\ queue[s] > 0 /\ conn[s] # None
  BY DEF LoopWaits, bridges, deferral, input, outcome
<1>3. BridgeTypes'
  BY <1>2 DEF RefsInv, Types, BridgeTypes
<1>4. OtherTypes'
  BY <1>2 DEF RefsInv, Types, OtherTypes
<1>5. ConnTypes' /\ Counted' /\ HeldUsed'
  BY <1>2, CountSame DEF RefsInv, Types
<1>7. f \in Frames /\ f.at = "blocked" /\ f.stone = s
  BY FrameTypes DEF Frame
<1> HIDE DEF f
<1>8. (\A x : Sends(f, x) <=> x = s) /\ (\A x : ~Closes(f, x)) /\ CloseSound(f)'
  BY <1>7 DEF Sends, Closes, CloseSound, Sending, Closers
<1>9. SendSound(f)'
  BY <1>1, <1>2, <1>7 DEF SendSound, Sending
<1> QED BY <1>1, <1>2, <1>3, <1>4, <1>5, <1>7, <1>8, <1>9, SameSound, GotoKeeps

LEMMA UnblockedRefs ==
  ASSUME RefsInv, NEW t \in Threads, Unblocked(t)
  PROVE  RefsInv'
<1>0. PICK s \in Stones : s = Top(t).stone
  BY SenderTop DEF Unblocked, Acquires, Sending
<1>1. /\ stack[t] # <<>> /\ Top(t).stone = s /\ Top(t).at = "blocked" /\ SendSound(Top(t))
      /\ \A x : Sends(Top(t), x) <=> x = s
  BY <1>0, SenderTop DEF Unblocked, Acquires, Sending
<1>2. /\ outputting' = outputting /\ draining' = draining /\ conn' = conn /\ frozen' = frozen
      /\ connFailed' = connFailed /\ queue' = queue /\ program' = program /\ conns' = conns
      /\ shared' = shared /\ alive' = alive /\ discarded' = discarded
      /\ tasks' = tasks /\ delayPending' = delayPending
  BY DEF Unblocked, bridges, deferral, input, outcome
<1>3. BridgeTypes'
  BY <1>2 DEF RefsInv, Types, BridgeTypes
<1>4. OtherTypes'
  BY <1>2 DEF RefsInv, Types, OtherTypes
<1>5. ConnTypes' /\ Counted' /\ HeldUsed'
  BY <1>2, CountSame DEF RefsInv, Types
<1>6. CASE queue[s] = 0
  <2>1. Goto(t, NextStone(s))
    BY <1>0, <1>6 DEF Unblocked
  <2> QED BY <1>1, <1>2, <1>3, <1>4, <1>5, <2>1, NextStoneFrame, SameSound, GotoKeeps
<1>7. CASE queue[s] # 0
  <2> DEFINE f == Frame("loop", s, None)
  <2>1. Goto(t, f)
    BY <1>0, <1>7 DEF Unblocked
  <2>2. /\ f \in Frames /\ f.at = "loop" /\ f.stone = s
        /\ \A x : Sends(f, x) <=> x = s
        /\ \A x : ~Closes(f, x)
        /\ CloseSound(f)'
    BY SendFrame
  <2> HIDE DEF f
  <2>3. SendSound(f)'
    BY <1>1, <1>2, <2>2 DEF SendSound, Sending
  <2> QED BY <1>1, <1>2, <1>3, <1>4, <1>5, <2>1, <2>2, <2>3, SameSound, GotoKeeps
<1> QED BY <1>6, <1>7

LEMMA LoopRefusedRefs ==
  ASSUME RefsInv, NEW t \in Threads, NEW s \in Stones, LoopRefused(t, s)
  PROVE  RefsInv'
<1> DEFINE f == Frame("unsent", s, None)
<1>1. /\ stack[t] # <<>> /\ Top(t).stone = s /\ Top(t).at = "loop" /\ SendSound(Top(t))
      /\ \A x : Sends(Top(t), x) <=> x = s
  BY SenderTop DEF LoopRefused, Takes, Loops, Running, Sending
<1>0. Goto(t, f)
  BY DEF LoopRefused
<1>2. /\ outputting' = outputting /\ draining' = draining /\ conn' = conn /\ frozen' = frozen
      /\ connFailed' = connFailed /\ queue' = [queue EXCEPT ![s] = @ - 1] /\ queue[s] > 0
      /\ program' = program /\ conns' = conns
      /\ shared' = shared /\ alive' = alive /\ discarded' = discarded
      /\ tasks' = tasks /\ delayPending' = delayPending
      /\ conn[s] # None
  BY DEF LoopRefused, Takes, deferral, input, outcome
<1>3. BridgeTypes'
  BY <1>2 DEF RefsInv, Types, BridgeTypes
<1>4. OtherTypes'
  BY <1>2 DEF RefsInv, Types, OtherTypes
<1>5. ConnTypes' /\ Counted' /\ HeldUsed'
  BY <1>2, CountSame DEF RefsInv, Types
<1>6. /\ f \in Frames /\ f.at = "unsent" /\ f.stone = s
      /\ \A x : Sends(f, x) <=> x = s
      /\ \A x : ~Closes(f, x)
      /\ CloseSound(f)'
  BY SendFrame
<1> HIDE DEF f
<1>7. SendSound(f)'
  BY <1>1, <1>2, <1>6 DEF SendSound, Sending
<1>8. ASSUME NEW g \in Frames, SendSound(g), CloseSound(g), ~Sends(g, s)
      PROVE  SendSound(g)' /\ CloseSound(g)'
  <2>1. g.at \in Sending => g.stone # s /\ g.stone \in Stones
    BY <1>8 DEF Sends, Frames
  <2>2. \A x \in Stones : x # s => queue'[x] = queue[x]
    BY <1>2 DEF RefsInv, Types, BridgeTypes
  <2> QED BY <1>2, <1>8, <2>1, <2>2 DEF SendSound, CloseSound
<1> QED BY <1>1, <1>0, <1>3, <1>4, <1>5, <1>6, <1>7, <1>8, GotoKeeps
LEMMA LoopDiscardsRefs ==
  ASSUME RefsInv, NEW t \in Threads, NEW s \in Stones, LoopDiscards(t, s)
  PROVE  RefsInv'
<1>1. /\ outputting' = outputting /\ draining' = draining /\ conn' = conn /\ frozen' = frozen
      /\ connFailed' = connFailed /\ queue' = [queue EXCEPT ![s] = @ - 1] /\ queue[s] > 0
      /\ program' = program /\ conns' = conns /\ stack' = stack
      /\ shared' = shared /\ alive' = alive /\ discarded' = discarded \cup {s}
      /\ tasks' = tasks /\ delayPending' = delayPending
  BY DEF LoopDiscards, Takes, deferral, input
<1>2. In(t, "loop") /\ Top(t).stone = s
  BY DEF LoopDiscards, Takes, Loops, Running
<1>3. BridgeTypes'
  BY <1>1 DEF RefsInv, Types, BridgeTypes
<1>4. OtherTypes'
  BY <1>1 DEF RefsInv, Types, OtherTypes
<1>5. ConnTypes' /\ Counted' /\ HeldUsed'
  BY <1>1, CountSame DEF RefsInv, Types
<1>6. \A x \in Stones : x # s => queue'[x] = queue[x]
  BY <1>1 DEF RefsInv, Types, BridgeTypes
<1>7. ASSUME NEW u \in Threads, NEW i \in 1 .. Len(stack[u]), stack[u][i].at = "blocked"
      PROVE  stack[u][i].stone \in Stones /\ stack[u][i].stone # s
  <2>1. stack[u][i] \in Frames
    BY ElementOfSeq DEF RefsInv, Types, StackTypes
  <2>2. Len(stack[t]) \in 1 .. Len(stack[t]) /\ Top(t) = stack[t][Len(stack[t])] /\ Top(t).at = "loop"
    BY <1>2, TopAt DEF RefsInv, Types
  <2>3. Sends(Top(t), s)
    BY <1>2, <2>2 DEF Sends, Sending
  <2>4. ~Sends(stack[u][i], s)
    <3>1. ASSUME Sends(stack[u][i], s) PROVE u = t /\ i = Len(stack[t])
      BY <2>2, <2>3, <3>1 DEF RefsInv, OneSender
    <3> QED BY <1>7, <2>2, <3>1
  <2> QED BY <1>7, <2>1, <2>4 DEF Sends, Sending, Frames
<1>8. SendersSound'
  <2>1. ASSUME NEW u \in Threads, NEW i \in 1 .. Len(stack[u])
        PROVE  SendSound(stack[u][i])'
    <3>1. SendSound(stack[u][i])
      BY DEF RefsInv, SendersSound
    <3> QED BY <1>1, <1>6, <1>7, <3>1 DEF SendSound
  <2> QED BY <1>1, <2>1 DEF SendersSound
<1>9. ClosersSound' /\ OneSender(stack') /\ OneCloser(stack') /\ StackTypes'
  BY <1>1 DEF RefsInv, Types, ClosersSound, CloseSound, StackTypes
<1> QED BY <1>3, <1>4, <1>5, <1>8, <1>9 DEF RefsInv, Types

(* A structure whose pending write alone changes.                           *)
LEMMA PendingRefs ==
  ASSUME RefsInv, NEW c \in Conns, NEW b \in BOOLEAN, conns[c].used,
         conns' = [conns EXCEPT ![c].pending = b], conn' = conn, shared' = shared
  PROVE  /\ ConnTypes' /\ Counted' /\ HeldUsed'
         /\ \A d \in Conns : conns'[d].listed = conns[d].listed /\ conns'[d].failed = conns[d].failed
<1>1. conns \in [Conns -> Connection]
  BY DEF RefsInv, Types, ConnTypes
<1>0. conns[c] \in Connection
  BY <1>1
<1>2. PICK e \in Connection : e = [conns[c] EXCEPT !.pending = b]
  BY <1>0 DEF Connection
<1>3. conns' = [conns EXCEPT ![c] = e]
  BY <1>1, <1>2
<1>9. /\ e.refs = conns[c].refs /\ e.used = conns[c].used /\ e.listed = conns[c].listed
      /\ e.failed = conns[c].failed
  BY <1>0, <1>2 DEF Connection
<1>4. CountedAt(c)
  BY DEF RefsInv, Counted
<1>5. e.refs = Has(e.listed) + Has(e.used /\ ~e.failed) + Has(shared' = c)
                 + Cardinality(Holders(conn', c))
  BY <1>4, <1>9 DEF CountedAt
<1>6. e.used /\ (~e.failed => e.listed)
  BY <1>4, <1>9 DEF CountedAt
<1>7. ConnTypes' /\ Counted' /\ HeldUsed'
  BY <1>3, <1>5, <1>6, CountUpdate DEF RefsInv, Types, BridgeTypes
<1>8. \A d \in Conns : conns'[d].listed = conns[d].listed /\ conns'[d].failed = conns[d].failed
  BY <1>1, <1>3, <1>9
<1> QED BY <1>7, <1>8

LEMMA LoopSendsRefs ==
  ASSUME RefsInv, NEW t \in Threads, NEW s \in Stones, LoopSends(t, s)
  PROVE  RefsInv'
<1>1. /\ outputting' = outputting /\ draining' = draining /\ conn' = conn /\ frozen' = frozen
      /\ connFailed' = connFailed /\ queue' = [queue EXCEPT ![s] = @ - 1] /\ queue[s] > 0
      /\ program' = program /\ stack' = stack
      /\ shared' = shared /\ alive' = alive /\ discarded' = discarded
      /\ tasks' = tasks /\ delayPending' = delayPending
      /\ conn[s] \in Usable
  BY DEF LoopSends, Takes, deferral, input
<1>2. In(t, "loop") /\ Top(t).stone = s
  BY DEF LoopSends, Takes, Loops, Running
<1>3. BridgeTypes'
  BY <1>1 DEF RefsInv, Types, BridgeTypes
<1>4. OtherTypes'
  BY <1>1 DEF RefsInv, Types, OtherTypes
<1>5. /\ ConnTypes' /\ Counted' /\ HeldUsed'
      /\ \A d \in Conns : conns'[d].listed = conns[d].listed /\ conns'[d].failed = conns[d].failed
  <2>1. PICK b \in BOOLEAN : conns' = [conns EXCEPT ![conn[s]].pending = b]
    BY DEF LoopSends
  <2>2. conn[s] \in Conns /\ conns[conn[s]].used
    BY <1>1 DEF Usable
  <2> QED BY <1>1, <2>1, <2>2, PendingRefs
<1>6. \A x \in Stones : x # s => queue'[x] = queue[x]
  BY <1>1 DEF RefsInv, Types, BridgeTypes
<1>7. ASSUME NEW u \in Threads, NEW i \in 1 .. Len(stack[u])
      PROVE  /\ stack[u][i].at = "blocked" => stack[u][i].stone \in Stones /\ stack[u][i].stone # s
             /\ stack[u][i].at \in Closers => stack[u][i].conn \in Conns
  <2>1. stack[u][i] \in Frames
    BY ElementOfSeq DEF RefsInv, Types, StackTypes
  <2>2. Len(stack[t]) \in 1 .. Len(stack[t]) /\ Top(t) = stack[t][Len(stack[t])] /\ Top(t).at = "loop"
    BY <1>2, TopAt DEF RefsInv, Types
  <2>3. Sends(Top(t), s)
    BY <1>2, <2>2 DEF Sends, Sending
  <2>4. stack[u][i].at = "blocked" => ~Sends(stack[u][i], s)
    <3>1. ASSUME Sends(stack[u][i], s) PROVE u = t /\ i = Len(stack[t])
      BY <2>2, <2>3, <3>1 DEF RefsInv, OneSender
    <3> QED BY <2>2, <3>1
  <2> QED BY <2>1, <2>4 DEF Sends, Sending, Frames
<1>8. SendersSound'
  <2>1. ASSUME NEW u \in Threads, NEW i \in 1 .. Len(stack[u])
        PROVE  SendSound(stack[u][i])'
    <3>1. SendSound(stack[u][i])
      BY DEF RefsInv, SendersSound
    <3> QED BY <1>1, <1>6, <1>7, <3>1 DEF SendSound
  <2> QED BY <1>1, <2>1 DEF SendersSound
<1>9. ClosersSound' /\ OneSender(stack') /\ OneCloser(stack') /\ StackTypes'
  <2>1. ASSUME NEW u \in Threads, NEW i \in 1 .. Len(stack[u])
        PROVE  CloseSound(stack[u][i])'
    <3>1. CloseSound(stack[u][i])
      BY DEF RefsInv, ClosersSound
    <3> QED BY <1>1, <1>5, <1>7, <3>1 DEF CloseSound
  <2> QED BY <1>1, <2>1 DEF RefsInv, Types, ClosersSound, StackTypes
<1> QED BY <1>3, <1>4, <1>5, <1>8, <1>9 DEF RefsInv, Types

(* The refused write of a stone: it gives up its connection, which fails if *)
(* it has not yet.                                                          *)
LEMMA UnsentRefs ==
  ASSUME RefsInv, NEW t \in Threads, NEW s \in Stones, Unsent(t, s)
  PROVE  RefsInv'
<1> DEFINE f == Frame("loop", s, None)
<1>1. /\ stack[t] # <<>> /\ Top(t).stone = s /\ Top(t).at = "unsent" /\ SendSound(Top(t))
      /\ \A x : Sends(Top(t), x) <=> x = s
  BY SenderTop DEF Unsent, Running, Sending
<1>2. Goto(t, f)
  BY DEF Unsent
<1>3. /\ outputting' = outputting /\ draining' = draining /\ conn' = [conn EXCEPT ![s] = None]
      /\ frozen' = frozen /\ connFailed' = [connFailed EXCEPT ![s] = TRUE]
      /\ queue' = queue /\ program' = program
      /\ shared' = shared /\ alive' = alive /\ discarded' = discarded \cup {s}
      /\ tasks' = tasks /\ delayPending' = delayPending
  BY DEF Unsent, deferral, input
<1>4. BridgeTypes'
  BY <1>3 DEF RefsInv, Types, BridgeTypes
<1>5. OtherTypes'
  BY <1>3 DEF RefsInv, Types, OtherTypes
<1>6. conn \in [Stones -> Conns \cup {None}] /\ conns \in [Conns -> Connection]
  BY DEF RefsInv, Types, BridgeTypes, ConnTypes
<1>7. conn' \in [Stones -> Conns \cup {None}] /\ conn'[s] = None
      /\ \A x \in Stones : x # s => conn'[x] = conn[x]
  BY <1>3, <1>6
<1>8. /\ ConnTypes' /\ Counted' /\ HeldUsed'
      /\ \A d \in Conns : conns[d].listed /\ conns[d].failed => conns'[d].listed /\ conns'[d].failed
  <2>1. CASE conn[s] = None
    <3>1. conn' = conn /\ conns' = conns
      BY <1>3, <1>6, <2>1 DEF Unsent
    <3> QED BY <1>3, <3>1, CountSame DEF RefsInv, Types
  <2>2. CASE conn[s] # None
    <3>1. PICK c \in Conns : c = conn[s]
      BY <1>6, <2>2
    <3>2. conns' = Close(FailClosed(conns, c), c)
      BY <2>2, <3>1 DEF Unsent
    <3>3. PICK e \in Connection :
             /\ Close(FailClosed(conns, c), c) = [conns EXCEPT ![c] = e]
             /\ e.refs = (IF conns[c].failed THEN conns[c].refs - 1 ELSE conns[c].refs - 3)
             /\ e.used = conns[c].used /\ e.failed = TRUE /\ e.closed = TRUE
             /\ e.listed = (IF conns[c].failed THEN conns[c].listed ELSE FALSE)
             /\ e.pending = (IF conns[c].failed THEN conns[c].pending ELSE FALSE)
      BY <1>6, GiveUpEffect
    <3>4. conns' = [conns EXCEPT ![c] = e]
      BY <3>2, <3>3
    <3>5. /\ \A d \in Conns : d # c => Cardinality(Holders(conn', d)) = Cardinality(Holders(conn, d))
          /\ Cardinality(Holders(conn', c)) = Cardinality(Holders(conn, c)) - 1
      <4>1. Differ(conn, conn', s) /\ conn[s] = c
        BY <1>7, <3>1 DEF Differ
      <4> QED BY <1>7, <4>1, StoneLeaves
    <3>6. conns[c].used
      BY <2>2, <3>1 DEF RefsInv, HeldUsed
    <3>7. CountedAt(c)
      BY DEF RefsInv, Counted
    <3>8. e.refs = Has(e.listed) + Has(e.used /\ ~e.failed) + Has(shared' = c)
                     + Cardinality(Holders(conn', c))
      <4>1. Cardinality(Holders(conn, c)) \in Nat
        BY HoldersCount
      <4>2. CASE conns[c].failed
        BY <1>3, <3>3, <3>5, <3>6, <3>7, <4>1, <4>2 DEF CountedAt, Has
      <4>3. CASE ~conns[c].failed
        BY <1>3, <3>3, <3>5, <3>6, <3>7, <4>1, <4>3 DEF CountedAt, Has
      <4> QED BY <4>2, <4>3
    <3>9. \A x \in Stones : conn'[x] \in {conn[x], c, None}
      BY <1>7
    <3>10. ConnTypes' /\ Counted' /\ HeldUsed'
      BY <1>3, <1>6, <1>7, <3>3, <3>4, <3>5, <3>6, <3>8, <3>9, CountUpdate DEF RefsInv, Types
    <3>11. \A d \in Conns : conns[d].listed /\ conns[d].failed => conns'[d].listed /\ conns'[d].failed
      BY <1>6, <3>3, <3>4
    <3> QED BY <3>10, <3>11
  <2> QED BY <2>1, <2>2
<1>9. /\ f \in Frames /\ f.at = "loop" /\ f.stone = s
      /\ \A x : Sends(f, x) <=> x = s
      /\ \A x : ~Closes(f, x)
      /\ CloseSound(f)'
  BY SendFrame
<1> HIDE DEF f
<1>10. connFailed'[s] /\ \A x \in Stones : x # s => connFailed'[x] = connFailed[x]
  BY <1>3 DEF RefsInv, Types, BridgeTypes
<1>11. SendSound(f)'
  BY <1>1, <1>3, <1>9, <1>10 DEF SendSound, Sending
<1>12. ASSUME NEW g \in Frames, SendSound(g), CloseSound(g), ~Sends(g, s)
       PROVE  SendSound(g)' /\ CloseSound(g)'
  <2>1. g.at \in Sending => g.stone # s /\ g.stone \in Stones
    BY <1>12 DEF Sends, Frames
  <2>2. SendSound(g)'
    BY <1>3, <1>7, <1>10, <1>12, <2>1 DEF SendSound
  <2>3. g.at \in Closers => g.conn \in Conns
    BY DEF Frames
  <2>4. CloseSound(g)'
    BY <1>8, <1>12, <2>3 DEF CloseSound
  <2> QED BY <2>2, <2>4
<1> QED BY <1>1, <1>2, <1>4, <1>5, <1>8, <1>9, <1>11, <1>12, GotoKeeps
-----------------------------------------------------------------------------
(* Connections that fail, and close handlers.                               *)

(* A frame stays sound in a step that changes neither who sends what nor    *)
(* the connections that fail.                                               *)
LEMMA StepSound ==
  ASSUME outputting' = outputting, draining' = draining, conn' = conn,
         connFailed' = connFailed, program' = program,
         \A d \in Conns : conns[d].listed /\ conns[d].failed => conns'[d].listed /\ conns'[d].failed,
         NEW g \in Frames, SendSound(g), CloseSound(g),
         g.at = "blocked" => \/ queue'[g.stone] = queue[g.stone] \/ queue'[g.stone] > 0
                             \/ "transfer" \in program.usage
  PROVE  SendSound(g)' /\ CloseSound(g)'
<1>1. g.at \in Closers => g.conn \in Conns
  BY DEF Frames
<1>2. CloseSound(g)'
  BY <1>1 DEF CloseSound
<1>3. SendSound(g)'
  BY DEF SendSound
<1> QED BY <1>2, <1>3

(* The first half of the failure of a connection.                           *)
LEMMA BreakRefs ==
  ASSUME RefsInv, NEW c \in Conns, conns[c].used, ~conns[c].failed,
         conns' = Break(conns, c), conn' = conn, shared' = shared
  PROVE  /\ ConnTypes' /\ Counted' /\ HeldUsed'
         /\ conns'[c].listed /\ conns'[c].failed
         /\ \A d \in Conns : conns[d].listed /\ conns[d].failed => conns'[d].listed /\ conns'[d].failed
<1>1. conns \in [Conns -> Connection]
  BY DEF RefsInv, Types, ConnTypes
<1>2. PICK e \in Connection :
         /\ Break(conns, c) = [conns EXCEPT ![c] = e]
         /\ e.refs = conns[c].refs - 1 /\ e.used = conns[c].used /\ e.listed = conns[c].listed
         /\ e.closed = conns[c].closed /\ e.failed = TRUE /\ e.pending = FALSE
  BY <1>1, BreakEffect
<1>3. conns' = [conns EXCEPT ![c] = e]
  BY <1>2
<1>4. CountedAt(c)
  BY DEF RefsInv, Counted
<1>5. Cardinality(Holders(conn, c)) \in Nat
  BY HoldersCount
<1>6. e.refs = Has(e.listed) + Has(e.used /\ ~e.failed) + Has(shared' = c)
                 + Cardinality(Holders(conn', c))
  BY <1>2, <1>4, <1>5 DEF CountedAt, Has
<1>7. e.used /\ e.failed /\ e.listed
  BY <1>2, <1>4 DEF CountedAt
<1>8. ConnTypes' /\ Counted' /\ HeldUsed'
  BY <1>3, <1>6, <1>7, CountUpdate DEF RefsInv, Types, BridgeTypes
<1>9. conns'[c] = e /\ \A d \in Conns : d # c => conns'[d] = conns[d]
  BY <1>1, <1>3
<1> QED BY <1>7, <1>8, <1>9

(* The innermost call goes on and makes a call.                             *)
LEMMA GotoCallChanges ==
  ASSUME StackTypes, NEW t \in Threads, stack[t] # <<>>, NEW a \in Frames, NEW b \in Frames,
         stack' = [stack EXCEPT ![t] = Front(@) \o <<a, b>>]
  PROVE  \E st \in [Threads -> Seq(Frames)] :
           /\ Changes(stack, st, t, Len(stack[t]), a) /\ Len(st[t]) = Len(stack[t])
           /\ Changes(st, stack', t, Len(stack[t]) + 1, b)
<1> DEFINE st1 == [stack EXCEPT ![t] = Append(Front(@), a)]
           st2 == [st1 EXCEPT ![t] = Append(@, b)]
<1>1. Front(stack[t]) \in Seq(Frames)
  BY FrontProperties DEF StackTypes
<1>2. Append(Front(stack[t]), a) \in Seq(Frames)
  BY <1>1, AppendProperties
<1>3. Changes(stack, st1, t, Len(stack[t]), a) /\ Len(st1[t]) = Len(stack[t])
  BY GotoChanges DEF StackTypes
<1>4. st1 \in [Threads -> Seq(Frames)]
  BY <1>2 DEF StackTypes
<1>5. Changes(st1, st2, t, Len(stack[t]) + 1, b)
  <2> HIDE DEF st1
  <2> QED BY <1>3, <1>4, CallChanges
<1>6. Append(Append(Front(stack[t]), a), b) = Front(stack[t]) \o <<a, b>>
  <2> DEFINE x == Front(stack[t])
  <2>1. Append(x, a) = x \o <<a>> /\ Append(Append(x, a), b) = Append(x, a) \o <<b>>
    BY <1>1, <1>2, AppendIsConcat
  <2>2. <<a>> \in Seq(Frames) /\ <<b>> \in Seq(Frames)
    OBVIOUS
  <2>3. Append(<<a>>, b) = <<a>> \o <<b>>
    BY <2>2, AppendIsConcat
  <2>4. Append(<<a>>, b) = <<a, b>>
    <3>1. /\ <<a, b>> \in Seq(Frames) /\ Len(<<a, b>>) = 2 /\ <<a, b>>[1] = a /\ <<a, b>>[2] = b
          /\ Len(<<a>>) = 1 /\ <<a>>[1] = a
      OBVIOUS
    <3>2. /\ Append(<<a>>, b) \in Seq(Frames) /\ Len(Append(<<a>>, b)) = 2
          /\ Append(<<a>>, b)[1] = a /\ Append(<<a>>, b)[2] = b
      BY <2>2, <3>1, AppendProperties
    <3>3. \A i \in 1 .. 2 : i = 1 \/ i = 2
      OBVIOUS
    <3>4. \A i \in 1 .. 2 : Append(<<a>>, b)[i] = <<a, b>>[i]
      BY <3>1, <3>2, <3>3
    <3> QED BY <3>1, <3>2, <3>4, SeqEqual
  <2>5. x \in Seq(Frames)
    BY <1>1
  <2> HIDE DEF x
  <2>6. (x \o <<a>>) \o <<b>> = x \o (<<a>> \o <<b>>)
    BY <2>2, <2>5, ConcatAssociative
  <2>7. Append(Append(x, a), b) = x \o <<a, b>>
    BY <2>1, <2>3, <2>4, <2>6, Zenon
  <2> QED BY <2>7 DEF x
<1>7. st2 = stack'
  BY <1>6 DEF StackTypes
<1> QED BY <1>3, <1>4, <1>5, <1>7

(* The write of a stone fails: the loop will find that out when the close   *)
(* handlers, its own among them, have been called.                          *)
LEMMA LoopFailsRefs ==
  ASSUME RefsInv, NEW t \in Threads, NEW s \in Stones, LoopFails(t, s)
  PROVE  RefsInv'
<1>0. PICK c \in Conns : c = conn[s]
  BY DEF LoopFails, Usable
<1>1. /\ stack[t] # <<>> /\ Top(t).stone = s /\ Top(t).at = "loop" /\ SendSound(Top(t))
      /\ \A x : Sends(Top(t), x) <=> x = s
      /\ \A x : ~Closes(Top(t), x)
  BY SenderTop DEF LoopFails, Takes, Loops, Running, Sending
<1>2. /\ outputting' = outputting /\ draining' = draining /\ conn' = conn /\ frozen' = frozen
      /\ connFailed' = connFailed /\ queue' = [queue EXCEPT ![s] = @ - 1] /\ queue[s] > 0
      /\ program' = program /\ shared' = shared /\ alive' = alive /\ discarded' = discarded
      /\ tasks' = tasks /\ delayPending' = delayPending
      /\ conns[c].used /\ ~conns[c].failed /\ conns' = Break(conns, c)
  BY <1>0 DEF LoopFails, Takes, Usable, deferral, input, outcome
<1>3. BridgeTypes'
  BY <1>2 DEF RefsInv, Types, BridgeTypes
<1>4. OtherTypes'
  BY <1>2 DEF RefsInv, Types, OtherTypes
<1>5. /\ ConnTypes' /\ Counted' /\ HeldUsed'
      /\ conns'[c].listed /\ conns'[c].failed
      /\ \A d \in Conns : conns[d].listed /\ conns[d].failed => conns'[d].listed /\ conns'[d].failed
  BY <1>2, BreakRefs
<1>6. PICK a \in Frames : a = Frame("unsent", s, None)
  BY FrameTypes
<1>7. PICK b \in Frames : b = Closing(c)
  BY ClosingType DEF RefsInv, Types
<1>8. a.at = "unsent" /\ a.stone = s /\ b.at = "closing" /\ b.conn = c
  BY <1>6, <1>7, ClosingType DEF Frame, RefsInv, Types
<1>9. PICK st \in [Threads -> Seq(Frames)] :
        /\ Changes(stack, st, t, Len(stack[t]), a)
        /\ Changes(st, stack', t, Len(stack[t]) + 1, b)
  <2>1. stack' = [stack EXCEPT ![t] = Front(@) \o <<a, b>>]
    BY <1>0, <1>6, <1>7 DEF LoopFails
  <2> QED BY <1>1, <2>1, GotoCallChanges DEF RefsInv, Types
<1>10. Len(stack[t]) \in 1 .. Len(stack[t]) /\ Top(t) = stack[t][Len(stack[t])]
  BY <1>1, TopFrame DEF RefsInv, Types
<1>11. (\A x : Sends(a, x) <=> x = s) /\ (\A x : ~Closes(a, x)) /\ (\A x : ~Sends(b, x))
       /\ (\A x : Closes(b, x) <=> x = c)
  BY <1>8 DEF Sends, Closes, Sending, Closers
<1>12. OneSender(stack')
  <2>3. Sends(stack[t][Len(stack[t])], s)
    BY <1>1, <1>10
  <2>4. OnlySends(stack, s, t, Len(stack[t]))
    BY <1>10, <2>3 DEF OnlySends, OneSender, RefsInv
  <2>1. \A x \in Stones : Sends(a, x) => OnlySends(stack, x, t, Len(stack[t]))
    BY <1>11, <2>4
  <2>2. OneSender(st)
    BY <1>9, <2>1, OneSenderChange DEF RefsInv
  <2> QED BY <1>9, <1>11, <2>2, OneSenderChange
<1>13. OneCloser(stack')
  <2>1. OneCloser(st)
    BY <1>9, <1>11, OneCloserChange DEF RefsInv
  <2>2. \A u \in Threads : \A i \in 1 .. Len(stack[u]) : ~Closes(stack[u][i], c)
    BY <1>2, NobodyCloses DEF RefsInv
  <2>3. \A u \in Threads : \A i \in 1 .. Len(st[u]) : ~Closes(st[u][i], c)
    BY <1>9, <1>11, <2>2 DEF Changes
  <2>4. \A x \in Conns : Closes(b, x) => OnlyCloses(st, x, t, Len(stack[t]) + 1)
    BY <1>11, <2>3 DEF OnlyCloses
  <2> QED BY <1>9, <2>1, <2>4, OneCloserChange
<1>14. SendSound(a)' /\ CloseSound(a)' /\ SendSound(b)' /\ CloseSound(b)'
  <2>1. outputting[s] /\ draining[s] # 2 /\ conn[s] # None
    BY <1>0, <1>1, BridgeAssumption DEF SendSound, Sending
  <2>2. SendSound(a)'
    BY <1>2, <1>8, <2>1 DEF SendSound
  <2>3. CloseSound(b)'
    BY <1>5, <1>8 DEF CloseSound
  <2> QED BY <1>8, <2>2, <2>3 DEF SendSound, CloseSound, Sending, Closers
<1>15. ASSUME NEW g, Other(g, t, Len(stack[t])) PROVE SendSound(g)' /\ CloseSound(g)'
  <2>1. g \in Frames /\ SendSound(g) /\ CloseSound(g) /\ ~Sends(g, s)
    BY <1>1, <1>15, OtherFrames DEF RefsInv, Types
  <2>2. g.at = "blocked" => g.stone # s /\ g.stone \in Stones
    BY <2>1 DEF Sends, Frames, Sending
  <2>3. g.at = "blocked" => queue'[g.stone] = queue[g.stone]
    BY <1>2, <2>2 DEF RefsInv, Types, BridgeTypes
  <2> QED BY <1>2, <1>5, <2>1, <2>3, StepSound
<1>16. ASSUME NEW u \in Threads, NEW i \in 1 .. Len(stack'[u])
       PROVE  \E g : g = stack'[u][i] /\ SendSound(g)' /\ CloseSound(g)'
  <2>1. IF u = t /\ i = Len(stack[t]) + 1 THEN stack'[u][i] = b
        ELSE i \in 1 .. Len(st[u]) /\ stack'[u][i] = st[u][i]
    BY <1>9 DEF Changes
  <2>2. i \in 1 .. Len(st[u]) =>
          IF u = t /\ i = Len(stack[t]) THEN st[u][i] = a
          ELSE i \in 1 .. Len(stack[u]) /\ st[u][i] = stack[u][i]
    BY <1>9 DEF Changes
  <2>3. CASE u = t /\ i = Len(stack[t]) + 1
    BY <1>14, <2>1, <2>3
  <2>4. CASE ~(u = t /\ i = Len(stack[t]) + 1) /\ u = t /\ i = Len(stack[t])
    BY <1>14, <2>1, <2>2, <2>4
  <2>5. CASE ~(u = t /\ i = Len(stack[t]) + 1) /\ ~(u = t /\ i = Len(stack[t]))
    <3>1. i \in 1 .. Len(stack[u]) /\ stack'[u][i] = stack[u][i]
      BY <2>1, <2>2, <2>5
    <3>2. Other(stack[u][i], t, Len(stack[t]))
      BY <2>5, <3>1 DEF Other
    <3> QED BY <1>15, <3>1, <3>2
  <2> QED BY <2>3, <2>4, <2>5
<1>17. SendersSound'
  BY <1>16 DEF SendersSound, SendSound
<1>18. ClosersSound'
  BY <1>16 DEF ClosersSound, CloseSound
<1>19. StackTypes'
  BY <1>9 DEF StackTypes, Changes
<1> QED BY <1>3, <1>4, <1>5, <1>12, <1>13, <1>17, <1>18, <1>19 DEF RefsInv, Types

LEMMA PassEndsRefs ==
  ASSUME RefsInv, NEW t \in Threads, PassEnds(t)
  PROVE  RefsInv'
<1>1. stack[t] # <<>> /\ stack' = [stack EXCEPT ![t] = Front(@)]
  BY DEF PassEnds, In
<1>2. /\ outputting' = outputting /\ draining' = draining /\ conn' = conn /\ frozen' = frozen
      /\ connFailed' = connFailed /\ queue' = queue /\ program' = program /\ conns' = conns
      /\ shared' = shared /\ alive' = alive /\ discarded' = discarded
      /\ tasks' = tasks /\ delayPending' = delayPending
  BY DEF PassEnds, bridges, deferral, input, outcome
<1>3. BridgeTypes'
  BY <1>2 DEF RefsInv, Types, BridgeTypes
<1>4. OtherTypes'
  BY <1>2 DEF RefsInv, Types, OtherTypes
<1>5. ConnTypes' /\ Counted' /\ HeldUsed'
  BY <1>2, CountSame DEF RefsInv, Types
<1> QED BY <1>1, <1>2, <1>3, <1>4, <1>5, SameSound, ReturnKeeps

(* A frame that runs close handlers, and its connection.                    *)
LEMMA CloserTop ==
  ASSUME RefsInv, NEW t \in Threads, NEW at \in Closers, In(t, at)
  PROVE  /\ stack[t] # <<>> /\ Top(t) \in Frames /\ Top(t).at = at /\ Top(t).conn \in Conns
         /\ Top(t).hooks \in Seq(Stones)
         /\ CloseSound(Top(t))
         /\ \A x : Closes(Top(t), x) <=> x = Top(t).conn
         /\ \A x : ~Sends(Top(t), x)
<1>1. /\ stack[t] # <<>> /\ Top(t).at = at /\ Top(t).conn \in Conns /\ Top(t) \in Frames
      /\ Top(t).hooks \in Seq(Stones)
  BY TopAt DEF RefsInv, Types
<1>2. CloseSound(Top(t))
  BY <1>1, TopSound DEF RefsInv, Types
<1>3. at \notin Sending
  BY DEF Sending, Closers
<1> QED BY <1>1, <1>2, <1>3 DEF Sends, Closes

LEMMA CallCloseHandlerRefs ==
  ASSUME RefsInv, NEW t \in Threads, CallCloseHandler(t)
  PROVE  RefsInv'
<1>1. /\ stack[t] # <<>> /\ Top(t) \in Frames /\ Top(t).at = "closing" /\ Top(t).conn \in Conns
      /\ CloseSound(Top(t)) /\ Top(t).hooks # <<>>
      /\ \A x : Closes(Top(t), x) <=> x = Top(t).conn
  BY CloserTop DEF CallCloseHandler, ClosingStep, Closers
<1>2. PICK f \in Frames : f = [Top(t) EXCEPT !.at = "handler"]
  BY <1>1 DEF Frames, Ats, Sending, Closers
<1>3. Goto(t, f)
  BY <1>2 DEF CallCloseHandler
<1>4. f.at = "handler" /\ f.conn = Top(t).conn
  BY <1>1, <1>2 DEF Frames
<1>5. /\ outputting' = outputting /\ draining' = draining /\ conn' = conn /\ frozen' = frozen
      /\ connFailed' = connFailed /\ queue' = queue /\ program' = program /\ conns' = conns
      /\ shared' = shared /\ alive' = alive /\ discarded' = discarded
      /\ tasks' = tasks /\ delayPending' = delayPending
  BY DEF CallCloseHandler, bridges, deferral, input, outcome
<1>6. BridgeTypes'
  BY <1>5 DEF RefsInv, Types, BridgeTypes
<1>7. OtherTypes'
  BY <1>5 DEF RefsInv, Types, OtherTypes
<1>8. ConnTypes' /\ Counted' /\ HeldUsed'
  BY <1>5, CountSame DEF RefsInv, Types
<1>9. (\A x : ~Sends(f, x)) /\ (\A x : Closes(f, x) => Closes(Top(t), x))
  BY <1>1, <1>4 DEF Sends, Closes, Sending
<1>10. SendSound(f)'
  BY <1>4 DEF SendSound, Sending
<1>11. CloseSound(f)'
  BY <1>1, <1>4, <1>5 DEF CloseSound, Closers
<1> QED BY <1>1, <1>3, <1>5, <1>6, <1>7, <1>8, <1>9, <1>10, <1>11, SameSound, GotoKeeps

(* The close handler of a stone: the stone gives its connection back if it  *)
(* still has it.                                                            *)
LEMMA CloseHandlerRefs ==
  ASSUME RefsInv, NEW t \in Threads, CloseHandler(t)
  PROVE  RefsInv'
<1>1. /\ stack[t] # <<>> /\ Top(t) \in Frames /\ Top(t).at = "handler" /\ Top(t).conn \in Conns
      /\ CloseSound(Top(t)) /\ Top(t).hooks \in Seq(Stones) /\ Top(t).hooks # <<>>
      /\ \A x : Closes(Top(t), x) <=> x = Top(t).conn
  <2>1. In(t, "handler")
    BY DEF CloseHandler
  <2>2. Top(t).hooks # <<>>
    BY <2>1, TopAt DEF RefsInv, Types
  <2> QED BY <2>1, <2>2, CloserTop DEF Closers
<1>2. PICK c \in Conns : c = Top(t).conn
  BY <1>1
<1>3. PICK s \in Stones : s = Head(Top(t).hooks)
  BY <1>1, HeadTailProperties
<1>4. PICK f \in Frames : f = [Top(t) EXCEPT !.at = "closing", !.hooks = Tail(@)]
  <2>1. Tail(Top(t).hooks) \in Seq(Stones)
    BY <1>1, HeadTailProperties
  <2> QED BY <1>1, <2>1 DEF Frames, Ats, Sending, Closers
<1>5. Goto(t, f)
  BY <1>4 DEF CloseHandler
<1>6. f.at = "closing" /\ f.conn = c
  BY <1>1, <1>2, <1>4 DEF Frames
<1>7. /\ outputting' = outputting /\ draining' = draining /\ frozen' = frozen
      /\ connFailed' = [connFailed EXCEPT ![s] = @ \/ conn[s] = c]
      /\ conn' = (IF conn[s] = c THEN [conn EXCEPT ![s] = None] ELSE conn)
      /\ conns' = (IF conn[s] = c THEN Close(conns, c) ELSE conns)
      /\ queue' = queue /\ program' = program
      /\ shared' = shared /\ alive' = alive /\ discarded' = discarded
      /\ tasks' = tasks /\ delayPending' = delayPending
  BY <1>2, <1>3 DEF CloseHandler, deferral, input, outcome
<1>8. conn \in [Stones -> Conns \cup {None}] /\ connFailed \in [Stones -> BOOLEAN]
      /\ conns \in [Conns -> Connection]
  BY DEF RefsInv, Types, BridgeTypes, ConnTypes
<1>9. /\ \A x \in Stones : x # s => conn'[x] = conn[x] /\ connFailed'[x] = connFailed[x]
      /\ conn[s] = c => conn'[s] = None /\ connFailed'[s]
      /\ conn[s] # c => conn' = conn
      /\ \A x \in Stones : connFailed[x] => connFailed'[x]
  BY <1>7, <1>8
<1>10. BridgeTypes'
  <2>1. connFailed' \in [Stones -> BOOLEAN]
    BY <1>7, <1>8
  <2>2. conn' \in [Stones -> Conns \cup {None}]
    BY <1>7, <1>8
  <2> QED BY <1>7, <2>1, <2>2 DEF RefsInv, Types, BridgeTypes
<1>11. OtherTypes'
  BY <1>7 DEF RefsInv, Types, OtherTypes
<1>12. /\ ConnTypes' /\ Counted' /\ HeldUsed'
       /\ \A d \in Conns : conns[d].listed /\ conns[d].failed => conns'[d].listed /\ conns'[d].failed
  <2>1. CASE conn[s] # c
    <3>1. conns' = conns /\ conn' = conn
      BY <1>7, <2>1
    <3> QED BY <1>7, <3>1, CountSame DEF RefsInv, Types
  <2>2. CASE conn[s] = c
    <3>1. PICK e \in Connection :
             /\ Close(conns, c) = [conns EXCEPT ![c] = e]
             /\ e.refs = conns[c].refs - 1 /\ e.used = conns[c].used /\ e.listed = conns[c].listed
             /\ e.closed = TRUE /\ e.failed = conns[c].failed /\ e.pending = conns[c].pending
      BY <1>8, CloseEffect
    <3>2. conns' = [conns EXCEPT ![c] = e]
      BY <1>7, <2>2, <3>1
    <3>3. /\ \A d \in Conns : d # c => Cardinality(Holders(conn', d)) = Cardinality(Holders(conn, d))
          /\ Cardinality(Holders(conn', c)) = Cardinality(Holders(conn, c)) - 1
      <4>1. Differ(conn, conn', s) /\ conn'[s] = None
        BY <1>9, <2>2 DEF Differ
      <4> QED BY <2>2, <4>1, StoneLeaves
    <3>4. conns[c].used
      BY <2>2, BridgeAssumption DEF RefsInv, HeldUsed
    <3>5. CountedAt(c)
      BY DEF RefsInv, Counted
    <3>6. e.refs = Has(e.listed) + Has(e.used /\ ~e.failed) + Has(shared' = c)
                     + Cardinality(Holders(conn', c))
      <4>1. Cardinality(Holders(conn, c)) \in Nat
        BY HoldersCount
      <4>2. conns[c].refs = Has(e.listed) + Has(e.used /\ ~e.failed) + Has(shared' = c)
                              + Cardinality(Holders(conn, c))
        BY <1>7, <3>1, <3>5 DEF CountedAt
      <4>3. Has(e.listed) \in Nat /\ Has(e.used /\ ~e.failed) \in Nat /\ Has(shared' = c) \in Nat
        BY DEF Has
      <4> HIDE DEF Has
      <4> QED BY <3>1, <3>3, <4>1, <4>2, <4>3
    <3>7. e.used /\ (~e.failed => e.listed)
      BY <3>1, <3>4, <3>5 DEF CountedAt
    <3>8. \A x \in Stones : conn'[x] \in {conn[x], c, None}
      BY <1>9, <2>2
    <3>9. ConnTypes' /\ Counted' /\ HeldUsed'
      <4>1. shared' = shared /\ conn' \in [Stones -> Conns \cup {None}]
        BY <1>7, <1>10 DEF BridgeTypes
      <4> QED BY <1>8, <3>2, <3>3, <3>6, <3>7, <3>8, <4>1, CountUpdate DEF RefsInv, Types
    <3>10. conns'[c] = e /\ \A d \in Conns : d # c => conns'[d] = conns[d]
      BY <1>8, <3>2
    <3> QED BY <3>1, <3>9, <3>10
  <2> QED BY <2>1, <2>2
<1>13. (\A x : ~Sends(f, x)) /\ (\A x : Closes(f, x) => Closes(Top(t), x))
  BY <1>1, <1>2, <1>6 DEF Sends, Closes, Sending
<1>14. SendSound(f)'
  BY <1>6 DEF SendSound, Sending
<1>15. CloseSound(f)'
  BY <1>1, <1>2, <1>6, <1>12 DEF CloseSound, Closers
<1>16. ASSUME NEW g \in Frames, SendSound(g), CloseSound(g) PROVE SendSound(g)' /\ CloseSound(g)'
  <2>1. (g.at \in Closers => g.conn \in Conns) /\ (g.at \in Sending => g.stone \in Stones)
    BY DEF Frames
  <2>2. CloseSound(g)'
    BY <1>12, <1>16, <2>1 DEF CloseSound
  <2>3. SendSound(g)'
    BY <1>7, <1>9, <1>16, <2>1 DEF SendSound
  <2> QED BY <2>2, <2>3
<1> QED BY <1>1, <1>5, <1>10, <1>11, <1>12, <1>13, <1>14, <1>15, <1>16, GotoKeeps

(* The connection whose failure is dealt with leaves the list.              *)
LEMMA ClosedRefs ==
  ASSUME RefsInv, NEW t \in Threads, Closed(t)
  PROVE  RefsInv'
<1>1. /\ stack[t] # <<>> /\ Top(t).at = "closing" /\ Top(t).conn \in Conns
      /\ CloseSound(Top(t))
      /\ \A x : Closes(Top(t), x) <=> x = Top(t).conn
  BY CloserTop DEF Closed, ClosingStep, Closers
<1>2. PICK c \in Conns : c = Top(t).conn
  BY <1>1
<1>3. stack' = [stack EXCEPT ![t] = Front(@)] /\ conns' = Unlist(conns, c)
  BY <1>2 DEF Closed
<1>4. /\ outputting' = outputting /\ draining' = draining /\ conn' = conn /\ frozen' = frozen
      /\ connFailed' = connFailed /\ queue' = queue /\ program' = program
      /\ shared' = shared /\ alive' = alive /\ discarded' = discarded
      /\ tasks' = tasks /\ delayPending' = delayPending
  BY DEF Closed, bridges, deferral, input, outcome
<1>5. conns[c].listed /\ conns[c].failed
  BY <1>1, <1>2 DEF CloseSound, Closers
<1>6. BridgeTypes'
  BY <1>4 DEF RefsInv, Types, BridgeTypes
<1>7. OtherTypes'
  BY <1>4 DEF RefsInv, Types, OtherTypes
<1>8. conns \in [Conns -> Connection]
  BY DEF RefsInv, Types, ConnTypes
<1>9. PICK e \in Connection :
        /\ Unlist(conns, c) = [conns EXCEPT ![c] = e]
        /\ e.refs = conns[c].refs - 1 /\ e.used = conns[c].used /\ e.listed = FALSE
        /\ e.closed = TRUE /\ e.failed = conns[c].failed /\ e.pending = conns[c].pending
  BY <1>8, UnlistEffect
<1>10. conns' = [conns EXCEPT ![c] = e]
  BY <1>3, <1>9
<1>11. CountedAt(c) /\ conns[c].used
  BY <1>5 DEF RefsInv, Counted, CountedAt
<1>12. e.refs = Has(e.listed) + Has(e.used /\ ~e.failed) + Has(shared' = c)
                  + Cardinality(Holders(conn', c))
  <2>1. Cardinality(Holders(conn, c)) \in Nat
    BY HoldersCount
  <2> QED BY <1>4, <1>5, <1>9, <1>11, <2>1 DEF CountedAt, Has
<1>13. e.used /\ e.failed
  BY <1>5, <1>9, <1>11
<1>14. ConnTypes' /\ Counted' /\ HeldUsed'
  BY <1>4, <1>10, <1>12, <1>13, CountUpdate DEF RefsInv, Types, BridgeTypes
<1>15. \A d \in Conns : d # c => conns'[d] = conns[d]
  BY <1>8, <1>10
<1>16. ASSUME NEW g \in Frames, SendSound(g), CloseSound(g), ~Closes(g, c)
       PROVE  SendSound(g)' /\ CloseSound(g)'
  <2>1. g.at \in Closers => g.conn \in Conns /\ g.conn # c
    BY <1>16 DEF Frames, Closes
  <2>2. CloseSound(g)'
    BY <1>15, <1>16, <2>1 DEF CloseSound
  <2>3. SendSound(g)'
    BY <1>4, <1>16 DEF SendSound
  <2> QED BY <2>2, <2>3
<1> QED BY <1>1, <1>2, <1>3, <1>6, <1>7, <1>14, <1>16, ReturnKeeps

(* A stone is drained when nobody sends its events.                         *)
LEMMA DrainReturnsRefs ==
  ASSUME RefsInv, NEW t \in Threads, DrainReturns(t)
  PROVE  RefsInv'
<1>1. stack[t] # <<>> /\ stack' = [stack EXCEPT ![t] = Front(@)] /\ Top(t).stone \in Stones
  BY TopAt DEF DrainReturns, RefsInv, Types
<1>2. /\ outputting' = outputting /\ conn' = conn /\ frozen' = frozen
      /\ connFailed' = connFailed /\ queue' = queue /\ program' = program /\ conns' = conns
      /\ shared' = shared /\ alive' = alive /\ discarded' = discarded
      /\ tasks' = tasks /\ delayPending' = delayPending
  BY DEF DrainReturns, deferral, input, outcome
<1>3. PICK s \in Stones : s = Top(t).stone
  BY <1>1
<1>4. PICK n \in 0 .. 2 :
        draining' = [draining EXCEPT ![s] = n] /\ (n = 2 => ~outputting[s] \/ draining[s] = 2)
  <2>1. PICK done \in {Drained(s)} \cup {FALSE} :
          draining' = [draining EXCEPT ![s] = IF done THEN 2 ELSE @]
    BY <1>3 DEF DrainReturns
  <2>2. draining[s] \in 0 .. 2
    BY DEF RefsInv, Types, BridgeTypes
  <2>3. CASE done
    <3>1. ~outputting[s]
      BY <2>3 DEF Drained
    <3> QED BY <2>1, <2>3, <3>1
  <2>4. CASE ~done
    BY <2>1, <2>2, <2>4
  <2> QED BY <2>3, <2>4
<1>5. BridgeTypes'
  BY <1>2, <1>4 DEF RefsInv, Types, BridgeTypes
<1>6. OtherTypes'
  BY <1>2 DEF RefsInv, Types, OtherTypes
<1>7. ConnTypes' /\ Counted' /\ HeldUsed'
  BY <1>2, CountSame DEF RefsInv, Types
<1>8. ASSUME NEW g \in Frames, SendSound(g), CloseSound(g)
      PROVE  SendSound(g)' /\ CloseSound(g)'
  <2>1. CloseSound(g)'
    BY <1>2, <1>8 DEF CloseSound
  <2>2. g.at \in Sending => draining'[g.stone] # 2
    <3>1. ASSUME g.at \in Sending PROVE draining'[g.stone] # 2
      <4>1. g.stone \in Stones /\ outputting[g.stone] /\ draining[g.stone] # 2
        BY <1>8, <3>1 DEF Frames, SendSound
      <4>2. draining \in [Stones -> 0 .. 2]
        BY DEF RefsInv, Types, BridgeTypes
      <4> QED BY <1>4, <4>1, <4>2
    <3> QED BY <3>1
  <2>3. SendSound(g)'
    BY <1>2, <1>8, <2>2 DEF SendSound
  <2> QED BY <2>1, <2>3
<1> QED BY <1>1, <1>5, <1>6, <1>7, <1>8, ReturnKeeps
-----------------------------------------------------------------------------
(* The network thread and the application.                                  *)

LEMMA PassFrame ==
  /\ Frame("pass", 1, None) \in Frames
  /\ Frame("pass", 1, None).at = "pass" /\ Frame("pass", 1, None).stone = 1
  /\ \A x : ~Closes(Frame("pass", 1, None), x)
  /\ CloseSound(Frame("pass", 1, None))'
<1>1. Frame("pass", 1, None) \in Frames
  BY FrameTypes
<1>2. Frame("pass", 1, None).at = "pass" /\ Frame("pass", 1, None).stone = 1
  BY DEF Frame
<1> QED BY <1>1, <1>2 DEF Closes, CloseSound, Closers

LEMMA RunTaskRefs ==
  ASSUME RefsInv, RunTask
  PROVE  RefsInv'
<1> DEFINE f == Frame("pass", 1, None)
<1>1. Call(Net, f) /\ Net \in Threads
  BY DEF RunTask, Threads
<1>2. /\ outputting' = outputting /\ draining' = draining /\ conn' = conn /\ frozen' = frozen
      /\ connFailed' = connFailed /\ queue' = queue /\ program' = program /\ conns' = conns
      /\ shared' = shared /\ alive' = alive /\ discarded' = discarded
      /\ tasks' = tasks - 1 /\ tasks > 0 /\ delayPending' = FALSE
  BY DEF RunTask, bridges, input, outcome
<1>3. BridgeTypes'
  BY <1>2 DEF RefsInv, Types, BridgeTypes
<1>7. tasks' \in Nat
  BY <1>2 DEF RefsInv, Types, OtherTypes
<1>4. OtherTypes'
  BY <1>2, <1>7 DEF RefsInv, Types, OtherTypes
<1>5. ConnTypes' /\ Counted' /\ HeldUsed'
  BY <1>2, CountSame DEF RefsInv, Types
<1>6. /\ f \in Frames /\ f.at \notin Sending /\ (\A x : ~Closes(f, x)) /\ CloseSound(f)'
  BY PassFrame DEF Sending
<1> HIDE DEF f
<1> QED BY <1>1, <1>2, <1>3, <1>4, <1>5, <1>6, SameSound, CallKeeps

LEMMA SubmitRefs ==
  ASSUME RefsInv, NEW t \in Threads, NEW s \in Stones, Submit(t, s)
  PROVE  RefsInv'
<1> DEFINE f == Frame("pass", 1, None)
<1>1. Call(t, f)
  BY DEF Submit
<1>2. /\ outputting' = outputting /\ draining' = draining /\ conn' = conn /\ frozen' = frozen
      /\ connFailed' = connFailed /\ queue' = [queue EXCEPT ![s] = @ + 1]
      /\ program' = program /\ conns' = conns
      /\ shared' = shared /\ alive' = alive /\ discarded' = discarded
      /\ tasks' = tasks /\ delayPending' = delayPending
  BY DEF Submit, deferral, outcome
<1>3. BridgeTypes'
  BY <1>2 DEF RefsInv, Types, BridgeTypes
<1>4. OtherTypes'
  BY <1>2 DEF RefsInv, Types, OtherTypes
<1>5. ConnTypes' /\ Counted' /\ HeldUsed'
  BY <1>2, CountSame DEF RefsInv, Types
<1>6. /\ f \in Frames /\ f.at \notin Sending /\ (\A x : ~Closes(f, x)) /\ CloseSound(f)'
  BY PassFrame DEF Sending
<1> HIDE DEF f
<1>7. ASSUME NEW g \in Frames, SendSound(g), CloseSound(g) PROVE SendSound(g)' /\ CloseSound(g)'
  <2>1. g.at \in Sending => g.stone \in Stones
    BY DEF Frames
  <2>2. \A x \in Stones : queue[x] > 0 => queue'[x] > 0
    BY <1>2 DEF RefsInv, Types, BridgeTypes
  <2>3. SendSound(g)'
    BY <1>2, <1>7, <2>1, <2>2 DEF SendSound, Sending
  <2>4. CloseSound(g)'
    BY <1>2, <1>7 DEF CloseSound
  <2> QED BY <2>3, <2>4
<1> QED BY <1>1, <1>3, <1>4, <1>5, <1>6, <1>7, CallKeeps

LEMMA EofRefs ==
  ASSUME RefsInv, NEW c \in Conns, Eof(c)
  PROVE  RefsInv'
<1>1. Call(Net, Closing(c)) /\ Net \in Threads
  BY DEF Eof, Threads
<1>2. /\ outputting' = outputting /\ draining' = draining /\ conn' = conn /\ frozen' = frozen
      /\ connFailed' = connFailed /\ queue' = queue /\ program' = program
      /\ conns[c].used /\ ~conns[c].failed /\ conns' = Break(conns, c)
      /\ shared' = shared /\ alive' = alive /\ discarded' = discarded
      /\ tasks' = tasks /\ delayPending' = delayPending
  BY DEF Eof, bridges, deferral, input, outcome
<1>3. BridgeTypes'
  BY <1>2 DEF RefsInv, Types, BridgeTypes
<1>4. OtherTypes'
  BY <1>2 DEF RefsInv, Types, OtherTypes
<1>5. /\ ConnTypes' /\ Counted' /\ HeldUsed'
      /\ conns'[c].listed /\ conns'[c].failed
      /\ \A d \in Conns : conns[d].listed /\ conns[d].failed => conns'[d].listed /\ conns'[d].failed
  BY <1>2, BreakRefs
<1>6. PICK f \in Frames : f = Closing(c)
  BY ClosingType DEF RefsInv, Types
<1>7. f.at = "closing" /\ f.conn = c
  BY <1>6, ClosingType DEF RefsInv, Types
<1>8. f.at \notin Sending /\ \A x : Closes(f, x) => x = c
  BY <1>7 DEF Sending, Closes
<1>9. CloseSound(f)'
  BY <1>5, <1>7 DEF CloseSound
<1>10. \A u \in Threads : \A i \in 1 .. Len(stack[u]) : ~Closes(stack[u][i], c)
  BY <1>2, NobodyCloses DEF RefsInv
<1>11. \A g \in Frames : SendSound(g) /\ CloseSound(g) => SendSound(g)' /\ CloseSound(g)'
  BY <1>2, <1>5, StepSound
<1>12. \A d \in Conns : Closes(f, d) =>
         \A u \in Threads : \A i \in 1 .. Len(stack[u]) : ~Closes(stack[u][i], d)
  BY <1>8, <1>10
<1>13. Call(Net, f)
  BY <1>1, <1>6
<1> QED BY <1>1, <1>3, <1>4, <1>5, <1>8, <1>9, <1>11, <1>12, <1>13, CallKeeps

LEMMA FlushRefs ==
  ASSUME RefsInv, NEW c \in Conns, Flush(c)
  PROVE  RefsInv'
<1>0. conns[c].used
  BY DEF Flush, RefsInv, Counted, CountedAt
<1>1. /\ outputting' = outputting /\ draining' = draining /\ conn' = conn /\ frozen' = frozen
      /\ connFailed' = connFailed /\ queue' = queue /\ program' = program
      /\ shared' = shared /\ alive' = alive /\ discarded' = discarded /\ stack' = stack
      /\ tasks' = tasks /\ delayPending' = delayPending
      /\ conns' = [conns EXCEPT ![c].pending = FALSE]
  BY DEF Flush, bridges, deferral, input, outcome
<1>2. BridgeTypes'
  BY <1>1 DEF RefsInv, Types, BridgeTypes
<1>3. OtherTypes'
  BY <1>1 DEF RefsInv, Types, OtherTypes
<1>4. /\ ConnTypes' /\ Counted' /\ HeldUsed'
      /\ \A d \in Conns : conns'[d].listed = conns[d].listed /\ conns'[d].failed = conns[d].failed
  BY <1>0, <1>1, PendingRefs
<1>5. \A g \in Frames : SendSound(g) /\ CloseSound(g) => SendSound(g)' /\ CloseSound(g)'
  BY <1>1, <1>4, StepSound
<1> QED BY <1>1, <1>2, <1>3, <1>4, <1>5, StayKeeps

LEMMA PeerDiesRefs ==
  ASSUME RefsInv, PeerDies
  PROVE  RefsInv'
<1>1. /\ outputting' = outputting /\ draining' = draining /\ conn' = conn /\ frozen' = frozen
      /\ connFailed' = connFailed /\ queue' = queue /\ program' = program /\ conns' = conns
      /\ shared' = shared /\ alive' = FALSE /\ discarded' = discarded /\ stack' = stack
      /\ tasks' = tasks /\ delayPending' = delayPending
  BY DEF PeerDies, bridges, deferral, outcome
<1>2. BridgeTypes'
  BY <1>1 DEF RefsInv, Types, BridgeTypes
<1>3. OtherTypes'
  BY <1>1 DEF RefsInv, Types, OtherTypes
<1>4. ConnTypes' /\ Counted' /\ HeldUsed'
  BY <1>1, CountSame DEF RefsInv, Types
<1> QED BY <1>1, <1>2, <1>3, <1>4, SameSound, StayKeeps

LEMMA FreezeRefs ==
  ASSUME RefsInv, NEW t \in Threads, NEW s \in Stones, Freeze(t, s) \/ Unfreeze(t, s)
  PROVE  RefsInv'
<1>1. /\ outputting' = outputting /\ draining' = draining /\ conn' = conn
      /\ connFailed' = connFailed /\ queue' = queue /\ program' = program /\ conns' = conns
      /\ shared' = shared /\ alive' = alive /\ discarded' = discarded /\ stack' = stack
      /\ delayPending' = delayPending
      /\ tasks' = tasks \/ tasks' = tasks + 1
      /\ frozen' = [frozen EXCEPT ![s] = TRUE] \/ frozen' = [frozen EXCEPT ![s] = FALSE]
  BY DEF Freeze, Unfreeze, Uses, deferral, outcome
<1>2. BridgeTypes'
  BY <1>1 DEF RefsInv, Types, BridgeTypes
<1>3. OtherTypes'
  BY <1>1 DEF RefsInv, Types, OtherTypes
<1>4. ConnTypes' /\ Counted' /\ HeldUsed'
  BY <1>1, CountSame DEF RefsInv, Types
<1> QED BY <1>1, <1>2, <1>3, <1>4, SameSound, StayKeeps

(* A queue that is emptied: a thread that waits to send from it may not go  *)
(* on, but it still has the stone.                                          *)
LEMMA TransferRefs ==
  ASSUME RefsInv, NEW t \in Threads, NEW s \in Stones, Transfer(t, s)
  PROVE  RefsInv'
<1>1. /\ outputting' = outputting /\ draining' = draining /\ conn' = conn /\ frozen' = frozen
      /\ connFailed' = connFailed /\ queue' = [queue EXCEPT ![s] = 0] /\ program' = program
      /\ conns' = conns
      /\ shared' = shared /\ alive' = alive /\ discarded' = discarded /\ stack' = stack
      /\ tasks' = tasks /\ delayPending' = delayPending
      /\ "transfer" \in program.usage
  BY DEF Transfer, Uses, deferral, outcome
<1>2. BridgeTypes'
  BY <1>1 DEF RefsInv, Types, BridgeTypes
<1>3. OtherTypes'
  BY <1>1 DEF RefsInv, Types, OtherTypes
<1>4. ConnTypes' /\ Counted' /\ HeldUsed'
  BY <1>1, CountSame DEF RefsInv, Types
<1>5. \A g \in Frames : SendSound(g) /\ CloseSound(g) => SendSound(g)' /\ CloseSound(g)'
  BY <1>1, StepSound
<1> QED BY <1>1, <1>2, <1>3, <1>4, <1>5, StayKeeps

LEMMA DrainRefs ==
  ASSUME RefsInv, NEW t \in Threads, NEW s \in Stones, Drain(t, s)
  PROVE  RefsInv'
<1> DEFINE f == Frame("drain", s, None)
<1>1. Call(t, f)
  BY DEF Drain
<1>2. /\ outputting' = outputting /\ draining' = [draining EXCEPT ![s] = 1] /\ conn' = conn
      /\ frozen' = frozen /\ connFailed' = connFailed /\ queue' = queue /\ program' = program
      /\ conns' = conns /\ shared' = shared /\ alive' = alive /\ discarded' = discarded
      /\ tasks' = tasks /\ delayPending' = delayPending
  BY DEF Drain, Uses, deferral, outcome
<1>3. BridgeTypes'
  BY <1>2 DEF RefsInv, Types, BridgeTypes
<1>4. OtherTypes'
  BY <1>2 DEF RefsInv, Types, OtherTypes
<1>5. ConnTypes' /\ Counted' /\ HeldUsed'
  BY <1>2, CountSame DEF RefsInv, Types
<1>6. f \in Frames /\ f.at = "drain"
  BY FrameTypes DEF Frame
<1> HIDE DEF f
<1>7. f.at \notin Sending /\ (\A x : ~Closes(f, x)) /\ CloseSound(f)'
  BY <1>6 DEF Sending, Closes, Closers, CloseSound
<1>8. \A g : SendSound(g) /\ CloseSound(g) => SendSound(g)' /\ CloseSound(g)'
  <2>1. \A x : draining[x] # 2 => draining'[x] # 2
    BY <1>2 DEF RefsInv, Types, BridgeTypes
  <2> QED BY <1>2, <2>1 DEF SendSound, CloseSound
<1> QED BY <1>1, <1>3, <1>4, <1>5, <1>6, <1>7, <1>8, CallKeeps

LEMMA ShareRefs ==
  ASSUME RefsInv, NEW t \in Threads, Share(t)
  PROVE  RefsInv'
<1>1. /\ outputting' = outputting /\ draining' = draining /\ conn' = conn /\ frozen' = frozen
      /\ connFailed' = connFailed /\ queue' = queue /\ program' = program
      /\ shared = None /\ alive' = alive /\ discarded' = discarded /\ stack' = stack
      /\ tasks' = tasks /\ delayPending' = delayPending
  BY DEF Share, Uses, bridges, deferral, outcome
<1>2. PICK c \in Usable : conns' = [conns EXCEPT ![c].refs = @ + 1] /\ shared' = c
  BY DEF Share
<1>3. c \in Conns /\ conns[c].used /\ ~conns[c].failed /\ c # None
  BY BridgeAssumption DEF Usable
<1>4. conns \in [Conns -> Connection]
  BY DEF RefsInv, Types, ConnTypes
<1>5. PICK e \in Connection :
        /\ [conns EXCEPT ![c].refs = @ + 1] = [conns EXCEPT ![c] = e]
        /\ e.refs = conns[c].refs + 1 /\ e.used = conns[c].used /\ e.listed = conns[c].listed
        /\ e.closed = conns[c].closed /\ e.failed = conns[c].failed /\ e.pending = conns[c].pending
  BY <1>3, <1>4, ShareEffect
<1>6. conns' = [conns EXCEPT ![c] = e]
  BY <1>2, <1>5
<1>7. CountedAt(c)
  BY <1>3 DEF RefsInv, Counted
<1>8. e.refs = Has(e.listed) + Has(e.used /\ ~e.failed) + Has(shared' = c)
                 + Cardinality(Holders(conn', c))
  <2>1. Cardinality(Holders(conn, c)) \in Nat
    BY HoldersCount
  <2> QED BY <1>1, <1>2, <1>3, <1>5, <1>7, <2>1 DEF CountedAt, Has
<1>9. e.used /\ (~e.failed => e.listed)
  BY <1>3, <1>5, <1>7 DEF CountedAt
<1>10. ConnTypes' /\ Counted' /\ HeldUsed'
  <2>1. \A d \in Conns : d # c => (shared = d <=> shared' = d)
    BY <1>1, <1>2, BridgeAssumption
  <2> QED BY <1>1, <1>2, <1>3, <1>6, <1>8, <1>9, <2>1, CountUpdate DEF RefsInv, Types, BridgeTypes
<1>11. BridgeTypes'
  BY <1>1 DEF RefsInv, Types, BridgeTypes
<1>12. OtherTypes'
  BY <1>1 DEF RefsInv, Types, OtherTypes
<1>13. \A d \in Conns : conns'[d].listed = conns[d].listed /\ conns'[d].failed = conns[d].failed
  BY <1>4, <1>5, <1>6
<1>14. \A g \in Frames : SendSound(g) /\ CloseSound(g) => SendSound(g)' /\ CloseSound(g)'
  BY <1>1, <1>13, StepSound
<1> QED BY <1>1, <1>10, <1>11, <1>12, <1>14, StayKeeps

LEMMA UnshareRefs ==
  ASSUME RefsInv, NEW t \in Threads, Unshare(t)
  PROVE  RefsInv'
<1>1. /\ outputting' = outputting /\ draining' = draining /\ conn' = conn /\ frozen' = frozen
      /\ connFailed' = connFailed /\ queue' = queue /\ program' = program
      /\ shared' = None /\ alive' = alive /\ discarded' = discarded /\ stack' = stack
      /\ tasks' = tasks /\ delayPending' = delayPending
  BY DEF Unshare, Uses, bridges, deferral, outcome
<1>2. PICK c \in Conns : c = shared
  BY DEF Unshare, RefsInv, Types, ConnTypes
<1>3. c # None /\ conns[c].used /\ conns' = Close(conns, c)
  BY <1>2, BridgeAssumption DEF Unshare, RefsInv, HeldUsed
<1>4. conns \in [Conns -> Connection]
  BY DEF RefsInv, Types, ConnTypes
<1>5. PICK e \in Connection :
        /\ Close(conns, c) = [conns EXCEPT ![c] = e]
        /\ e.refs = conns[c].refs - 1 /\ e.used = conns[c].used /\ e.listed = conns[c].listed
        /\ e.closed = TRUE /\ e.failed = conns[c].failed /\ e.pending = conns[c].pending
  BY <1>4, CloseEffect
<1>6. conns' = [conns EXCEPT ![c] = e]
  BY <1>3, <1>5
<1>7. CountedAt(c)
  BY DEF RefsInv, Counted
<1>8. e.refs = Has(e.listed) + Has(e.used /\ ~e.failed) + Has(shared' = c)
                 + Cardinality(Holders(conn', c))
  <2>1. Cardinality(Holders(conn, c)) \in Nat
    BY HoldersCount
  <2> QED BY <1>1, <1>2, <1>3, <1>5, <1>7, <2>1 DEF CountedAt, Has
<1>9. e.used /\ (~e.failed => e.listed)
  BY <1>3, <1>5, <1>7 DEF CountedAt
<1>10. ConnTypes' /\ Counted' /\ HeldUsed'
  <2>1. \A d \in Conns : d # c => (shared = d <=> shared' = d)
    BY <1>1, <1>2, BridgeAssumption
  <2> QED BY <1>1, <1>2, <1>3, <1>6, <1>8, <1>9, <2>1, CountUpdate DEF RefsInv, Types, BridgeTypes
<1>11. BridgeTypes'
  BY <1>1 DEF RefsInv, Types, BridgeTypes
<1>12. OtherTypes'
  BY <1>1 DEF RefsInv, Types, OtherTypes
<1>13. \A d \in Conns : conns'[d].listed = conns[d].listed /\ conns'[d].failed = conns[d].failed
  BY <1>4, <1>5, <1>6
<1>14. \A g \in Frames : SendSound(g) /\ CloseSound(g) => SendSound(g)' /\ CloseSound(g)'
  BY <1>1, <1>13, StepSound
<1> QED BY <1>1, <1>10, <1>11, <1>12, <1>14, StayKeeps
-----------------------------------------------------------------------------
(* The invariant of the counts.                                             *)

LEMMA InitRefs == Init => RefsInv
<1> SUFFICES ASSUME Init PROVE RefsInv
  OBVIOUS
<1>1. First \in Conns /\ None \notin Conns
  BY BridgeAssumption DEF First
<1>3. /\ Unused \in Connection /\ Opened \in Connection
      /\ ~Unused.used /\ Unused.refs = 0 /\ ~Unused.listed /\ ~Unused.failed /\ ~Unused.pending
      /\ Opened.used /\ Opened.refs = 3 /\ Opened.listed /\ ~Opened.failed
  <2>1. Unused = [used |-> FALSE, refs |-> 0, listed |-> FALSE, closed |-> FALSE, failed |-> FALSE,
                  pending |-> FALSE, hooks |-> <<>>]
    BY DEF Unused
  <2>2. <<>> \in Seq(Stones)
    OBVIOUS
  <2>3. Unused \in Connection
    BY <2>1, <2>2 DEF Connection
  <2>4. ~Unused.used /\ Unused.refs = 0 /\ ~Unused.listed /\ ~Unused.failed /\ ~Unused.pending
    BY <2>1
  <2>5. Opened \in Connection
    <3>1. PICK n \in Int : n = 3
      OBVIOUS
    <3>2. [Unused EXCEPT !.used = TRUE, !.listed = TRUE, !.refs = n] \in Connection
      BY <2>3 DEF Connection
    <3> QED BY <3>1, <3>2 DEF Opened
  <2>6. Opened.used /\ Opened.refs = 3 /\ Opened.listed /\ ~Opened.failed
    BY <2>3, <2>4 DEF Opened, Connection
  <2> QED BY <2>3, <2>4, <2>5, <2>6
<1>4. ConnTypes
  BY <1>1, <1>3 DEF Init, ConnTypes
<1>5. BridgeTypes
  BY DEF Init, BridgeTypes
<1>6. OtherTypes
  BY DEF Init, OtherTypes
<1>7. StackTypes /\ \A t \in Threads : stack[t] = <<>>
  BY DEF Init, StackTypes
<1>8. \A t \in Threads : \A i \in 1 .. Len(stack[t]) : FALSE
  BY <1>7
<1>9. OneSender(stack) /\ OneCloser(stack) /\ SendersSound /\ ClosersSound
  BY <1>8 DEF OneSender, OneCloser, SendersSound, ClosersSound
<1>10. ASSUME NEW c \in Conns PROVE CountedAt(c)
  <2>1. Cardinality(Holders(conn, c)) = 0
    <3>1. \A s \in Stones : conn[s] # c
      BY <1>1 DEF Init
    <3> QED BY <3>1, HoldersCount
  <2>2. CASE program.open /\ c = First
    <3>1. conns[c] = Opened /\ shared = c
      BY <2>2 DEF Init
    <3> QED BY <1>3, <2>1, <3>1 DEF CountedAt, Has
  <2>3. CASE ~(program.open /\ c = First)
    <3>1. conns[c] = Unused /\ shared # c
      BY <1>1, <2>3 DEF Init
    <3> QED BY <1>3, <2>1, <3>1 DEF CountedAt, Has
  <2> QED BY <2>2, <2>3
<1>11. HeldUsed
  <2>1. \A s \in Stones : conn[s] = None
    BY DEF Init
  <2>2. shared # None => conns[shared].used
    BY <1>1, <1>3 DEF Init
  <2> QED BY <2>1, <2>2 DEF HeldUsed
<1> QED BY <1>4, <1>5, <1>6, <1>7, <1>9, <1>10, <1>11 DEF RefsInv, Types, Counted

LEMMA SendRefs ==
  ASSUME RefsInv, NEW t \in Threads, NEW s \in Stones, Send(t, s)
  PROVE  RefsInv'
<1>1. CASE Skip(t, s)
  BY <1>1, SkipRefs
<1>2. CASE StartGivesUp(t, s)
  BY <1>2, StartGivesUpRefs
<1>3. CASE StartSends(t, s)
  BY <1>3, StartSendsRefs
<1>4. CASE StartFinds(t, s)
  BY <1>4, StartFindsRefs
<1>5. CASE StartConnects(t, s)
  BY <1>5, StartConnectsRefs
<1>6. CASE LoopEnds(t, s)
  BY <1>6, LoopEndsRefs
<1>7. CASE LoopWaits(t, s)
  BY <1>7, LoopWaitsRefs
<1>8. CASE LoopDiscards(t, s)
  BY <1>8, LoopDiscardsRefs
<1>9. CASE LoopSends(t, s)
  BY <1>9, LoopSendsRefs
<1>10. CASE LoopRefused(t, s)
  BY <1>10, LoopRefusedRefs
<1>11. CASE LoopFails(t, s)
  BY <1>11, LoopFailsRefs
<1>12. CASE Unsent(t, s)
  BY <1>12, UnsentRefs
<1> QED BY <1>1, <1>2, <1>3, <1>4, <1>5, <1>6, <1>7, <1>8, <1>9, <1>10, <1>11, <1>12 DEF Send

LEMMA WakeRefs ==
  ASSUME RefsInv, NEW t \in Threads, Wake(t) \/ Return(t)
  PROVE  RefsInv'
<1>1. CASE Connected(t)
  BY <1>1, ConnectedRefs
<1>2. CASE ConnectFails(t)
  BY <1>2, ConnectFailsRefs
<1>3. CASE Unblocked(t)
  BY <1>3, UnblockedRefs
<1>4. CASE PassEnds(t)
  BY <1>4, PassEndsRefs
<1>5. CASE CallCloseHandler(t)
  BY <1>5, CallCloseHandlerRefs
<1>6. CASE CloseHandler(t)
  BY <1>6, CloseHandlerRefs
<1>7. CASE Closed(t)
  BY <1>7, ClosedRefs
<1>8. CASE DrainReturns(t)
  BY <1>8, DrainReturnsRefs
<1> QED BY <1>1, <1>2, <1>3, <1>4, <1>5, <1>6, <1>7, <1>8 DEF Wake, Return

LEMMA UseRefs ==
  ASSUME RefsInv, NEW t \in Threads, NEW s \in Stones, Submit(t, s) \/ Use(t, s)
  PROVE  RefsInv'
<1>1. CASE Submit(t, s)
  BY <1>1, SubmitRefs
<1>2. CASE Freeze(t, s) \/ Unfreeze(t, s)
  BY <1>2, FreezeRefs
<1>3. CASE Transfer(t, s)
  BY <1>3, TransferRefs
<1>4. CASE Drain(t, s)
  BY <1>4, DrainRefs
<1> QED BY <1>1, <1>2, <1>3, <1>4 DEF Use

LEMMA StutterRefs ==
  ASSUME RefsInv, UNCHANGED vars
  PROVE  RefsInv'
<1>1. /\ outputting' = outputting /\ draining' = draining /\ conn' = conn /\ frozen' = frozen
      /\ connFailed' = connFailed /\ queue' = queue /\ program' = program /\ conns' = conns
      /\ shared' = shared /\ alive' = alive /\ discarded' = discarded /\ stack' = stack
      /\ tasks' = tasks /\ delayPending' = delayPending
  BY DEF vars, bridges, deferral, input, outcome
<1>2. BridgeTypes'
  BY <1>1 DEF RefsInv, Types, BridgeTypes
<1>3. OtherTypes'
  BY <1>1 DEF RefsInv, Types, OtherTypes
<1>4. ConnTypes' /\ Counted' /\ HeldUsed'
  BY <1>1, CountSame DEF RefsInv, Types
<1> QED BY <1>1, <1>2, <1>3, <1>4, SameSound, StayKeeps

LEMMA NextRefs == RefsInv /\ [Next]_vars => RefsInv'
<1> SUFFICES ASSUME RefsInv, [Next]_vars PROVE RefsInv'
  OBVIOUS
<1>1. CASE \E t \in Threads, s \in Stones : Send(t, s)
  BY <1>1, SendRefs
<1>2. CASE \E t \in Threads : Wake(t) \/ Return(t)
  BY <1>2, WakeRefs
<1>3. CASE \E c \in Conns : Network(c)
  BY <1>3, FlushRefs, EofRefs DEF Network
<1>4. CASE RunTask
  BY <1>4, RunTaskRefs
<1>5. CASE PeerDies
  BY <1>5, PeerDiesRefs
<1>6. CASE \E t \in Apps, s \in Stones : Submit(t, s) \/ Use(t, s)
  <2>1. Apps \subseteq Threads
    BY DEF Threads
  <2> QED BY <1>6, <2>1, UseRefs
<1>7. CASE \E t \in Apps : Share(t) \/ Unshare(t)
  <2>1. Apps \subseteq Threads
    BY DEF Threads
  <2> QED BY <1>7, <2>1, ShareRefs, UnshareRefs
<1>8. CASE UNCHANGED vars
  BY <1>8, StutterRefs
<1> QED BY <1>1, <1>2, <1>3, <1>4, <1>5, <1>6, <1>7, <1>8 DEF Next

LEMMA RefsInvariant == Spec => []RefsInv
BY InitRefs, NextRefs, PTL DEF Spec
-----------------------------------------------------------------------------
(* The events.  What a step does to the calls that are on a stack.          *)

Occurs(g) == \E t \in Threads : \E i \in 1 .. Len(stack[t]) : stack[t][i] = g

LEMMA OccursChange ==
  ASSUME NEW t \in Threads, NEW n, NEW f, Changes(stack, stack', t, n, f)
  PROVE  /\ \A g : Other(g, t, n) => Occurs(g)'
         /\ n \in 1 .. Len(stack'[t]) => Occurs(f)'
<1>1. ASSUME NEW g, Other(g, t, n) PROVE Occurs(g)'
  <2>1. PICK u \in Threads : \E i \in 1 .. Len(stack[u]) : ~(u = t /\ i = n) /\ stack[u][i] = g
    BY <1>1 DEF Other
  <2>2. PICK i \in 1 .. Len(stack[u]) : ~(u = t /\ i = n) /\ stack[u][i] = g
    BY <2>1
  <2>3. i \in 1 .. Len(stack'[u]) /\ stack'[u][i] = g
    BY <2>2 DEF Changes
  <2> QED BY <2>3 DEF Occurs
<1>2. ASSUME n \in 1 .. Len(stack'[t]) PROVE Occurs(f)'
  <2>1. stack'[t][n] = f
    BY <1>2 DEF Changes
  <2> QED BY <1>2, <2>1 DEF Occurs
<1> QED BY <1>1, <1>2

LEMMA GotoOccurs ==
  ASSUME RefsInv, NEW t \in Threads, stack[t] # <<>>, NEW f \in Frames, Goto(t, f)
  PROVE  Occurs(f)' /\ \A g : Occurs(g) => g \in {Top(t)} \/ Occurs(g)'
<1>1. /\ Changes(stack, stack', t, Len(stack[t]), f)
      /\ Len(stack'[t]) = Len(stack[t])
  BY GotoChanges DEF Goto, RefsInv, Types, StackTypes
<1>2. Len(stack[t]) \in 1 .. Len(stack[t]) /\ Top(t) = stack[t][Len(stack[t])]
  BY TopFrame DEF RefsInv, Types
<1>3. \A g : Occurs(g) => g = Top(t) \/ Other(g, t, Len(stack[t]))
  BY <1>2 DEF Occurs, Other
<1> QED BY <1>1, <1>2, <1>3, OccursChange

LEMMA CallOccurs ==
  ASSUME RefsInv, NEW t \in Threads, NEW f \in Frames, Call(t, f)
  PROVE  Occurs(f)' /\ \A g : Occurs(g) => Occurs(g)'
<1>1. /\ Changes(stack, stack', t, Len(stack[t]) + 1, f)
      /\ Len(stack'[t]) = Len(stack[t]) + 1
  BY CallChanges DEF Call, RefsInv, Types, StackTypes
<1>2. Len(stack[t]) \in Nat
  BY LenProperties DEF RefsInv, Types, StackTypes
<1>3. \A n \in Nat : n + 1 \in 1 .. n + 1 /\ n + 1 \notin 1 .. n
  OBVIOUS
<1>4. \A g : Occurs(g) => Other(g, t, Len(stack[t]) + 1)
  BY <1>2, <1>3 DEF Occurs, Other
<1> QED BY <1>1, <1>2, <1>3, <1>4, OccursChange

LEMMA ReturnOccurs ==
  ASSUME RefsInv, NEW t \in Threads, stack[t] # <<>>, stack' = [stack EXCEPT ![t] = Front(@)]
  PROVE  \A g : Occurs(g) => g \in {Top(t)} \/ Occurs(g)'
<1>1. Changes(stack, stack', t, Len(stack[t]), Top(t))
  BY ReturnChanges DEF RefsInv, Types, StackTypes
<1>2. Top(t) = stack[t][Len(stack[t])]
  BY TopFrame DEF RefsInv, Types
<1>3. \A g : Occurs(g) => g = Top(t) \/ Other(g, t, Len(stack[t]))
  BY <1>2 DEF Occurs, Other
<1> QED BY <1>1, <1>3, OccursChange

LEMMA StayOccurs ==
  ASSUME stack' = stack
  PROVE  \A g : Occurs(g) => Occurs(g)'
BY DEF Occurs

LEMMA SomeOccurs ==
  /\ \A s : SomeSender(s) <=> \E g : Occurs(g) /\ Sends(g, s)
  /\ \A s : SomeComer(s) <=> \E g : Occurs(g) /\ Comes(g, s)
<1>1. \A s : SomeSender(s) => \E g : Occurs(g) /\ Sends(g, s)
  BY DEF SomeSender, Occurs
<1>2. \A s : (\E g : Occurs(g) /\ Sends(g, s)) => SomeSender(s)
  BY DEF SomeSender, Occurs
<1>3. \A s : SomeComer(s) => \E g : Occurs(g) /\ Comes(g, s)
  BY DEF SomeComer, Occurs
<1>4. \A s : (\E g : Occurs(g) /\ Comes(g, s)) => SomeComer(s)
  BY DEF SomeComer, Occurs
<1> QED BY <1>1, <1>2, <1>3, <1>4

(* A step that loses the calls in lost and has those in made.               *)
LEMMA EventKeeps ==
  ASSUME EventInv, NEW lost, NEW made,
         \A g : Occurs(g) => g \in lost \/ Occurs(g)',
         \A g \in made : Occurs(g)',
         delayPending' => tasks' > 0,
         \A x \in Stones : Waits(x)' =>
           \/ tasks' > 0
           \/ \E g \in made : Comes(g, x)
           \/ Waits(x) /\ (tasks > 0 => tasks' > 0) /\ \A g \in lost : ~Comes(g, x),
         \A x \in Stones : outputting'[x] =>
           \/ Reason(x)'
           \/ \E g \in made : Sends(g, x)
           \/ outputting[x] /\ ~Reason(x) /\ \A g \in lost : ~Sends(g, x),
         \A x \in Stones : x \in discarded' => connFailed'[x]
  PROVE  EventInv'
<1>1. ASSUME NEW x \in Stones, Waits(x)' PROVE (tasks > 0 \/ SomeComer(x))'
  <2>1. CASE \E g \in made : Comes(g, x)
    <3>1. \E g : Occurs(g)' /\ Comes(g, x)
      BY <2>1
    <3> QED BY <3>1 DEF SomeComer, Occurs
  <2>2. CASE Waits(x) /\ (tasks > 0 => tasks' > 0) /\ \A g \in lost : ~Comes(g, x)
    <3>1. tasks > 0 \/ SomeComer(x)
      BY <2>2 DEF EventInv, Seen
    <3>2. CASE SomeComer(x)
      <4>1. \E g : Occurs(g) /\ Comes(g, x)
        BY <3>2, SomeOccurs
      <4>2. \E g : Occurs(g)' /\ Comes(g, x)
        BY <2>2, <4>1
      <4> QED BY <4>2 DEF SomeComer, Occurs
    <3> QED BY <2>2, <3>1, <3>2
  <2> QED BY <1>1, <2>1, <2>2
<1>2. ASSUME NEW x \in Stones, outputting'[x] PROVE (SomeSender(x) \/ Reason(x))'
  <2>1. CASE \E g \in made : Sends(g, x)
    <3>1. \E g : Occurs(g)' /\ Sends(g, x)
      BY <2>1
    <3> QED BY <3>1 DEF SomeSender, Occurs
  <2>2. CASE outputting[x] /\ ~Reason(x) /\ \A g \in lost : ~Sends(g, x)
    <3>1. SomeSender(x)
      BY <2>2 DEF EventInv, Explained
    <3>2. \E g : Occurs(g) /\ Sends(g, x)
      BY <3>1, SomeOccurs
    <3>3. \E g : Occurs(g)' /\ Sends(g, x)
      BY <2>2, <3>2
    <3> QED BY <3>3 DEF SomeSender, Occurs
  <2> QED BY <1>2, <2>1, <2>2
<1> QED BY <1>1, <1>2 DEF EventInv, Seen, Explained

LEMMA EventGoto ==
  ASSUME RefsInv, EventInv, NEW t \in Threads, stack[t] # <<>>, NEW f \in Frames, Goto(t, f),
         delayPending' => tasks' > 0, tasks > 0 => tasks' > 0,
         \A x \in Stones : Waits(x)' =>
           tasks' > 0 \/ Comes(f, x) \/ (Waits(x) /\ ~Comes(Top(t), x)),
         \A x \in Stones : outputting'[x] =>
           Reason(x)' \/ Sends(f, x) \/ (outputting[x] /\ ~Reason(x) /\ ~Sends(Top(t), x)),
         \A x \in Stones : x \in discarded' => connFailed'[x]
  PROVE  EventInv'
<1>1. Occurs(f)' /\ \A g : Occurs(g) => g \in {Top(t)} \/ Occurs(g)'
  BY GotoOccurs
<1>2. PICK lost : lost = {Top(t)}
  OBVIOUS
<1>3. PICK made : made = {f}
  OBVIOUS
<1>4. (\A g : Occurs(g) => g \in lost \/ Occurs(g)') /\ (\A g \in made : Occurs(g)')
  BY <1>1, <1>2, <1>3
<1>5. \A x \in Stones : Waits(x)' =>
        \/ tasks' > 0
        \/ \E g \in made : Comes(g, x)
        \/ Waits(x) /\ (tasks > 0 => tasks' > 0) /\ \A g \in lost : ~Comes(g, x)
  BY <1>2, <1>3
<1>6. \A x \in Stones : outputting'[x] =>
        \/ Reason(x)'
        \/ \E g \in made : Sends(g, x)
        \/ outputting[x] /\ ~Reason(x) /\ \A g \in lost : ~Sends(g, x)
  BY <1>2, <1>3
<1> QED BY <1>4, <1>5, <1>6, EventKeeps

LEMMA EventReturn ==
  ASSUME RefsInv, EventInv, NEW t \in Threads, stack[t] # <<>>,
         stack' = [stack EXCEPT ![t] = Front(@)],
         delayPending' => tasks' > 0, tasks > 0 => tasks' > 0,
         \A x \in Stones : Waits(x)' => Waits(x) /\ ~Comes(Top(t), x),
         \A x \in Stones : outputting'[x] =>
           Reason(x)' \/ (outputting[x] /\ ~Reason(x) /\ ~Sends(Top(t), x)),
         \A x \in Stones : x \in discarded' => connFailed'[x]
  PROVE  EventInv'
<1>1. \A g : Occurs(g) => g \in {Top(t)} \/ Occurs(g)'
  BY ReturnOccurs
<1>2. PICK lost : lost = {Top(t)}
  OBVIOUS
<1>3. \A g : Occurs(g) => g \in lost \/ Occurs(g)'
  BY <1>1, <1>2
<1>7. PICK made : made = {}
  OBVIOUS
<1>4. \A g \in made : Occurs(g)'
  BY <1>7
<1>5. \A x \in Stones : Waits(x)' =>
        \/ tasks' > 0
        \/ \E g \in made : Comes(g, x)
        \/ Waits(x) /\ (tasks > 0 => tasks' > 0) /\ \A g \in lost : ~Comes(g, x)
  BY <1>2
<1>6. \A x \in Stones : outputting'[x] =>
        \/ Reason(x)'
        \/ \E g \in made : Sends(g, x)
        \/ outputting[x] /\ ~Reason(x) /\ \A g \in lost : ~Sends(g, x)
  BY <1>2
<1> QED BY <1>3, <1>4, <1>5, <1>6, EventKeeps

LEMMA EventCall ==
  ASSUME RefsInv, EventInv, NEW t \in Threads, NEW f \in Frames, Call(t, f),
         delayPending' => tasks' > 0,
         \A x \in Stones : Waits(x)' => Comes(f, x) \/ (Waits(x) /\ (tasks > 0 => tasks' > 0)),
         \A x \in Stones : outputting'[x] => Reason(x)' \/ (outputting[x] /\ ~Reason(x)),
         \A x \in Stones : x \in discarded' => connFailed'[x]
  PROVE  EventInv'
<1>1. Occurs(f)' /\ \A g : Occurs(g) => Occurs(g)'
  BY CallOccurs
<1>2. PICK made : made = {f}
  OBVIOUS
<1>3. (\A g : Occurs(g) => g \in {} \/ Occurs(g)') /\ (\A g \in made : Occurs(g)')
  BY <1>1, <1>2
<1>4. \A x \in Stones : Waits(x)' =>
        \/ tasks' > 0
        \/ \E g \in made : Comes(g, x)
        \/ Waits(x) /\ (tasks > 0 => tasks' > 0) /\ \A g \in {} : ~Comes(g, x)
  BY <1>2
<1>5. \A x \in Stones : outputting'[x] =>
        \/ Reason(x)'
        \/ \E g \in made : Sends(g, x)
        \/ outputting[x] /\ ~Reason(x) /\ \A g \in {} : ~Sends(g, x)
  BY <1>2
<1> QED BY <1>3, <1>4, <1>5, EventKeeps

LEMMA EventStay ==
  ASSUME EventInv, stack' = stack,
         delayPending' => tasks' > 0, tasks > 0 => tasks' > 0,
         \A x \in Stones : Waits(x)' => tasks' > 0 \/ Waits(x),
         \A x \in Stones : outputting'[x] => Reason(x)' \/ (outputting[x] /\ ~Reason(x)),
         \A x \in Stones : x \in discarded' => connFailed'[x]
  PROVE  EventInv'
<1>4. PICK none : none = {}
  OBVIOUS
<1>1. (\A g : Occurs(g) => g \in none \/ Occurs(g)') /\ (\A g \in none : Occurs(g)')
  BY <1>4, StayOccurs
<1>2. \A x \in Stones : Waits(x)' =>
        \/ tasks' > 0
        \/ \E g \in none : Comes(g, x)
        \/ Waits(x) /\ (tasks > 0 => tasks' > 0) /\ \A g \in none : ~Comes(g, x)
  BY <1>4
<1>3. \A x \in Stones : outputting'[x] =>
        \/ Reason(x)'
        \/ \E g \in none : Sends(g, x)
        \/ outputting[x] /\ ~Reason(x) /\ \A g \in none : ~Sends(g, x)
  BY <1>4
<1> QED BY <1>1, <1>2, <1>3, EventKeeps

(* A pass, or the loop of a stone, and what comes after it.                 *)
LEMMA NextComes ==
  ASSUME NEW s \in Stones, NEW x \in Stones, NEW g, g.stone = s, g.at \in Sending \cup {"pass"},
         Comes(g, x)
  PROVE  /\ x # s => Comes(NextStone(s), x) /\ \A f : f.at \in Sending /\ f.stone = s => Comes(f, x)
         /\ g.at \in Sending => x # s
<1>1. s \in Int /\ x \in Int
  BY BridgeAssumption
<1>2. NextStone(s).at = "pass" /\ NextStone(s).stone = s + 1
  BY DEF NextStone, Frame
<1>3. s <= x
  BY <1>1 DEF Comes, Sending
<1>4. g.at \in Sending => s < x
  BY DEF Comes, Sending
<1> HIDE DEF NextStone
<1>5. x # s => Comes(NextStone(s), x)
  BY <1>1, <1>2, <1>3 DEF Comes
<1>6. ASSUME NEW f, f.at \in Sending, f.stone = s, x # s PROVE Comes(f, x)
  BY <1>1, <1>3, <1>6 DEF Comes
<1> QED BY <1>1, <1>4, <1>5, <1>6

(* The loop of a stone goes on, in whatever step of it.                     *)
LEMMA SendMoves ==
  ASSUME RefsInv, EventInv, NEW t \in Threads, NEW s \in Stones, stack[t] # <<>>,
         Top(t).at \in Sending, Top(t).stone = s,
         NEW f \in Frames, f.at \in Sending, f.stone = s, Goto(t, f),
         outputting' = outputting, draining' = draining, frozen' = frozen,
         program' = program, tasks' = tasks, delayPending' = delayPending,
         \A x \in Stones : queue'[x] > 0 => queue[x] > 0,
         \A x \in Stones : x # s => conn'[x] = conn[x],
         \A x \in Stones : connFailed[x] => connFailed'[x],
         \A x \in Stones : x \in discarded' => connFailed'[x]
  PROVE  EventInv'
<1>1. \A x \in Stones : Waits(x)' => Waits(x)
  BY DEF Waits
<1>2. \A x \in Stones : Comes(Top(t), x) => Comes(f, x)
  BY NextComes
<1>3. Sends(f, s)
  BY DEF Sends
<1>4. \A x \in Stones : x # s => ~Sends(Top(t), x) /\ (Reason(x) => Reason(x)')
  BY DEF Sends, Reason
<1>5. delayPending' => tasks' > 0
  BY DEF EventInv
<1> QED BY <1>1, <1>2, <1>3, <1>4, <1>5, EventGoto

(* The loop of a stone is left.                                             *)
LEMMA SendEnds ==
  ASSUME RefsInv, EventInv, NEW t \in Threads, NEW s \in Stones, stack[t] # <<>>,
         Top(t).at \in Sending, Top(t).stone = s, Goto(t, NextStone(s)),
         outputting'[s] => Reason(s),
         \A x \in Stones : x # s => outputting'[x] = outputting[x],
         queue[s] = 0 \/ outputting'[s],
         draining' = draining, frozen' = frozen, queue' = queue, conn' = conn,
         connFailed' = connFailed, discarded' = discarded,
         program' = program, tasks' = tasks, delayPending' = delayPending
  PROVE  EventInv'
<1>1. NextStone(s) \in Frames
  BY NextStoneFrame
<1>2. \A x \in Stones : Waits(x)' => Waits(x) /\ x # s
  <2>1. ASSUME NEW x \in Stones, Waits(x)' PROVE Waits(x) /\ x # s
    <3>1. x # s
      BY <2>1 DEF Waits, RefsInv, Types, BridgeTypes
    <3> QED BY <2>1, <3>1 DEF Waits
  <2> QED BY <2>1
<1>3. \A x \in Stones : x # s /\ Comes(Top(t), x) => Comes(NextStone(s), x)
  BY NextComes
<1>4. \A x \in Stones : x # s => ~Sends(Top(t), x)
  BY DEF Sends
<1>5. \A x \in Stones : Reason(x) => Reason(x)'
  BY DEF Reason
<1>6. delayPending' => tasks' > 0
  BY DEF EventInv
<1>7. \A x \in Stones : x \in discarded' => connFailed'[x]
  BY DEF EventInv, Explained
<1> HIDE DEF NextStone
<1> QED BY <1>1, <1>2, <1>3, <1>4, <1>5, <1>6, <1>7, EventGoto

LEMMA SkipEvents ==
  ASSUME RefsInv, EventInv, NEW t \in Threads, NEW s \in Stones, Skip(t, s)
  PROVE  EventInv'
<1>1. stack[t] # <<>> /\ Goto(t, NextStone(s)) /\ Top(t).at = "pass" /\ Top(t).stone = s
  BY DEF Skip, Running, In
<1>2. /\ outputting' = outputting /\ draining' = draining /\ conn' = conn /\ frozen' = frozen
      /\ connFailed' = connFailed /\ queue' = queue /\ program' = program
      /\ discarded' = discarded
  BY DEF Skip, bridges, input, outcome
<1>3. (Defers(s) => tasks' > 0) /\ (tasks > 0 => tasks' > 0) /\ (delayPending' => tasks' > 0)
  BY DEF Skip, EventInv, RefsInv, Types, OtherTypes, Defers
<1>4. Held(s) \/ Defers(s)
  BY DEF Skip
<1>5. NextStone(s) \in Frames
  BY NextStoneFrame
<1>6. ASSUME NEW x \in Stones, Waits(x)'
      PROVE  tasks' > 0 \/ Comes(NextStone(s), x) \/ (Waits(x) /\ ~Comes(Top(t), x))
  <2>1. Waits(x)
    BY <1>2, <1>6 DEF Waits
  <2>2. CASE x = s
    <3>1. ~Held(s)
      BY <2>1, <2>2 DEF Waits, Held, RefsInv, Types, BridgeTypes
    <3> QED BY <1>3, <1>4, <3>1
  <2>3. CASE x # s
    <3>1. Comes(Top(t), x) => Comes(NextStone(s), x)
      BY <1>1, <2>3, NextComes
    <3> QED BY <2>1, <3>1
  <2> QED BY <2>2, <2>3
<1>7. \A x \in Stones : outputting'[x] => Reason(x)' \/ (outputting[x] /\ ~Reason(x) /\ ~Sends(Top(t), x))
  BY <1>1, <1>2 DEF Reason, Sends, Sending
<1>8. \A x \in Stones : x \in discarded' => connFailed'[x]
  BY <1>2 DEF EventInv, Explained
<1> HIDE DEF NextStone
<1> QED BY <1>1, <1>3, <1>5, <1>6, <1>7, <1>8, EventGoto

(* A stone starts to send, or is given up at once.                          *)
LEMMA StartEvents ==
  ASSUME RefsInv, EventInv, NEW t \in Threads, NEW s \in Stones,
         StartGivesUp(t, s) \/ StartSends(t, s) \/ StartFinds(t, s) \/ StartConnects(t, s)
  PROVE  EventInv'
<1>1. stack[t] # <<>> /\ Top(t).at = "pass" /\ Top(t).stone = s
  BY DEF StartGivesUp, StartSends, StartFinds, StartConnects, Starts, In
<1>2. /\ outputting' = [outputting EXCEPT ![s] = TRUE] /\ draining' = draining
      /\ frozen' = frozen /\ connFailed' = connFailed /\ queue' = queue /\ program' = program
      /\ discarded' = discarded /\ tasks' = tasks /\ delayPending' = delayPending
  BY DEF StartGivesUp, StartSends, StartFinds, StartConnects, Starts, deferral, input, outcome
<1>3. \A x \in Stones : x # s => conn'[x] = conn[x]
  BY DEF StartGivesUp, StartSends, StartFinds, StartConnects, RefsInv, Types, BridgeTypes
<1>4. PICK f \in Frames : /\ Goto(t, f)
                          /\ \/ f = NextStone(s) /\ connFailed[s]
                             \/ f.at \in Sending /\ f.stone = s
  <2>1. CASE StartGivesUp(t, s)
    <3>1. Goto(t, NextStone(s)) /\ connFailed[s]
      BY <2>1 DEF StartGivesUp
    <3> QED BY <3>1, NextStoneFrame
  <2>2. CASE StartSends(t, s) \/ StartFinds(t, s)
    <3>1. Goto(t, Frame("loop", s, None))
      BY <2>2 DEF StartSends, StartFinds
    <3>2. Frame("loop", s, None) \in Frames /\ Frame("loop", s, None).at = "loop"
          /\ Frame("loop", s, None).stone = s
      BY SendFrame
    <3> QED BY <3>1, <3>2 DEF Sending
  <2>3. CASE StartConnects(t, s)
    <3>1. Goto(t, Frame("connecting", s, None))
      BY <2>3 DEF StartConnects
    <3>2. Frame("connecting", s, None) \in Frames /\ Frame("connecting", s, None).at = "connecting"
          /\ Frame("connecting", s, None).stone = s
      BY SendFrame
    <3> QED BY <3>1, <3>2 DEF Sending
  <2> QED BY <2>1, <2>2, <2>3
<1>5. /\ outputting'[s] /\ \A x \in Stones : x # s => outputting'[x] = outputting[x]
  BY <1>2 DEF RefsInv, Types, BridgeTypes
<1>6. \A x \in Stones : Waits(x)' => Waits(x) /\ x # s
  <2>1. ASSUME NEW x \in Stones, Waits(x)' PROVE Waits(x) /\ x # s
    <3>1. x # s
      BY <1>5, <2>1 DEF Waits
    <3> QED BY <1>2, <1>5, <2>1, <3>1 DEF Waits
  <2> QED BY <2>1
<1>7. \A x \in Stones : x # s /\ Comes(Top(t), x) => Comes(f, x)
  BY <1>1, <1>4, NextComes
<1>8. ASSUME NEW x \in Stones, outputting'[x]
      PROVE  Reason(x)' \/ Sends(f, x) \/ (outputting[x] /\ ~Reason(x) /\ ~Sends(Top(t), x))
  <2>1. CASE x = s
    BY <1>2, <1>4, <2>1 DEF Reason, Sends
  <2>2. CASE x # s
    BY <1>1, <1>2, <1>3, <1>5, <1>8, <2>2 DEF Reason, Sends
  <2> QED BY <2>1, <2>2
<1>9. \A x \in Stones : x \in discarded' => connFailed'[x]
  BY <1>2 DEF EventInv, Explained
<1>10. (delayPending' => tasks' > 0) /\ (tasks > 0 => tasks' > 0)
  BY <1>2 DEF EventInv
<1> QED BY <1>1, <1>4, <1>6, <1>7, <1>8, <1>9, <1>10, EventGoto

LEMMA ConnectedEvents ==
  ASSUME RefsInv, EventInv, NEW t \in Threads, Connected(t)
  PROVE  EventInv'
<1>0. PICK s \in Stones : s = Top(t).stone
  BY SenderTop DEF Connected, Acquires, Sending
<1>1. stack[t] # <<>> /\ Top(t).at \in Sending /\ Top(t).stone = s
  BY <1>0 DEF Connected, Acquires, In, Sending
<1>2. PICK f \in Frames : f.at \in Sending /\ f.stone = s /\ Goto(t, f)
  <2>1. Goto(t, Frame("loop", s, None))
    BY <1>0 DEF Connected
  <2>2. Frame("loop", s, None) \in Frames /\ Frame("loop", s, None).at = "loop"
        /\ Frame("loop", s, None).stone = s
    BY SendFrame
  <2> QED BY <2>1, <2>2 DEF Sending
<1>3. /\ outputting' = outputting /\ draining' = draining
      /\ frozen' = frozen /\ connFailed' = connFailed /\ queue' = queue /\ program' = program
      /\ discarded' = discarded /\ tasks' = tasks /\ delayPending' = delayPending
  BY DEF Connected, input, outcome
<1>4. \A x \in Stones : x # s => conn'[x] = conn[x]
  BY <1>0 DEF Connected, RefsInv, Types, BridgeTypes
<1>5. \A x \in Stones : x \in discarded' => connFailed'[x]
  BY <1>3 DEF EventInv, Explained
<1> QED BY <1>1, <1>2, <1>3, <1>4, <1>5, SendMoves

LEMMA ConnectFailsEvents ==
  ASSUME RefsInv, EventInv, NEW t \in Threads, ConnectFails(t)
  PROVE  EventInv'
<1>0. PICK s \in Stones : s = Top(t).stone
  BY SenderTop DEF ConnectFails, Acquires, Sending
<1>1. /\ stack[t] # <<>> /\ Top(t).at \in Sending /\ Top(t).at = "connecting" /\ Top(t).stone = s
      /\ SendSound(Top(t))
  BY <1>0, SenderTop DEF ConnectFails, Acquires, Sending
<1>2. Goto(t, NextStone(s))
  BY <1>0 DEF ConnectFails
<1>3. /\ outputting' = outputting /\ draining' = draining /\ conn' = conn /\ frozen' = frozen
      /\ connFailed' = connFailed /\ queue' = queue /\ program' = program
      /\ discarded' = discarded /\ tasks' = tasks /\ delayPending' = delayPending
  BY DEF ConnectFails, bridges, input, outcome
<1>4. outputting[s] /\ Reason(s)
  BY <1>1 DEF SendSound, Reason
<1> HIDE DEF NextStone
<1> QED BY <1>1, <1>2, <1>3, <1>4, SendEnds

LEMMA UnblockedEvents ==
  ASSUME RefsInv, EventInv, NEW t \in Threads, Unblocked(t)
  PROVE  EventInv'
<1>0. PICK s \in Stones : s = Top(t).stone
  BY SenderTop DEF Unblocked, Acquires, Sending
<1>1. /\ stack[t] # <<>> /\ Top(t).at \in Sending /\ Top(t).at = "blocked" /\ Top(t).stone = s
      /\ SendSound(Top(t))
  BY <1>0, SenderTop DEF Unblocked, Acquires, Sending
<1>3. /\ outputting' = outputting /\ draining' = draining /\ conn' = conn /\ frozen' = frozen
      /\ connFailed' = connFailed /\ queue' = queue /\ program' = program
      /\ discarded' = discarded /\ tasks' = tasks /\ delayPending' = delayPending
  BY DEF Unblocked, bridges, deferral, input, outcome
<1>4. CASE queue[s] = 0
  <2>1. Goto(t, NextStone(s))
    BY <1>0, <1>4 DEF Unblocked
  <2>2. Reason(s)
    BY <1>1, <1>4 DEF SendSound, Reason
  <2> HIDE DEF NextStone
  <2> QED BY <1>1, <1>3, <1>4, <2>1, <2>2, SendEnds
<1>5. CASE queue[s] # 0
  <2>1. PICK f \in Frames : f.at \in Sending /\ f.stone = s /\ Goto(t, f)
    <3>1. Goto(t, Frame("loop", s, None))
      BY <1>0, <1>5 DEF Unblocked
    <3>2. Frame("loop", s, None) \in Frames /\ Frame("loop", s, None).at = "loop"
          /\ Frame("loop", s, None).stone = s
      BY SendFrame
    <3> QED BY <3>1, <3>2 DEF Sending
  <2>2. \A x \in Stones : x \in discarded' => connFailed'[x]
    BY <1>3 DEF EventInv, Explained
  <2> QED BY <1>1, <1>3, <2>1, <2>2, SendMoves
<1> QED BY <1>4, <1>5

LEMMA LoopEndsEvents ==
  ASSUME RefsInv, EventInv, NEW t \in Threads, NEW s \in Stones, LoopEnds(t, s)
  PROVE  EventInv'
<1>1. stack[t] # <<>> /\ Top(t).at \in Sending /\ Top(t).stone = s /\ Goto(t, NextStone(s))
  BY DEF LoopEnds, Loops, Running, In, Sending
<1>2. /\ draining' = draining /\ conn' = conn /\ frozen' = frozen
      /\ connFailed' = connFailed /\ queue' = queue /\ program' = program
      /\ discarded' = discarded /\ tasks' = tasks /\ delayPending' = delayPending
      /\ queue[s] = 0
  BY DEF LoopEnds, deferral, input, outcome
<1>3. ~outputting'[s] /\ \A x \in Stones : x # s => outputting'[x] = outputting[x]
  BY DEF LoopEnds, RefsInv, Types, BridgeTypes
<1> HIDE DEF NextStone
<1> QED BY <1>1, <1>2, <1>3, SendEnds

LEMMA LoopWaitsEvents ==
  ASSUME RefsInv, EventInv, NEW t \in Threads, NEW s \in Stones, LoopWaits(t, s)
  PROVE  EventInv'
<1>1. stack[t] # <<>> /\ Top(t).at \in Sending /\ Top(t).stone = s
  BY DEF LoopWaits, In, Sending
<1>2. PICK f \in Frames : f.at \in Sending /\ f.stone = s /\ Goto(t, f)
  <2>1. PICK c \in Conns : c = conn[s]
    BY DEF LoopWaits, RefsInv, Types, BridgeTypes
  <2>2. Goto(t, Frame("blocked", s, c))
    BY <2>1 DEF LoopWaits
  <2>3. Frame("blocked", s, c) \in Frames
    BY FrameTypes
  <2>4. Frame("blocked", s, c).at = "blocked" /\ Frame("blocked", s, c).stone = s
    BY DEF Frame
  <2> QED BY <2>2, <2>3, <2>4 DEF Sending
<1>3. /\ outputting' = outputting /\ draining' = draining /\ conn' = conn /\ frozen' = frozen
      /\ connFailed' = connFailed /\ queue' = queue /\ program' = program
      /\ discarded' = discarded /\ tasks' = tasks /\ delayPending' = delayPending
  BY DEF LoopWaits, bridges, deferral, input, outcome
<1>4. \A x \in Stones : x \in discarded' => connFailed'[x]
  BY <1>3 DEF EventInv, Explained
<1> QED BY <1>1, <1>2, <1>3, <1>4, SendMoves

LEMMA LoopRefusedEvents ==
  ASSUME RefsInv, EventInv, NEW t \in Threads, NEW s \in Stones, LoopRefused(t, s)
  PROVE  EventInv'
<1>1. stack[t] # <<>> /\ Top(t).at \in Sending /\ Top(t).stone = s
  BY DEF LoopRefused, Takes, Loops, Running, In, Sending
<1>2. PICK f \in Frames : f.at \in Sending /\ f.stone = s /\ Goto(t, f)
  <2>1. Goto(t, Frame("unsent", s, None))
    BY DEF LoopRefused
  <2>2. Frame("unsent", s, None) \in Frames /\ Frame("unsent", s, None).at = "unsent"
        /\ Frame("unsent", s, None).stone = s
    BY SendFrame
  <2> QED BY <2>1, <2>2 DEF Sending
<1>3. /\ outputting' = outputting /\ draining' = draining /\ conn' = conn /\ frozen' = frozen
      /\ connFailed' = connFailed /\ program' = program
      /\ discarded' = discarded /\ tasks' = tasks /\ delayPending' = delayPending
  BY DEF LoopRefused, deferral, input, outcome
<1>4. \A x \in Stones : x \in discarded' => connFailed'[x]
  BY <1>3 DEF EventInv, Explained
<1>5. \A x \in Stones : queue'[x] > 0 => queue[x] > 0
  BY DEF LoopRefused, Takes, RefsInv, Types, BridgeTypes
<1> QED BY <1>1, <1>2, <1>3, <1>4, <1>5, SendMoves

LEMMA UnsentEvents ==
  ASSUME RefsInv, EventInv, NEW t \in Threads, NEW s \in Stones, Unsent(t, s)
  PROVE  EventInv'
<1>1. stack[t] # <<>> /\ Top(t).at \in Sending /\ Top(t).stone = s
  BY DEF Unsent, Running, In, Sending
<1>2. PICK f \in Frames : f.at \in Sending /\ f.stone = s /\ Goto(t, f)
  <2>1. Goto(t, Frame("loop", s, None))
    BY DEF Unsent
  <2>2. Frame("loop", s, None) \in Frames /\ Frame("loop", s, None).at = "loop"
        /\ Frame("loop", s, None).stone = s
    BY SendFrame
  <2> QED BY <2>1, <2>2 DEF Sending
<1>3. /\ outputting' = outputting /\ draining' = draining /\ frozen' = frozen
      /\ queue' = queue /\ program' = program
      /\ discarded' = discarded \cup {s} /\ tasks' = tasks /\ delayPending' = delayPending
  BY DEF Unsent, deferral, input
<1>4. \A x \in Stones : x # s => conn'[x] = conn[x] /\ connFailed'[x] = connFailed[x]
  BY DEF Unsent, RefsInv, Types, BridgeTypes
<1>5. connFailed'[s]
  BY DEF Unsent, RefsInv, Types, BridgeTypes
<1>6. \A x \in Stones : x \in discarded' => connFailed'[x]
  BY <1>3, <1>4, <1>5 DEF EventInv, Explained
<1>7. \A x \in Stones : connFailed[x] => connFailed'[x]
  BY <1>4, <1>5
<1> QED BY <1>1, <1>2, <1>3, <1>4, <1>6, <1>7, SendMoves

LEMMA LoopFailsEvents ==
  ASSUME RefsInv, EventInv, NEW t \in Threads, NEW s \in Stones, LoopFails(t, s)
  PROVE  EventInv'
<1>1. stack[t] # <<>> /\ Top(t).at = "loop" /\ Top(t).stone = s
  BY DEF LoopFails, Takes, Loops, Running, In
<1>2. /\ outputting' = outputting /\ draining' = draining /\ conn' = conn /\ frozen' = frozen
      /\ connFailed' = connFailed /\ program' = program
      /\ discarded' = discarded /\ tasks' = tasks /\ delayPending' = delayPending
  BY DEF LoopFails, deferral, input, outcome
<1>3. \A x \in Stones : queue'[x] > 0 => queue[x] > 0
  BY DEF LoopFails, Takes, RefsInv, Types, BridgeTypes
<1>4. PICK a \in Frames : a = Frame("unsent", s, None)
  BY FrameTypes
<1>5. a.at = "unsent" /\ a.stone = s
  BY <1>4 DEF Frame
<1>6. Occurs(a)' /\ \A g : Occurs(g) => g \in {Top(t)} \/ Occurs(g)'
  <2>1. PICK b \in Frames : b = Closing(conn[s])
    BY ClosingType DEF LoopFails, Usable, RefsInv, Types
  <2>2. stack' = [stack EXCEPT ![t] = Front(@) \o <<a, b>>]
    BY <1>4, <2>1 DEF LoopFails
  <2>3. PICK st \in [Threads -> Seq(Frames)] :
          /\ Changes(stack, st, t, Len(stack[t]), a) /\ Len(st[t]) = Len(stack[t])
          /\ Changes(st, stack', t, Len(stack[t]) + 1, b)
    BY <1>1, <2>2, GotoCallChanges DEF RefsInv, Types
  <2>4. Len(stack[t]) \in 1 .. Len(stack[t]) /\ Top(t) = stack[t][Len(stack[t])]
        /\ Len(stack[t]) \in Nat
    BY <1>1, TopFrame DEF RefsInv, Types
  <2>5. \A n \in Nat : n + 1 \notin 1 .. n
    OBVIOUS
  <2>6. \A u \in Threads : \A i \in 1 .. Len(st[u]) :
          i \in 1 .. Len(stack'[u]) /\ stack'[u][i] = st[u][i]
    BY <2>3, <2>4, <2>5 DEF Changes
  <2>7. Occurs(a)'
    <3>1. st[t][Len(stack[t])] = a
      BY <2>3, <2>4 DEF Changes
    <3> QED BY <2>3, <2>4, <2>6, <3>1 DEF Occurs
  <2>8. ASSUME NEW g, Occurs(g), g # Top(t) PROVE Occurs(g)'
    <3>1. PICK u \in Threads : \E i \in 1 .. Len(stack[u]) : stack[u][i] = g
      BY <2>8 DEF Occurs
    <3>2. PICK i \in 1 .. Len(stack[u]) : stack[u][i] = g
      BY <3>1
    <3>3. i \in 1 .. Len(st[u]) /\ st[u][i] = g
      BY <2>3, <2>4, <2>8, <3>2 DEF Changes
    <3> QED BY <2>6, <3>3 DEF Occurs
  <2> QED BY <2>7, <2>8
<1>7. PICK lost : lost = {Top(t)}
  OBVIOUS
<1>8. PICK made : made = {a}
  OBVIOUS
<1>9. (\A g : Occurs(g) => g \in lost \/ Occurs(g)') /\ (\A g \in made : Occurs(g)')
  BY <1>6, <1>7, <1>8
<1>10. ASSUME NEW x \in Stones, Waits(x)'
       PROVE  \/ tasks' > 0
              \/ \E g \in made : Comes(g, x)
              \/ Waits(x) /\ (tasks > 0 => tasks' > 0) /\ \A g \in lost : ~Comes(g, x)
  <2>1. Waits(x)
    BY <1>2, <1>3, <1>10 DEF Waits
  <2>2. Comes(Top(t), x) => Comes(a, x)
    BY <1>1, <1>5 DEF Comes, Sending
  <2> QED BY <1>2, <1>7, <1>8, <2>1, <2>2
<1>11. \A x \in Stones : outputting'[x] =>
         \/ Reason(x)'
         \/ \E g \in made : Sends(g, x)
         \/ outputting[x] /\ ~Reason(x) /\ \A g \in lost : ~Sends(g, x)
  <2>1. \A x : Sends(Top(t), x) => Sends(a, x)
    BY <1>1, <1>5 DEF Sends, Sending
  <2> QED BY <1>2, <1>7, <1>8, <2>1 DEF Reason
<1>12. \A x \in Stones : x \in discarded' => connFailed'[x]
  BY <1>2 DEF EventInv, Explained
<1>13. delayPending' => tasks' > 0
  BY <1>2 DEF EventInv
<1> QED BY <1>9, <1>10, <1>11, <1>12, <1>13, EventKeeps

(* Steps that leave the stacks alone.                                       *)
LEMMA LoopDiscardsEvents ==
  ASSUME RefsInv, EventInv, NEW t \in Threads, NEW s \in Stones, LoopDiscards(t, s)
  PROVE  EventInv'
<1>1. /\ outputting' = outputting /\ draining' = draining /\ conn' = conn /\ frozen' = frozen
      /\ connFailed' = connFailed /\ program' = program /\ stack' = stack
      /\ discarded' = discarded \cup {s} /\ tasks' = tasks /\ delayPending' = delayPending
      /\ conn[s] = None
  BY DEF LoopDiscards, Takes, deferral, input
<1>2. connFailed[s]
  <2>1. SendSound(Top(t)) /\ Top(t).at = "loop" /\ Top(t).stone = s
    BY SenderTop DEF LoopDiscards, Takes, Loops, Running, Sending
  <2> QED BY <1>1, <2>1 DEF SendSound, Sending
<1>3. \A x \in Stones : queue'[x] > 0 => queue[x] > 0
  BY DEF LoopDiscards, Takes, RefsInv, Types, BridgeTypes
<1>4. \A x \in Stones : Waits(x)' => Waits(x)
  BY <1>1, <1>3 DEF Waits
<1>5. \A x \in Stones : outputting'[x] => Reason(x)' \/ (outputting[x] /\ ~Reason(x))
  BY <1>1 DEF Reason
<1>6. \A x \in Stones : x \in discarded' => connFailed'[x]
  BY <1>1, <1>2 DEF EventInv, Explained
<1>7. (delayPending' => tasks' > 0) /\ (tasks > 0 => tasks' > 0)
  BY <1>1 DEF EventInv
<1> QED BY <1>1, <1>4, <1>5, <1>6, <1>7, EventStay

(* ... and what the stones have.                                            *)
LEMMA SameEvents ==
  ASSUME EventInv, stack' = stack, outputting' = outputting, draining' = draining,
         conn' = conn, connFailed' = connFailed, program' = program, discarded' = discarded,
         delayPending' = delayPending,
         tasks' = tasks \/ tasks' > 0,
         \A x \in Stones : queue'[x] > 0 => queue[x] > 0,
         \A x \in Stones : frozen[x] => frozen'[x] \/ tasks' > 0
  PROVE  EventInv'
<1>1. \A x \in Stones : Waits(x)' => tasks' > 0 \/ Waits(x)
  BY DEF Waits
<1>2. \A x \in Stones : outputting'[x] => Reason(x)' \/ (outputting[x] /\ ~Reason(x))
  BY DEF Reason
<1>3. \A x \in Stones : x \in discarded' => connFailed'[x]
  BY DEF EventInv, Explained
<1>4. (delayPending' => tasks' > 0) /\ (tasks > 0 => tasks' > 0)
  BY DEF EventInv
<1> QED BY <1>1, <1>2, <1>3, <1>4, EventStay

LEMMA StayingEvents ==
  ASSUME RefsInv, EventInv,
         \/ \E t \in Threads, s \in Stones :
              LoopSends(t, s) \/ Freeze(t, s) \/ Unfreeze(t, s) \/ Transfer(t, s)
         \/ \E t \in Threads : Share(t) \/ Unshare(t)
         \/ \E c \in Conns : Flush(c)
         \/ PeerDies \/ UNCHANGED vars
  PROVE  EventInv'
<1>1. CASE \E t \in Threads, s \in Stones : LoopSends(t, s)
  <2>1. PICK t \in Threads, s \in Stones : LoopSends(t, s)
    BY <1>1
  <2>2. /\ stack' = stack /\ outputting' = outputting /\ draining' = draining
        /\ conn' = conn /\ connFailed' = connFailed /\ program' = program /\ discarded' = discarded
        /\ delayPending' = delayPending /\ tasks' = tasks /\ frozen' = frozen
    BY <2>1 DEF LoopSends, deferral, input
  <2>3. \A x \in Stones : queue'[x] > 0 => queue[x] > 0
    BY <2>1 DEF LoopSends, Takes, RefsInv, Types, BridgeTypes
  <2> QED BY <2>2, <2>3, SameEvents
<1>2. CASE \E t \in Threads, s \in Stones : Freeze(t, s)
  <2>1. PICK t \in Threads, s \in Stones : Freeze(t, s)
    BY <1>2
  <2>2. /\ stack' = stack /\ outputting' = outputting /\ draining' = draining /\ queue' = queue
        /\ conn' = conn /\ connFailed' = connFailed /\ program' = program /\ discarded' = discarded
        /\ delayPending' = delayPending /\ tasks' = tasks
    BY <2>1 DEF Freeze, Uses, deferral, outcome
  <2>3. \A x \in Stones : frozen[x] => frozen'[x]
    BY <2>1 DEF Freeze, RefsInv, Types, BridgeTypes
  <2> QED BY <2>2, <2>3, SameEvents
<1>3. CASE \E t \in Threads, s \in Stones : Unfreeze(t, s)
  <2>1. PICK t \in Threads, s \in Stones : Unfreeze(t, s)
    BY <1>3
  <2>2. /\ stack' = stack /\ outputting' = outputting /\ draining' = draining /\ queue' = queue
        /\ conn' = conn /\ connFailed' = connFailed /\ program' = program /\ discarded' = discarded
        /\ delayPending' = delayPending
    BY <2>1 DEF Unfreeze, Uses, outcome
  <2>3. tasks' > 0
    BY <2>1 DEF Unfreeze, RefsInv, Types, OtherTypes
  <2> QED BY <2>2, <2>3, SameEvents
<1>4. CASE \E t \in Threads, s \in Stones : Transfer(t, s)
  <2>1. PICK t \in Threads, s \in Stones : Transfer(t, s)
    BY <1>4
  <2>2. /\ stack' = stack /\ outputting' = outputting /\ draining' = draining /\ frozen' = frozen
        /\ conn' = conn /\ connFailed' = connFailed /\ program' = program /\ discarded' = discarded
        /\ delayPending' = delayPending /\ tasks' = tasks
    BY <2>1 DEF Transfer, Uses, deferral, outcome
  <2>3. \A x \in Stones : queue'[x] > 0 => queue[x] > 0
    BY <2>1 DEF Transfer, RefsInv, Types, BridgeTypes
  <2> QED BY <2>2, <2>3, SameEvents
<1>5. CASE \E t \in Threads : Share(t) \/ Unshare(t)
  <2>1. /\ stack' = stack /\ outputting' = outputting /\ draining' = draining /\ frozen' = frozen
        /\ conn' = conn /\ connFailed' = connFailed /\ program' = program /\ discarded' = discarded
        /\ delayPending' = delayPending /\ tasks' = tasks /\ queue' = queue
    BY <1>5 DEF Share, Unshare, Uses, bridges, deferral, outcome
  <2> QED BY <2>1, SameEvents
<1>6. CASE \E c \in Conns : Flush(c)
  <2>1. /\ stack' = stack /\ outputting' = outputting /\ draining' = draining /\ frozen' = frozen
        /\ conn' = conn /\ connFailed' = connFailed /\ program' = program /\ discarded' = discarded
        /\ delayPending' = delayPending /\ tasks' = tasks /\ queue' = queue
    BY <1>6 DEF Flush, bridges, deferral, input, outcome
  <2> QED BY <2>1, SameEvents
<1>7. CASE PeerDies
  <2>1. /\ stack' = stack /\ outputting' = outputting /\ draining' = draining /\ frozen' = frozen
        /\ conn' = conn /\ connFailed' = connFailed /\ program' = program /\ discarded' = discarded
        /\ delayPending' = delayPending /\ tasks' = tasks /\ queue' = queue
    BY <1>7 DEF PeerDies, bridges, deferral, outcome
  <2> QED BY <2>1, SameEvents
<1>8. CASE UNCHANGED vars
  <2>1. /\ stack' = stack /\ outputting' = outputting /\ draining' = draining /\ frozen' = frozen
        /\ conn' = conn /\ connFailed' = connFailed /\ program' = program /\ discarded' = discarded
        /\ delayPending' = delayPending /\ tasks' = tasks /\ queue' = queue
    BY <1>8 DEF vars, bridges, deferral, input, outcome
  <2> QED BY <2>1, SameEvents
<1> QED BY <1>1, <1>2, <1>3, <1>4, <1>5, <1>6, <1>7, <1>8

LEMMA PassEndsEvents ==
  ASSUME RefsInv, EventInv, NEW t \in Threads, PassEnds(t)
  PROVE  EventInv'
<1>1. stack[t] # <<>> /\ stack' = [stack EXCEPT ![t] = Front(@)] /\ Top(t).at = "pass"
      /\ Top(t).stone > Cardinality(Stones) /\ Top(t).stone \in Int
  BY TopAt DEF PassEnds, In, RefsInv, Types
<1>2. /\ outputting' = outputting /\ draining' = draining /\ conn' = conn /\ frozen' = frozen
      /\ connFailed' = connFailed /\ queue' = queue /\ program' = program
      /\ discarded' = discarded /\ tasks' = tasks /\ delayPending' = delayPending
  BY DEF PassEnds, bridges, deferral, input, outcome
<1>3. \A x \in Stones : ~Comes(Top(t), x) /\ ~Sends(Top(t), x)
  <2>1. Cardinality(Stones) \in Nat /\ Stones = 1 .. Cardinality(Stones)
    BY BridgeAssumption
  <2>2. \A n \in Nat, k \in Int : k > n => \A x \in 1 .. n : ~(k <= x)
    OBVIOUS
  <2>3. \A x \in Stones : ~(Top(t).stone <= x)
    BY <1>1, <2>1, <2>2
  <2> QED BY <1>1, <2>3 DEF Comes, Sends, Sending
<1>4. \A x \in Stones : Waits(x)' => Waits(x)
  BY <1>2 DEF Waits
<1>5. \A x \in Stones : outputting'[x] => Reason(x)' \/ (outputting[x] /\ ~Reason(x))
  BY <1>2 DEF Reason
<1>6. \A x \in Stones : x \in discarded' => connFailed'[x]
  BY <1>2 DEF EventInv, Explained
<1>7. (delayPending' => tasks' > 0) /\ (tasks > 0 => tasks' > 0)
  BY <1>2 DEF EventInv
<1> QED BY <1>1, <1>3, <1>4, <1>5, <1>6, <1>7, EventReturn

LEMMA ClosedEvents ==
  ASSUME RefsInv, EventInv, NEW t \in Threads, Closed(t)
  PROVE  EventInv'
<1>1. stack[t] # <<>> /\ stack' = [stack EXCEPT ![t] = Front(@)] /\ Top(t).at = "closing"
  BY DEF Closed, ClosingStep, In
<1>2. /\ outputting' = outputting /\ draining' = draining /\ conn' = conn /\ frozen' = frozen
      /\ connFailed' = connFailed /\ queue' = queue /\ program' = program
      /\ discarded' = discarded /\ tasks' = tasks /\ delayPending' = delayPending
  BY DEF Closed, bridges, deferral, input, outcome
<1>3. \A x \in Stones : ~Comes(Top(t), x) /\ ~Sends(Top(t), x)
  BY <1>1 DEF Comes, Sends, Sending
<1>4. \A x \in Stones : Waits(x)' => Waits(x)
  BY <1>2 DEF Waits
<1>5. \A x \in Stones : outputting'[x] => Reason(x)' \/ (outputting[x] /\ ~Reason(x))
  BY <1>2 DEF Reason
<1>6. \A x \in Stones : x \in discarded' => connFailed'[x]
  BY <1>2 DEF EventInv, Explained
<1>7. (delayPending' => tasks' > 0) /\ (tasks > 0 => tasks' > 0)
  BY <1>2 DEF EventInv
<1> QED BY <1>1, <1>3, <1>4, <1>5, <1>6, <1>7, EventReturn

LEMMA DrainReturnsEvents ==
  ASSUME RefsInv, EventInv, NEW t \in Threads, DrainReturns(t)
  PROVE  EventInv'
<1>1. stack[t] # <<>> /\ stack' = [stack EXCEPT ![t] = Front(@)] /\ Top(t).at = "drain"
      /\ Top(t).stone \in Stones
  BY TopAt DEF DrainReturns, In, RefsInv, Types
<1>2. /\ outputting' = outputting /\ conn' = conn /\ frozen' = frozen
      /\ connFailed' = connFailed /\ queue' = queue /\ program' = program
      /\ discarded' = discarded /\ tasks' = tasks /\ delayPending' = delayPending
  BY DEF DrainReturns, deferral, input, outcome
<1>3. \A x \in Stones : ~Comes(Top(t), x) /\ ~Sends(Top(t), x)
  BY <1>1 DEF Comes, Sends, Sending
<1>4. \A x \in Stones : draining[x] = 2 => draining'[x] = 2
  BY <1>1 DEF DrainReturns, RefsInv, Types, BridgeTypes
<1>5. \A x \in Stones : Waits(x)' => Waits(x)
  BY <1>2, <1>4 DEF Waits
<1>6. \A x \in Stones : outputting'[x] => Reason(x)' \/ (outputting[x] /\ ~Reason(x))
  BY <1>2 DEF Reason
<1>7. \A x \in Stones : x \in discarded' => connFailed'[x]
  BY <1>2 DEF EventInv, Explained
<1>8. (delayPending' => tasks' > 0) /\ (tasks > 0 => tasks' > 0)
  BY <1>2 DEF EventInv
<1> QED BY <1>1, <1>3, <1>5, <1>6, <1>7, <1>8, EventReturn

LEMMA CallCloseHandlerEvents ==
  ASSUME RefsInv, EventInv, NEW t \in Threads, CallCloseHandler(t)
  PROVE  EventInv'
<1>1. /\ stack[t] # <<>> /\ Top(t) \in Frames /\ Top(t).at = "closing" /\ Top(t).conn \in Conns
      /\ Top(t).hooks # <<>>
  BY CloserTop DEF CallCloseHandler, ClosingStep, Closers
<1>2. PICK f \in Frames : f = [Top(t) EXCEPT !.at = "handler"]
  BY <1>1 DEF Frames, Ats, Sending, Closers
<1>3. Goto(t, f)
  BY <1>2 DEF CallCloseHandler
<1>4. /\ outputting' = outputting /\ draining' = draining /\ conn' = conn /\ frozen' = frozen
      /\ connFailed' = connFailed /\ queue' = queue /\ program' = program
      /\ discarded' = discarded /\ tasks' = tasks /\ delayPending' = delayPending
  BY DEF CallCloseHandler, bridges, deferral, input, outcome
<1>5. \A x \in Stones : ~Comes(Top(t), x) /\ ~Sends(Top(t), x)
  BY <1>1 DEF Comes, Sends, Sending
<1>6. \A x \in Stones : Waits(x)' => Waits(x)
  BY <1>4 DEF Waits
<1>7. \A x \in Stones : outputting'[x] => Reason(x)' \/ (outputting[x] /\ ~Reason(x))
  BY <1>4 DEF Reason
<1>8. \A x \in Stones : x \in discarded' => connFailed'[x]
  BY <1>4 DEF EventInv, Explained
<1>9. (delayPending' => tasks' > 0) /\ (tasks > 0 => tasks' > 0)
  BY <1>4 DEF EventInv
<1> QED BY <1>1, <1>3, <1>5, <1>6, <1>7, <1>8, <1>9, EventGoto

LEMMA CloseHandlerEvents ==
  ASSUME RefsInv, EventInv, NEW t \in Threads, CloseHandler(t)
  PROVE  EventInv'
<1>1. /\ stack[t] # <<>> /\ Top(t) \in Frames /\ Top(t).at = "handler" /\ Top(t).conn \in Conns
      /\ Top(t).hooks \in Seq(Stones) /\ Top(t).hooks # <<>>
  <2>1. In(t, "handler")
    BY DEF CloseHandler
  <2> QED BY <2>1, TopAt DEF Closers, RefsInv, Types
<1>2. PICK s \in Stones : s = Head(Top(t).hooks)
  BY <1>1, HeadTailProperties
<1>3. PICK f \in Frames : f = [Top(t) EXCEPT !.at = "closing", !.hooks = Tail(@)]
  <2>1. Tail(Top(t).hooks) \in Seq(Stones)
    BY <1>1, HeadTailProperties
  <2> QED BY <1>1, <2>1 DEF Frames, Ats, Sending, Closers
<1>4. Goto(t, f)
  BY <1>3 DEF CloseHandler
<1>5. /\ outputting' = outputting /\ draining' = draining /\ frozen' = frozen
      /\ queue' = queue /\ program' = program
      /\ discarded' = discarded /\ tasks' = tasks /\ delayPending' = delayPending
  BY DEF CloseHandler, deferral, input, outcome
<1>6. \A x \in Stones : connFailed[x] => connFailed'[x]
  BY <1>2 DEF CloseHandler, RefsInv, Types, BridgeTypes
<1>7. \A x \in Stones : conn[x] = None => conn'[x] = None
  <2>1. conn' = [conn EXCEPT ![s] = None] \/ conn' = conn
    BY <1>2 DEF CloseHandler
  <2> QED BY <2>1 DEF RefsInv, Types, BridgeTypes
<1>8. \A x \in Stones : ~Comes(Top(t), x) /\ ~Sends(Top(t), x)
  BY <1>1 DEF Comes, Sends, Sending
<1>9. \A x \in Stones : Waits(x)' => Waits(x)
  BY <1>5 DEF Waits
<1>10. \A x \in Stones : outputting'[x] => Reason(x)' \/ (outputting[x] /\ ~Reason(x))
  BY <1>5, <1>6, <1>7 DEF Reason
<1>11. \A x \in Stones : x \in discarded' => connFailed'[x]
  BY <1>5, <1>6 DEF EventInv, Explained
<1>12. (delayPending' => tasks' > 0) /\ (tasks > 0 => tasks' > 0)
  BY <1>5 DEF EventInv
<1> QED BY <1>1, <1>4, <1>8, <1>9, <1>10, <1>11, <1>12, EventGoto

(* Calls.  A pass comes to every stone.                                     *)
LEMMA PassComes ==
  ASSUME NEW x \in Stones
  PROVE  Comes(Frame("pass", 1, None), x)
<1>1. Stones = 1 .. Cardinality(Stones) /\ Cardinality(Stones) \in Nat
  BY BridgeAssumption
<1>2. 1 <= x
  BY <1>1
<1>3. Frame("pass", 1, None).at = "pass" /\ Frame("pass", 1, None).stone = 1
  BY PassFrame
<1> QED BY <1>2, <1>3 DEF Comes

LEMMA PassEvents ==
  ASSUME RefsInv, EventInv, RunTask \/ \E t \in Threads, s \in Stones : Submit(t, s)
  PROVE  EventInv'
<1> DEFINE f == Frame("pass", 1, None)
<1>1. PICK t \in Threads : Call(t, f)
  BY DEF RunTask, Submit, Threads
<1>2. f \in Frames /\ \A x \in Stones : Comes(f, x)
  BY PassFrame, PassComes
<1> HIDE DEF f
<1>3. /\ outputting' = outputting /\ conn' = conn
      /\ connFailed' = connFailed /\ program' = program /\ discarded' = discarded
  BY DEF RunTask, Submit, bridges, input, outcome
<1>4. delayPending' => tasks' > 0
  BY DEF RunTask, Submit, deferral, EventInv
<1>5. \A x \in Stones : outputting'[x] => Reason(x)' \/ (outputting[x] /\ ~Reason(x))
  BY <1>3 DEF Reason
<1>6. \A x \in Stones : x \in discarded' => connFailed'[x]
  BY <1>3 DEF EventInv, Explained
<1> QED BY <1>1, <1>2, <1>4, <1>5, <1>6, EventCall

LEMMA EofEvents ==
  ASSUME RefsInv, EventInv, NEW c \in Conns, Eof(c)
  PROVE  EventInv'
<1>1. PICK f \in Frames : f = Closing(c)
  BY ClosingType DEF RefsInv, Types
<1>2. Call(Net, f) /\ Net \in Threads
  BY <1>1 DEF Eof, Threads
<1>3. /\ outputting' = outputting /\ draining' = draining /\ conn' = conn /\ frozen' = frozen
      /\ connFailed' = connFailed /\ queue' = queue /\ program' = program
      /\ discarded' = discarded /\ tasks' = tasks /\ delayPending' = delayPending
  BY DEF Eof, bridges, deferral, input, outcome
<1>4. \A x \in Stones : Waits(x)' => Waits(x)
  BY <1>3 DEF Waits
<1>5. \A x \in Stones : outputting'[x] => Reason(x)' \/ (outputting[x] /\ ~Reason(x))
  BY <1>3 DEF Reason
<1>6. \A x \in Stones : x \in discarded' => connFailed'[x]
  BY <1>3 DEF EventInv, Explained
<1>7. (delayPending' => tasks' > 0) /\ (tasks > 0 => tasks' > 0)
  BY <1>3 DEF EventInv
<1> QED BY <1>2, <1>4, <1>5, <1>6, <1>7, EventCall

LEMMA DrainEvents ==
  ASSUME RefsInv, EventInv, NEW t \in Threads, NEW s \in Stones, Drain(t, s)
  PROVE  EventInv'
<1>1. PICK f \in Frames : f = Frame("drain", s, None)
  BY FrameTypes
<1>2. Call(t, f)
  BY <1>1 DEF Drain
<1>3. /\ outputting' = outputting /\ conn' = conn /\ frozen' = frozen
      /\ connFailed' = connFailed /\ queue' = queue /\ program' = program
      /\ discarded' = discarded /\ tasks' = tasks /\ delayPending' = delayPending
  BY DEF Drain, Uses, deferral, outcome
<1>4. \A x \in Stones : draining[x] = 2 => draining'[x] = 2
  BY DEF Drain, RefsInv, Types, BridgeTypes
<1>5. \A x \in Stones : Waits(x)' => Waits(x)
  BY <1>3, <1>4 DEF Waits
<1>6. \A x \in Stones : outputting'[x] => Reason(x)' \/ (outputting[x] /\ ~Reason(x))
  BY <1>3 DEF Reason
<1>7. \A x \in Stones : x \in discarded' => connFailed'[x]
  BY <1>3 DEF EventInv, Explained
<1>8. (delayPending' => tasks' > 0) /\ (tasks > 0 => tasks' > 0)
  BY <1>3 DEF EventInv
<1> QED BY <1>2, <1>5, <1>6, <1>7, <1>8, EventCall

LEMMA InitEvents == Init => EventInv
<1> SUFFICES ASSUME Init PROVE EventInv
  OBVIOUS
<1>1. /\ delayPending = FALSE /\ discarded = {}
      /\ \A s \in Stones : queue[s] = 0 /\ outputting[s] = FALSE
  BY DEF Init
<1> QED BY <1>1 DEF EventInv, Seen, Waits, Explained

LEMMA SendEvents ==
  ASSUME RefsInv, EventInv, NEW t \in Threads, NEW s \in Stones, Send(t, s)
  PROVE  EventInv'
<1>1. CASE Skip(t, s)
  BY <1>1, SkipEvents
<1>2. CASE StartGivesUp(t, s) \/ StartSends(t, s) \/ StartFinds(t, s) \/ StartConnects(t, s)
  BY <1>2, StartEvents
<1>3. CASE LoopEnds(t, s)
  BY <1>3, LoopEndsEvents
<1>4. CASE LoopWaits(t, s)
  BY <1>4, LoopWaitsEvents
<1>5. CASE LoopDiscards(t, s)
  BY <1>5, LoopDiscardsEvents
<1>6. CASE LoopSends(t, s)
  BY <1>6, StayingEvents
<1>7. CASE LoopRefused(t, s)
  BY <1>7, LoopRefusedEvents
<1>8. CASE LoopFails(t, s)
  BY <1>8, LoopFailsEvents
<1>9. CASE Unsent(t, s)
  BY <1>9, UnsentEvents
<1> QED BY <1>1, <1>2, <1>3, <1>4, <1>5, <1>6, <1>7, <1>8, <1>9 DEF Send

LEMMA WakeEvents ==
  ASSUME RefsInv, EventInv, NEW t \in Threads, Wake(t) \/ Return(t)
  PROVE  EventInv'
<1>1. CASE Connected(t)
  BY <1>1, ConnectedEvents
<1>2. CASE ConnectFails(t)
  BY <1>2, ConnectFailsEvents
<1>3. CASE Unblocked(t)
  BY <1>3, UnblockedEvents
<1>4. CASE PassEnds(t)
  BY <1>4, PassEndsEvents
<1>5. CASE CallCloseHandler(t)
  BY <1>5, CallCloseHandlerEvents
<1>6. CASE CloseHandler(t)
  BY <1>6, CloseHandlerEvents
<1>7. CASE Closed(t)
  BY <1>7, ClosedEvents
<1>8. CASE DrainReturns(t)
  BY <1>8, DrainReturnsEvents
<1> QED BY <1>1, <1>2, <1>3, <1>4, <1>5, <1>6, <1>7, <1>8 DEF Wake, Return

LEMMA NextEvents == RefsInv /\ EventInv /\ [Next]_vars => EventInv'
<1> SUFFICES ASSUME RefsInv, EventInv, [Next]_vars PROVE EventInv'
  OBVIOUS
<1>0. Apps \subseteq Threads
  BY DEF Threads
<1>1. CASE \E t \in Threads, s \in Stones : Send(t, s)
  BY <1>1, SendEvents
<1>2. CASE \E t \in Threads : Wake(t) \/ Return(t)
  BY <1>2, WakeEvents
<1>3. CASE \E c \in Conns : Network(c)
  BY <1>3, StayingEvents, EofEvents DEF Network
<1>4. CASE RunTask
  BY <1>4, PassEvents
<1>5. CASE PeerDies
  BY <1>5, StayingEvents
<1>6. CASE \E t \in Apps, s \in Stones : Submit(t, s) \/ Use(t, s)
  <2>1. PICK t \in Threads, s \in Stones : Submit(t, s) \/ Use(t, s)
    BY <1>0, <1>6
  <2>2. CASE Submit(t, s)
    BY <2>2, PassEvents
  <2>3. CASE Freeze(t, s) \/ Unfreeze(t, s) \/ Transfer(t, s)
    BY <2>3, StayingEvents
  <2>4. CASE Drain(t, s)
    BY <2>4, DrainEvents
  <2> QED BY <2>1, <2>2, <2>3, <2>4 DEF Use
<1>7. CASE \E t \in Apps : Share(t) \/ Unshare(t)
  <2>1. \E t \in Threads : Share(t) \/ Unshare(t)
    BY <1>0, <1>7
  <2> QED BY <2>1, StayingEvents
<1>8. CASE UNCHANGED vars
  BY <1>8, StayingEvents
<1> QED BY <1>1, <1>2, <1>3, <1>4, <1>5, <1>6, <1>7, <1>8 DEF Next

LEMMA EventInvariant == Spec => [](RefsInv /\ EventInv)
<1>1. Init => RefsInv /\ EventInv
  BY InitRefs, InitEvents
<1>2. RefsInv /\ EventInv /\ [Next]_vars => (RefsInv /\ EventInv)'
  BY NextRefs, NextEvents
<1> QED BY <1>1, <1>2, PTL DEF Spec

LEMMA SendersElements ==
  ASSUME StackTypes, NEW s \in Stones
  PROVE  /\ \A p \in Senders(s) : \E t \in Threads : \E i \in 1 .. Len(stack[t]) :
              p = <<t, i>> /\ Sends(stack[t][i], s)
         /\ SomeSender(s) => Senders(s) # {}
<1>1. \A t \in Threads : DOMAIN stack[t] = 1 .. Len(stack[t])
  BY LenProperties DEF StackTypes
<1>2. ASSUME NEW p \in Senders(s)
      PROVE  \E t \in Threads : \E i \in 1 .. Len(stack[t]) : p = <<t, i>> /\ Sends(stack[t][i], s)
  <2>1. PICK t \in Threads :
          p \in {t} \X {i \in DOMAIN stack[t] : stack[t][i].at \in Sending /\ stack[t][i].stone = s}
    BY DEF Senders
  <2>2. PICK i \in DOMAIN stack[t] : p = <<t, i>> /\ Sends(stack[t][i], s)
    BY <2>1 DEF Sends
  <2> QED BY <1>1, <2>2
<1>3. ASSUME SomeSender(s) PROVE Senders(s) # {}
  <2>1. PICK t \in Threads : \E i \in 1 .. Len(stack[t]) : Sends(stack[t][i], s)
    BY <1>3 DEF SomeSender
  <2>2. PICK i \in DOMAIN stack[t] : Sends(stack[t][i], s)
    BY <1>1, <2>1
  <2>3. <<t, i>> \in {t} \X {j \in DOMAIN stack[t] : stack[t][j].at \in Sending /\ stack[t][j].stone = s}
    BY <2>2 DEF Sends
  <2>4. <<t, i>> \in Senders(s)
    BY <2>3 DEF Senders
  <2> QED BY <2>4
<1> QED BY <1>2, <1>3

LEMMA AtMostOneSender ==
  ASSUME StackTypes, OneSender(stack), NEW s \in Stones
  PROVE  Cardinality(Senders(s)) <= 1
<1>1. ASSUME NEW p \in Senders(s), NEW q \in Senders(s) PROVE p = q
  <2>1. PICK t \in Threads : \E i \in 1 .. Len(stack[t]) : p = <<t, i>> /\ Sends(stack[t][i], s)
    BY SendersElements
  <2>2. PICK i \in 1 .. Len(stack[t]) : p = <<t, i>> /\ Sends(stack[t][i], s)
    BY <2>1
  <2>3. PICK u \in Threads : \E j \in 1 .. Len(stack[u]) : q = <<u, j>> /\ Sends(stack[u][j], s)
    BY SendersElements
  <2>4. PICK j \in 1 .. Len(stack[u]) : q = <<u, j>> /\ Sends(stack[u][j], s)
    BY <2>3
  <2>5. t = u /\ i = j
    BY <2>2, <2>4 DEF OneSender
  <2> QED BY <2>2, <2>4, <2>5
<1>2. CASE Senders(s) = {}
  <2>1. Cardinality(Senders(s)) = 0
    BY <1>2, FS_EmptySet
  <2> QED BY <2>1
<1>3. CASE Senders(s) # {}
  <2>1. PICK p : p \in Senders(s)
    BY <1>3
  <2>2. Senders(s) = {p}
    BY <1>1, <2>1
  <2>3. Cardinality(Senders(s)) = 1
    BY <2>2, FS_Singleton
  <2> QED BY <2>3
<1> QED BY <1>2, <1>3

(* One thread at a time sends the events of a stone, no event is discarded  *)
(* while its connection is good, a stone is given up only for a reason, a   *)
(* drained stone is not being sent, and when every call has returned no     *)
(* stone that still works has events left, whatever was connecting, frozen  *)
(* or waiting when they came.                                               *)
THEOREM EventsAreAccounted == Spec => []EventsAccounted
<1>1. RefsInv /\ EventInv => EventsAccounted
  <2> SUFFICES ASSUME RefsInv, EventInv, NEW s \in Stones
               PROVE  /\ Cardinality(Senders(s)) <= 1
                      /\ s \in discarded => connFailed[s]
                      /\ Stuck(s) => connFailed[s] \/ conn[s] = None \/ "transfer" \in program.usage
                      /\ draining[s] = 2 => Senders(s) = {}
                      /\ Quiet => queue[s] = 0 \/ Stopped(s)
    BY DEF EventsAccounted
  <2>1. StackTypes
    BY DEF RefsInv, Types
  <2>2. Cardinality(Senders(s)) <= 1
    BY <2>1, AtMostOneSender DEF RefsInv
  <2>3. s \in discarded => connFailed[s]
    BY DEF EventInv, Explained
  <2>4. Stuck(s) => connFailed[s] \/ conn[s] = None \/ "transfer" \in program.usage
    <3>1. ASSUME Stuck(s) PROVE Reason(s)
      <4>1. outputting[s] /\ ~SomeSender(s)
        BY <2>1, <3>1, SendersElements DEF Stuck
      <4> QED BY <4>1 DEF EventInv, Explained
    <3> QED BY <3>1 DEF Reason
  <2>5. ASSUME draining[s] = 2 PROVE Senders(s) = {}
    <3>1. ASSUME NEW p \in Senders(s) PROVE FALSE
      <4>1. PICK t \in Threads : \E i \in 1 .. Len(stack[t]) : Sends(stack[t][i], s)
        BY <2>1, SendersElements
      <4>2. PICK i \in 1 .. Len(stack[t]) : Sends(stack[t][i], s)
        BY <4>1
      <4>3. SendSound(stack[t][i])
        BY DEF RefsInv, SendersSound
      <4> QED BY <2>5, <4>2, <4>3 DEF Sends, SendSound
    <3> QED BY <3>1
  <2>6. ASSUME Quiet PROVE queue[s] = 0 \/ Stopped(s)
    <3>1. tasks = 0 /\ \A t \in Threads : stack[t] = <<>>
      BY <2>6 DEF Quiet
    <3>2. \A t \in Threads : \A i \in 1 .. Len(stack[t]) : FALSE
      BY <3>1
    <3>3. ~SomeComer(s)
      BY <3>2 DEF SomeComer
    <3>4. ~Waits(s)
      BY <3>1, <3>3 DEF EventInv, Seen
    <3>5. Senders(s) = {}
      BY <2>1, <3>2, SendersElements
    <3>6. queue[s] \in Nat
      BY DEF RefsInv, Types, BridgeTypes
    <3> QED BY <3>4, <3>5, <3>6 DEF Waits, Stopped, Stuck
  <2> QED BY <2>2, <2>3, <2>4, <2>5, <2>6
<1> QED BY <1>1, EventInvariant, PTL
-----------------------------------------------------------------------------
(* A thread that waits for a pending write waits on a connection that is    *)
(* not freed.                                                               *)

LEMMA KeptChange ==
  ASSUME KeptInv, NEW t \in Threads, NEW n, NEW f, Changes(stack, stack', t, n, f),
         n \in 1 .. Len(stack'[t]) => KeptFrame(f)',
         \A g : Other(g, t, n) /\ KeptFrame(g) => KeptFrame(g)'
  PROVE  KeptFrames'
<1>1. ASSUME NEW u \in Threads, NEW i \in 1 .. Len(stack'[u])
      PROVE  \E g : g = stack'[u][i] /\ KeptFrame(g)'
  <2>1. IF u = t /\ i = n THEN stack'[u][i] = f
        ELSE i \in 1 .. Len(stack[u]) /\ stack'[u][i] = stack[u][i]
    BY DEF Changes
  <2>2. CASE u = t /\ i = n
    BY <2>1, <2>2
  <2>3. CASE ~(u = t /\ i = n)
    <3>1. Other(stack[u][i], t, n) /\ KeptFrame(stack[u][i])
      BY <2>1, <2>3 DEF Other, KeptInv, KeptFrames
    <3> QED BY <2>1, <2>3, <3>1
  <2> QED BY <2>2, <2>3
<1> QED BY <1>1 DEF KeptFrames, KeptFrame

(* A frame is kept while its stone keeps its connection.                    *)
LEMMA KeptOther ==
  ASSUME NEW g, KeptFrame(g), program' = program, alive' => alive,
         g.at = "blocked" /\ ~program.mortal => conn'[g.stone] = conn[g.stone]
  PROVE  KeptFrame(g)'
BY DEF KeptFrame

LEMMA KeptGoto ==
  ASSUME RefsInv, KeptInv, NEW t \in Threads, stack[t] # <<>>, NEW f \in Frames, Goto(t, f),
         program' = program, alive' => alive, KeptFrame(f)',
         ~program.mortal => \A s \in Stones : Sends(Top(t), s) \/ ~outputting[s] \/ conn'[s] = conn[s]
  PROVE  KeptFrames'
<1>1. Changes(stack, stack', t, Len(stack[t]), f)
  BY GotoChanges DEF Goto, RefsInv, Types, StackTypes
<1>2. ASSUME NEW g, Other(g, t, Len(stack[t])), KeptFrame(g) PROVE KeptFrame(g)'
  <2>1. g \in Frames /\ SendSound(g) /\ \A s \in Stones : Sends(Top(t), s) => ~Sends(g, s)
    BY <1>2, OtherFrames DEF RefsInv, Types
  <2>2. ASSUME g.at = "blocked", ~program.mortal PROVE conn'[g.stone] = conn[g.stone]
    <3>1. g.stone \in Stones /\ outputting[g.stone] /\ Sends(g, g.stone)
      BY <2>1, <2>2 DEF Frames, SendSound, Sends, Sending
    <3> QED BY <2>1, <2>2, <3>1
  <2> QED BY <1>2, <2>2, KeptOther
<1> QED BY <1>1, <1>2, KeptChange

LEMMA KeptCall ==
  ASSUME RefsInv, KeptInv, NEW t \in Threads, NEW f \in Frames, Call(t, f),
         program' = program, alive' => alive, conn' = conn, KeptFrame(f)'
  PROVE  KeptFrames'
<1>1. Changes(stack, stack', t, Len(stack[t]) + 1, f)
  BY CallChanges DEF Call, RefsInv, Types, StackTypes
<1>2. \A g : Other(g, t, Len(stack[t]) + 1) /\ KeptFrame(g) => KeptFrame(g)'
  BY KeptOther
<1> QED BY <1>1, <1>2, KeptChange

LEMMA KeptReturn ==
  ASSUME RefsInv, KeptInv, NEW t \in Threads, stack[t] # <<>>,
         stack' = [stack EXCEPT ![t] = Front(@)],
         program' = program, alive' => alive, conn' = conn
  PROVE  KeptFrames'
<1>1. Changes(stack, stack', t, Len(stack[t]), Top(t))
  BY ReturnChanges DEF RefsInv, Types, StackTypes
<1>2. Top(t) = stack[t][Len(stack[t])] /\ Len(stack[t]) \in 1 .. Len(stack[t])
  BY TopFrame DEF RefsInv, Types
<1>3. KeptFrame(Top(t))
  BY <1>2 DEF KeptInv, KeptFrames
<1>4. PICK f : f = Top(t)
  OBVIOUS
<1>5. KeptFrame(f)'
  BY <1>3, <1>4, KeptOther
<1>6. Changes(stack, stack', t, Len(stack[t]), f)
  BY <1>1, <1>4
<1>7. \A g : Other(g, t, Len(stack[t])) /\ KeptFrame(g) => KeptFrame(g)'
  BY KeptOther
<1> QED BY <1>5, <1>6, <1>7, KeptChange

LEMMA KeptStay ==
  ASSUME RefsInv, KeptInv, stack' = stack, program' = program, alive' => alive, conn' = conn
  PROVE  KeptFrames'
<1>1. ASSUME NEW u \in Threads, NEW i \in 1 .. Len(stack[u])
      PROVE  \E g : g = stack[u][i] /\ KeptFrame(g)'
  <2>1. PICK g : g = stack[u][i]
    OBVIOUS
  <2>2. KeptFrame(g)
    BY <2>1 DEF KeptInv, KeptFrames
  <2>3. KeptFrame(g)'
    BY <2>2, KeptOther
  <2> QED BY <2>1, <2>3
<1> QED BY <1>1 DEF KeptFrames, KeptFrame

(* The connections: none changes, or one does.                              *)
LEMMA KeptSame ==
  ASSUME KeptData, conns' = conns, shared' = shared, alive' => alive, program' = program,
         ~program.mortal => alive'
  PROVE  KeptData'
<1>1. Usable' = Usable
  BY DEF Usable
<1>2. \A c \in Conns : KeptConn(c)'
  BY DEF KeptData, KeptConn
<1>3. program.mortal /\ program.blocks => shared' = First /\ (alive' => First \in Usable)
  BY DEF KeptData
<1> QED BY <1>1, <1>2, <1>3 DEF KeptData

LEMMA KeptUpdate ==
  ASSUME ConnTypes, KeptData, NEW c \in Conns, NEW e, conns' = [conns EXCEPT ![c] = e],
         alive' = alive, program' = program,
         program.mortal /\ program.blocks => shared' = First,
         e.pending => program.blocks,
         program.mortal /\ program.blocks =>
           /\ e.used /\ ~e.failed => c = First
           /\ e.pending => c = First
           /\ alive /\ e.used => c = First
           /\ alive /\ c = First => e.used /\ ~e.closed /\ ~e.failed
  PROVE  KeptData'
<1>1. conns'[c] = e /\ \A d \in Conns : d # c => conns'[d] = conns[d]
  BY DEF ConnTypes
<1>2. ASSUME NEW d \in Conns PROVE KeptConn(d)'
  <2>1. CASE d = c
    BY <1>1, <2>1 DEF KeptConn
  <2>2. CASE d # c
    BY <1>1, <2>2 DEF KeptConn, KeptData
  <2> QED BY <2>1, <2>2
<1>3. program.mortal /\ program.blocks => (alive => First \in Usable')
  <2>1. CASE c = First
    BY <1>1, <2>1 DEF Usable
  <2>2. CASE c # First
    BY <1>1, <2>2 DEF Usable, KeptData
  <2> QED BY <2>1, <2>2
<1>4. ~program.mortal => alive
  BY DEF KeptData
<1> QED BY <1>2, <1>3, <1>4 DEF KeptData

(* The frames of a pass, a loop or a drain have nothing to keep.            *)
LEMMA PlainFrame ==
  ASSUME NEW f, f.at \in {"pass", "loop", "drain"}
  PROVE  KeptFrame(f)'
BY DEF KeptFrame, Closers

LEMMA PlainKept ==
  ASSUME RefsInv, KeptInv, NEW t \in Threads,
         \/ \E s \in Stones : \/ Skip(t, s) \/ StartGivesUp(t, s) \/ StartSends(t, s)
                              \/ LoopEnds(t, s)
         \/ ConnectFails(t) \/ Unblocked(t)
  PROVE  KeptInv'
<1>1. /\ conn' = conn /\ conns' = conns /\ shared' = shared /\ alive' = alive /\ program' = program
  BY DEF Skip, StartGivesUp, StartSends, LoopEnds, ConnectFails, Unblocked, bridges, input
<1>2. stack[t] # <<>>
  BY DEF Skip, StartGivesUp, StartSends, LoopEnds, ConnectFails, Unblocked, Starts, Loops, Running,
         Acquires, In
<1>3. PICK f \in Frames : f.at \in {"pass", "loop", "drain"} /\ Goto(t, f)
  <2>1. \A s \in Stones : NextStone(s) \in Frames /\ NextStone(s).at = "pass"
    BY NextStoneFrame
  <2>2. \A s \in Stones : Frame("loop", s, None) \in Frames /\ Frame("loop", s, None).at = "loop"
    BY SendFrame
  <2>3. ConnectFails(t) \/ Unblocked(t) => Top(t).stone \in Stones
    BY SenderTop DEF ConnectFails, Unblocked, Acquires, Sending
  <2>4. \E s \in Stones : Goto(t, NextStone(s)) \/ Goto(t, Frame("loop", s, None))
    BY <2>3 DEF Skip, StartGivesUp, StartSends, LoopEnds, ConnectFails, Unblocked
  <2> HIDE DEF NextStone
  <2> QED BY <2>1, <2>2, <2>4
<1>4. KeptFrame(f)'
  BY <1>3, PlainFrame
<1>5. KeptFrames'
  BY <1>1, <1>2, <1>3, <1>4, KeptGoto
<1>6. KeptData'
  BY <1>1, KeptSame DEF KeptInv, KeptData
<1> QED BY <1>5, <1>6 DEF KeptInv

(* A stone connects only when there is no connection to the peer.           *)
LEMMA StartConnectsKept ==
  ASSUME RefsInv, KeptInv, NEW t \in Threads, NEW s \in Stones, StartConnects(t, s)
  PROVE  KeptInv'
<1>1. /\ conn' = conn /\ conns' = conns /\ shared' = shared /\ alive' = alive /\ program' = program
      /\ stack[t] # <<>> /\ Usable = {} /\ Goto(t, Frame("connecting", s, None))
  BY DEF StartConnects, Starts, In, input
<1>2. PICK f \in Frames : f = Frame("connecting", s, None)
  BY FrameTypes
<1>3. f.at = "connecting"
  BY <1>2 DEF Frame
<1>4. program.mortal /\ program.blocks => ~alive
  BY <1>1 DEF KeptInv, KeptData
<1>5. KeptFrame(f)'
  BY <1>1, <1>3, <1>4 DEF KeptFrame, Closers
<1>6. KeptFrames'
  BY <1>1, <1>2, <1>5, KeptGoto
<1>7. KeptData'
  BY <1>1, KeptSame DEF KeptInv, KeptData
<1> QED BY <1>6, <1>7 DEF KeptInv

(* A thread waits for a pending write of the connection of its stone.       *)
LEMMA LoopWaitsKept ==
  ASSUME RefsInv, KeptInv, NEW t \in Threads, NEW s \in Stones, LoopWaits(t, s)
  PROVE  KeptInv'
<1>0. PICK c \in Conns : c = conn[s]
  BY DEF LoopWaits, RefsInv, Types, BridgeTypes
<1>1. /\ conn' = conn /\ conns' = conns /\ shared' = shared /\ alive' = alive /\ program' = program
      /\ stack[t] # <<>> /\ Goto(t, Frame("blocked", s, c)) /\ conns[c].pending
  BY <1>0 DEF LoopWaits, Blocked, In, bridges, input
<1>2. PICK f \in Frames : f = Frame("blocked", s, c)
  BY FrameTypes
<1>3. f.at = "blocked" /\ f.stone = s /\ f.conn = c
  BY <1>2 DEF Frame
<1>4. KeptConn(c)
  BY DEF KeptInv, KeptData
<1>5. KeptFrame(f)'
  BY <1>0, <1>1, <1>3, <1>4 DEF KeptFrame, KeptConn, Closers
<1>6. KeptFrames'
  BY <1>1, <1>2, <1>5, KeptGoto
<1>7. KeptData'
  BY <1>1, KeptSame DEF KeptInv, KeptData
<1> QED BY <1>6, <1>7 DEF KeptInv

(* A write is refused only when the peer died: until then the connection is *)
(* the one that the application keeps.                                      *)
LEMMA LoopRefusedKept ==
  ASSUME RefsInv, KeptInv, NEW t \in Threads, NEW s \in Stones, LoopRefused(t, s)
  PROVE  KeptInv'
<1>1. /\ conn' = conn /\ conns' = conns /\ shared' = shared /\ alive' = alive /\ program' = program
      /\ stack[t] # <<>> /\ Goto(t, Frame("unsent", s, None))
      /\ conn[s] # None /\ conn[s] \notin Usable
  BY DEF LoopRefused, Takes, Loops, Running, In, input
<1>2. PICK f \in Frames : f = Frame("unsent", s, None)
  BY FrameTypes
<1>3. f.at = "unsent"
  BY <1>2 DEF Frame
<1>4. program.mortal /\ program.blocks => ~alive
  <2>1. conn[s] \in Conns /\ conns[conn[s]].used
    BY <1>1 DEF RefsInv, Types, BridgeTypes, HeldUsed
  <2>2. program.mortal /\ program.blocks /\ alive => conn[s] = First /\ First \in Usable
    BY <2>1 DEF KeptInv, KeptData, KeptConn
  <2> QED BY <1>1, <2>2
<1>5. KeptFrame(f)'
  BY <1>1, <1>3, <1>4 DEF KeptFrame, Closers
<1>6. KeptFrames'
  BY <1>1, <1>2, <1>5, KeptGoto
<1>7. KeptData'
  BY <1>1, KeptSame DEF KeptInv, KeptData
<1> QED BY <1>6, <1>7 DEF KeptInv

LEMMA TopKept ==
  ASSUME RefsInv, KeptInv, NEW t \in Threads, stack[t] # <<>>
  PROVE  KeptFrame(Top(t))
BY TopFrame DEF RefsInv, Types, KeptInv, KeptFrames

LEMMA CallCloseHandlerKept ==
  ASSUME RefsInv, KeptInv, NEW t \in Threads, CallCloseHandler(t)
  PROVE  KeptInv'
<1>1. /\ stack[t] # <<>> /\ Top(t) \in Frames /\ Top(t).at = "closing" /\ Top(t).conn \in Conns
      /\ Top(t).hooks # <<>>
  BY CloserTop DEF CallCloseHandler, ClosingStep, Closers
<1>2. PICK f \in Frames : f = [Top(t) EXCEPT !.at = "handler"]
  BY <1>1 DEF Frames, Ats, Sending, Closers
<1>3. Goto(t, f) /\ f.at = "handler"
  BY <1>1, <1>2 DEF CallCloseHandler, Frames
<1>4. /\ conn' = conn /\ conns' = conns /\ shared' = shared /\ alive' = alive /\ program' = program
  BY DEF CallCloseHandler, bridges, input
<1>5. ~alive
  BY <1>1, TopKept DEF KeptFrame, Closers
<1>6. KeptFrame(f)'
  BY <1>3, <1>4, <1>5 DEF KeptFrame, Closers
<1>7. KeptFrames'
  BY <1>1, <1>3, <1>4, <1>6, KeptGoto
<1>8. KeptData'
  BY <1>4, KeptSame DEF KeptInv, KeptData
<1> QED BY <1>7, <1>8 DEF KeptInv

LEMMA StartFindsKept ==
  ASSUME RefsInv, KeptInv, NEW t \in Threads, NEW s \in Stones, StartFinds(t, s)
  PROVE  KeptInv'
<1>1. /\ shared' = shared /\ alive' = alive /\ program' = program
      /\ stack[t] # <<>> /\ Goto(t, Frame("loop", s, None)) /\ ~outputting[s]
  BY DEF StartFinds, Starts, Held, In, input
<1>2. PICK f \in Frames : f = Frame("loop", s, None)
  BY FrameTypes
<1>3. KeptFrame(f)'
  BY <1>2, PlainFrame DEF Frame
<1>4. PICK c \in Usable :
        /\ conns' = [conns EXCEPT ![c].refs = @ + 1, ![c].hooks = Append(@, s)]
        /\ conn' = [conn EXCEPT ![s] = c]
  BY DEF StartFinds
<1>5. c \in Conns /\ conns[c].used /\ ~conns[c].failed /\ ~conns[c].closed
  BY DEF Usable
<1>6. \A x \in Stones : ~outputting[x] \/ conn'[x] = conn[x]
  BY <1>1, <1>4 DEF RefsInv, Types, BridgeTypes
<1>7. KeptFrames'
  BY <1>1, <1>2, <1>3, <1>6, KeptGoto
<1>8. conns \in [Conns -> Connection]
  BY DEF RefsInv, Types, ConnTypes
<1>9. Append(conns[c].hooks, s) \in Seq(Stones)
  BY <1>5, <1>8, AppendProperties DEF Connection
<1>10. PICK e \in Connection :
         /\ [conns EXCEPT ![c].refs = @ + 1, ![c].hooks = Append(conns[c].hooks, s)]
              = [conns EXCEPT ![c] = e]
         /\ e.refs = conns[c].refs + 1 /\ e.used = conns[c].used /\ e.listed = conns[c].listed
         /\ e.closed = conns[c].closed /\ e.failed = conns[c].failed
         /\ e.pending = conns[c].pending
  BY <1>5, <1>8, <1>9, TakeEffect
<1>11. conns' = [conns EXCEPT ![c] = e]
  BY <1>4, <1>8, <1>10
<1>12. KeptConn(c)
  BY <1>5 DEF KeptInv, KeptData
<1>13. program.mortal /\ program.blocks => shared' = First
  BY <1>1 DEF KeptInv, KeptData
<1>14. KeptData'
  BY <1>1, <1>5, <1>10, <1>11, <1>12, <1>13, KeptUpdate DEF KeptInv, KeptConn, RefsInv, Types
<1> QED BY <1>7, <1>14 DEF KeptInv

(* A stone that connects, with the application having a connection that it  *)
(* keeps, finds the peer dead.                                              *)
LEMMA ConnectedKept ==
  ASSUME RefsInv, KeptInv, NEW t \in Threads, Connected(t)
  PROVE  KeptInv'
<1>0. PICK s \in Stones : s = Top(t).stone
  BY SenderTop DEF Connected, Acquires, Sending
<1>1. /\ shared' = shared /\ alive' = alive /\ program' = program
      /\ stack[t] # <<>> /\ Goto(t, Frame("loop", s, None)) /\ Top(t).at = "connecting"
      /\ Sends(Top(t), s)
  BY <1>0 DEF Connected, Acquires, In, Sends, Sending, input
<1>2. PICK f \in Frames : f = Frame("loop", s, None)
  BY FrameTypes
<1>3. KeptFrame(f)'
  BY <1>2, PlainFrame DEF Frame
<1> DEFINE e == IF alive THEN [Opened EXCEPT !.hooks = <<s>>]
                ELSE [Unused EXCEPT !.used = TRUE, !.refs = 1, !.closed = TRUE, !.failed = TRUE]
<1>4. PICK c \in Conns :
        ~conns[c].used /\ conns' = [conns EXCEPT ![c] = e] /\ conn' = [conn EXCEPT ![s] = c]
  BY <1>0 DEF Connected
<1>5. \A x \in Stones : Sends(Top(t), x) \/ conn'[x] = conn[x]
  BY <1>1, <1>4 DEF RefsInv, Types, BridgeTypes
<1>6. KeptFrames'
  BY <1>1, <1>2, <1>3, <1>5, KeptGoto
<1>7. program.mortal /\ program.blocks => ~alive
  BY <1>1, TopKept DEF KeptFrame
<1>8. ~e.pending
  BY DEF Opened, Unused
<1>9. ~alive => e.failed
  BY DEF Unused
<1> HIDE DEF e
<1>11. PICK d : d = e
  OBVIOUS
<1>12. conns' = [conns EXCEPT ![c] = d]
  BY <1>4, <1>11
<1>13. program.mortal /\ program.blocks => shared' = First
  BY <1>1 DEF KeptInv, KeptData
<1>14. KeptData'
  BY <1>1, <1>7, <1>8, <1>9, <1>11, <1>12, <1>13, KeptUpdate DEF KeptInv, RefsInv, Types
<1> QED BY <1>6, <1>14 DEF KeptInv

LEMMA LoopSendsKept ==
  ASSUME RefsInv, KeptInv, NEW t \in Threads, NEW s \in Stones, LoopSends(t, s)
  PROVE  KeptInv'
<1>1. /\ shared' = shared /\ alive' = alive /\ program' = program /\ conn' = conn /\ stack' = stack
  BY DEF LoopSends, input
<1>2. PICK c \in Usable : c = conn[s]
  BY DEF LoopSends
<1>3. PICK b \in BOOLEAN : (b => program.blocks) /\ conns' = [conns EXCEPT ![c].pending = b]
  BY <1>2 DEF LoopSends
<1>4. c \in Conns /\ conns[c].used /\ ~conns[c].failed /\ ~conns[c].closed /\ conns[c] \in Connection
  BY DEF Usable, RefsInv, Types, ConnTypes
<1>5. PICK e : e = [conns[c] EXCEPT !.pending = b]
  OBVIOUS
<1>6. conns' = [conns EXCEPT ![c] = e]
  BY <1>3, <1>5
<1>7. e.used /\ ~e.failed /\ ~e.closed /\ (e.pending => program.blocks)
  BY <1>3, <1>4, <1>5 DEF Connection
<1>8. KeptConn(c)
  BY <1>4 DEF KeptInv, KeptData
<1>9. program.mortal /\ program.blocks => c = First
  BY <1>4, <1>8 DEF KeptConn
<1>10. program.mortal /\ program.blocks => shared' = First
  BY <1>1 DEF KeptInv, KeptData
<1>11. KeptData'
  BY <1>1, <1>4, <1>6, <1>7, <1>9, <1>10, KeptUpdate DEF KeptInv, RefsInv, Types
<1>12. KeptFrames'
  BY <1>1, KeptStay
<1> QED BY <1>11, <1>12 DEF KeptInv

LEMMA LoopDiscardsKept ==
  ASSUME RefsInv, KeptInv, NEW t \in Threads, NEW s \in Stones, LoopDiscards(t, s)
  PROVE  KeptInv'
<1>1. /\ conn' = conn /\ conns' = conns /\ shared' = shared /\ alive' = alive /\ program' = program
      /\ stack' = stack
  BY DEF LoopDiscards, input
<1>2. KeptFrames'
  BY <1>1, KeptStay
<1>3. KeptData'
  BY <1>1, KeptSame DEF KeptInv, KeptData
<1> QED BY <1>2, <1>3 DEF KeptInv

(* A connection fails.                                                      *)
LEMMA BreakKept ==
  ASSUME RefsInv, KeptInv, NEW c \in Conns, ~alive, conns' = Break(conns, c),
         shared' = shared, alive' = alive, program' = program
  PROVE  KeptData'
<1>1. conns \in [Conns -> Connection]
  BY DEF RefsInv, Types, ConnTypes
<1>2. PICK e \in Connection :
         /\ Break(conns, c) = [conns EXCEPT ![c] = e]
         /\ e.failed = TRUE /\ e.pending = FALSE
  BY <1>1, BreakEffect
<1>3. conns' = [conns EXCEPT ![c] = e]
  BY <1>2
<1>4. program.mortal /\ program.blocks => shared' = First
  BY DEF KeptInv, KeptData
<1> QED BY <1>2, <1>3, <1>4, KeptUpdate DEF KeptInv, RefsInv, Types

LEMMA LoopFailsKept ==
  ASSUME RefsInv, KeptInv, NEW t \in Threads, NEW s \in Stones, LoopFails(t, s)
  PROVE  KeptInv'
<1>0. PICK c \in Conns : c = conn[s]
  BY DEF LoopFails, Usable
<1>1. /\ shared' = shared /\ alive' = alive /\ program' = program /\ conn' = conn /\ ~alive
      /\ conns' = Break(conns, c) /\ stack[t] # <<>>
  BY <1>0 DEF LoopFails, Takes, Loops, Running, In, input
<1>2. KeptData'
  BY <1>1, BreakKept
<1>3. PICK a \in Frames : a = Frame("unsent", s, None)
  BY FrameTypes
<1>4. PICK b \in Frames : b = Closing(c)
  BY ClosingType DEF RefsInv, Types
<1>5. a.at = "unsent" /\ b.at = "closing"
  BY <1>3, <1>4, ClosingType DEF Frame, RefsInv, Types
<1>6. PICK st \in [Threads -> Seq(Frames)] :
        /\ Changes(stack, st, t, Len(stack[t]), a)
        /\ Changes(st, stack', t, Len(stack[t]) + 1, b)
  <2>1. stack' = [stack EXCEPT ![t] = Front(@) \o <<a, b>>]
    BY <1>0, <1>3, <1>4 DEF LoopFails
  <2> QED BY <1>1, <2>1, GotoCallChanges DEF RefsInv, Types
<1>7. KeptFrame(a)' /\ KeptFrame(b)'
  BY <1>1, <1>5 DEF KeptFrame, Closers
<1>8. ASSUME NEW u \in Threads, NEW i \in 1 .. Len(stack'[u])
      PROVE  \E g : g = stack'[u][i] /\ KeptFrame(g)'
  <2>1. IF u = t /\ i = Len(stack[t]) + 1 THEN stack'[u][i] = b
        ELSE i \in 1 .. Len(st[u]) /\ stack'[u][i] = st[u][i]
    BY <1>6 DEF Changes
  <2>2. i \in 1 .. Len(st[u]) =>
          IF u = t /\ i = Len(stack[t]) THEN st[u][i] = a
          ELSE i \in 1 .. Len(stack[u]) /\ st[u][i] = stack[u][i]
    BY <1>6 DEF Changes
  <2>3. CASE stack'[u][i] \in {a, b}
    BY <1>7, <2>3
  <2>4. CASE stack'[u][i] \notin {a, b}
    <3>1. i \in 1 .. Len(stack[u]) /\ stack'[u][i] = stack[u][i]
      BY <2>1, <2>2, <2>4
    <3>2. PICK g : g = stack[u][i]
      OBVIOUS
    <3>3. KeptFrame(g)
      BY <3>1, <3>2 DEF KeptInv, KeptFrames
    <3>4. KeptFrame(g)'
      BY <1>1, <3>3, KeptOther
    <3> QED BY <3>1, <3>2, <3>4
  <2> QED BY <2>3, <2>4
<1>9. KeptFrames'
  BY <1>8 DEF KeptFrames, KeptFrame
<1> QED BY <1>2, <1>9 DEF KeptInv

LEMMA UnsentKept ==
  ASSUME RefsInv, KeptInv, NEW t \in Threads, NEW s \in Stones, Unsent(t, s)
  PROVE  KeptInv'
<1>1. /\ shared' = shared /\ alive' = alive /\ program' = program
      /\ conn' = [conn EXCEPT ![s] = None]
      /\ stack[t] # <<>> /\ Goto(t, Frame("loop", s, None))
      /\ Top(t).at = "unsent" /\ Top(t).stone = s
  BY DEF Unsent, Running, In, input
<1>2. PICK f \in Frames : f = Frame("loop", s, None)
  BY FrameTypes
<1>3. KeptFrame(f)'
  BY <1>2, PlainFrame DEF Frame
<1>4. \A x \in Stones : Sends(Top(t), x) \/ conn'[x] = conn[x]
  BY <1>1 DEF Sends, Sending, RefsInv, Types, BridgeTypes
<1>5. KeptFrames'
  BY <1>1, <1>2, <1>3, <1>4, KeptGoto
<1>6. program.mortal /\ program.blocks => ~alive /\ shared' = First
  BY <1>1, TopKept DEF KeptFrame, KeptInv, KeptData
<1>7. KeptData'
  <2>1. CASE conn[s] = None
    <3>1. conns' = conns
      BY <2>1 DEF Unsent
    <3> QED BY <1>1, <3>1, KeptSame DEF KeptInv, KeptData
  <2>2. CASE conn[s] # None
    <3>1. PICK c \in Conns : c = conn[s]
      BY <2>2 DEF RefsInv, Types, BridgeTypes
    <3>2. conns' = Close(FailClosed(conns, c), c)
      BY <2>2, <3>1 DEF Unsent
    <3>3. PICK e \in Connection :
             /\ Close(FailClosed(conns, c), c) = [conns EXCEPT ![c] = e]
             /\ e.failed = TRUE
             /\ e.pending = (IF conns[c].failed THEN conns[c].pending ELSE FALSE)
      BY GiveUpEffect, ZenonT(90) DEF RefsInv, Types, ConnTypes
    <3>4. conns' = [conns EXCEPT ![c] = e]
      BY <3>2, <3>3
    <3>5. e.pending => conns[c].pending
      BY <3>3
    <3>6. KeptConn(c)
      BY DEF KeptInv, KeptData
    <3> QED BY <1>1, <1>6, <3>3, <3>4, <3>5, <3>6, KeptUpdate DEF KeptInv, KeptConn, RefsInv, Types
  <2> QED BY <2>1, <2>2
<1> QED BY <1>5, <1>7 DEF KeptInv

LEMMA CloseHandlerKept ==
  ASSUME RefsInv, KeptInv, NEW t \in Threads, CloseHandler(t)
  PROVE  KeptInv'
<1>0. In(t, "handler")
  BY DEF CloseHandler
<1>1. /\ stack[t] # <<>> /\ Top(t) \in Frames /\ Top(t).at = "handler" /\ Top(t).conn \in Conns
      /\ Top(t).hooks \in Seq(Stones) /\ Top(t).hooks # <<>>
  BY <1>0, TopAt DEF RefsInv, Types, Closers
<1>2. PICK c \in Conns : c = Top(t).conn
  BY <1>1
<1>3. PICK s \in Stones : s = Head(Top(t).hooks)
  BY <1>1, HeadTailProperties
<1>4. PICK f \in Frames : f = [Top(t) EXCEPT !.at = "closing", !.hooks = Tail(@)]
  <2>1. Tail(Top(t).hooks) \in Seq(Stones)
    BY <1>1, HeadTailProperties
  <2> QED BY <1>1, <2>1 DEF Frames, Ats, Sending, Closers
<1>5. Goto(t, f) /\ f.at = "closing"
  BY <1>1, <1>4 DEF CloseHandler, Frames
<1>6. /\ shared' = shared /\ alive' = alive /\ program' = program
      /\ conns' = (IF conn[s] = c THEN Close(conns, c) ELSE conns)
  BY <1>2, <1>3 DEF CloseHandler, input
<1>7. ~alive /\ program.mortal
  BY <1>1, TopKept DEF KeptFrame, Closers, KeptInv, KeptData
<1>8. KeptFrame(f)'
  BY <1>5, <1>6, <1>7 DEF KeptFrame, Closers
<1>9. KeptFrames'
  BY <1>1, <1>5, <1>6, <1>7, <1>8, KeptGoto
<1>10. KeptData'
  <2>1. CASE conn[s] # c
    BY <1>6, <2>1, KeptSame DEF KeptInv, KeptData
  <2>2. CASE conn[s] = c
    <3>1. PICK e \in Connection :
             /\ Close(conns, c) = [conns EXCEPT ![c] = e]
             /\ e.used = conns[c].used /\ e.failed = conns[c].failed /\ e.pending = conns[c].pending
      BY CloseEffect, ZenonT(90) DEF RefsInv, Types, ConnTypes
    <3>2. conns' = [conns EXCEPT ![c] = e]
      BY <1>6, <2>2, <3>1
    <3>3. KeptConn(c)
      BY DEF KeptInv, KeptData
    <3>4. program.mortal /\ program.blocks => shared' = First
      BY <1>6 DEF KeptInv, KeptData
    <3> QED BY <1>6, <1>7, <3>1, <3>2, <3>3, <3>4, KeptUpdate DEF KeptInv, KeptConn, RefsInv, Types
  <2> QED BY <2>1, <2>2
<1> QED BY <1>9, <1>10 DEF KeptInv

LEMMA ClosedKept ==
  ASSUME RefsInv, KeptInv, NEW t \in Threads, Closed(t)
  PROVE  KeptInv'
<1>1. stack[t] # <<>> /\ Top(t).at = "closing" /\ Top(t).conn \in Conns
  BY CloserTop DEF Closed, ClosingStep, Closers
<1>2. PICK c \in Conns : c = Top(t).conn
  BY <1>1
<1>3. /\ stack' = [stack EXCEPT ![t] = Front(@)] /\ conns' = Unlist(conns, c)
      /\ conn' = conn /\ shared' = shared /\ alive' = alive /\ program' = program
  BY <1>2 DEF Closed, bridges, input
<1>4. KeptFrames'
  BY <1>1, <1>3, KeptReturn
<1>5. ~alive
  BY <1>1, TopKept DEF KeptFrame, Closers
<1>6. PICK e \in Connection :
        /\ Unlist(conns, c) = [conns EXCEPT ![c] = e]
        /\ e.refs = conns[c].refs - 1 /\ e.used = conns[c].used /\ e.listed = FALSE
        /\ e.closed = TRUE /\ e.failed = conns[c].failed /\ e.pending = conns[c].pending
  <2>1. conns \in [Conns -> Connection]
    BY DEF RefsInv, Types, ConnTypes
  <2> QED BY <2>1, UnlistEffect
<1>7. conns' = [conns EXCEPT ![c] = e]
  BY <1>3, <1>6
<1>8. KeptConn(c)
  BY DEF KeptInv, KeptData
<1>9. program.mortal /\ program.blocks => shared' = First
  BY <1>3 DEF KeptInv, KeptData
<1>10. KeptData'
  BY <1>3, <1>5, <1>6, <1>7, <1>8, <1>9, KeptUpdate DEF KeptInv, KeptConn, RefsInv, Types
<1> QED BY <1>4, <1>10 DEF KeptInv

LEMMA ReturnsKept ==
  ASSUME RefsInv, KeptInv, NEW t \in Threads, PassEnds(t) \/ DrainReturns(t)
  PROVE  KeptInv'
<1>1. /\ conn' = conn /\ conns' = conns /\ shared' = shared /\ alive' = alive /\ program' = program
      /\ stack[t] # <<>> /\ stack' = [stack EXCEPT ![t] = Front(@)]
  BY DEF PassEnds, DrainReturns, In, bridges, input
<1>2. KeptFrames'
  BY <1>1, KeptReturn
<1>3. KeptData'
  BY <1>1, KeptSame DEF KeptInv, KeptData
<1> QED BY <1>2, <1>3 DEF KeptInv

LEMMA CallsKept ==
  ASSUME RefsInv, KeptInv,
         RunTask \/ \E t \in Apps, s \in Stones : Submit(t, s) \/ Drain(t, s)
  PROVE  KeptInv'
<1>1. /\ conn' = conn /\ conns' = conns /\ shared' = shared /\ alive' = alive /\ program' = program
  BY DEF RunTask, Submit, Drain, Uses, bridges, input
<1>2. PICK t \in Threads : \E f \in Frames : f.at \in {"pass", "drain"} /\ Call(t, f)
  <2>1. Frame("pass", 1, None) \in Frames /\ Frame("pass", 1, None).at = "pass"
    BY PassFrame
  <2>2. \A s \in Stones : Frame("drain", s, None) \in Frames /\ Frame("drain", s, None).at = "drain"
    BY FrameTypes DEF Frame
  <2>3. \E t \in Threads :
          Call(t, Frame("pass", 1, None)) \/ \E s \in Stones : Call(t, Frame("drain", s, None))
    BY DEF RunTask, Submit, Drain, Threads
  <2> QED BY <2>1, <2>2, <2>3
<1>3. PICK f \in Frames : f.at \in {"pass", "drain"} /\ Call(t, f)
  BY <1>2
<1>4. KeptFrame(f)'
  BY <1>3, PlainFrame
<1>5. KeptFrames'
  BY <1>1, <1>3, <1>4, KeptCall
<1>6. KeptData'
  BY <1>1, KeptSame DEF KeptInv, KeptData
<1> QED BY <1>5, <1>6 DEF KeptInv

LEMMA EofKept ==
  ASSUME RefsInv, KeptInv, NEW c \in Conns, Eof(c)
  PROVE  KeptInv'
<1>1. /\ conn' = conn /\ shared' = shared /\ alive' = alive /\ program' = program /\ ~alive
      /\ conns' = Break(conns, c) /\ Call(Net, Closing(c)) /\ Net \in Threads
  BY DEF Eof, Threads, bridges, input
<1>2. KeptData'
  BY <1>1, BreakKept
<1>3. PICK f \in Frames : f = Closing(c)
  BY ClosingType DEF RefsInv, Types
<1>4. f.at = "closing"
  BY <1>3, ClosingType DEF RefsInv, Types
<1>5. KeptFrame(f)'
  BY <1>1, <1>4 DEF KeptFrame
<1>6. KeptFrames'
  BY <1>1, <1>3, <1>5, KeptCall
<1> QED BY <1>2, <1>6 DEF KeptInv

LEMMA FlushKept ==
  ASSUME RefsInv, KeptInv, NEW c \in Conns, Flush(c)
  PROVE  KeptInv'
<1>1. /\ conn' = conn /\ shared' = shared /\ alive' = alive /\ program' = program /\ stack' = stack
      /\ conns' = [conns EXCEPT ![c].pending = FALSE]
  BY DEF Flush, bridges, input
<1>2. KeptFrames'
  BY <1>1, KeptStay
<1>3. conns[c] \in Connection
  BY DEF RefsInv, Types, ConnTypes
<1>4. PICK e : e = [conns[c] EXCEPT !.pending = FALSE]
  OBVIOUS
<1>5. conns' = [conns EXCEPT ![c] = e]
  BY <1>1, <1>4
<1>6. ~e.pending /\ e.used = conns[c].used /\ e.failed = conns[c].failed /\ e.closed = conns[c].closed
  BY <1>3, <1>4 DEF Connection
<1>7. KeptConn(c)
  BY DEF KeptInv, KeptData
<1>8. program.mortal /\ program.blocks => shared' = First
  BY <1>1 DEF KeptInv, KeptData
<1>9. program.mortal /\ program.blocks /\ alive /\ c = First => e.used /\ ~e.closed /\ ~e.failed
  BY <1>6 DEF KeptInv, KeptData, Usable
<1>10. KeptData'
  BY <1>1, <1>5, <1>6, <1>7, <1>8, <1>9, KeptUpdate DEF KeptInv, KeptConn, RefsInv, Types
<1> QED BY <1>2, <1>10 DEF KeptInv

LEMMA PeerDiesKept ==
  ASSUME RefsInv, KeptInv, PeerDies
  PROVE  KeptInv'
<1>1. /\ conn' = conn /\ conns' = conns /\ shared' = shared /\ ~alive' /\ program' = program
      /\ stack' = stack /\ program.mortal
  BY DEF PeerDies, bridges
<1>2. KeptFrames'
  BY <1>1, KeptStay
<1>3. KeptData'
  BY <1>1, KeptSame DEF KeptInv
<1> QED BY <1>2, <1>3 DEF KeptInv

LEMMA SettingsKept ==
  ASSUME RefsInv, KeptInv, NEW t \in Threads, NEW s \in Stones,
         Freeze(t, s) \/ Unfreeze(t, s) \/ Transfer(t, s)
  PROVE  KeptInv'
<1>1. /\ conn' = conn /\ conns' = conns /\ shared' = shared /\ alive' = alive /\ program' = program
      /\ stack' = stack
  BY DEF Freeze, Unfreeze, Transfer, Uses
<1>2. KeptFrames'
  BY <1>1, KeptStay
<1>3. KeptData'
  BY <1>1, KeptSame DEF KeptInv, KeptData
<1> QED BY <1>2, <1>3 DEF KeptInv

(* The application gets a connection, or closes the one it has: not in a    *)
(* program in which it must keep one.                                       *)
LEMMA ShareKept ==
  ASSUME RefsInv, KeptInv, NEW t \in Threads, Share(t)
  PROVE  KeptInv'
<1>1. /\ conn' = conn /\ shared = None /\ alive' = alive /\ program' = program /\ stack' = stack
  BY DEF Share, Uses, bridges
<1>2. KeptFrames'
  BY <1>1, KeptStay
<1>3. ~(program.mortal /\ program.blocks)
  <2>1. First # None
    BY BridgeAssumption DEF First
  <2> QED BY <1>1, <2>1 DEF KeptInv, KeptData
<1>4. PICK c \in Usable : conns' = [conns EXCEPT ![c].refs = @ + 1]
  BY DEF Share
<1>5. c \in Conns
  BY DEF Usable
<1>6. PICK e \in Connection :
        /\ [conns EXCEPT ![c].refs = @ + 1] = [conns EXCEPT ![c] = e]
        /\ e.pending = conns[c].pending
  BY <1>5, ShareEffect, ZenonT(90) DEF RefsInv, Types, ConnTypes
<1>7. conns' = [conns EXCEPT ![c] = e]
  BY <1>4, <1>6
<1>8. KeptConn(c)
  BY <1>5 DEF KeptInv, KeptData
<1>9. KeptData'
  BY <1>1, <1>3, <1>5, <1>6, <1>7, <1>8, KeptUpdate DEF KeptInv, KeptConn, RefsInv, Types
<1> QED BY <1>2, <1>9 DEF KeptInv

LEMMA UnshareKept ==
  ASSUME ReferenceKept, RefsInv, KeptInv, NEW t \in Threads, Unshare(t)
  PROVE  KeptInv'
<1>1. /\ conn' = conn /\ alive' = alive /\ program' = program /\ stack' = stack
      /\ "unshare" \in program.usage
  BY DEF Unshare, Uses, bridges
<1>2. KeptFrames'
  BY <1>1, KeptStay
<1>3. ~(program.mortal /\ program.blocks)
  BY <1>1 DEF ReferenceKept, RefsInv, Types, OtherTypes
<1>4. PICK c \in Conns : c = shared
  BY DEF Unshare, RefsInv, Types, ConnTypes
<1>5. conns' = Close(conns, c)
  BY <1>4 DEF Unshare
<1>6. PICK e \in Connection :
        /\ Close(conns, c) = [conns EXCEPT ![c] = e]
        /\ e.refs = conns[c].refs - 1 /\ e.used = conns[c].used /\ e.listed = conns[c].listed
        /\ e.closed = TRUE /\ e.failed = conns[c].failed /\ e.pending = conns[c].pending
  <2>1. conns \in [Conns -> Connection]
    BY DEF RefsInv, Types, ConnTypes
  <2> QED BY <2>1, CloseEffect
<1>7. conns' = [conns EXCEPT ![c] = e]
  BY <1>5, <1>6
<1>8. KeptConn(c)
  BY DEF KeptInv, KeptData
<1>9. KeptData'
  BY <1>1, <1>3, <1>6, <1>7, <1>8, KeptUpdate DEF KeptInv, KeptConn, RefsInv, Types
<1> QED BY <1>2, <1>9 DEF KeptInv
-----------------------------------------------------------------------------
(* The invariant, and what it gives.                                        *)

LEMMA InitKept ==
  ASSUME ReferenceKept, Init
  PROVE  KeptInv
<1>1. First \in Conns
  BY BridgeAssumption DEF First
<1>2. /\ ~Unused.used /\ ~Unused.pending
      /\ Opened.used /\ ~Opened.closed /\ ~Opened.failed /\ ~Opened.pending
  BY DEF Unused, Opened
<1>3. \A t \in Threads : \A i \in 1 .. Len(stack[t]) : FALSE
  <2>1. \A t \in Threads : stack[t] = <<>>
    BY DEF Init
  <2> QED BY <2>1
<1>4. KeptFrames
  BY <1>3 DEF KeptFrames
<1>5. program.mortal /\ program.blocks => program.open
  BY DEF Init, ReferenceKept
<1>6. \A c \in Conns : conns[c] = IF program.open /\ c = First THEN Opened ELSE Unused
  BY DEF Init
<1> HIDE DEF Opened, Unused
<1>7. \A c \in Conns : KeptConn(c)
  BY <1>2, <1>6 DEF KeptConn
<1>8. program.open => shared = First /\ First \in Usable
  BY <1>1, <1>2, <1>6 DEF Init, Usable
<1>9. alive
  BY DEF Init
<1> QED BY <1>4, <1>5, <1>7, <1>8, <1>9 DEF KeptInv, KeptData

LEMMA SendKept ==
  ASSUME RefsInv, KeptInv, NEW t \in Threads, NEW s \in Stones, Send(t, s)
  PROVE  KeptInv'
<1>1. CASE Skip(t, s) \/ StartGivesUp(t, s) \/ StartSends(t, s) \/ LoopEnds(t, s)
  BY <1>1, PlainKept
<1>2. CASE StartFinds(t, s)
  BY <1>2, StartFindsKept
<1>3. CASE StartConnects(t, s)
  BY <1>3, StartConnectsKept
<1>4. CASE LoopWaits(t, s)
  BY <1>4, LoopWaitsKept
<1>5. CASE LoopDiscards(t, s)
  BY <1>5, LoopDiscardsKept
<1>6. CASE LoopSends(t, s)
  BY <1>6, LoopSendsKept
<1>7. CASE LoopRefused(t, s)
  BY <1>7, LoopRefusedKept
<1>8. CASE LoopFails(t, s)
  BY <1>8, LoopFailsKept
<1>9. CASE Unsent(t, s)
  BY <1>9, UnsentKept
<1> QED BY <1>1, <1>2, <1>3, <1>4, <1>5, <1>6, <1>7, <1>8, <1>9 DEF Send

LEMMA WakeKept ==
  ASSUME RefsInv, KeptInv, NEW t \in Threads, Wake(t) \/ Return(t)
  PROVE  KeptInv'
<1>1. CASE Connected(t)
  BY <1>1, ConnectedKept
<1>2. CASE ConnectFails(t) \/ Unblocked(t)
  BY <1>2, PlainKept
<1>3. CASE PassEnds(t) \/ DrainReturns(t)
  BY <1>3, ReturnsKept
<1>4. CASE CallCloseHandler(t)
  BY <1>4, CallCloseHandlerKept
<1>5. CASE CloseHandler(t)
  BY <1>5, CloseHandlerKept
<1>6. CASE Closed(t)
  BY <1>6, ClosedKept
<1> QED BY <1>1, <1>2, <1>3, <1>4, <1>5, <1>6 DEF Wake, Return

LEMMA NextKept ==
  ASSUME ReferenceKept, RefsInv, KeptInv, [Next]_vars
  PROVE  KeptInv'
<1>0. Apps \subseteq Threads
  BY DEF Threads
<1>1. CASE \E t \in Threads, s \in Stones : Send(t, s)
  BY <1>1, SendKept
<1>2. CASE \E t \in Threads : Wake(t) \/ Return(t)
  BY <1>2, WakeKept
<1>3. CASE \E c \in Conns : Network(c)
  BY <1>3, FlushKept, EofKept DEF Network
<1>4. CASE RunTask
  BY <1>4, CallsKept
<1>5. CASE PeerDies
  BY <1>5, PeerDiesKept
<1>6. CASE \E t \in Apps, s \in Stones : Submit(t, s) \/ Use(t, s)
  <2>1. PICK t \in Apps : \E s \in Stones : Submit(t, s) \/ Use(t, s)
    BY <1>6
  <2>2. PICK s \in Stones : Submit(t, s) \/ Use(t, s)
    BY <2>1
  <2>3. CASE Submit(t, s) \/ Drain(t, s)
    BY <2>3, CallsKept
  <2>4. CASE Freeze(t, s) \/ Unfreeze(t, s) \/ Transfer(t, s)
    BY <1>0, <2>4, SettingsKept
  <2> QED BY <2>2, <2>3, <2>4 DEF Use
<1>7. CASE \E t \in Apps : Share(t) \/ Unshare(t)
  BY <1>0, <1>7, ShareKept, UnshareKept
<1>8. CASE UNCHANGED vars
  <2>1. /\ conn' = conn /\ conns' = conns /\ shared' = shared /\ alive' = alive
        /\ program' = program /\ stack' = stack
    BY <1>8 DEF vars, bridges, input
  <2>2. KeptFrames'
    BY <2>1, KeptStay
  <2>3. KeptData'
    BY <2>1, KeptSame DEF KeptInv, KeptData
  <2> QED BY <2>2, <2>3 DEF KeptInv
<1> QED BY <1>1, <1>2, <1>3, <1>4, <1>5, <1>6, <1>7, <1>8 DEF Next

LEMMA KeptInvariant == ReferenceKept => (Spec => [](RefsInv /\ KeptInv))
<1> SUFFICES ASSUME ReferenceKept PROVE Spec => [](RefsInv /\ KeptInv)
  OBVIOUS
<1>1. Init => RefsInv /\ KeptInv
  BY InitRefs, InitKept
<1>2. RefsInv /\ KeptInv /\ [Next]_vars => (RefsInv /\ KeptInv)'
  BY NextRefs, NextKept
<1> QED BY <1>1, <1>2, PTL DEF Spec

(* A thread waits for a write of a connection that its stone holds, or that *)
(* the application keeps: the reference count is not 0.                     *)
LEMMA WaitedOnIsHeld ==
  ASSUME RefsInv, KeptInv, NEW c \in Conns, NEW t \in Threads, In(t, "blocked"), Top(t).conn = c
  PROVE  conns[c].refs > 0
<1>1. /\ KeptFrame(Top(t)) /\ Top(t).at = "blocked" /\ Top(t).stone \in Stones
  BY TopAt, TopKept DEF RefsInv, Types, Sending
<1>2. /\ conns[c].refs = Has(conns[c].listed) + Has(conns[c].used /\ ~conns[c].failed)
                           + Has(shared = c) + Cardinality(Holders(conn, c))
      /\ Cardinality(Holders(conn, c)) \in Nat
  BY HoldersCount DEF RefsInv, Counted, CountedAt
<1>3. CASE program.mortal
  <2>1. shared = c
    BY <1>1, <1>3 DEF KeptFrame, KeptInv, KeptData
  <2>2. Has(shared = c) = 1 /\ Has(conns[c].listed) \in Nat /\ Has(conns[c].used /\ ~conns[c].failed) \in Nat
    BY <2>1 DEF Has
  <2> HIDE DEF Has
  <2> QED BY <1>2, <2>2
<1>4. CASE ~program.mortal
  <2>1. Top(t).stone \in Holders(conn, c)
    BY <1>1, <1>4 DEF KeptFrame, Holders
  <2>2. Cardinality(Holders(conn, c)) # 0
    <3>1. IsFiniteSet(Holders(conn, c))
      BY HoldersCount
    <3> QED BY <2>1, <3>1, FS_EmptySet
  <2>3. Has(shared = c) \in Nat /\ Has(conns[c].listed) \in Nat /\ Has(conns[c].used /\ ~conns[c].failed) \in Nat
    BY DEF Has
  <2> HIDE DEF Has
  <2> QED BY <1>2, <2>2, <2>3
<1> QED BY <1>3, <1>4

(* The references of every connection are counted exactly, through every    *)
(* failure, and no thread waits on a connection that is freed, for every    *)
(* set of programs in which the application keeps the connection it made    *)
(* first where writes may be pending when the peer dies (evp.c:2079-2083,   *)
(* 2266-2272, cm.c:1373-1392).                                              *)
THEOREM ReferencesAreExact == ReferenceKept => (Spec => []ReferencesExact)
<1> SUFFICES ASSUME ReferenceKept PROVE Spec => []ReferencesExact
  OBVIOUS
<1>1. RefsInv /\ KeptInv => ReferencesExact
  <2> SUFFICES ASSUME RefsInv, KeptInv PROVE ReferencesExact
    OBVIOUS
  <2>1. ASSUME NEW c \in Conns
        PROVE  conns[c].refs = Has(conns[c].listed) + Has(conns[c].used /\ ~conns[c].failed)
                 + Has(shared = c) + Cardinality({s \in Stones : conn[s] = c})
    BY DEF RefsInv, Counted, CountedAt, Holders
  <2> QED BY <2>1, WaitedOnIsHeld DEF ReferencesExact
<1> QED BY <1>1, KeptInvariant, PTL

(* The references of every connection are counted exactly, whatever the     *)
(* programs do: one for the transport until the connection fails, one for   *)
(* the list, one for the application and one for each stone that has it     *)
(* (evp.c:2079-2083, 2266-2272, cm.c:1373-1392).                            *)
THEOREM CountsAreExact == Spec => []Counted
BY RefsInvariant, PTL DEF RefsInv
===============================================================================
