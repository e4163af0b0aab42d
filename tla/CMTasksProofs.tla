---------------------------- MODULE CMTasksProofs ----------------------------
(***************************************************************************)
(* Proofs about the task list, for every set of threads and addresses,     *)
(* every period and delay and every bound on the nesting of select calls,  *)
(* in applications that remove tasks that are not running.                 *)
(***************************************************************************)
EXTENDS CMTasks, ListLemmas

-----------------------------------------------------------------------------
(* The inductive invariant.                                                *)

(* Who may hold the lock inside the task code: the frame on top.            *)
TopOf(s, t) == IF s[t] = <<>> THEN [pc |-> "idle"] ELSE s[t][1]
Holds(s, t) == TopOf(s, t).pc \in {"walk", "spin"}
Spins(s, t) == TopOf(s, t).pc = "spin"

(* The frames of a thread that is not in the network loop, and of the one   *)
(* that is: a handler runs on top of the walk that started it, whose record *)
(* it keeps in use; every other frame is on top of a handler.               *)
WorkerStack(st) == Len(st) <= 1 /\ \A i \in 1..Len(st) : st[i].pc = "spin"
Executes(tk, a, id) ==
  /\ a \in Addrs
  /\ tk[a].state = "linked" /\ tk[a].executing = Server /\ tk[a].id = id
ServerStack(st, tk) ==
  \A i \in 1..Len(st) :
    /\ st[i].pc = "spin" => i = 1
    /\ st[i].pc = "handler" =>
         i < Len(st) /\ st[i + 1].pc = "walk" /\ Executes(tk, st[i + 1].at, st[i].id)
    /\ st[i].pc # "handler" /\ i < Len(st) => st[i + 1].pc = "handler"
OneFrameEach(st) ==
  \A i, j \in 1..Len(st) :
    st[i].pc = "handler" /\ st[j].pc = "handler" /\ st[i + 1].at = st[j + 1].at => i = j

(* The walk and a removal are where the list is.                            *)
TopSound(s, tk, ls) ==
  /\ \A t, u \in Threads : Holds(s, t) /\ Holds(s, u) => t = u
  /\ \A t \in Threads : Spins(s, t) =>
       LET a == s[t][1].at
       IN  tk[a].state = "linked" /\ tk[a].executing = Nobody /\ ~InList(ls, a)
  /\ TopOf(s, Server).pc = "walk" =>
       s[Server][1].at = Nobody \/ InList(ls, s[Server][1].at)

StackSound(s, tk, ls) ==
  /\ s \in [Threads -> Seq(Frame)]
  /\ \A t \in Workers : WorkerStack(s[t])
  /\ ServerStack(s[Server], tk) /\ OneFrameEach(s[Server])
  /\ TopSound(s, tk, ls)

(* Every linked record is in the list, or a removal has it.                 *)
ListSound(s, tk, ls) ==
  /\ \A i, j \in DOMAIN ls : ls[i] = ls[j] => i = j
  /\ \A a \in Addrs :
       InList(ls, a) <=>
         tk[a].state = "linked" /\ \A t \in Threads : Spins(s, t) => s[t][1].at # a

(* A record that is not freed belongs to one task, which was not removed    *)
(* and, if it is a delayed one that waits, never started.                   *)
TasksSound(s, tk) ==
  \A a \in Addrs :
    /\ tk[a].state = "free" => tk[a] = Free
    /\ tk[a].state = "linked" =>
         /\ tk[a].id \in 1..adds
         /\ \A b \in Addrs : tk[b].state = "linked" /\ tk[b].id = tk[a].id => a = b
         /\ tk[a].period = 0 /\ tk[a].executing = Nobody => runs[tk[a].id].starts = 0
         /\ (\A t \in Threads : Spins(s, t) => s[t][1].at # a) => ~runs[tk[a].id].removed

(* A task that was not added yet has no history.                            *)
FutureSound == \A i \in (adds + 1)..MaxAdds : runs[i] = [starts |-> 0, removed |-> FALSE]

IInv ==
  /\ TypeOK /\ NoFault /\ FutureSound
  /\ StackSound(stack, task, list)
  /\ ListSound(stack, task, list)
  /\ TasksSound(stack, task)

-----------------------------------------------------------------------------
(* A frame below the top, and the one below that.                           *)
LEMMA Shifted ==
  ASSUME NEW s, NEW p, Len(s) \in Nat, Len(p) = Len(s) + 1,
         \A i \in 1..Len(s) : p[i + 1] = s[i]
  PROVE  \A i \in 2..Len(p) :
           /\ i - 1 \in 1..Len(s) /\ p[i] = s[i - 1]
           /\ i < Len(p) <=> i - 1 < Len(s)
           /\ i < Len(p) => p[i + 1] = s[(i - 1) + 1]
<1>1. TAKE i \in 2..Len(p)
<1>2. i - 1 \in 1..Len(s) /\ (i - 1) + 1 = i
  OBVIOUS
<1>3. i < Len(p) => i \in 1..Len(s)
  OBVIOUS
<1> QED BY <1>2, <1>3

-----------------------------------------------------------------------------
(* Stacks.                                                                 *)

LEMMA PushStack ==
  ASSUME NEW s \in [Threads -> Seq(Frame)], NEW t \in Threads, NEW f \in Frame
  PROVE  /\ Push(f, t, s) \in [Threads -> Seq(Frame)]
         /\ \A u \in Threads : u # t => Push(f, t, s)[u] = s[u]
         /\ Len(s[t]) \in Nat /\ Len(Push(f, t, s)[t]) = Len(s[t]) + 1
         /\ Push(f, t, s)[t] # <<>> /\ Push(f, t, s)[t][1] = f
         /\ \A i \in 1..Len(s[t]) : Push(f, t, s)[t][i + 1] = s[t][i]
<1>1. Push(f, t, s)[t] = <<f>> \o s[t] /\ s[t] \in Seq(Frame)
  BY DEF Push
<1>2. <<f>> \o s[t] \in Seq(Frame)
  BY <1>1, ConsProperties
<1>3. /\ Push(f, t, s) \in [Threads -> Seq(Frame)]
      /\ \A u \in Threads : u # t => Push(f, t, s)[u] = s[u]
  BY <1>2 DEF Push
<1> QED BY <1>1, <1>3, ConsProperties

LEMMA PopStack ==
  ASSUME NEW s \in [Threads -> Seq(Frame)], NEW t \in Threads, s[t] # <<>>
  PROVE  /\ Pop(t, s) \in [Threads -> Seq(Frame)]
         /\ \A u \in Threads : u # t => Pop(t, s)[u] = s[u]
         /\ Len(s[t]) \in Nat /\ Len(s[t]) > 0 /\ Len(Pop(t, s)[t]) = Len(s[t]) - 1
         /\ \A i \in 1..Len(s[t]) - 1 : Pop(t, s)[t][i] = s[t][i + 1]
<1>1. Pop(t, s)[t] = Tail(s[t]) /\ s[t] \in Seq(Frame)
  BY DEF Pop
<1>2. /\ Tail(s[t]) \in Seq(Frame) /\ Len(Tail(s[t])) = Len(s[t]) - 1
      /\ \A i \in 1..Len(Tail(s[t])) : Tail(s[t])[i] = s[t][i + 1]
  BY <1>1, HeadTailProperties
<1>3. /\ Pop(t, s) \in [Threads -> Seq(Frame)]
      /\ \A u \in Threads : u # t => Pop(t, s)[u] = s[u]
  BY <1>2 DEF Pop
<1>4. Len(s[t]) \in Nat /\ Len(s[t]) > 0
  BY <1>1, EmptySeq
<1> QED BY <1>1, <1>2, <1>3, <1>4

LEMMA BecomeStack ==
  ASSUME NEW s \in [Threads -> Seq(Frame)], NEW t \in Threads, s[t] # <<>>, NEW f \in Frame
  PROVE  /\ Become(f, t, s) \in [Threads -> Seq(Frame)]
         /\ \A u \in Threads : u # t => Become(f, t, s)[u] = s[u]
         /\ Len(s[t]) \in Nat /\ Len(s[t]) > 0 /\ Len(Become(f, t, s)[t]) = Len(s[t])
         /\ Become(f, t, s)[t] # <<>> /\ Become(f, t, s)[t][1] = f
         /\ \A i \in 2..Len(s[t]) : Become(f, t, s)[t][i] = s[t][i]
<1> DEFINE r == Tail(s[t])
<1>1. s[t] \in Seq(Frame) /\ Len(s[t]) \in Nat /\ Len(s[t]) > 0
  BY EmptySeq
<1>2. r \in Seq(Frame) /\ Len(r) = Len(s[t]) - 1 /\ \A i \in 1..Len(r) : r[i] = s[t][i + 1]
  BY <1>1, HeadTailProperties
<1>3. Become(f, t, s) = [s EXCEPT ![t] = <<f>> \o r]
  BY DEF Become
<1> HIDE DEF r
<1> DEFINE b == <<f>> \o r
<1>4. /\ b \in Seq(Frame) /\ b # <<>> /\ Len(b) = Len(r) + 1 /\ b[1] = f
      /\ \A i \in 1..Len(r) : b[i + 1] = r[i]
  BY <1>2, ConsProperties
<1> HIDE DEF b
<1>5. \A i \in 2..Len(s[t]) : b[i] = s[t][i]
  <2>1. TAKE i \in 2..Len(s[t])
  <2>2. i - 1 \in 1..Len(r) /\ (i - 1) + 1 = i
    BY <1>1, <1>2
  <2> QED BY <1>2, <1>4, <2>2
<1>6. Become(f, t, s) = [s EXCEPT ![t] = b]
  BY <1>3 DEF b
<1> QED BY <1>1, <1>2, <1>4, <1>5, <1>6

(* What the task code knows of a frame besides the consistency number.      *)
Same(f, g) ==
  /\ f.pc = g.pc
  /\ f.pc \in {"walk", "spin"} => f.at = g.at
  /\ f.pc = "handler" => f.id = g.id

LEMMA BumpStack ==
  ASSUME NEW s \in [Threads -> Seq(Frame)]
  PROVE  /\ Bumped(s) \in [Threads -> Seq(Frame)]
         /\ \A t \in Threads :
              /\ Len(s[t]) \in Nat /\ Len(Bumped(s)[t]) = Len(s[t])
              /\ \A i \in 1..Len(s[t]) : Same(Bumped(s)[t][i], s[t][i])
<1>1. ASSUME NEW f \in Frame, f.pc \in {"select", "walk"}
      PROVE  [f EXCEPT !.stale = TRUE] \in Frame /\ Same([f EXCEPT !.stale = TRUE], f)
  BY <1>1 DEF Frame, Same
<1>2. \A f : Same(f, f)
  BY DEF Same
<1>3. ASSUME NEW t \in Threads
      PROVE  /\ Bumped(s)[t] \in Seq(Frame)
             /\ Len(s[t]) \in Nat /\ Len(Bumped(s)[t]) = Len(s[t])
             /\ \A i \in 1..Len(s[t]) : Same(Bumped(s)[t][i], s[t][i])
  <2> DEFINE b == [i \in DOMAIN s[t] |-> IF s[t][i].pc \in {"select", "walk"}
                    THEN [s[t][i] EXCEPT !.stale = TRUE] ELSE s[t][i]]
  <2>1. Bumped(s)[t] = b
    BY DEF Bumped
  <2>2. s[t] \in Seq(Frame) /\ Len(s[t]) \in Nat /\ DOMAIN s[t] = 1..Len(s[t])
        /\ \A i \in 1..Len(s[t]) : s[t][i] \in Frame
    OBVIOUS
  <2>3. \A i \in 1..Len(s[t]) : b[i] \in Frame /\ Same(b[i], s[t][i])
    BY <1>1, <1>2, <2>2
  <2>4. b \in [1..Len(s[t]) -> Frame]
    BY <2>2, <2>3
  <2> HIDE DEF b
  <2>5. b \in Seq(Frame) /\ Len(b) = Len(s[t])
    BY <2>2, <2>4
  <2> QED BY <2>1, <2>2, <2>3, <2>5
<1> QED BY <1>3 DEF Bumped

(* The frame on top.                                                        *)
LEMMA TopFrame ==
  ASSUME NEW s \in [Threads -> Seq(Frame)], NEW t \in Threads
  PROVE  /\ Len(s[t]) \in Nat /\ (s[t] = <<>> <=> Len(s[t]) = 0)
         /\ s[t] = <<>> => TopOf(s, t).pc = "idle"
         /\ s[t] # <<>> => TopOf(s, t) = s[t][1] /\ s[t][1] \in Frame
         /\ \A i \in 1..Len(s[t]) : s[t][i] \in Frame
<1>1. s[t] \in Seq(Frame)
  OBVIOUS
<1> QED BY <1>1, EmptySeq DEF TopOf

(* Bumping the consistency number changes nothing the invariant speaks of.  *)
LEMMA BumpSound ==
  ASSUME NEW s, NEW tk, NEW ls, StackSound(s, tk, ls)
  PROVE  /\ StackSound(Bumped(s), tk, ls)
         /\ \A t \in Threads : /\ Spins(Bumped(s), t) <=> Spins(s, t)
                               /\ Spins(s, t) => Bumped(s)[t][1].at = s[t][1].at
<1> DEFINE b == Bumped(s)
<1>1. /\ s \in [Threads -> Seq(Frame)] /\ b \in [Threads -> Seq(Frame)]
      /\ \A t \in Threads :
           /\ Len(s[t]) \in Nat /\ Len(b[t]) = Len(s[t])
           /\ \A i \in 1..Len(s[t]) : Same(b[t][i], s[t][i])
  BY BumpStack DEF StackSound
<1> HIDE DEF b
<1>2. ASSUME NEW t \in Threads
      PROVE  /\ TopOf(b, t).pc = TopOf(s, t).pc
             /\ TopOf(s, t).pc \in {"walk", "spin"} => b[t][1].at = s[t][1].at
  <2>1. CASE s[t] = <<>>
    <3>1. Len(s[t]) = 0 /\ Len(b[t]) = 0
      BY <1>1, <2>1
    <3>2. s[t] = <<>> /\ b[t] = <<>>
      BY <1>1, <2>1, <3>1, TopFrame, Zenon
    <3>3. TopOf(s, t).pc = "idle" /\ TopOf(b, t).pc = "idle"
      BY <3>2 DEF TopOf
    <3> QED BY <3>3
  <2>2. CASE s[t] # <<>>
    <3>1. b[t] # <<>> /\ TopOf(s, t) = s[t][1] /\ TopOf(b, t) = b[t][1] /\ Same(b[t][1], s[t][1])
      BY <1>1, <2>2, TopFrame
    <3> QED BY <3>1 DEF Same
  <2> QED BY <2>1, <2>2
<1>3. \A t \in Workers : WorkerStack(b[t])
  BY <1>1 DEF StackSound, WorkerStack, Same, Threads
<1>4. Server \in Threads
  BY DEF Threads
<1>5. ServerStack(b[Server], tk)
  <2> SUFFICES ASSUME NEW i \in 1..Len(b[Server])
               PROVE  /\ b[Server][i].pc = "spin" => i = 1
                      /\ b[Server][i].pc = "handler" =>
                           /\ i < Len(b[Server]) /\ b[Server][i + 1].pc = "walk"
                           /\ Executes(tk, b[Server][i + 1].at, b[Server][i].id)
                      /\ b[Server][i].pc # "handler" /\ i < Len(b[Server]) =>
                           b[Server][i + 1].pc = "handler"
    BY DEF ServerStack
  <2>1. Same(b[Server][i], s[Server][i]) /\ Len(b[Server]) = Len(s[Server])
    BY <1>1, <1>4
  <2>2. i < Len(b[Server]) => Same(b[Server][i + 1], s[Server][i + 1])
    BY <1>1, <1>4
  <2>3. /\ s[Server][i].pc = "spin" => i = 1
        /\ s[Server][i].pc = "handler" =>
             /\ i < Len(s[Server]) /\ s[Server][i + 1].pc = "walk"
             /\ Executes(tk, s[Server][i + 1].at, s[Server][i].id)
        /\ s[Server][i].pc # "handler" /\ i < Len(s[Server]) =>
             s[Server][i + 1].pc = "handler"
    BY <2>1 DEF StackSound, ServerStack
  <2> QED BY <2>1, <2>2, <2>3 DEF Same
<1>6. OneFrameEach(b[Server])
  <2> SUFFICES ASSUME NEW i \in 1..Len(b[Server]), NEW j \in 1..Len(b[Server]),
                      b[Server][i].pc = "handler", b[Server][j].pc = "handler",
                      b[Server][i + 1].at = b[Server][j + 1].at
               PROVE  i = j
    BY DEF OneFrameEach
  <2>1. /\ i \in 1..Len(s[Server]) /\ j \in 1..Len(s[Server])
        /\ s[Server][i].pc = "handler" /\ s[Server][j].pc = "handler"
    BY <1>1, <1>4 DEF Same
  <2>2. /\ i + 1 \in 1..Len(s[Server]) /\ s[Server][i + 1].pc = "walk"
        /\ j + 1 \in 1..Len(s[Server]) /\ s[Server][j + 1].pc = "walk"
    <3>1. ServerStack(s[Server], tk)
      BY DEF StackSound
    <3>2. /\ i < Len(s[Server]) /\ s[Server][i + 1].pc = "walk"
          /\ j < Len(s[Server]) /\ s[Server][j + 1].pc = "walk"
      BY <2>1, <3>1 DEF ServerStack
    <3> QED BY <2>1, <1>1, <1>4, <3>2
  <2>3. Same(b[Server][i + 1], s[Server][i + 1]) /\ Same(b[Server][j + 1], s[Server][j + 1])
    BY <2>2, <1>1, <1>4
  <2>4. s[Server][i + 1].at = s[Server][j + 1].at
    BY <2>2, <2>3 DEF Same
  <2> QED BY <2>1, <2>4 DEF StackSound, OneFrameEach
<1>7. TopSound(b, tk, ls)
  BY <1>2, <1>4 DEF StackSound, TopSound, Holds, Spins
<1> QED BY <1>1, <1>2, <1>3, <1>5, <1>6, <1>7 DEF StackSound, Spins, b
-----------------------------------------------------------------------------
(* The steps of the network loop.                                          *)

(* With the lock free nobody is in the task code.                           *)
LEMMA LockFreeMeans ==
  ASSUME IInv, LockFree
  PROVE  /\ \A t \in Threads : ~Holds(stack, t) /\ ~Spins(stack, t)
         /\ \A a \in Addrs : InList(list, a) <=> task[a].state = "linked"
         /\ stack[Server] = <<>> \/ stack[Server][1].pc \in {"select", "handler"}
<1>1. \A t \in Threads : ~Holds(stack, t) /\ ~Spins(stack, t)
  BY DEF LockFree, Holds, Spins, Top, TopOf
<1>2. stack \in [Threads -> Seq(Frame)] /\ Server \in Threads
  BY DEF IInv, TypeOK, Threads
<1>3. stack[Server] = <<>> \/ stack[Server][1].pc \in {"select", "handler"}
  BY <1>1, <1>2, TopFrame DEF Holds, Frame
<1> QED BY <1>1, <1>3 DEF IInv, ListSound

(* What is under the top of the server's stack.                             *)
LEMMA UnderTop ==
  ASSUME NEW s, NEW tk, NEW ls, StackSound(s, tk, ls), s[Server] # <<>>
  PROVE  /\ Server \in Threads /\ s[Server][1] \in Frame
         /\ s[Server][1].pc # "handler" =>
              Pop(Server, s)[Server] = <<>> \/ Pop(Server, s)[Server][1].pc = "handler"
         /\ s[Server][1].pc = "handler" =>
              /\ Pop(Server, s)[Server] # <<>>
              /\ Pop(Server, s)[Server][1] = s[Server][2]
              /\ s[Server][2] \in Frame /\ s[Server][2].pc = "walk"
              /\ Executes(tk, s[Server][2].at, s[Server][1].id)
<1>1. s \in [Threads -> Seq(Frame)] /\ Server \in Threads
  BY DEF StackSound, Threads
<1>2. /\ Len(s[Server]) \in Nat /\ Len(s[Server]) > 0 /\ s[Server][1] \in Frame
      /\ \A i \in 1..Len(s[Server]) : s[Server][i] \in Frame
  BY <1>1, TopFrame
<1> DEFINE p == Pop(Server, s)
<1>3. /\ p \in [Threads -> Seq(Frame)] /\ Len(p[Server]) = Len(s[Server]) - 1
      /\ \A i \in 1..Len(s[Server]) - 1 : p[Server][i] = s[Server][i + 1]
  BY <1>1, PopStack
<1> HIDE DEF p
<1>4. p[Server] = <<>> <=> Len(s[Server]) = 1
  <2>1. p[Server] = <<>> <=> Len(p[Server]) = 0
    BY <1>1, <1>3, TopFrame, Zenon
  <2>2. Len(s[Server]) - 1 = 0 <=> Len(s[Server]) = 1
    BY <1>2
  <2> QED BY <1>3, <2>1, <2>2
<1>5. Len(s[Server]) > 1 => p[Server][1] = s[Server][2]
  BY <1>2, <1>3
<1>6. 1 \in 1..Len(s[Server]) /\ 1 + 1 = 2
  BY <1>2
<1>7. /\ s[Server][1].pc = "handler" =>
           /\ 1 < Len(s[Server]) /\ s[Server][2].pc = "walk"
           /\ Executes(tk, s[Server][2].at, s[Server][1].id)
      /\ s[Server][1].pc # "handler" /\ 1 < Len(s[Server]) => s[Server][2].pc = "handler"
  BY <1>6 DEF StackSound, ServerStack
<1>8. 1 < Len(s[Server]) => s[Server][2] \in Frame
  BY <1>2
<1>9. s[Server][1].pc # "handler" => p[Server] = <<>> \/ p[Server][1].pc = "handler"
  <2>1. CASE Len(s[Server]) = 1
    BY <1>4, <2>1
  <2>2. CASE Len(s[Server]) > 1
    <3>1. 1 < Len(s[Server]) /\ p[Server][1] = s[Server][2]
      BY <1>5, <2>2
    <3> QED BY <1>7, <3>1
  <2>3. Len(s[Server]) = 1 \/ Len(s[Server]) > 1
    <3> DEFINE n == Len(s[Server])
    <3>1. n \in Nat /\ n # 0
      BY <1>1, TopFrame
    <3> HIDE DEF n
    <3>2. n = 1 \/ n > 1
      BY <3>1
    <3> QED BY <3>2 DEF n
  <2> QED BY <2>1, <2>2, <2>3
<1>10. s[Server][1].pc = "handler" => p[Server] # <<>> /\ p[Server][1] = s[Server][2]
  BY <1>2, <1>4, <1>5, <1>7
<1> QED BY <1>1, <1>2, <1>7, <1>8, <1>9, <1>10 DEF p

(* Records that are in use stay in use.                                     *)
Keeps(tk, tk2) == \A a, id : Executes(tk, a, id) => Executes(tk2, a, id)

(* The server leaves what is not a handler.                                 *)
LEMMA PopSound ==
  ASSUME NEW s, NEW tk, NEW ls, StackSound(s, tk, ls), NEW tk2, NEW ls2, Keeps(tk, tk2),
         s[Server] # <<>>, s[Server][1].pc # "handler",
         Holds(s, Server) \/ \A t \in Threads : ~Holds(s, t)
  PROVE  /\ StackSound(Pop(Server, s), tk2, ls2)
         /\ \A t \in Threads : ~Holds(Pop(Server, s), t) /\ ~Spins(Pop(Server, s), t)
<1> DEFINE p == Pop(Server, s)
<1>1. s \in [Threads -> Seq(Frame)] /\ Server \in Threads /\ Server \notin Workers
  BY TaskAssumption DEF StackSound, Threads
<1>2. /\ p \in [Threads -> Seq(Frame)] /\ Len(p[Server]) = Len(s[Server]) - 1
      /\ Len(s[Server]) \in Nat
      /\ \A u \in Threads : u # Server => p[u] = s[u]
      /\ \A i \in 1..Len(s[Server]) - 1 : p[Server][i] = s[Server][i + 1]
  BY <1>1, PopStack
<1>3. p[Server] = <<>> \/ p[Server][1].pc = "handler"
  BY UnderTop
<1> HIDE DEF p
<1>4. \A t \in Workers : WorkerStack(p[t])
  BY <1>1, <1>2 DEF StackSound, Threads
<1>5. ServerStack(p[Server], tk2)
  <2> SUFFICES ASSUME NEW i \in 1..Len(p[Server])
               PROVE  /\ p[Server][i].pc = "spin" => i = 1
                      /\ p[Server][i].pc = "handler" =>
                           /\ i < Len(p[Server]) /\ p[Server][i + 1].pc = "walk"
                           /\ Executes(tk2, p[Server][i + 1].at, p[Server][i].id)
                      /\ p[Server][i].pc # "handler" /\ i < Len(p[Server]) =>
                           p[Server][i + 1].pc = "handler"
    BY DEF ServerStack
  <2> DEFINE j == i + 1
  <2>1. j \in 1..Len(s[Server]) /\ j # 1 /\ p[Server][i] = s[Server][j]
    BY <1>2
  <2>2. i < Len(p[Server]) <=> j < Len(s[Server])
    BY <1>2
  <2>3. i < Len(p[Server]) => p[Server][i + 1] = s[Server][j + 1]
    BY <1>2
  <2> HIDE DEF j
  <2>4. /\ s[Server][j].pc = "spin" => j = 1
        /\ s[Server][j].pc = "handler" =>
             /\ j < Len(s[Server]) /\ s[Server][j + 1].pc = "walk"
             /\ Executes(tk, s[Server][j + 1].at, s[Server][j].id)
        /\ s[Server][j].pc # "handler" /\ j < Len(s[Server]) =>
             s[Server][j + 1].pc = "handler"
    BY <2>1 DEF StackSound, ServerStack
  <2> QED BY <2>1, <2>2, <2>3, <2>4 DEF Keeps
<1>6. OneFrameEach(p[Server])
  <2> SUFFICES ASSUME NEW i \in 1..Len(p[Server]), NEW j \in 1..Len(p[Server]),
                      p[Server][i].pc = "handler", p[Server][j].pc = "handler",
                      p[Server][i + 1].at = p[Server][j + 1].at
               PROVE  i = j
    BY DEF OneFrameEach
  <2>1. i < Len(p[Server]) /\ j < Len(p[Server])
    BY <1>5 DEF ServerStack
  <2>2. /\ i + 1 \in 1..Len(s[Server]) /\ p[Server][i] = s[Server][i + 1]
        /\ p[Server][i + 1] = s[Server][(i + 1) + 1]
    BY <1>2, <2>1
  <2>3. /\ j + 1 \in 1..Len(s[Server]) /\ p[Server][j] = s[Server][j + 1]
        /\ p[Server][j + 1] = s[Server][(j + 1) + 1]
    BY <1>2, <2>1
  <2>4. i + 1 = j + 1
    BY <2>2, <2>3 DEF StackSound, OneFrameEach
  <2> QED BY <2>4
<1>7. \A t \in Threads : ~Holds(p, t) /\ ~Spins(p, t)
  <2>1. TAKE t \in Threads
  <2>2. CASE t = Server
    <3>1. TopOf(p, Server).pc \in {"idle", "handler"}
      BY <1>3 DEF TopOf
    <3> QED BY <2>2, <3>1 DEF Holds, Spins
  <2>3. CASE t # Server
    <3>1. ~Holds(s, t)
      BY <1>1, <2>3 DEF StackSound, TopSound
    <3> QED BY <1>2, <2>3, <3>1 DEF Holds, Spins, TopOf
  <2> QED BY <2>2, <2>3
<1>8. TopSound(p, tk2, ls2)
  BY <1>1, <1>7 DEF TopSound, Holds
<1> QED BY <1>2, <1>4, <1>5, <1>6, <1>7, <1>8 DEF StackSound, p

(* The walk begins, or goes on with another task.                           *)
LEMMA WalkFrameSound ==
  ASSUME NEW s, NEW tk, NEW ls, StackSound(s, tk, ls), NEW tk2, Keeps(tk, tk2),
         s[Server] # <<>>,
         \/ s[Server][1].pc = "walk"
         \/ s[Server][1].pc = "select" /\ \A t \in Threads : ~Holds(s, t),
         NEW f \in Frame, f.pc = "walk", f.at = Nobody \/ InList(ls, f.at)
  PROVE  /\ StackSound(Become(f, Server, s), tk2, ls)
         /\ \A t \in Threads : ~Spins(Become(f, Server, s), t) /\ ~Spins(s, t)
<1> DEFINE p == Become(f, Server, s)
<1>1. s \in [Threads -> Seq(Frame)] /\ Server \in Threads /\ Server \notin Workers
  BY TaskAssumption DEF StackSound, Threads
<1>2. /\ p \in [Threads -> Seq(Frame)] /\ Len(p[Server]) = Len(s[Server])
      /\ Len(s[Server]) \in Nat /\ p[Server] # <<>> /\ p[Server][1] = f
      /\ \A u \in Threads : u # Server => p[u] = s[u]
      /\ \A i \in 2..Len(s[Server]) : p[Server][i] = s[Server][i]
  BY <1>1, BecomeStack
<1> HIDE DEF p
<1>3. \A t \in Workers : WorkerStack(p[t])
  BY <1>1, <1>2 DEF StackSound, Threads
<1>4. ServerStack(p[Server], tk2)
  BY <1>2 DEF StackSound, ServerStack, Keeps
<1>5. OneFrameEach(p[Server])
  <2>1. OneFrameEach(s[Server]) /\ ServerStack(s[Server], tk)
    BY DEF StackSound
  <2>2. ASSUME NEW i \in 1..Len(p[Server]), p[Server][i].pc = "handler"
        PROVE  /\ i \in 1..Len(s[Server]) /\ s[Server][i].pc = "handler"
               /\ p[Server][i + 1] = s[Server][i + 1]
    <3>1. i # 1 /\ i \in 2..Len(s[Server])
      BY <1>2, <2>2
    <3>2. p[Server][i] = s[Server][i]
      BY <1>2, <3>1
    <3>3. i < Len(s[Server])
      BY <2>1, <2>2, <3>1, <3>2 DEF ServerStack
    <3>4. i + 1 \in 2..Len(s[Server])
      BY <1>2, <3>1, <3>3
    <3> QED BY <1>2, <2>2, <3>1, <3>2, <3>4
  <2> QED BY <2>1, <2>2 DEF OneFrameEach
<1>6. TopOf(p, Server).pc = "walk" /\ TopOf(s, Server).pc = s[Server][1].pc
  BY <1>1, <1>2 DEF TopOf
<1>7. \A t \in Threads : t # Server => ~Holds(p, t) /\ ~Holds(s, t)
  <2>1. TAKE t \in Threads
  <2>2. HAVE t # Server
  <2>3. ~Holds(s, t)
    BY <1>1, <1>6, <2>2 DEF StackSound, TopSound, Holds
  <2> QED BY <1>2, <2>2, <2>3 DEF Holds, TopOf
<1>8. \A t \in Threads : ~Spins(p, t) /\ ~Spins(s, t)
  BY <1>6, <1>7 DEF Spins, Holds
<1>9. TopSound(p, tk2, ls)
  BY <1>1, <1>2, <1>7, <1>8 DEF TopSound
<1> QED BY <1>2, <1>3, <1>4, <1>5, <1>8, <1>9 DEF StackSound, p

(* The frame of a removal that has unlinked a record that nobody executes.  *)
Unlinks(f, tk, ls) ==
  /\ f.pc = "spin"
  /\ tk[f.at].state = "linked" /\ tk[f.at].executing = Nobody /\ ~InList(ls, f.at)

Selects(f) == f.pc = "select"

(* A select call, or a removal by a handler, on top of the server's stack.  *)
LEMMA PushServer ==
  ASSUME NEW s, NEW tk, NEW ls, StackSound(s, tk, ls), NEW ls2,
         s[Server] = <<>> \/ s[Server][1].pc = "handler",
         \A t \in Threads : ~Holds(s, t),
         NEW f \in Frame,
         Selects(f) \/ Unlinks(f, tk, ls2)
  PROVE  StackSound(Push(f, Server, s), tk, ls2)
<1> DEFINE p == Push(f, Server, s)
<1>1. s \in [Threads -> Seq(Frame)] /\ Server \in Threads /\ Server \notin Workers
  BY TaskAssumption DEF StackSound, Threads
<1>2. /\ p \in [Threads -> Seq(Frame)] /\ Len(p[Server]) = Len(s[Server]) + 1
      /\ Len(s[Server]) \in Nat /\ p[Server] # <<>> /\ p[Server][1] = f
      /\ \A u \in Threads : u # Server => p[u] = s[u]
      /\ \A i \in 1..Len(s[Server]) : p[Server][i + 1] = s[Server][i]
  BY <1>1, PushStack
<1>3. s[Server] = <<>> <=> Len(s[Server]) = 0
  BY <1>1, TopFrame
<1> HIDE DEF p
<1>4. \A t \in Workers : WorkerStack(p[t])
  BY <1>1, <1>2 DEF StackSound, Threads
<1>5. \A i \in 2..Len(p[Server]) :
        /\ i - 1 \in 1..Len(s[Server]) /\ p[Server][i] = s[Server][i - 1]
        /\ i < Len(p[Server]) <=> i - 1 < Len(s[Server])
        /\ i < Len(p[Server]) => p[Server][i + 1] = s[Server][(i - 1) + 1]
  BY <1>2, Shifted
<1>6. ServerStack(p[Server], tk)
  <2> SUFFICES ASSUME NEW i \in 1..Len(p[Server])
               PROVE  /\ p[Server][i].pc = "spin" => i = 1
                      /\ p[Server][i].pc = "handler" =>
                           /\ i < Len(p[Server]) /\ p[Server][i + 1].pc = "walk"
                           /\ Executes(tk, p[Server][i + 1].at, p[Server][i].id)
                      /\ p[Server][i].pc # "handler" /\ i < Len(p[Server]) =>
                           p[Server][i + 1].pc = "handler"
    BY DEF ServerStack
  <2>1. CASE i = 1
    <3>1. 1 < Len(p[Server]) => p[Server][1 + 1] = s[Server][1]
      BY <1>2
    <3> QED BY <1>2, <1>3, <2>1, <3>1 DEF Selects, Unlinks
  <2>2. CASE i # 1
    <3> DEFINE j == i - 1
    <3>1. /\ j \in 1..Len(s[Server]) /\ p[Server][i] = s[Server][j]
          /\ i < Len(p[Server]) <=> j < Len(s[Server])
          /\ i < Len(p[Server]) => p[Server][i + 1] = s[Server][j + 1]
      BY <1>2, <1>5, <2>2
    <3>2. p[Server][i].pc # "spin"
      <4>1. ~Holds(s, Server)
        BY <1>1
      <4>2. j = 1 => s[Server][j].pc # "spin"
        BY <4>1, <3>1, <1>3 DEF Holds, TopOf
      <4> QED BY <3>1, <4>2 DEF StackSound, ServerStack
    <3> HIDE DEF j
    <3> QED BY <3>1, <3>2 DEF StackSound, ServerStack
  <2> QED BY <2>1, <2>2
<1>7. OneFrameEach(p[Server])
  <2> SUFFICES ASSUME NEW i \in 1..Len(p[Server]), NEW j \in 1..Len(p[Server]),
                      p[Server][i].pc = "handler", p[Server][j].pc = "handler",
                      p[Server][i + 1].at = p[Server][j + 1].at
               PROVE  i = j
    BY DEF OneFrameEach
  <2>1. i < Len(p[Server]) /\ j < Len(p[Server])
    BY <1>6 DEF ServerStack
  <2>2. i \in 2..Len(p[Server]) /\ j \in 2..Len(p[Server])
    BY <1>2 DEF Selects, Unlinks
  <2>3. /\ i - 1 \in 1..Len(s[Server]) /\ p[Server][i] = s[Server][i - 1]
        /\ p[Server][i + 1] = s[Server][(i - 1) + 1]
    BY <1>5, <2>1, <2>2
  <2>4. /\ j - 1 \in 1..Len(s[Server]) /\ p[Server][j] = s[Server][j - 1]
        /\ p[Server][j + 1] = s[Server][(j - 1) + 1]
    BY <1>5, <2>1, <2>2
  <2>5. i - 1 = j - 1
    BY <2>3, <2>4 DEF StackSound, OneFrameEach
  <2> QED BY <2>5
<1>8. TopOf(p, Server) = f
  BY <1>2, Zenon DEF TopOf
<1>9. \A t \in Threads : t # Server => ~Holds(p, t)
  BY <1>2 DEF Holds, TopOf
<1>10. TopSound(p, tk, ls2)
  <2>1. \A t \in Threads : Spins(p, t) => t = Server /\ f.pc = "spin"
    BY <1>8, <1>9 DEF Spins, Holds
  <2> QED BY <1>2, <1>8, <1>9, <2>1 DEF TopSound, Selects, Unlinks
<1> QED BY <1>2, <1>4, <1>6, <1>7, <1>10 DEF StackSound, p

(* A walk starts a handler.                                                 *)
LEMMA StartSound ==
  ASSUME NEW s, NEW tk, NEW ls, StackSound(s, tk, ls), NEW tk2,
         s[Server] # <<>>, s[Server][1].pc = "walk", NEW id, s[Server][1].at \in Addrs,
         tk[s[Server][1].at].executing = Nobody, Keeps(tk, tk2),
         Executes(tk2, s[Server][1].at, id), [pc |-> "handler", id |-> id] \in Frame
  PROVE  /\ StackSound(Push([pc |-> "handler", id |-> id], Server, s), tk2, ls)
         /\ \A t \in Threads : /\ ~Spins(Push([pc |-> "handler", id |-> id], Server, s), t)
                               /\ ~Spins(s, t)
<1> DEFINE f == [pc |-> "handler", id |-> id]
           p == Push(f, Server, s)
<1>1. s \in [Threads -> Seq(Frame)] /\ Server \in Threads /\ Server \notin Workers
  BY TaskAssumption DEF StackSound, Threads
<1>2. /\ p \in [Threads -> Seq(Frame)] /\ Len(p[Server]) = Len(s[Server]) + 1
      /\ Len(s[Server]) \in Nat /\ p[Server] # <<>> /\ p[Server][1] = f
      /\ \A u \in Threads : u # Server => p[u] = s[u]
      /\ \A i \in 1..Len(s[Server]) : p[Server][i + 1] = s[Server][i]
  BY <1>1, PushStack
<1>3. Len(s[Server]) > 0 /\ f.pc = "handler" /\ f.id = id
  BY <1>1, TopFrame
<1> HIDE DEF p, f
<1>4. \A t \in Workers : WorkerStack(p[t])
  BY <1>1, <1>2 DEF StackSound, Threads
<1>5. \A i \in 2..Len(p[Server]) :
        /\ i - 1 \in 1..Len(s[Server]) /\ p[Server][i] = s[Server][i - 1]
        /\ i < Len(p[Server]) <=> i - 1 < Len(s[Server])
        /\ i < Len(p[Server]) => p[Server][i + 1] = s[Server][(i - 1) + 1]
  BY <1>2, Shifted
<1>6. 1 < Len(p[Server]) /\ p[Server][1 + 1] = s[Server][1]
  BY <1>2, <1>3
<1>7. ServerStack(p[Server], tk2)
  <2> SUFFICES ASSUME NEW i \in 1..Len(p[Server])
               PROVE  /\ p[Server][i].pc = "spin" => i = 1
                      /\ p[Server][i].pc = "handler" =>
                           /\ i < Len(p[Server]) /\ p[Server][i + 1].pc = "walk"
                           /\ Executes(tk2, p[Server][i + 1].at, p[Server][i].id)
                      /\ p[Server][i].pc # "handler" /\ i < Len(p[Server]) =>
                           p[Server][i + 1].pc = "handler"
    BY DEF ServerStack
  <2>1. CASE i = 1
    BY <1>2, <1>3, <1>6, <2>1
  <2>2. CASE i # 1
    <3> i \in 2..Len(p[Server])
      BY <1>2, <2>2
    <3> DEFINE j == i - 1
    <3>1. /\ j \in 1..Len(s[Server]) /\ p[Server][i] = s[Server][j]
          /\ i < Len(p[Server]) <=> j < Len(s[Server])
          /\ i < Len(p[Server]) => p[Server][i + 1] = s[Server][j + 1]
      BY <1>5
    <3> HIDE DEF j
    <3> QED BY <3>1 DEF StackSound, ServerStack, Keeps
  <2> QED BY <2>1, <2>2
<1>8. ASSUME NEW i \in 2..Len(p[Server]), p[Server][i].pc = "handler"
      PROVE  p[Server][i + 1].at # s[Server][1].at
  <2>1. i - 1 \in 1..Len(s[Server]) /\ s[Server][i - 1].pc = "handler"
    BY <1>5, <1>8
  <2>2. i - 1 < Len(s[Server]) /\ Executes(tk, s[Server][(i - 1) + 1].at, s[Server][i - 1].id)
    BY <2>1 DEF StackSound, ServerStack
  <2>3. p[Server][i + 1] = s[Server][(i - 1) + 1]
    BY <1>5, <2>2
  <2>4. Server # Nobody
    BY TaskAssumption
  <2> QED BY <2>2, <2>3, <2>4 DEF Executes
<1>9. OneFrameEach(p[Server])
  <2> SUFFICES ASSUME NEW i \in 1..Len(p[Server]), NEW j \in 1..Len(p[Server]),
                      p[Server][i].pc = "handler", p[Server][j].pc = "handler",
                      p[Server][i + 1].at = p[Server][j + 1].at
               PROVE  i = j
    BY DEF OneFrameEach
  <2>1. i < Len(p[Server]) /\ j < Len(p[Server])
    BY <1>7 DEF ServerStack
  <2>2. CASE i = 1 \/ j = 1
    <3>1. p[Server][1 + 1].at = s[Server][1].at
      BY <1>6
    <3>2. ASSUME j # 1 PROVE FALSE
      <4>1. j \in 2..Len(p[Server]) /\ i = 1
        BY <1>2, <2>2, <3>2
      <4> QED BY <1>8, <3>1, <4>1
    <3>3. ASSUME i # 1 PROVE FALSE
      <4>1. i \in 2..Len(p[Server]) /\ j = 1
        BY <1>2, <2>2, <3>3
      <4> QED BY <1>8, <3>1, <4>1
    <3> QED BY <3>2, <3>3
  <2>3. CASE i # 1 /\ j # 1
    <3>1. i \in 2..Len(p[Server]) /\ j \in 2..Len(p[Server])
      BY <1>2, <2>3
    <3>2. /\ i - 1 \in 1..Len(s[Server]) /\ p[Server][i] = s[Server][i - 1]
          /\ p[Server][i + 1] = s[Server][(i - 1) + 1]
      BY <1>5, <2>1, <3>1
    <3>3. /\ j - 1 \in 1..Len(s[Server]) /\ p[Server][j] = s[Server][j - 1]
          /\ p[Server][j + 1] = s[Server][(j - 1) + 1]
      BY <1>5, <2>1, <3>1
    <3>4. i - 1 = j - 1
      BY <3>2, <3>3 DEF StackSound, OneFrameEach
    <3> QED BY <3>4
  <2> QED BY <2>2, <2>3
<1>10. TopOf(p, Server) = f /\ TopOf(s, Server) = s[Server][1]
  BY <1>2 DEF TopOf
<1>11. \A t \in Threads : t # Server => ~Holds(p, t) /\ ~Holds(s, t)
  <2>1. TAKE t \in Threads
  <2>2. HAVE t # Server
  <2>3. ~Holds(s, t)
    BY <1>1, <1>10, <2>2 DEF StackSound, TopSound, Holds
  <2> QED BY <1>2, <2>2, <2>3 DEF Holds, TopOf
<1>12. \A t \in Threads : ~Holds(p, t) /\ ~Spins(p, t) /\ ~Spins(s, t)
  BY <1>3, <1>10, <1>11 DEF Spins, Holds
<1>13. TopSound(p, tk2, ls)
  BY <1>1, <1>12 DEF TopSound, Holds
<1> QED BY <1>2, <1>4, <1>7, <1>9, <1>12, <1>13 DEF StackSound, p, f

(* A handler returns to the walk, which still has the record of its task.   *)
LEMMA ReturnSound ==
  ASSUME NEW s, NEW tk, NEW ls, StackSound(s, tk, ls), NEW tk2,
         s[Server] # <<>>, s[Server][1].pc = "handler",
         \A t \in Threads : ~Holds(s, t), InList(ls, s[Server][2].at),
         \A a \in Addrs : a # s[Server][2].at => tk2[a] = tk[a]
  PROVE  /\ StackSound(Pop(Server, s), tk2, ls)
         /\ TopOf(Pop(Server, s), Server) = s[Server][2]
         /\ \A t \in Threads : ~Spins(Pop(Server, s), t)
<1> DEFINE p == Pop(Server, s)
<1>1. s \in [Threads -> Seq(Frame)] /\ Server \in Threads /\ Server \notin Workers
  BY TaskAssumption DEF StackSound, Threads
<1>2. /\ p \in [Threads -> Seq(Frame)] /\ Len(p[Server]) = Len(s[Server]) - 1
      /\ Len(s[Server]) \in Nat /\ Len(s[Server]) > 0
      /\ \A u \in Threads : u # Server => p[u] = s[u]
      /\ \A i \in 1..Len(s[Server]) - 1 : p[Server][i] = s[Server][i + 1]
  BY <1>1, PopStack
<1>3. p[Server] # <<>> /\ p[Server][1] = s[Server][2] /\ s[Server][2].pc = "walk"
  BY UnderTop
<1> HIDE DEF p
<1>4. \A t \in Workers : WorkerStack(p[t])
  BY <1>1, <1>2 DEF StackSound, Threads
<1>5. ServerStack(p[Server], tk2)
  <2> SUFFICES ASSUME NEW i \in 1..Len(p[Server])
               PROVE  /\ p[Server][i].pc = "spin" => i = 1
                      /\ p[Server][i].pc = "handler" =>
                           /\ i < Len(p[Server]) /\ p[Server][i + 1].pc = "walk"
                           /\ Executes(tk2, p[Server][i + 1].at, p[Server][i].id)
                      /\ p[Server][i].pc # "handler" /\ i < Len(p[Server]) =>
                           p[Server][i + 1].pc = "handler"
    BY DEF ServerStack
  <2> DEFINE j == i + 1
  <2>1. j \in 1..Len(s[Server]) /\ j # 1 /\ 1 \in 1..Len(s[Server]) /\ p[Server][i] = s[Server][j]
    BY <1>2
  <2>2. i < Len(p[Server]) <=> j < Len(s[Server])
    BY <1>2
  <2>3. i < Len(p[Server]) => p[Server][i + 1] = s[Server][j + 1]
    BY <1>2
  <2> HIDE DEF j
  <2>4. /\ s[Server][j].pc = "spin" => j = 1
        /\ s[Server][j].pc = "handler" =>
             /\ j < Len(s[Server]) /\ s[Server][j + 1].pc = "walk"
             /\ Executes(tk, s[Server][j + 1].at, s[Server][j].id)
        /\ s[Server][j].pc # "handler" /\ j < Len(s[Server]) =>
             s[Server][j + 1].pc = "handler"
    BY <2>1 DEF StackSound, ServerStack
  <2>5. s[Server][j].pc = "handler" => s[Server][j + 1].at # s[Server][1 + 1].at
    BY <2>1 DEF StackSound, OneFrameEach
  <2>6. s[Server][j].pc = "handler" => Executes(tk2, s[Server][j + 1].at, s[Server][j].id)
    BY <2>4, <2>5 DEF Executes
  <2> QED BY <2>1, <2>2, <2>3, <2>4, <2>6
<1>6. OneFrameEach(p[Server])
  <2> SUFFICES ASSUME NEW i \in 1..Len(p[Server]), NEW j \in 1..Len(p[Server]),
                      p[Server][i].pc = "handler", p[Server][j].pc = "handler",
                      p[Server][i + 1].at = p[Server][j + 1].at
               PROVE  i = j
    BY DEF OneFrameEach
  <2>1. i < Len(p[Server]) /\ j < Len(p[Server])
    BY <1>5 DEF ServerStack
  <2>2. /\ i + 1 \in 1..Len(s[Server]) /\ p[Server][i] = s[Server][i + 1]
        /\ p[Server][i + 1] = s[Server][(i + 1) + 1]
    BY <1>2, <2>1
  <2>3. /\ j + 1 \in 1..Len(s[Server]) /\ p[Server][j] = s[Server][j + 1]
        /\ p[Server][j + 1] = s[Server][(j + 1) + 1]
    BY <1>2, <2>1
  <2>4. i + 1 = j + 1
    BY <2>2, <2>3 DEF StackSound, OneFrameEach
  <2> QED BY <2>4
<1>7. TopOf(p, Server) = s[Server][2]
  BY <1>3 DEF TopOf
<1>8. \A t \in Threads : t # Server => ~Holds(p, t)
  BY <1>2 DEF Holds, TopOf
<1>9. \A t \in Threads : ~Spins(p, t)
  BY <1>3, <1>7, <1>8 DEF Holds, Spins
<1>10. TopSound(p, tk2, ls)
  BY <1>3, <1>7, <1>8, <1>9 DEF TopSound
<1> QED BY <1>2, <1>4, <1>5, <1>6, <1>7, <1>9, <1>10 DEF StackSound, p

IdleIn(s, t) == s[t] = <<>>

(* A removal by a thread that is not in the network loop.                   *)
LEMMA PushWorker ==
  ASSUME NEW s, NEW tk, NEW ls, StackSound(s, tk, ls), NEW ls2, NEW t \in Workers,
         IdleIn(s, t), \A u \in Threads : ~Holds(s, u),
         NEW f \in Frame, Unlinks(f, tk, ls2)
  PROVE  StackSound(Push(f, t, s), tk, ls2)
<1> DEFINE p == Push(f, t, s)
<1>1. /\ s \in [Threads -> Seq(Frame)] /\ Server \in Threads /\ Server # t /\ t \in Threads
  BY TaskAssumption DEF StackSound, Threads
<1>2. /\ p \in [Threads -> Seq(Frame)] /\ Len(p[t]) = Len(s[t]) + 1
      /\ p[t] # <<>> /\ p[t][1] = f
      /\ \A u \in Threads : u # t => p[u] = s[u]
  BY <1>1, PushStack
<1> HIDE DEF p
<1> Len(p[t]) = 1
  <2>1. Len(s[t]) = 0
    BY DEF IdleIn
  <2> QED BY <1>2, <2>1
<1>3. \A u \in Workers : WorkerStack(p[u])
  <2>1. WorkerStack(p[t])
    BY <1>2 DEF WorkerStack, Unlinks
  <2> QED BY <1>2, <2>1 DEF StackSound, Threads
<1>4. ServerStack(p[Server], tk) /\ OneFrameEach(p[Server])
  BY <1>1, <1>2 DEF StackSound
<1>5. \A u \in Threads : u # t => ~Holds(p, u)
  BY <1>2 DEF Holds, TopOf
<1>6. TopOf(p, t) = f /\ ~Holds(p, Server) /\ f.pc = "spin"
  BY <1>1, <1>2, <1>5 DEF TopOf, Unlinks
<1>7. TopSound(p, tk, ls2)
  <2>1. \A u \in Threads : Spins(p, u) => u = t
    BY <1>5 DEF Spins, Holds
  <2> QED BY <1>2, <1>5, <1>6, <2>1 DEF TopSound, Holds, Unlinks
<1> QED BY <1>2, <1>3, <1>4, <1>7 DEF StackSound, p

LEMMA PopWorker ==
  ASSUME NEW s, NEW tk, NEW ls, StackSound(s, tk, ls), NEW tk2, NEW ls2, Keeps(tk, tk2),
         NEW t \in Workers, s[t] # <<>>, s[t][1].pc = "spin"
  PROVE  /\ StackSound(Pop(t, s), tk2, ls2)
         /\ \A u \in Threads : ~Spins(Pop(t, s), u)
<1> DEFINE p == Pop(t, s)
<1>1. /\ s \in [Threads -> Seq(Frame)] /\ Server \in Threads /\ Server # t /\ t \in Threads
      /\ Len(s[t]) \in Nat /\ Len(s[t]) <= 1
  BY TaskAssumption, TopFrame DEF StackSound, Threads, WorkerStack
<1>2. /\ p \in [Threads -> Seq(Frame)] /\ Len(p[t]) = Len(s[t]) - 1 /\ Len(s[t]) > 0
      /\ \A u \in Threads : u # t => p[u] = s[u]
  BY <1>1, PopStack
<1> HIDE DEF p
<1>3. Len(p[t]) = 0 /\ p[t] = <<>>
  BY <1>1, <1>2, TopFrame
<1>4. \A u \in Workers : WorkerStack(p[u])
  BY <1>2, <1>3 DEF StackSound, WorkerStack, Threads
<1>5. ServerStack(p[Server], tk2) /\ OneFrameEach(p[Server])
  <2>1. p[Server] = s[Server]
    BY <1>1, <1>2
  <2>2. ServerStack(s[Server], tk) /\ OneFrameEach(s[Server])
    BY DEF StackSound
  <2>3. ServerStack(s[Server], tk2)
    BY <2>2 DEF ServerStack, Keeps
  <2> QED BY <2>1, <2>2, <2>3
<1>6. TopOf(s, t).pc = "spin" /\ TopOf(p, t).pc = "idle"
  BY <1>3 DEF TopOf
<1>7. \A u \in Threads : ~Holds(p, u)
  <2>1. TAKE u \in Threads
  <2>2. CASE u = t
    BY <1>6, <2>2 DEF Holds
  <2>3. CASE u # t
    <3>1. ~Holds(s, u)
      BY <1>1, <1>6, <2>3 DEF StackSound, TopSound, Holds
    <3> QED BY <1>2, <2>3, <3>1 DEF Holds, TopOf
  <2> QED BY <2>2, <2>3
<1>8. TopSound(p, tk2, ls2)
  BY <1>1, <1>7 DEF TopSound, Holds, Spins
<1> QED BY <1>2, <1>4, <1>5, <1>7, <1>8 DEF StackSound, p, Holds, Spins

(* Records change under the feet of nobody.                                 *)
LEMMA KeepSound ==
  ASSUME NEW s, NEW tk, NEW ls, StackSound(s, tk, ls), NEW tk2, NEW ls2, Keeps(tk, tk2),
         \A t \in Threads : ~Holds(s, t)
  PROVE  StackSound(s, tk2, ls2)
<1>1. ServerStack(s[Server], tk2)
  BY DEF StackSound, ServerStack, Keeps
<1>2. TopSound(s, tk2, ls2)
  BY DEF TopSound, Holds, Spins, Threads
<1> QED BY <1>1, <1>2 DEF StackSound
-----------------------------------------------------------------------------
(* The type invariant.                                                     *)

LEMMA DeadlineType ==
  ASSUME TypeOK
  PROVE  Deadline \in Nat
<1>1. CASE list = <<>>
  BY <1>1, TaskAssumption DEF Deadline, Never
<1>2. CASE list # <<>> /\ Idle = {}
  BY <1>2, TaskAssumption DEF Deadline, TypeOK
<1>3. CASE list # <<>> /\ Idle # {}
  <2> DEFINE T == {task[list[i]].next : i \in Idle}
  <2>1. \A i \in Idle : task[list[i]].next \in Nat
    BY DEF TypeOK, Idle, Task
  <2>2. PICK n \in T : \A m \in T : n <= m
    BY <1>3, <2>1, LeastNat
  <2>3. \E i \in Idle : \A k \in Idle : task[list[i]].next <= task[list[k]].next
    BY <2>2
  <2> DEFINE j == CHOOSE i \in Idle : \A k \in Idle : task[list[i]].next <= task[list[k]].next
  <2>4. j \in Idle
    BY <2>3
  <2>5. Deadline = task[list[j]].next
    BY <1>3 DEF Deadline
  <2> HIDE DEF j
  <2> QED BY <2>1, <2>4, <2>5
<1> QED BY <1>1, <1>2, <1>3

(* The task after one that is in the list.                                  *)
LEMMA SuccessorInList ==
  ASSUME TypeOK, NEW a, InList(list, a)
  PROVE  Successor(a) = Nobody \/ (Successor(a) \in Addrs /\ InList(list, Successor(a)))
<1> DEFINE i == CHOOSE j \in DOMAIN list : list[j] = a
<1>1. i \in DOMAIN list /\ list[i] = a
  BY DEF InList
<1>2. /\ i = Len(list) => Successor(a) = Nobody
      /\ i # Len(list) => Successor(a) = list[i + 1]
  BY DEF Successor
<1> HIDE DEF i
<1>3. list \in Seq(Addrs) /\ DOMAIN list = 1..Len(list) /\ Len(list) \in Nat
  BY DEF TypeOK
<1>4. CASE i = Len(list)
  BY <1>2, <1>4, Zenon
<1>5. CASE i # Len(list)
  <2>1. i + 1 \in DOMAIN list
    BY <1>1, <1>3, <1>5
  <2>2. list[i + 1] \in Addrs /\ InList(list, list[i + 1])
    BY <1>3, <2>1 DEF InList
  <2> QED BY <1>2, <1>5, <2>2
<1> QED BY <1>4, <1>5

(* The steps of the walk: the server is at a record of the list.            *)
LEMMA WalkAt ==
  ASSUME IInv, Top(Server).pc = "walk"
  PROVE  /\ stack[Server] # <<>> /\ Top(Server) = stack[Server][1] /\ Top(Server) \in Frame
         /\ stack[Server][1].pc = "walk" /\ stack[Server][1].stale \in BOOLEAN
         /\ \A t \in Threads : ~Spins(stack, t) /\ (t # Server => ~Holds(stack, t))
         /\ Holds(stack, Server)
         /\ Top(Server).at # Nobody =>
              /\ Top(Server).at \in Addrs /\ InList(list, Top(Server).at)
              /\ task[Top(Server).at].state = "linked" /\ task[Top(Server).at] \in Task
<1>1. stack \in [Threads -> Seq(Frame)] /\ Server \in Threads
  BY DEF IInv, TypeOK, Threads
<1>2. stack[Server] # <<>> /\ Top(Server) = stack[Server][1] /\ TopOf(stack, Server) = Top(Server)
  BY DEF Top, TopOf
<1>3. Top(Server) \in Frame
  BY <1>1, <1>2, TopFrame
<1>4. Top(Server) \in [pc : {"walk"}, stale : BOOLEAN, at : Addrs \cup {Nobody}]
  BY <1>3 DEF Frame
<1>5. Holds(stack, Server)
  BY <1>2 DEF Holds
<1>6. \A t \in Threads : t # Server => ~Holds(stack, t)
  BY <1>1, <1>5 DEF IInv, StackSound, TopSound
<1>7. \A t \in Threads : ~Spins(stack, t)
  BY <1>2, <1>6 DEF Spins, Holds
<1>8. Top(Server).at # Nobody => InList(list, Top(Server).at)
  BY <1>1, <1>2 DEF IInv, StackSound, TopSound
<1>9. Top(Server).at # Nobody =>
        Top(Server).at \in Addrs /\ task[Top(Server).at].state = "linked"
  BY <1>4, <1>7, <1>8 DEF IInv, ListSound
<1> QED BY <1>2, <1>3, <1>4, <1>5, <1>6, <1>7, <1>8, <1>9 DEF IInv, TypeOK

LEMMA InitInv == Init => IInv
<1> SUFFICES ASSUME Init PROVE IInv
  OBVIOUS
<1>1. Server \in Threads
  BY DEF Threads
<1>2. /\ now \in 0..MaxTime /\ list \in Seq(Addrs) /\ adds \in 0..MaxAdds
      /\ pipe \in Nat /\ fault = FALSE /\ handles \subseteq [at : Addrs, id : 1..MaxAdds]
  BY TaskAssumption DEF Init
<1>3. Free \in Task
  BY TaskAssumption DEF Free, Task
<1>4. task \in [Addrs -> Task] /\ \A a \in Addrs : task[a] = Free
  BY <1>3 DEF Init
<1>5. stack \in [Threads -> Seq(Frame)] /\ \A t \in Threads : stack[t] = <<>> /\ Len(stack[t]) = 0
  BY DEF Init
<1>6. runs \in [1..MaxAdds -> [starts : Nat, removed : BOOLEAN]]
  BY DEF Init
<1>7. TypeOK
  BY <1>2, <1>4, <1>5, <1>6 DEF TypeOK
<1>8. FutureSound
  BY <1>2 DEF Init, FutureSound
<1>9. \A t \in Threads : ~Holds(stack, t) /\ ~Spins(stack, t)
  BY <1>5 DEF Holds, Spins, TopOf
<1>10. StackSound(stack, task, list)
  <2>1. \A t \in Workers : WorkerStack(stack[t])
    BY <1>5 DEF WorkerStack, Threads
  <2>2. ServerStack(stack[Server], task) /\ OneFrameEach(stack[Server])
    BY <1>1, <1>5 DEF ServerStack, OneFrameEach
  <2>3. TopSound(stack, task, list)
    BY <1>1, <1>9 DEF TopSound, Holds
  <2> QED BY <1>5, <2>1, <2>2, <2>3 DEF StackSound
<1>11. list = <<>> /\ \A a : ~InList(list, a)
  BY DEF Init, InList
<1>12. \A a \in Addrs : task[a].state = "free"
  BY <1>4 DEF Free
<1>13. ListSound(stack, task, list)
  BY <1>11, <1>12 DEF ListSound
<1>14. TasksSound(stack, task)
  BY <1>4, <1>12 DEF TasksSound
<1> QED BY <1>2, <1>7, <1>8, <1>10, <1>13, <1>14 DEF IInv, NoFault

(* The operations of the application.                                       *)

(* A task is added at an address that no record has.                        *)
LEMMA AddInv ==
  ASSUME IInv, NEW t \in Threads, Add(t)
  PROVE  IInv'
<1>1. LockFree /\ adds < MaxAdds /\ adds \in Nat /\ MaxAdds \in Nat
  BY TaskAssumption DEF Add, Calls, IInv, TypeOK
<1>2. PICK a \in Addrs, p \in Periods \cup {0} : \E d \in IF p = 0 THEN Delays ELSE {p} :
       /\ task[a].state = "free"
       /\ task' = [task EXCEPT ![a] =
                     [state |-> "linked", period |-> p, next |-> now + d,
                      executing |-> Nobody, id |-> adds + 1]]
       /\ list' = <<a>> \o list
       /\ handles' = handles \cup {[at |-> a, id |-> adds + 1]}
  BY DEF Add
<1>3. PICK d \in Nat :
       /\ task[a].state = "free"
       /\ task' = [task EXCEPT ![a] =
                     [state |-> "linked", period |-> p, next |-> now + d,
                      executing |-> Nobody, id |-> adds + 1]]
       /\ list' = <<a>> \o list
       /\ handles' = handles \cup {[at |-> a, id |-> adds + 1]}
  <2>1. p \in Nat /\ Delays \subseteq Nat
    BY TaskAssumption
  <2> QED BY <1>2, <2>1
<1>4. /\ adds' = adds + 1 /\ pipe' = pipe + 1
      /\ UNCHANGED <<now, stack, runs, fault>>
  BY DEF Add, Wake
<1> DEFINE r == [state |-> "linked", period |-> p, next |-> now + d,
                 executing |-> Nobody, id |-> adds + 1]
<1>5. r \in Task
  <2>1. p \in Nat /\ now + d \in Nat /\ adds + 1 \in 0..MaxAdds
    BY <1>1, TaskAssumption DEF IInv, TypeOK
  <2> QED BY <2>1 DEF Task
<1>6. /\ r.state = "linked" /\ r.executing = Nobody /\ r.id = adds + 1
  OBVIOUS
<1> HIDE DEF r
<1>7. task \in [Addrs -> Task] /\ task' = [task EXCEPT ![a] = r]
  BY <1>3 DEF IInv, TypeOK, r
<1>8. task' \in [Addrs -> Task] /\ task'[a] = r /\ \A b \in Addrs : b # a => task'[b] = task[b]
  BY <1>5, <1>7
<1>9. /\ list' \in Seq(Addrs) /\ Len(list) \in Nat /\ Len(list') = Len(list) + 1
      /\ list'[1] = a /\ \A i \in 1..Len(list) : list'[i + 1] = list[i]
      /\ list \in Seq(Addrs)
  BY <1>3, ConsProperties DEF IInv, TypeOK
<1>10. TypeOK'
  <2>1. [at |-> a, id |-> adds + 1] \in [at : Addrs, id : 1..MaxAdds]
    BY <1>1
  <2>2. handles' \subseteq [at : Addrs, id : 1..MaxAdds]
    BY <1>3, <2>1 DEF IInv, TypeOK
  <2> QED BY <1>1, <1>4, <1>8, <1>9, <2>2 DEF IInv, TypeOK
<1>11. /\ \A u \in Threads : ~Holds(stack, u) /\ ~Spins(stack, u)
       /\ \A b \in Addrs : InList(list, b) <=> task[b].state = "linked"
       /\ stack' = stack
  BY <1>1, <1>4, LockFreeMeans
<1>12. Keeps(task, task')
  BY <1>3, <1>8 DEF Keeps, Executes
<1>13. StackSound(stack', task', list')
  BY <1>11, <1>12, KeepSound DEF IInv
<1>14. \A i \in 2..Len(list') : i - 1 \in 1..Len(list) /\ list'[i] = list[i - 1]
  BY <1>9, Shifted
<1>15. ~InList(list, a)
  BY <1>3, <1>11
<1>16. \A b \in Addrs : InList(list', b) <=> b = a \/ InList(list, b)
  <2>1. TAKE b \in Addrs
  <2>2. ASSUME InList(list', b) PROVE b = a \/ InList(list, b)
    <3>1. PICK i \in 1..Len(list') : list'[i] = b
      BY <1>9, <2>2 DEF InList
    <3>2. CASE i = 1
      BY <1>9, <3>1, <3>2
    <3>3. CASE i # 1
      BY <1>9, <1>14, <3>1, <3>3 DEF InList
    <3> QED BY <3>2, <3>3
  <2>3. ASSUME b = a PROVE InList(list', b)
    BY <1>9, <2>3 DEF InList
  <2>4. ASSUME InList(list, b) PROVE InList(list', b)
    <3>1. PICK i \in 1..Len(list) : list[i] = b
      BY <1>9, <2>4 DEF InList
    <3>2. i + 1 \in DOMAIN list' /\ list'[i + 1] = b
      BY <1>9, <3>1
    <3> QED BY <3>2 DEF InList
  <2> QED BY <2>2, <2>3, <2>4
<1>17. ASSUME NEW i \in DOMAIN list', NEW j \in DOMAIN list', list'[i] = list'[j]
       PROVE  i = j
  <2>1. i \in 1..Len(list') /\ j \in 1..Len(list')
    BY <1>9
  <2>2. ASSUME NEW k \in 1..Len(list'), k # 1 PROVE list'[k] # a
    BY <1>9, <1>14, <1>15, <2>2 DEF InList
  <2>3. CASE i = 1 \/ j = 1
    BY <1>9, <1>17, <2>1, <2>2, <2>3
  <2>4. CASE i # 1 /\ j # 1
    <3>1. i - 1 = j - 1
      BY <1>9, <1>14, <1>17, <2>1, <2>4 DEF IInv, ListSound
    <3> QED BY <2>1, <3>1
  <2> QED BY <2>3, <2>4
<1>18. ListSound(stack', task', list')
  BY <1>6, <1>8, <1>11, <1>16, <1>17 DEF ListSound
<1>19. FutureSound'
  BY <1>1, <1>4 DEF IInv, FutureSound
<1>20. TasksSound(stack, task)'
  <2>1. \A b \in Addrs : b # a /\ task[b].state = "linked" => task[b].id \in 1..adds
    BY DEF IInv, TasksSound
  <2>2. runs[adds + 1] = [starts |-> 0, removed |-> FALSE]
    BY <1>1 DEF IInv, FutureSound
  <2> SUFFICES ASSUME NEW b \in Addrs
               PROVE  /\ task'[b].state = "free" => task'[b] = Free
                      /\ task'[b].state = "linked" =>
                         /\ task'[b].id \in 1..adds'
                         /\ \A c \in Addrs : task'[c].state = "linked"
                                              /\ task'[c].id = task'[b].id => b = c
                         /\ task'[b].period = 0 /\ task'[b].executing = Nobody =>
                              runs[task'[b].id].starts = 0
                         /\ ~runs[task'[b].id].removed
    BY <1>4 DEF TasksSound
  <2>3. CASE b = a
    BY <1>1, <1>4, <1>6, <1>8, <2>1, <2>2, <2>3
  <2>4. CASE b # a
    <3>1. task'[b] = task[b]
      BY <1>8, <2>4
    <3>2. task[b].state = "free" => task[b] = Free
      BY DEF IInv, TasksSound
    <3>3. task[b].state = "linked" =>
             /\ task[b].id \in 1..adds
             /\ \A c \in Addrs : task[c].state = "linked" /\ task[c].id = task[b].id => b = c
             /\ task[b].period = 0 /\ task[b].executing = Nobody => runs[task[b].id].starts = 0
             /\ ~runs[task[b].id].removed
      BY <1>11 DEF IInv, TasksSound
    <3> QED BY <1>1, <1>4, <1>6, <1>8, <2>4, <3>1, <3>2, <3>3
  <2> QED BY <2>3, <2>4
<1> QED BY <1>4, <1>10, <1>13, <1>18, <1>19, <1>20 DEF IInv, NoFault

(* The application removes no task while it runs.                            *)
OnlyWaiting == Removals = {"waiting"}

(* A task that waits is taken out of the list, and its thread is alone      *)
(* until it frees the record.                                               *)
LEMMA RemoveInv ==
  ASSUME IInv, OnlyWaiting, NEW t \in Threads, RemovePeriodic(t)
  PROVE  IInv'
<1>1. LockFree /\ Calls(t)
  BY DEF RemovePeriodic, Calls
<1>2. PICK h \in handles :
       /\ Removable(h, t)
       /\ handles' = handles \ {h}
       /\ runs' = [runs EXCEPT ![h.id].removed = TRUE]
       /\ list' = RemoveFirst(list, h.at)
       /\ stack' = Push([pc |-> "spin", at |-> h.at], t, stack)
  BY DEF RemovePeriodic, Unlinked
<1>3. UNCHANGED <<now, task, pipe, adds, fault>>
  BY DEF RemovePeriodic
<1> DEFINE a == h.at
           f == [pc |-> "spin", at |-> a]
<1>4. a \in Addrs /\ h.id \in 1..MaxAdds
  BY DEF IInv, TypeOK
<1> f \in Frame
  BY <1>4 DEF Frame
<1>5. f \in Frame /\ f.pc = "spin" /\ f.at = a
  BY <1>4 DEF Frame
<1>6. task[a].id = h.id /\ task[a].executing = Nobody
  BY <1>2 DEF Removable, OnlyWaiting
<1>7. /\ \A u \in Threads : ~Holds(stack, u) /\ ~Spins(stack, u)
      /\ \A b \in Addrs : InList(list, b) <=> task[b].state = "linked"
      /\ stack[Server] = <<>> \/ stack[Server][1].pc \in {"select", "handler"}
  BY <1>1, LockFreeMeans
<1>8. task[a].state = "linked"
  <2>1. task[a].state # "free"
    <3>1. ASSUME task[a].state = "free" PROVE FALSE
      <4>1. task[a].id = 0
        BY <1>4, <3>1 DEF IInv, TasksSound, Free
      <4> QED BY <1>4, <1>6, <4>1
    <3> QED BY <3>1
  <2> QED BY <1>4, <2>1 DEF IInv, TypeOK, Task
<1>9. /\ list' \in Seq(Addrs)
      /\ \A i, j \in DOMAIN list' : list'[i] = list'[j] => i = j
      /\ \A x : InList(list', x) <=> InList(list, x) /\ x # a
  <2>1. list \in Seq(Addrs) /\ \A i, j \in DOMAIN list : list[i] = list[j] => i = j
    BY DEF IInv, TypeOK, ListSound
  <2> QED BY <1>2, <2>1, RemoveFirstProperties
<1>10. Unlinks(f, task', list')
  BY <1>3, <1>5, <1>6, <1>8, <1>9 DEF Unlinks
<1>11. StackSound(stack, task', list)
  BY <1>3 DEF IInv
<1>12. stack' = Push(f, t, stack) /\ stack \in [Threads -> Seq(Frame)]
  BY <1>2 DEF IInv, TypeOK
<1> HIDE DEF a, f
<1>13. StackSound(stack', task', list')
  <2>1. CASE t = Server
    <3>1. stack[Server] = <<>> \/ stack[Server][1].pc = "handler"
      BY <1>1, <2>1, TaskAssumption DEF Calls, Top
    <3> QED BY <1>5, <1>7, <1>10, <1>11, <1>12, <2>1, <3>1, PushServer
  <2>2. CASE t # Server
    <3>1. t \in Workers
      BY <2>2 DEF Threads
    <3>2. IdleIn(stack, t)
      <4>1. ASSUME stack[t] # <<>> PROVE FALSE
        <5>1. /\ stack[t][1].pc = "spin" /\ TopOf(stack, t) = stack[t][1]
          BY <1>12, <3>1, <4>1, TopFrame DEF IInv, StackSound, WorkerStack
        <5> QED BY <1>7, <5>1 DEF Holds
      <4> QED BY <4>1 DEF IdleIn
    <3> QED BY <1>5, <1>7, <1>10, <1>11, <1>12, <3>1, <3>2, PushWorker
  <2> QED BY <2>1, <2>2
<1>14. /\ stack' \in [Threads -> Seq(Frame)] /\ stack'[t] # <<>> /\ stack'[t][1] = f
       /\ \A u \in Threads : u # t => stack'[u] = stack[u]
  <2> DEFINE p == Push(f, t, stack)
  <2>1. /\ p \in [Threads -> Seq(Frame)] /\ p[t] # <<>> /\ p[t][1] = f
        /\ \A u \in Threads : u # t => p[u] = stack[u]
    <3>1. stack \in [Threads -> Seq(Frame)]
      BY <1>12
    <3>2. f \in Frame
      OBVIOUS
    <3>3. p \in [Threads -> Seq(Frame)]
      BY <3>1, <3>2, PushStack
    <3>4. p[t] # <<>>
      BY <3>1, <3>2, PushStack
    <3>5. p[t][1] = f
      BY <3>1, <3>2, PushStack
    <3>6. \A u \in Threads : u # t => p[u] = stack[u]
      BY <3>1, <3>2, PushStack
    <3> QED BY <3>3, <3>4, <3>5, <3>6
  <2> HIDE DEF p
  <2>2. stack' = p
    BY <1>12 DEF p
  <2> QED BY <2>1, <2>2
<1>15. \A u \in Threads : Spins(stack', u) <=> u = t
  BY <1>5, <1>7, <1>14 DEF Spins, TopOf
<1>16. \A b \in Addrs : (\A u \in Threads : Spins(stack', u) => stack'[u][1].at # b) <=> b # a
  BY <1>5, <1>14, <1>15
<1>17. ListSound(stack', task', list')
  BY <1>3, <1>7, <1>9, <1>16 DEF ListSound
<1>18. /\ runs' \in [1..MaxAdds -> [starts : Nat, removed : BOOLEAN]]
       /\ \A i \in 1..MaxAdds : /\ i # h.id => runs'[i] = runs[i]
                                /\ runs'[i].starts = runs[i].starts
  BY <1>2, <1>4 DEF IInv, TypeOK
<1>19. h.id \in 1..adds
  BY <1>4, <1>6, <1>8 DEF IInv, TasksSound, a
<1>20. FutureSound'
  BY <1>3, <1>18, <1>19 DEF IInv, FutureSound, TypeOK
<1>21. TasksSound(stack, task)'
  <2> SUFFICES ASSUME NEW b \in Addrs
               PROVE  /\ task[b].state = "free" => task[b] = Free
                      /\ task[b].state = "linked" =>
                         /\ task[b].id \in 1..adds
                         /\ \A c \in Addrs : task[c].state = "linked"
                                              /\ task[c].id = task[b].id => b = c
                         /\ task[b].period = 0 /\ task[b].executing = Nobody =>
                              runs'[task[b].id].starts = 0
                         /\ (\A u \in Threads : Spins(stack', u) => stack'[u][1].at # b) =>
                              ~runs'[task[b].id].removed
    BY <1>3 DEF TasksSound
  <2>1. /\ task[b].state = "free" => task[b] = Free
        /\ task[b].state = "linked" =>
           /\ task[b].id \in 1..adds
           /\ \A c \in Addrs : task[c].state = "linked" /\ task[c].id = task[b].id => b = c
           /\ task[b].period = 0 /\ task[b].executing = Nobody => runs[task[b].id].starts = 0
           /\ ~runs[task[b].id].removed
    BY <1>7 DEF IInv, TasksSound
  <2>2. adds \in 0..MaxAdds /\ MaxAdds \in Nat
    BY TaskAssumption DEF IInv, TypeOK
  <2>3. task[b].state = "linked" => task[b].id \in 1..MaxAdds
    BY <2>1, <2>2
  <2>4. task[b].state = "linked" /\ b # a => task[b].id # h.id
    BY <1>4, <1>6, <1>8, <2>1 DEF a
  <2> QED BY <1>16, <1>18, <2>1, <2>3, <2>4
<1>22. TypeOK'
  BY <1>2, <1>3, <1>9, <1>14, <1>18 DEF IInv, TypeOK
<1> QED BY <1>3, <1>13, <1>17, <1>20, <1>21, <1>22 DEF IInv, NoFault

(* The record of a removed task is freed: nothing refers to it any more.    *)
LEMMA FreeInv ==
  ASSUME IInv, NEW t \in Threads, RemoveFrees(t)
  PROVE  IInv'
<1> DEFINE a == Top(t).at
           s == Pop(t, stack)
<1>1. /\ Top(t).pc = "spin" /\ task' = [task EXCEPT ![a] = Free] /\ stack' = Bumped(s)
      /\ UNCHANGED <<now, list, handles, pipe, adds, runs, fault>>
  BY DEF RemoveFrees
<1>2. stack \in [Threads -> Seq(Frame)] /\ Server \in Threads
  BY DEF IInv, TypeOK, Threads
<1>3. /\ stack[t] # <<>> /\ Top(t) = stack[t][1] /\ TopOf(stack, t) = Top(t)
      /\ stack[t][1] \in Frame /\ stack[t][1].pc = "spin"
  BY <1>1, <1>2, TopFrame DEF Top, TopOf
<1>4. a \in Addrs
  BY <1>3 DEF Frame
<1>5. Spins(stack, t) /\ Holds(stack, t) /\ \A u \in Threads : u # t => ~Spins(stack, u)
  <2>1. Spins(stack, t) /\ Holds(stack, t)
    BY <1>3 DEF Spins, Holds
  <2> QED BY <2>1 DEF IInv, StackSound, TopSound, Holds, Spins
<1>6. task[a].state = "linked" /\ task[a].executing = Nobody /\ ~InList(list, a)
  BY <1>3, <1>5 DEF IInv, StackSound, TopSound
<1> HIDE DEF a, s
<1>7. Free \in Task /\ Free.state = "free"
  BY TaskAssumption DEF Free, Task
<1>8. /\ task' \in [Addrs -> Task] /\ task'[a] = Free
      /\ \A b \in Addrs : b # a => task'[b] = task[b]
  BY <1>1, <1>4, <1>7 DEF IInv, TypeOK
<1>9. Keeps(task, task')
  BY <1>6, <1>8, TaskAssumption DEF Keeps, Executes
<1>10. StackSound(s, task', list') /\ \A u \in Threads : ~Spins(s, u)
  <2>1. StackSound(stack, task, list)
    BY DEF IInv
  <2>2. CASE t = Server
    <3>1. stack[Server][1].pc # "handler"
      BY <1>3, <2>2
    <3> QED BY <1>3, <1>5, <1>9, <2>1, <2>2, <3>1, PopSound DEF s
  <2>3. CASE t # Server
    <3>1. t \in Workers
      BY <2>3 DEF Threads
    <3> QED BY <1>3, <1>9, <2>1, <3>1, PopWorker DEF s
  <2> QED BY <2>2, <2>3
<1>11. StackSound(stack', task', list') /\ \A u \in Threads : ~Spins(stack', u)
  BY <1>1, <1>10, BumpSound
<1>12. \A b \in Addrs : (\A u \in Threads : Spins(stack, u) => stack[u][1].at # b) <=> b # a
  BY <1>3, <1>5 DEF a
<1>13. ListSound(stack', task', list')
  BY <1>1, <1>6, <1>7, <1>8, <1>11, <1>12 DEF IInv, ListSound
<1>14. TasksSound(stack, task)'
  <2> SUFFICES ASSUME NEW b \in Addrs
               PROVE  /\ task'[b].state = "free" => task'[b] = Free
                      /\ task'[b].state = "linked" =>
                         /\ task'[b].id \in 1..adds
                         /\ \A c \in Addrs : task'[c].state = "linked"
                                              /\ task'[c].id = task'[b].id => b = c
                         /\ task'[b].period = 0 /\ task'[b].executing = Nobody =>
                              runs[task'[b].id].starts = 0
                         /\ ~runs[task'[b].id].removed
    BY <1>1, <1>11 DEF TasksSound
  <2>1. CASE b = a
    BY <1>7, <1>8, <2>1
  <2>2. CASE b # a
    <3>1. task'[b] = task[b] /\ \A u \in Threads : Spins(stack, u) => stack[u][1].at # b
      BY <1>8, <1>12, <2>2
    <3>2. /\ task[b].state = "free" => task[b] = Free
          /\ task[b].state = "linked" =>
             /\ task[b].id \in 1..adds
             /\ \A c \in Addrs : task[c].state = "linked" /\ task[c].id = task[b].id => b = c
             /\ task[b].period = 0 /\ task[b].executing = Nobody => runs[task[b].id].starts = 0
             /\ ~runs[task[b].id].removed
      BY <3>1 DEF IInv, TasksSound
    <3> QED BY <1>7, <1>8, <2>2, <3>1, <3>2
  <2> QED BY <2>1, <2>2
<1>15. TypeOK'
  BY <1>1, <1>8, <1>11 DEF IInv, TypeOK, StackSound
<1>16. FutureSound'
  BY <1>1 DEF IInv, FutureSound
<1> QED BY <1>1, <1>11, <1>13, <1>14, <1>15, <1>16 DEF IInv, NoFault

(* Steps of the network loop that leave the list, the records and their     *)
(* history alone: they keep the invariant if they keep the stacks sound.    *)
LEMMA StackOnlyInv ==
  ASSUME IInv, UNCHANGED <<now, list, task, handles, adds, runs, fault>>, pipe' \in Nat,
         StackSound(stack', task, list),
         \A t \in Threads : Spins(stack', t) <=> Spins(stack, t),
         \A t \in Threads : Spins(stack, t) => stack'[t][1].at = stack[t][1].at
  PROVE  IInv'
<1>1. TypeOK'
  BY DEF IInv, TypeOK, StackSound
<1>2. FutureSound' /\ NoFault'
  BY DEF IInv, FutureSound, NoFault
<1>3. \A a \in Addrs : (\A t \in Threads : Spins(stack', t) => stack'[t][1].at # a)
                        <=> (\A t \in Threads : Spins(stack, t) => stack[t][1].at # a)
  OBVIOUS
<1>4. ListSound(stack, task, list)'
  BY <1>3 DEF IInv, ListSound
<1>5. TasksSound(stack, task)'
  BY <1>3 DEF IInv, TasksSound
<1>6. StackSound(stack, task, list)'
  OBVIOUS
<1> QED BY <1>1, <1>2, <1>4, <1>5, <1>6 DEF IInv

LEMMA KeepsItself == \A tk : Keeps(tk, tk)
BY DEF Keeps

LEMMA EnterInv ==
  ASSUME IInv, EnterSelect
  PROVE  IInv'
<1> DEFINE f == [pc |-> "select", until |-> Deadline, stale |-> FALSE]
<1>1. /\ LockFree /\ stack' = Push(f, Server, stack)
      /\ UNCHANGED <<now, list, task, handles, pipe, adds, runs, fault>>
  BY DEF EnterSelect
<1>2. f \in Frame
  BY DeadlineType DEF Frame, IInv
<1>3. Selects(f)
  BY DEF Selects
<1>4. stack[Server] = <<>> \/ stack[Server][1].pc = "handler"
  <2>1. stack[Server] = <<>> \/ stack[Server][1].pc \in {"select", "handler"}
    BY <1>1, LockFreeMeans
  <2> QED BY <2>1 DEF EnterSelect, Top
<1>5. /\ \A u \in Threads : ~Holds(stack, u) /\ ~Spins(stack, u)
      /\ stack \in [Threads -> Seq(Frame)] /\ Server \in Threads
      /\ StackSound(stack, task, list)
  BY <1>1, LockFreeMeans DEF IInv, TypeOK, Threads
<1> HIDE DEF f
<1>6. StackSound(stack', task, list)
  BY <1>1, <1>2, <1>3, <1>4, <1>5, PushServer
<1>7. /\ stack'[Server] # <<>> /\ stack'[Server][1] = f
      /\ \A u \in Threads : u # Server => stack'[u] = stack[u]
  BY <1>1, <1>2, <1>5, PushStack
<1>8. \A u \in Threads : ~Spins(stack', u)
  BY <1>3, <1>5, <1>7 DEF Spins, TopOf, Selects
<1> QED BY <1>1, <1>5, <1>6, <1>8, StackOnlyInv DEF IInv, TypeOK

LEMMA SelectInv ==
  ASSUME IInv, SelectReturns
  PROVE  IInv'
<1> DEFINE f == [pc |-> "walk", stale |-> FALSE, at |-> IF list = <<>> THEN Nobody ELSE list[1]]
<1>1. /\ Top(Server).pc = "select" /\ LockFree
      /\ UNCHANGED <<now, list, task, handles, adds, runs, fault>>
  BY DEF SelectReturns
<1>2. /\ \A u \in Threads : ~Holds(stack, u) /\ ~Spins(stack, u)
      /\ stack \in [Threads -> Seq(Frame)] /\ Server \in Threads
      /\ StackSound(stack, task, list) /\ Keeps(task, task)
  BY <1>1, LockFreeMeans, KeepsItself DEF IInv, TypeOK, Threads
<1>3. stack[Server] # <<>> /\ stack[Server][1].pc = "select"
  BY <1>1 DEF Top
<1>4. CASE Top(Server).stale
  <2>1. stack' = Pop(Server, stack) /\ pipe' = pipe
    BY <1>4 DEF SelectReturns
  <2>2. StackSound(stack', task, list) /\ \A t \in Threads : ~Spins(stack', t)
    BY <1>2, <1>3, <2>1, PopSound
  <2> QED BY <1>1, <1>2, <2>1, <2>2, StackOnlyInv DEF IInv, TypeOK
<1>5. CASE ~Top(Server).stale
  <2>1. stack' = Become(f, Server, stack) /\ pipe' = AfterRead
    BY <1>5 DEF SelectReturns
  <2>2. pipe' \in Nat
    BY <2>1 DEF AfterRead, IInv, TypeOK
  <2>3. list \in Seq(Addrs) /\ (list # <<>> => 1 \in DOMAIN list /\ list[1] \in Addrs)
    BY EmptySeq DEF IInv, TypeOK
  <2>4. f \in Frame
    BY <2>3 DEF Frame
  <2>5. f.pc = "walk" /\ (f.at = Nobody \/ InList(list, f.at))
    BY <2>3 DEF InList
  <2> HIDE DEF f
  <2>6. StackSound(stack', task, list) /\ \A t \in Threads : ~Spins(stack', t)
    BY <1>2, <1>3, <2>1, <2>4, <2>5, WalkFrameSound
  <2> QED BY <1>1, <1>2, <2>2, <2>6, StackOnlyInv
<1> QED BY <1>4, <1>5

LEMMA WalkEndsInv ==
  ASSUME IInv, WalkEnds
  PROVE  IInv'
<1> DEFINE s == Pop(Server, stack)
<1>1. /\ Top(Server).pc = "walk" /\ stack' = Bumped(s)
      /\ UNCHANGED <<now, list, task, handles, pipe, adds, runs, fault>>
  BY DEF WalkEnds
<1>2. /\ stack[Server] # <<>> /\ stack[Server][1].pc # "handler" /\ Holds(stack, Server)
      /\ \A t \in Threads : ~Spins(stack, t)
      /\ StackSound(stack, task, list) /\ Keeps(task, task)
  BY <1>1, WalkAt, KeepsItself DEF IInv
<1>3. StackSound(s, task, list) /\ \A t \in Threads : ~Spins(s, t)
  BY <1>2, PopSound
<1> HIDE DEF s
<1>4. StackSound(stack', task, list) /\ \A t \in Threads : ~Spins(stack', t)
  BY <1>1, <1>3, BumpSound
<1> QED BY <1>1, <1>2, <1>4, StackOnlyInv DEF IInv, TypeOK

LEMMA TickInv ==
  ASSUME IInv, Tick
  PROVE  IInv'
<1>1. /\ now' = now + 1 /\ now < MaxTime
      /\ UNCHANGED <<list, task, handles, pipe, stack, adds, runs, fault>>
  BY DEF Tick
<1>2. TypeOK'
  BY <1>1, TaskAssumption DEF IInv, TypeOK
<1>3. FutureSound' /\ NoFault'
  BY <1>1 DEF IInv, FutureSound, NoFault
<1>4. ListSound(stack, task, list)' /\ StackSound(stack, task, list)'
  BY <1>1 DEF IInv
<1>5. TasksSound(stack, task)'
  BY <1>1 DEF IInv, TasksSound
<1> QED BY <1>2, <1>3, <1>4, <1>5 DEF IInv

LEMMA NextTimeType ==
  ASSUME TypeOK, NEW a \in Addrs
  PROVE  NextTime(a) \in Nat
BY DEF TypeOK, Task, NextTime

(* Steps of the walk that touch one record and leave it with its task.      *)
LEMMA RecordInv ==
  ASSUME IInv, UNCHANGED <<now, list, handles, adds, fault>>, pipe' \in Nat,
         NEW a \in Addrs, NEW r \in Task, task' = [task EXCEPT ![a] = r],
         r.state = task[a].state, r.period = task[a].period, r.id = task[a].id,
         r.state = "linked",
         runs' \in [1..MaxAdds -> [starts : Nat, removed : BOOLEAN]],
         \A i \in 1..MaxAdds : /\ runs'[i].removed = runs[i].removed
                               /\ i # r.id => runs'[i] = runs[i],
         r.period = 0 /\ r.executing = Nobody => runs'[r.id].starts = 0,
         StackSound(stack', task', list),
         \A t \in Threads : ~Spins(stack', t) /\ ~Spins(stack, t)
  PROVE  IInv'
<1>1. /\ task' \in [Addrs -> Task] /\ task'[a] = r
      /\ \A b \in Addrs : b # a => task'[b] = task[b]
  BY DEF IInv, TypeOK
<1>2. TypeOK'
  BY <1>1 DEF IInv, TypeOK, StackSound
<1>3. adds \in Nat /\ MaxAdds \in Nat /\ adds <= MaxAdds
  BY TaskAssumption DEF IInv, TypeOK
<1>4. task[a].id \in 1..adds
  BY DEF IInv, TasksSound
<1>5. FutureSound'
  BY <1>3, <1>4 DEF IInv, FutureSound
<1>6. \A b \in Addrs : task'[b].state = task[b].state /\ task'[b].id = task[b].id
                        /\ task'[b].period = task[b].period
  BY <1>1
<1>7. ListSound(stack, task, list)'
  BY <1>6 DEF IInv, ListSound
<1>8. TasksSound(stack, task)'
  <2> SUFFICES ASSUME NEW b \in Addrs
               PROVE  /\ task'[b].state = "free" => task'[b] = Free
                      /\ task'[b].state = "linked" =>
                         /\ task'[b].id \in 1..adds
                         /\ \A c \in Addrs : task'[c].state = "linked"
                                              /\ task'[c].id = task'[b].id => b = c
                         /\ task'[b].period = 0 /\ task'[b].executing = Nobody =>
                              runs'[task'[b].id].starts = 0
                         /\ ~runs'[task'[b].id].removed
    BY DEF TasksSound
  <2>1. /\ task[b].state = "free" => task[b] = Free
        /\ task[b].state = "linked" =>
           /\ task[b].id \in 1..adds
           /\ \A c \in Addrs : task[c].state = "linked" /\ task[c].id = task[b].id => b = c
           /\ task[b].period = 0 /\ task[b].executing = Nobody => runs[task[b].id].starts = 0
           /\ ~runs[task[b].id].removed
    BY DEF IInv, TasksSound
  <2>2. task[b].state = "linked" => task[b].id \in 1..MaxAdds
    BY <1>3, <2>1
  <2>3. CASE b = a
    <3>1. task'[b] = r /\ task[b].state = "linked" /\ r.id \in 1..MaxAdds
      BY <1>1, <2>2, <2>3
    <3> QED BY <1>6, <2>1, <2>3, <3>1
  <2>4. CASE b # a
    <3>1. task'[b] = task[b]
      BY <1>1, <2>4
    <3>2. task[b].state = "linked" => task[b].id # r.id
      BY <2>1, <2>4
    <3> QED BY <1>6, <2>1, <2>2, <3>1, <3>2
  <2> QED BY <2>3, <2>4
<1>9. StackSound(stack, task, list)' /\ NoFault'
  BY DEF IInv, NoFault
<1> QED BY <1>2, <1>5, <1>7, <1>8, <1>9 DEF IInv

LEMMA PassInv ==
  ASSUME IInv, PassTask
  PROVE  IInv'
<1> DEFINE a == Top(Server).at
           r == IF Due(a) THEN [task[a] EXCEPT !.next = NextTime(a)] ELSE task[a]
<1>1. /\ Top(Server).pc = "walk" /\ a # Nobody
      /\ task' = IF Due(a) THEN [task EXCEPT ![a].next = NextTime(a)] ELSE task
      /\ UNCHANGED <<now, list, handles, pipe, adds, runs, fault>>
  BY DEF PassTask
<1>2. /\ stack[Server] # <<>> /\ Top(Server) = stack[Server][1] /\ Top(Server) \in Frame
      /\ stack[Server][1].pc = "walk" /\ stack[Server][1].stale \in BOOLEAN
      /\ \A t \in Threads : ~Spins(stack, t)
      /\ Holds(stack, Server)
      /\ a \in Addrs /\ InList(list, a) /\ task[a].state = "linked" /\ task[a] \in Task
  BY <1>1, WalkAt
<1>3. task \in [Addrs -> Task] /\ NextTime(a) \in Nat /\ StackSound(stack, task, list)
  BY <1>2, NextTimeType DEF IInv, TypeOK
<1>4. /\ r \in Task /\ r.state = "linked" /\ r.period = task[a].period
      /\ r.id = task[a].id /\ r.executing = task[a].executing
  BY <1>2, <1>3 DEF Task
<1>5. task' = [task EXCEPT ![a] = r]
  BY <1>1, <1>3
<1> HIDE DEF r
<1>6. Keeps(task, task')
  BY <1>2, <1>3, <1>4, <1>5 DEF Keeps, Executes
<1>7. StackSound(stack', task', list) /\ \A t \in Threads : ~Spins(stack', t)
  <2>1. CASE Top(Server).stale
    <3>1. stack' = Pop(Server, stack)
      BY <2>1 DEF PassTask
    <3>2. stack[Server][1].pc # "handler"
      BY <1>2
    <3> QED BY <1>2, <1>3, <1>6, <3>1, <3>2, PopSound
  <2>2. CASE ~Top(Server).stale
    <3> DEFINE f == [Top(Server) EXCEPT !.at = Successor(a)]
    <3>1. stack' = Become(f, Server, stack)
      BY <2>2 DEF PassTask
    <3>2. Successor(a) = Nobody \/ (Successor(a) \in Addrs /\ InList(list, Successor(a)))
      BY <1>2, SuccessorInList DEF IInv
    <3>3. f \in Frame /\ f.pc = "walk" /\ (f.at = Nobody \/ InList(list, f.at))
      BY <1>2, <3>2 DEF Frame
    <3> HIDE DEF f
    <3> QED BY <1>2, <1>3, <1>6, <3>1, <3>3, WalkFrameSound
  <2> QED BY <2>1, <2>2
<1>8. r.period = 0 /\ r.executing = Nobody => runs[r.id].starts = 0
  BY <1>2, <1>4 DEF IInv, TasksSound
<1> HIDE DEF a
<1> QED
  <2>1. runs' = runs /\ runs \in [1..MaxAdds -> [starts : Nat, removed : BOOLEAN]]
    BY <1>1 DEF IInv, TypeOK
  <2>2. pipe' \in Nat
    BY <1>1 DEF IInv, TypeOK
  <2>3. UNCHANGED <<now, list, handles, adds, fault>> /\ IInv
    BY <1>1
  <2>4. \A i \in 1..MaxAdds : runs'[i].removed = runs[i].removed /\ runs'[i] = runs[i]
    BY <2>1
  <2>5. /\ r.state = task[a].state /\ r.period = task[a].period /\ r.id = task[a].id
        /\ a \in Addrs /\ r \in Task
    BY <1>2, <1>4
  <2>6. r.period = 0 /\ r.executing = Nobody => runs'[r.id].starts = 0
    BY <1>8, <2>1
  <2>7. \A t \in Threads : ~Spins(stack', t) /\ ~Spins(stack, t)
    BY <1>2, <1>7
  <2> QED BY <1>4, <1>5, <1>7, <2>1, <2>2, <2>3, <2>4, <2>5, <2>6, <2>7, RecordInv, Zenon

LEMMA StartInv ==
  ASSUME IInv, StartTask
  PROVE  IInv'
<1> DEFINE a == Top(Server).at
           i == task[a].id
           r == [task[a] EXCEPT !.next = NextTime(a), !.executing = Server]
           f == [pc |-> "handler", id |-> i]
<1>1. /\ Top(Server).pc = "walk" /\ a # Nobody /\ task[a].executing = Nobody
      /\ task' = [task EXCEPT ![a].next = NextTime(a), ![a].executing = Server]
      /\ runs' = [runs EXCEPT ![i].starts = @ + 1]
      /\ stack' = Push(f, Server, stack)
      /\ UNCHANGED <<now, list, handles, pipe, adds, fault>>
  BY DEF StartTask, Starts
<1>2. /\ stack[Server] # <<>> /\ Top(Server) = stack[Server][1]
      /\ stack[Server][1].pc = "walk" /\ \A t \in Threads : ~Spins(stack, t)
      /\ a \in Addrs /\ task[a].state = "linked" /\ task[a] \in Task
  BY <1>1, WalkAt
<1>3. task \in [Addrs -> Task] /\ NextTime(a) \in Nat /\ StackSound(stack, task, list)
  BY <1>2, NextTimeType DEF IInv, TypeOK
<1>4. i \in 1..MaxAdds
  BY <1>2, TaskAssumption DEF IInv, TypeOK, TasksSound
<1>5. /\ r \in Task /\ r.state = "linked" /\ r.period = task[a].period
      /\ r.id = task[a].id /\ r.executing = Server
  BY <1>2, <1>3 DEF Task, Threads
<1>6. task' = [task EXCEPT ![a] = r]
  BY <1>1, <1>3
<1> HIDE DEF r
<1>7. task'[a] = r /\ \A b \in Addrs : b # a => task'[b] = task[b]
  BY <1>2, <1>3, <1>6
<1>8. Keeps(task, task')
  BY <1>1, <1>7, TaskAssumption DEF Keeps, Executes
<1>9. Executes(task', a, i)
  BY <1>2, <1>5, <1>7 DEF Executes
<1>10. f \in Frame
  BY <1>4 DEF Frame
<1>11. /\ runs' \in [1..MaxAdds -> [starts : Nat, removed : BOOLEAN]]
       /\ \A j \in 1..MaxAdds : /\ runs'[j].removed = runs[j].removed
                                /\ j # i => runs'[j] = runs[j]
  <2>1. runs \in [1..MaxAdds -> [starts : Nat, removed : BOOLEAN]]
    BY DEF IInv, TypeOK
  <2> HIDE DEF i
  <2>2. [runs[i] EXCEPT !.starts = @ + 1] \in [starts : Nat, removed : BOOLEAN]
        /\ [runs[i] EXCEPT !.starts = @ + 1].removed = runs[i].removed
    BY <1>4, <2>1
  <2>3. runs' = [runs EXCEPT ![i] = [runs[i] EXCEPT !.starts = @ + 1]]
    BY <1>1, <1>4, <2>1
  <2> QED BY <1>4, <2>1, <2>2, <2>3
<1>12. StackSound(stack', task', list) /\ \A t \in Threads : ~Spins(stack', t)
  <2>1. stack[Server][1].at \in Addrs /\ task[stack[Server][1].at].executing = Nobody
        /\ Executes(task', stack[Server][1].at, i)
    BY <1>1, <1>2, <1>9
  <2> HIDE DEF i, a
  <2> QED BY <1>1, <1>2, <1>3, <1>8, <1>10, <2>1, StartSound
<1> QED
  <2>1. pipe' \in Nat /\ r.executing # Nobody
    BY <1>1, <1>5, TaskAssumption DEF IInv, TypeOK
  <2>2. /\ runs' \in [1..MaxAdds -> [starts : Nat, removed : BOOLEAN]]
        /\ \A j \in 1..MaxAdds : /\ runs'[j].removed = runs[j].removed
                                 /\ j # r.id => runs'[j] = runs[j]
    BY <1>5, <1>11
  <2>3. /\ r.state = task[a].state /\ r.period = task[a].period /\ r.id = task[a].id
        /\ r \in Task /\ r.state = "linked"
    BY <1>2, <1>5
  <2> HIDE DEF a, i, f
  <2> QED BY <1>1, <1>2, <1>6, <1>12, <2>1, <2>2, <2>3, RecordInv

(* The record a handler returns to is the one its walk started.             *)
LEMMA ReturnInv ==
  ASSUME IInv, HandlerReturn
  PROVE  IInv'
<1> DEFINE id    == Top(Server).id
           below == Pop(Server, stack)
           a     == below[Server][1].at
<1>1. /\ Top(Server).pc = "handler" /\ LockFree
      /\ UNCHANGED <<now, handles, pipe, adds, runs>>
  BY DEF HandlerReturn
<1>2. /\ \A u \in Threads : ~Holds(stack, u) /\ ~Spins(stack, u)
      /\ \A b \in Addrs : InList(list, b) <=> task[b].state = "linked"
      /\ stack \in [Threads -> Seq(Frame)] /\ Server \in Threads
      /\ StackSound(stack, task, list)
  BY <1>1, LockFreeMeans DEF IInv, TypeOK, Threads
<1>3. stack[Server] # <<>> /\ Top(Server) = stack[Server][1] /\ stack[Server][1].pc = "handler"
  BY <1>1 DEF Top
<1>4. /\ below[Server] # <<>> /\ below[Server][1] = stack[Server][2]
      /\ stack[Server][2] \in Frame /\ stack[Server][2].pc = "walk"
      /\ Executes(task, stack[Server][2].at, stack[Server][1].id)
  BY <1>2, <1>3, UnderTop
<1>5. a \in Addrs /\ task[a].state = "linked" /\ task[a].id = id /\ task[a].executing = Server
  BY <1>3, <1>4 DEF Executes
<1>6. InList(list, a) /\ task[a] \in Task /\ task \in [Addrs -> Task] /\ a = stack[Server][2].at
  BY <1>2, <1>4, <1>5 DEF IInv, TypeOK
<1>7. \/ /\ task[a].period = 0 /\ list' = Unlinked(a) /\ task' = [task EXCEPT ![a] = Free]
         /\ stack' = Bumped(Pop(Server, below)) /\ UNCHANGED fault
      \/ /\ task[a].period # 0 /\ task' = [task EXCEPT ![a].executing = Nobody]
         /\ stack' = IF below[Server][1].stale THEN Pop(Server, below)
                     ELSE Become([below[Server][1] EXCEPT !.at = Successor(a)], Server, below)
         /\ UNCHANGED <<list, fault>>
  <2>1. task[a].id = id
    BY <1>5
  <2> QED BY <2>1 DEF HandlerReturn
<1>8. ASSUME NEW r, task' = [task EXCEPT ![a] = r]
      PROVE  /\ StackSound(below, task', list) /\ TopOf(below, Server) = stack[Server][2]
             /\ \A t \in Threads : ~Spins(below, t)
  <2>1. \A b \in Addrs : b # stack[Server][2].at => task'[b] = task[b]
    BY <1>6, <1>8
  <2>2. InList(list, stack[Server][2].at)
    BY <1>6
  <2> HIDE DEF below, a, id
  <2> QED BY <1>2, <1>3, <2>1, <2>2, ReturnSound DEF below
<1>9. below[Server][1] \in Frame /\ below[Server][1].pc = "walk"
  BY <1>4
<1> HIDE DEF below, id, a
<1>10. ASSUME NEW r, task' = [task EXCEPT ![a] = r]
       PROVE  Holds(below, Server)
  <2>1. TopOf(below, Server).pc = "walk"
    BY <1>4, <1>8, <1>10
  <2> QED BY <2>1 DEF Holds
<1>11. CASE /\ task[a].period = 0 /\ list' = Unlinked(a) /\ task' = [task EXCEPT ![a] = Free]
            /\ stack' = Bumped(Pop(Server, below)) /\ UNCHANGED fault
  <2>1. StackSound(below, task', list) /\ Holds(below, Server)
    BY <1>8, <1>10, <1>11
  <2>2. StackSound(Pop(Server, below), task', list')
        /\ \A t \in Threads : ~Spins(Pop(Server, below), t)
    <3>1. Keeps(task', task') /\ below[Server][1].pc # "handler"
      BY <1>9, KeepsItself
    <3> QED BY <1>4, <2>1, <3>1, PopSound
  <2>3. StackSound(stack', task', list') /\ \A t \in Threads : ~Spins(stack', t)
    BY <1>11, <2>2, BumpSound
  <2>4. Free \in Task /\ Free.state = "free"
    BY TaskAssumption DEF Free, Task
  <2>5. /\ task' \in [Addrs -> Task] /\ task'[a] = Free
        /\ \A b \in Addrs : b # a => task'[b] = task[b]
    BY <1>5, <1>6, <1>11, <2>4
  <2>6. /\ list' \in Seq(Addrs)
        /\ \A i, j \in DOMAIN list' : list'[i] = list'[j] => i = j
        /\ \A x : InList(list', x) <=> InList(list, x) /\ x # a
    <3>1. list \in Seq(Addrs) /\ \A i, j \in DOMAIN list : list[i] = list[j] => i = j
      BY DEF IInv, TypeOK, ListSound
    <3> QED BY <1>11, <3>1, RemoveFirstProperties DEF Unlinked
  <2>7. ListSound(stack', task', list')
    BY <1>2, <2>3, <2>4, <2>5, <2>6 DEF ListSound
  <2>8. TasksSound(stack, task)'
    <3> SUFFICES ASSUME NEW b \in Addrs
                 PROVE  /\ task'[b].state = "free" => task'[b] = Free
                        /\ task'[b].state = "linked" =>
                           /\ task'[b].id \in 1..adds
                           /\ \A c \in Addrs : task'[c].state = "linked"
                                                /\ task'[c].id = task'[b].id => b = c
                           /\ task'[b].period = 0 /\ task'[b].executing = Nobody =>
                                runs[task'[b].id].starts = 0
                           /\ ~runs[task'[b].id].removed
      BY <1>1, <2>3 DEF TasksSound
    <3>1. CASE b = a
      BY <2>4, <2>5, <3>1
    <3>2. CASE b # a
      <4>1. task'[b] = task[b]
        BY <2>5, <3>2
      <4>2. /\ task[b].state = "free" => task[b] = Free
            /\ task[b].state = "linked" =>
               /\ task[b].id \in 1..adds
               /\ \A c \in Addrs : task[c].state = "linked" /\ task[c].id = task[b].id => b = c
               /\ task[b].period = 0 /\ task[b].executing = Nobody =>
                    runs[task[b].id].starts = 0
               /\ ~runs[task[b].id].removed
        BY <1>2 DEF IInv, TasksSound
      <4> QED BY <2>4, <2>5, <3>2, <4>1, <4>2
    <3> QED BY <3>1, <3>2
  <2>9. TypeOK'
    BY <1>1, <1>11, <2>3, <2>5, <2>6 DEF IInv, TypeOK, StackSound
  <2>10. FutureSound' /\ NoFault'
    BY <1>1, <1>11 DEF IInv, FutureSound, NoFault
  <2> QED BY <2>3, <2>7, <2>8, <2>9, <2>10 DEF IInv
<1>12. CASE /\ task[a].period # 0 /\ task' = [task EXCEPT ![a].executing = Nobody]
            /\ stack' = IF below[Server][1].stale THEN Pop(Server, below)
                        ELSE Become([below[Server][1] EXCEPT !.at = Successor(a)], Server, below)
            /\ UNCHANGED <<list, fault>>
  <2> DEFINE r == [task[a] EXCEPT !.executing = Nobody]
  <2>1. task' = [task EXCEPT ![a] = r]
    BY <1>5, <1>6, <1>12
  <2>2. r \in Task /\ r.state = "linked" /\ r.period = task[a].period /\ r.id = task[a].id
    BY <1>5, <1>6 DEF Task
  <2> HIDE DEF r
  <2>3. StackSound(below, task', list) /\ Holds(below, Server) /\ Keeps(task', task')
    BY <1>8, <1>10, <2>1, KeepsItself
  <2>4. StackSound(stack', task', list') /\ \A t \in Threads : ~Spins(stack', t)
    <3>1. CASE below[Server][1].stale
      <4>1. stack' = Pop(Server, below) /\ below[Server][1].pc # "handler"
        BY <1>9, <1>12, <3>1
      <4> QED BY <1>4, <1>12, <2>3, <4>1, PopSound
    <3>2. CASE ~below[Server][1].stale
      <4> DEFINE f == [below[Server][1] EXCEPT !.at = Successor(a)]
      <4>1. stack' = Become(f, Server, below)
        BY <1>12, <3>2
      <4>2. Successor(a) = Nobody \/ (Successor(a) \in Addrs /\ InList(list, Successor(a)))
        BY <1>6, SuccessorInList DEF IInv
      <4>3. f \in Frame /\ f.pc = "walk" /\ (f.at = Nobody \/ InList(list, f.at))
        BY <1>9, <4>2 DEF Frame
      <4> HIDE DEF f
      <4> QED BY <1>4, <1>9, <1>12, <2>3, <4>1, <4>3, WalkFrameSound
    <3> QED BY <3>1, <3>2
  <2>5. /\ pipe' \in Nat /\ runs' = runs
        /\ runs \in [1..MaxAdds -> [starts : Nat, removed : BOOLEAN]]
    BY <1>1 DEF IInv, TypeOK
  <2>6. r.period # 0
    BY <1>12, <2>2
  <2>7. /\ \A i \in 1..MaxAdds : /\ runs'[i].removed = runs[i].removed
                                 /\ i # r.id => runs'[i] = runs[i]
        /\ runs' \in [1..MaxAdds -> [starts : Nat, removed : BOOLEAN]]
    BY <2>5
  <2>8. UNCHANGED <<now, list, handles, adds, fault>>
    BY <1>1, <1>12
  <2>9. r.state = task[a].state
    BY <1>5, <2>2
  <2> QED BY <1>2, <1>5, <2>1, <2>2, <2>4, <2>5, <2>6, <2>7, <2>8, <2>9, RecordInv
<1> QED BY <1>7, <1>11, <1>12
-----------------------------------------------------------------------------
(* The theorems.                                                           *)

LEMMA StepInv == OnlyWaiting /\ IInv /\ [Next]_vars => IInv'
<1> SUFFICES ASSUME OnlyWaiting, IInv, [Next]_vars PROVE IInv'
  OBVIOUS
<1>1. CASE EnterSelect
  BY <1>1, EnterInv
<1>2. CASE SelectReturns
  BY <1>2, SelectInv
<1>3. CASE PassTask
  BY <1>3, PassInv
<1>4. CASE StartTask
  BY <1>4, StartInv
<1>5. CASE HandlerReturn
  BY <1>5, ReturnInv
<1>6. CASE WalkEnds
  BY <1>6, WalkEndsInv
<1>7. CASE Tick
  BY <1>7, TickInv
<1>8. ASSUME NEW t \in Threads, Add(t) PROVE IInv'
  BY <1>8, AddInv
<1>9. ASSUME NEW t \in Threads, RemovePeriodic(t) PROVE IInv'
  BY <1>9, RemoveInv
<1>10. ASSUME NEW t \in Threads, RemoveFrees(t) PROVE IInv'
  BY <1>10, FreeInv
<1>11. CASE UNCHANGED vars
  BY <1>11 DEF vars, IInv, TypeOK, NoFault, FutureSound, TasksSound
<1> QED BY <1>1, <1>2, <1>3, <1>4, <1>5, <1>6, <1>7, <1>8, <1>9, <1>10, <1>11
        DEF Next, ServerStep

LEMMA InvSound == IInv => WalkSound
<1> SUFFICES ASSUME IInv PROVE WalkSound
  OBVIOUS
<1>1. list \in Seq(Addrs) /\ \A i \in DOMAIN list : list[i] \in Addrs
  BY DEF IInv, TypeOK
<1>2. \A a : a \in ToSet(list) <=> InList(list, a)
  BY DEF ToSet, InList
<1>3. \A t \in Threads : Spins(stack, t) <=> Top(t).pc = "spin"
  BY DEF Spins, TopOf, Top
<1>4. \A a \in Addrs : (\A t \in Threads : Spins(stack, t) => stack[t][1].at # a)
                   <=> a \notin {stack[t][1].at : t \in {u \in Threads : Top(u).pc = "spin"}}
  BY <1>3
<1>5. \A a : InList(list, a) => a \in Addrs
  BY <1>1 DEF InList
<1>6. \A a \in Addrs : InList(list, a) <=>
        task[a].state = "linked" /\ \A t \in Threads : Spins(stack, t) => stack[t][1].at # a
  BY DEF IInv, ListSound
<1>7. ToSet(list) = {a \in Addrs : task[a].state = "linked"} \
                    {stack[t][1].at : t \in {u \in Threads : Top(u).pc = "spin"}}
  BY <1>2, <1>4, <1>5, <1>6
<1>8. ListIsLive
  BY <1>7 DEF ListIsLive, IInv, ListSound
<1> QED BY <1>8 DEF WalkSound, IInv

(* The walk of the task list never reads a freed record, and the list holds *)
(* each live record once: whatever handlers add, remove or run in nested    *)
(* select calls, while other threads add and remove (socket_select,         *)
(* remove_periodic_task).                                                   *)
THEOREM WalkIsSound == OnlyWaiting => (Spec => []WalkSound)
<1> SUFFICES ASSUME OnlyWaiting PROVE Spec => []WalkSound
  OBVIOUS
<1>1. Init => IInv
  BY InitInv
<1>2. IInv /\ [Next]_vars => IInv'
  BY StepInv
<1>3. IInv => WalkSound
  BY InvSound
<1> QED BY <1>1, <1>2, <1>3, PTL DEF Spec

(* A task is not started after its removal, nor a delayed task twice.       *)
StartsInTime ==
  \A i \in 1..MaxAdds : runs'[i].starts > runs[i].starts =>
    /\ ~runs[i].removed
    /\ \A a \in Addrs : task[a].id = i /\ task[a].period = 0 => runs[i].starts = 0

LEMMA StepStarts == IInv /\ [Next]_vars => [StartsInTime]_vars
<1> SUFFICES ASSUME IInv, [Next]_vars PROVE StartsInTime
  OBVIOUS
<1>1. runs \in [1..MaxAdds -> [starts : Nat, removed : BOOLEAN]]
  BY DEF IInv, TypeOK
<1>2. CASE StartTask
  <2> DEFINE a == Top(Server).at
             i == task[a].id
  <2>1. /\ Top(Server).pc = "walk" /\ a # Nobody /\ task[a].executing = Nobody
        /\ runs' = [runs EXCEPT ![i].starts = @ + 1]
    BY <1>2 DEF StartTask, Starts
  <2>2. a \in Addrs /\ task[a].state = "linked" /\ \A t \in Threads : ~Spins(stack, t)
    BY <2>1, WalkAt
  <2>3. /\ \A b \in Addrs : task[b].state = "linked" /\ task[b].id = i => a = b
        /\ task[a].period = 0 => runs[i].starts = 0
        /\ ~runs[i].removed
    BY <2>1, <2>2 DEF IInv, TasksSound
  <2>4. \A b \in Addrs : task[b].id = i => b = a
    <3>1. i \in 1..adds
      BY <2>2 DEF IInv, TasksSound
    <3>2. ASSUME NEW b \in Addrs, task[b].id = i PROVE task[b].state = "linked"
      <4>1. task[b].state = "free" => task[b].id = 0
        BY DEF IInv, TasksSound, Free
      <4> QED BY <3>1, <3>2, <4>1 DEF IInv, TypeOK, Task
    <3> QED BY <2>3, <3>2
  <2> HIDE DEF a, i
  <2>5. \A j \in 1..MaxAdds : j # i => runs'[j].starts = runs[j].starts
    BY <1>1, <2>1
  <2>6. ASSUME NEW j \in 1..MaxAdds, runs'[j].starts > runs[j].starts
        PROVE  j = i
    <3>1. runs[j].starts \in Nat
      BY <1>1
    <3> QED BY <2>5, <2>6, <3>1
  <2> QED BY <2>3, <2>4, <2>6 DEF StartsInTime
<1>3. ASSUME NEW t \in Threads, RemovePeriodic(t) PROVE StartsInTime
  <2>1. PICK h \in handles : runs' = [runs EXCEPT ![h.id].removed = TRUE]
    BY <1>3 DEF RemovePeriodic
  <2>2. \A j \in 1..MaxAdds : runs'[j].starts = runs[j].starts /\ runs[j].starts \in Nat
    BY <1>1, <2>1
  <2> QED BY <2>2 DEF StartsInTime
<1>4. ASSUME runs' = runs PROVE StartsInTime
  BY <1>1, <1>4 DEF StartsInTime
<1> QED BY <1>2, <1>3, <1>4 DEF Next, ServerStep, vars, EnterSelect, SelectReturns, PassTask,
           HandlerReturn, WalkEnds, Tick, Add, RemoveFrees

(* A task does not start after remove_periodic returned, and a delayed task *)
(* not a second time from the select loop of its own handler.               *)
THEOREM TasksStartInTime == OnlyWaiting => (Spec => NoLateStart)
<1> SUFFICES ASSUME OnlyWaiting PROVE Spec => NoLateStart
  OBVIOUS
<1>1. Init => IInv
  BY InitInv
<1>2. IInv /\ [Next]_vars => IInv'
  BY StepInv
<1>3. IInv /\ [Next]_vars => [StartsInTime]_vars
  BY StepStarts
<1>4. Spec => [][StartsInTime]_vars
  BY <1>1, <1>2, <1>3, PTL DEF Spec
<1> QED BY <1>4 DEF NoLateStart, StartsInTime
=============================================================================
