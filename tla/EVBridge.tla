------------------------------ MODULE EVBridge ------------------------------
(***************************************************************************)
(* Bridge stones (evp.c): the loop that sends the events of a stone over   *)
(* its connection, which it makes on first use, and the close handler that *)
(* takes the connection away.  The bridges of one CManager lead to one     *)
(* peer and share its connections.                                         *)
(*                                                                         *)
(* A thread holds the CManager lock except while it connects, waits for a  *)
(* pending write, sleeps in EVdrain_stone or is about to enter a close     *)
(* handler.  The steps of a call are written one by one, but another       *)
(* thread gets in only there.                                              *)
(*                                                                         *)
(* Simplifications: connections are those of CMConn with the handshake     *)
(* left out, a write is accepted as a whole (see CMWrite), backpressure is *)
(* off, events that are transferred go to a stone of another kind.         *)
(***************************************************************************)
EXTENDS Integers, Sequences, FiniteSets, SequencesExt

CONSTANTS
  Apps,        \* threads of the application
  Net,         \* the thread that polls the network and runs the tasks
  Stones,      \* the bridge stones, numbered from 1
  Conns,       \* connection structures that can be allocated
  Programs,
  MaxEvents,   \* bound on the events submitted
  None

Threads == Apps \cup {Net}

Calls == {"freeze", "unfreeze", "drain", "transfer", "share", "unshare"}

ASSUME BridgeAssumption ==
  /\ Net \notin Apps /\ None \notin Conns
  /\ Cardinality(Stones) \in Nat /\ Stones = 1 .. Cardinality(Stones)
  /\ Conns # {} /\ MaxEvents \in Nat
  /\ \A p \in Programs :
       /\ p.usage \subseteq Calls /\ p.calls \in Nat
       /\ p.mortal \in BOOLEAN   \* the peer may die
       /\ p.blocks \in BOOLEAN   \* a write may be left pending
       /\ p.open \in BOOLEAN     \* the application connected first, and keeps
                                 \* its reference unless usage has "unshare"

VARIABLES
  program,
  submitted,    \* events submitted so far
  calls,        \* the other calls made so far
  queue,        \* number of events in each stone's queue
  outputting,   \* stone->is_outputting
  conn,         \* act->o.bri.conn
  connFailed,   \* act->o.bri.conn_failed
  frozen,
  draining,     \* stone->is_draining: 0, 1 while it drains, 2 afterwards
  conns,        \* the connections
  inGetConn,    \* evp->in_get_conn
  delayPending, \* evp->delay_task_pending
  tasks,        \* deferred_process_actions tasks that are due
  shared,       \* the connection the application has a reference to
  alive,        \* the peer is
  stack,        \* the calls each thread is in, innermost last
  lock,         \* who holds the CManager lock
  sent,         \* events each stone wrote
  discarded     \* stones that discarded an event

bridges == <<queue, outputting, conn, connFailed, frozen, draining>>
deferral == <<inGetConn, delayPending, tasks>>
input == <<program, submitted, calls, shared, alive>>
outcome == <<sent, discarded>>
vars == <<bridges, deferral, input, outcome, conns, stack, lock>>

Unused ==
  [used |-> FALSE, refs |-> 0, listed |-> FALSE, closed |-> FALSE, failed |-> FALSE,
   pending |-> FALSE, hooks |-> <<>>]

(* One reference for the transport, one for the list, one for who asked.   *)
Opened == [Unused EXCEPT !.used = TRUE, !.listed = TRUE, !.refs = 3]

First == CHOOSE c \in Conns : TRUE

Init ==
  /\ program \in Programs
  /\ submitted = 0 /\ calls = 0
  /\ queue = [s \in Stones |-> 0]
  /\ outputting = [s \in Stones |-> FALSE]
  /\ conn = [s \in Stones |-> None]
  /\ connFailed = [s \in Stones |-> FALSE]
  /\ frozen = [s \in Stones |-> FALSE]
  /\ draining = [s \in Stones |-> 0]
  /\ conns = [c \in Conns |-> IF program.open /\ c = First THEN Opened ELSE Unused]
  /\ shared = IF program.open THEN First ELSE None
  /\ inGetConn = 0 /\ delayPending = FALSE /\ tasks = 0
  /\ alive = TRUE
  /\ stack = [t \in Threads |-> <<>>] /\ lock = None
  /\ sent = [s \in Stones |-> 0] /\ discarded = {}

---------------------------------------------------------------------------
Frame(at, s, c) == [at |-> at, stone |-> s, conn |-> c, hooks |-> <<>>]

Top(t) == Last(stack[t])

In(t, at) == stack[t] # <<>> /\ Top(t).at = at

Goto(t, frame) == stack' = [stack EXCEPT ![t] = Append(Front(@), frame)]

(* The thread that holds the lock, in a step that keeps it.                *)
Running(t, at) == lock = t /\ In(t, at) /\ lock' = t

(* A thread that gets the lock, and keeps it.                              *)
Acquires(t, at) == lock = None /\ In(t, at) /\ lock' = t

(* CMConnection_dereference, and CMConnection_close.                       *)
Dereference(cs, c) == [cs EXCEPT ![c].refs = @ - 1]

Close(cs, c) == Dereference([cs EXCEPT ![c].closed = TRUE], c)

(* The first half of CMConnection_failed: who waits for a pending write is *)
(* told, and the transport lets go.                                        *)
Break(cs, c) ==
  Dereference([cs EXCEPT ![c].failed = TRUE, ![c].pending = FALSE, ![c].hooks = <<>>], c)

(* Its end: the connection leaves the list.                                *)
Unlist(cs, c) ==
  Dereference([cs EXCEPT ![c].closed = TRUE, ![c].listed = FALSE], c)

Closing(c) == [Frame("closing", None, c) EXCEPT !.hooks = conns[c].hooks]

Usable == {c \in Conns : conns[c].used /\ ~conns[c].closed /\ ~conns[c].failed}

---------------------------------------------------------------------------
(* A pass of process_local_actions over the bridges, in stone order.       *)

NextStone(s) == Frame("pass", s + 1, None)

PassEnds(t) ==
  /\ lock = t /\ In(t, "pass") /\ Top(t).stone > Cardinality(Stones)
  /\ stack' = [stack EXCEPT ![t] = Front(@)]
  /\ lock' = None
  /\ UNCHANGED <<bridges, deferral, input, outcome, conns>>

(* Fault: a stone whose events are being sent is not left alone.           *)
HeldDespiteOutput(s) ==
  queue[s] = 0 \/ draining[s] = 2 \/ frozen[s]

(* process_events_stone and do_bridge_action return at once.               *)
Held(s) == queue[s] = 0 \/ draining[s] = 2 \/ frozen[s] \/ outputting[s]

(* do_bridge_action while another stone connects: a task is to come back.  *)
Defers(s) == ~Held(s) /\ inGetConn > 0

Skip(t, s) ==
  /\ Running(t, "pass") /\ Top(t).stone = s
  /\ Held(s) \/ Defers(s)
  /\ Goto(t, NextStone(s))
  /\ delayPending' = (delayPending \/ Defers(s))
  /\ tasks' = IF Defers(s) /\ ~delayPending THEN tasks + 1 ELSE tasks
  /\ UNCHANGED <<bridges, inGetConn, input, outcome, conns>>

Starts(t, s) ==
  /\ lock = t /\ In(t, "pass") /\ Top(t).stone = s
  /\ ~Held(s) /\ ~Defers(s)
  /\ outputting' = [outputting EXCEPT ![s] = TRUE]

(* The connection failed before: the stone is given up, is_outputting set. *)
StartGivesUp(t, s) ==
  /\ Starts(t, s) /\ connFailed[s]
  /\ Goto(t, NextStone(s)) /\ lock' = t
  /\ UNCHANGED <<queue, conn, connFailed, frozen, draining, deferral, input, outcome, conns>>

StartSends(t, s) ==
  /\ Starts(t, s) /\ ~connFailed[s] /\ conn[s] # None
  /\ Goto(t, Frame("loop", s, None)) /\ lock' = t
  /\ UNCHANGED <<queue, conn, connFailed, frozen, draining, deferral, input, outcome, conns>>

(* CMget_conn finds a connection to the peer.                              *)
StartFinds(t, s) ==
  /\ Starts(t, s) /\ ~connFailed[s] /\ conn[s] = None
  /\ \E c \in Usable :
       /\ conns' = [conns EXCEPT ![c].refs = @ + 1, ![c].hooks = Append(@, s)]
       /\ conn' = [conn EXCEPT ![s] = c]
  /\ Goto(t, Frame("loop", s, None)) /\ lock' = t
  /\ UNCHANGED <<queue, connFailed, frozen, draining, deferral, input, outcome>>

(* It finds none, and connects without the lock.                           *)
StartConnects(t, s) ==
  /\ Starts(t, s) /\ ~connFailed[s] /\ conn[s] = None /\ Usable = {}
  /\ inGetConn' = inGetConn + 1
  /\ Goto(t, Frame("connecting", s, None)) /\ lock' = None
  /\ UNCHANGED <<queue, conn, connFailed, frozen, draining, delayPending, tasks, input, outcome, conns>>

(* The new connection has failed already if the peer died meanwhile.       *)
Connected(t) ==
  /\ Acquires(t, "connecting")
  /\ \E c \in Conns :
       /\ ~conns[c].used
       /\ conns' = [conns EXCEPT ![c] =
            IF alive THEN [Opened EXCEPT !.hooks = <<Top(t).stone>>]
            ELSE [Unused EXCEPT !.used = TRUE, !.refs = 1, !.closed = TRUE, !.failed = TRUE]]
       /\ conn' = [conn EXCEPT ![Top(t).stone] = c]
  /\ Goto(t, Frame("loop", Top(t).stone, None))
  /\ inGetConn' = inGetConn - 1
  /\ UNCHANGED <<queue, outputting, connFailed, frozen, draining, delayPending, tasks, input, outcome>>

(* Fault: a connection that cannot be made is taken for one that is there. *)
ConnectFailureIgnored(t) ==
  /\ Acquires(t, "connecting")
  /\ ~alive \/ \A c \in Conns : conns[c].used
  /\ inGetConn' = inGetConn - 1
  /\ Goto(t, Frame("loop", Top(t).stone, None))
  /\ UNCHANGED <<bridges, delayPending, tasks, input, outcome, conns>>

(* The events stay in the queue, and is_outputting stays set.              *)
ConnectFails(t) ==
  /\ Acquires(t, "connecting")
  /\ ~alive \/ \A c \in Conns : conns[c].used
  /\ inGetConn' = inGetConn - 1
  /\ Goto(t, NextStone(Top(t).stone))
  /\ UNCHANGED <<bridges, delayPending, tasks, input, outcome, conns>>

---------------------------------------------------------------------------
(* The loop over the queue of a stone.                                     *)

Loops(t, s) == Running(t, "loop") /\ Top(t).stone = s

Takes(t, s) ==
  /\ Loops(t, s) /\ queue[s] > 0
  /\ queue' = [queue EXCEPT ![s] = @ - 1]

Blocked(c) == conns[c].pending /\ ~conns[c].closed

LoopEnds(t, s) ==
  /\ Loops(t, s) /\ queue[s] = 0
  /\ outputting' = [outputting EXCEPT ![s] = FALSE]
  /\ Goto(t, NextStone(s))
  /\ UNCHANGED <<queue, conn, connFailed, frozen, draining, deferral, input, outcome, conns>>

LoopWaits(t, s) ==
  /\ lock = t /\ In(t, "loop") /\ Top(t).stone = s
  /\ queue[s] > 0 /\ conn[s] # None /\ Blocked(conn[s])
  /\ Goto(t, Frame("blocked", s, conn[s])) /\ lock' = None
  /\ UNCHANGED <<bridges, deferral, input, outcome, conns>>

(* wait_for_pending_write is over.  If the queue was emptied meanwhile the *)
(* stone is left with is_outputting set.                                   *)
Unblocked(t) ==
  /\ Acquires(t, "blocked")
  /\ ~conns[Top(t).conn].pending \/ (t = Net /\ conns[Top(t).conn].closed)
  /\ Goto(t, IF queue[Top(t).stone] = 0 THEN NextStone(Top(t).stone)
             ELSE Frame("loop", Top(t).stone, None))
  /\ UNCHANGED <<bridges, deferral, input, outcome, conns>>

(* The connection was lost while the loop ran.                             *)
LoopDiscards(t, s) ==
  /\ Takes(t, s) /\ conn[s] = None
  /\ discarded' = discarded \cup {s}
  /\ UNCHANGED <<outputting, conn, connFailed, frozen, draining, deferral, input, sent, conns, stack>>

(* A write to a dead peer may be accepted too.                             *)
LoopSends(t, s) ==
  /\ Takes(t, s) /\ conn[s] \in Usable /\ ~Blocked(conn[s])
  /\ sent' = [sent EXCEPT ![s] = @ + 1]
  /\ \E rest \in BOOLEAN :
       /\ rest => program.blocks
       /\ conns' = [conns EXCEPT ![conn[s]].pending = rest]
  /\ UNCHANGED <<outputting, conn, connFailed, frozen, draining, deferral, input, discarded, stack>>

(* internal_write_event refuses to write to a connection that is closed.   *)
LoopRefused(t, s) ==
  /\ Takes(t, s) /\ conn[s] # None /\ conn[s] \notin Usable
  /\ Goto(t, Frame("unsent", s, None))
  /\ UNCHANGED <<outputting, conn, connFailed, frozen, draining, deferral, input, outcome, conns>>

(* The write fails, and with it the connection.                            *)
LoopFails(t, s) ==
  /\ Takes(t, s) /\ conn[s] \in Usable /\ ~Blocked(conn[s]) /\ ~alive
  /\ conns' = Break(conns, conn[s])
  /\ stack' = [stack EXCEPT ![t] = Front(@) \o <<Frame("unsent", s, None), Closing(conn[s])>>]
  /\ UNCHANGED <<outputting, conn, connFailed, frozen, draining, deferral, input, outcome>>

(* The failure of a connection that is closed runs no close handlers.      *)
FailClosed(cs, c) == IF cs[c].failed THEN cs ELSE Unlist(Break(cs, c), c)

(* Fault: the stone keeps its reference when the write fails.              *)
UnsentKeepsReference(t, s) ==
  /\ Running(t, "unsent") /\ Top(t).stone = s
  /\ conns' = IF conn[s] = None THEN conns ELSE FailClosed(conns, conn[s])
  /\ conn' = [conn EXCEPT ![s] = None]
  /\ connFailed' = [connFailed EXCEPT ![s] = TRUE]
  /\ discarded' = discarded \cup {s}
  /\ Goto(t, Frame("loop", s, None))
  /\ UNCHANGED <<queue, outputting, frozen, draining, deferral, input, sent>>

(* The stone gives up its connection, unless the close handler did.        *)
Unsent(t, s) ==
  /\ Running(t, "unsent") /\ Top(t).stone = s
  /\ conns' = IF conn[s] = None THEN conns ELSE Close(FailClosed(conns, conn[s]), conn[s])
  /\ conn' = [conn EXCEPT ![s] = None]
  /\ connFailed' = [connFailed EXCEPT ![s] = TRUE]
  /\ discarded' = discarded \cup {s}
  /\ Goto(t, Frame("loop", s, None))
  /\ UNCHANGED <<queue, outputting, frozen, draining, deferral, input, sent>>

---------------------------------------------------------------------------
(* The second half of CMConnection_failed: the close handlers, one by one, *)
(* while nobody has closed the connection.                                 *)

ClosingStep(t) == lock \in {None, t} /\ In(t, "closing")

CallCloseHandler(t) ==
  /\ ClosingStep(t) /\ Top(t).hooks # <<>> /\ ~conns[Top(t).conn].closed
  /\ Goto(t, [Top(t) EXCEPT !.at = "handler"]) /\ lock' = None
  /\ UNCHANGED <<bridges, deferral, input, outcome, conns>>

(* Fault: the close handler gives back a reference the stone keeps using.  *)
CloseHandlerForgets(t) ==
  LET c == Top(t).conn
      s == Head(Top(t).hooks)
      mine == conn[s] = c
  IN
  /\ lock = None /\ In(t, "handler")
  /\ connFailed' = [connFailed EXCEPT ![s] = @ \/ mine]
  /\ conns' = IF mine THEN Close(conns, c) ELSE conns
  /\ Goto(t, [Top(t) EXCEPT !.at = "closing", !.hooks = Tail(@)])
  /\ UNCHANGED <<queue, outputting, conn, frozen, draining, deferral, input, outcome, lock>>

(* stone_close_handler.                                                    *)
CloseHandler(t) ==
  LET c == Top(t).conn
      s == Head(Top(t).hooks)
      mine == conn[s] = c
  IN
  /\ lock = None /\ In(t, "handler")
  /\ connFailed' = [connFailed EXCEPT ![s] = @ \/ mine]
  /\ conn' = IF mine THEN [conn EXCEPT ![s] = None] ELSE conn
  /\ conns' = IF mine THEN Close(conns, c) ELSE conns
  /\ Goto(t, [Top(t) EXCEPT !.at = "closing", !.hooks = Tail(@)])
  /\ UNCHANGED <<queue, outputting, frozen, draining, deferral, input, outcome, lock>>

(* The failure is dealt with; a write that caused it goes on.              *)
Closed(t) ==
  /\ ClosingStep(t)
  /\ Top(t).hooks = <<>> \/ conns[Top(t).conn].closed
  /\ conns' = Unlist(conns, Top(t).conn)
  /\ stack' = [stack EXCEPT ![t] = Front(@)]
  /\ lock' = IF Len(stack[t]) > 1 /\ stack[t][Len(stack[t]) - 1].at = "unsent" THEN t ELSE None
  /\ UNCHANGED <<bridges, deferral, input, outcome>>

---------------------------------------------------------------------------
(* The network thread, which also polls while it waits itself.             *)

Polls == lock = None /\ (stack[Net] # <<>> => Top(Net).at \in {"connecting", "blocked"})

Call(t, frame) == stack' = [stack EXCEPT ![t] = Append(@, frame)]

(* Fault: the task does not say that it is no longer on its way.           *)
RunTaskSilently ==
  /\ Polls /\ tasks > 0
  /\ tasks' = tasks - 1
  /\ Call(Net, Frame("pass", 1, None)) /\ lock' = Net
  /\ UNCHANGED <<bridges, inGetConn, delayPending, input, outcome, conns>>

(* deferred_process_actions.                                               *)
RunTask ==
  /\ Polls /\ tasks > 0
  /\ tasks' = tasks - 1 /\ delayPending' = FALSE
  /\ Call(Net, Frame("pass", 1, None)) /\ lock' = Net
  /\ UNCHANGED <<bridges, inGetConn, input, outcome, conns>>

(* The rest of a pending write is written.                                 *)
Flush(c) ==
  /\ Polls /\ conns[c].pending /\ alive
  /\ conns' = [conns EXCEPT ![c].pending = FALSE]
  /\ UNCHANGED <<bridges, deferral, input, outcome, stack, lock>>

Eof(c) ==
  /\ Polls /\ ~alive /\ conns[c].used /\ ~conns[c].failed
  /\ conns' = Break(conns, c)
  /\ Call(Net, Closing(c)) /\ lock' = Net
  /\ UNCHANGED <<bridges, deferral, input, outcome>>

PeerDies ==
  /\ program.mortal /\ alive
  /\ alive' = FALSE
  /\ UNCHANGED <<bridges, deferral, outcome, conns, stack, lock, program, submitted, calls, shared>>

---------------------------------------------------------------------------
(* The application.                                                        *)

Submit(t, s) ==
  /\ stack[t] = <<>> /\ lock = None /\ submitted < MaxEvents
  /\ submitted' = submitted + 1
  /\ queue' = [queue EXCEPT ![s] = @ + 1]
  /\ Call(t, Frame("pass", 1, None)) /\ lock' = t
  /\ UNCHANGED <<outputting, conn, connFailed, frozen, draining, deferral, outcome, conns,
                 program, calls, shared, alive>>

Uses(t, call) ==
  /\ stack[t] = <<>> /\ lock = None
  /\ call \in program.usage /\ calls < program.calls
  /\ calls' = calls + 1
  /\ UNCHANGED <<program, submitted, alive, outcome, lock>>

Freeze(t, s) ==
  /\ Uses(t, "freeze") /\ ~frozen[s]
  /\ frozen' = [frozen EXCEPT ![s] = TRUE]
  /\ UNCHANGED <<queue, outputting, conn, connFailed, draining, deferral, conns, stack, shared>>

(* Fault: no task is added that looks at the stone again.                  *)
UnfreezeOnly(t, s) ==
  /\ Uses(t, "unfreeze") /\ frozen[s]
  /\ frozen' = [frozen EXCEPT ![s] = FALSE]
  /\ UNCHANGED <<queue, outputting, conn, connFailed, draining, deferral, conns, stack, shared>>

Unfreeze(t, s) ==
  /\ Uses(t, "unfreeze") /\ frozen[s]
  /\ frozen' = [frozen EXCEPT ![s] = FALSE]
  /\ tasks' = tasks + 1
  /\ UNCHANGED <<queue, outputting, conn, connFailed, draining, inGetConn, delayPending, conns, stack, shared>>

(* EVtransfer_events: the queue is emptied, whoever waits to send it.      *)
Transfer(t, s) ==
  /\ Uses(t, "transfer") /\ queue[s] > 0
  /\ queue' = [queue EXCEPT ![s] = 0]
  /\ UNCHANGED <<outputting, conn, connFailed, frozen, draining, deferral, conns, stack, shared>>

(* EVdrain_stone sleeps between its looks at the stone, and fails after    *)
(* ten seconds.                                                            *)
Drain(t, s) ==
  /\ Uses(t, "drain") /\ draining[s] = 0
  /\ draining' = [draining EXCEPT ![s] = 1]
  /\ Call(t, Frame("drain", s, None))
  /\ UNCHANGED <<queue, outputting, conn, connFailed, frozen, deferral, conns, shared>>

(* Fault: a stone with an empty queue counts as drained.                   *)
DrainedByQueue(s) == queue[s] = 0

Drained(s) == queue[s] = 0 /\ ~outputting[s]

DrainReturns(t) ==
  /\ lock = None /\ In(t, "drain")
  /\ \E done \in {Drained(Top(t).stone)} \cup {FALSE} :
       draining' = [draining EXCEPT ![Top(t).stone] = IF done THEN 2 ELSE @]
  /\ stack' = [stack EXCEPT ![t] = Front(@)]
  /\ UNCHANGED <<queue, outputting, conn, connFailed, frozen, deferral, input, outcome, conns, lock>>

(* The application gets the connection of the bridges for itself ...       *)
Share(t) ==
  /\ Uses(t, "share") /\ shared = None
  /\ \E c \in Usable :
       /\ conns' = [conns EXCEPT ![c].refs = @ + 1]
       /\ shared' = c
  /\ UNCHANGED <<bridges, deferral, stack>>

(* ... and closes it.                                                      *)
Unshare(t) ==
  /\ Uses(t, "unshare") /\ shared # None
  /\ conns' = Close(conns, shared)
  /\ shared' = None
  /\ UNCHANGED <<bridges, deferral, stack>>

---------------------------------------------------------------------------
Send(t, s) ==
  \/ Skip(t, s) \/ StartGivesUp(t, s) \/ StartSends(t, s) \/ StartFinds(t, s) \/ StartConnects(t, s)
  \/ LoopEnds(t, s) \/ LoopWaits(t, s) \/ LoopDiscards(t, s) \/ LoopSends(t, s)
  \/ LoopRefused(t, s) \/ LoopFails(t, s) \/ Unsent(t, s)

Wake(t) == Connected(t) \/ ConnectFails(t) \/ Unblocked(t)

Return(t) == PassEnds(t) \/ CallCloseHandler(t) \/ CloseHandler(t) \/ Closed(t) \/ DrainReturns(t)

Network(c) == Flush(c) \/ Eof(c)

Use(t, s) == Freeze(t, s) \/ Unfreeze(t, s) \/ Transfer(t, s) \/ Drain(t, s)

Next ==
  \/ \E t \in Threads, s \in Stones : Send(t, s)
  \/ \E t \in Threads : Wake(t) \/ Return(t)
  \/ \E c \in Conns : Network(c)
  \/ RunTask \/ PeerDies
  \/ \E t \in Apps, s \in Stones : Submit(t, s) \/ Use(t, s)
  \/ \E t \in Apps : Share(t) \/ Unshare(t)

Spec == Init /\ [][Next]_vars

Progress ==
  \/ \E t \in Threads, s \in Stones : Send(t, s)
  \/ \E t \in Threads : Wake(t) \/ Return(t)
  \/ \E c \in Conns : Network(c)
  \/ RunTask

(* Threads go on, the network is polled, tasks are run.  A task that comes *)
(* back while a stone connects must not keep that thread from the lock.    *)
FairSpec == Spec /\ WF_vars(Progress) /\ \A t \in Threads : SF_vars(Wake(t))
---------------------------------------------------------------------------

Sending == {"connecting", "loop", "blocked", "unsent"}

(* The calls that are in the loop of stone s, the innermost of each thread *)
(* or one it will come back to.                                            *)
Senders(s) ==
  UNION {{t} \X {i \in DOMAIN stack[t] : stack[t][i].at \in Sending /\ stack[t][i].stone = s}
           : t \in Threads}

(* is_outputting is set and nobody is going to clear it.                   *)
Stuck(s) == outputting[s] /\ Senders(s) = {}

Quiet == tasks = 0 /\ \A t \in Threads : stack[t] = <<>>

Stopped(s) == frozen[s] \/ draining[s] = 2 \/ Stuck(s)

(* One thread at a time sends the events of a stone, no event is discarded *)
(* while its connection is good, a stone is given up only for a reason     *)
(* (the connection failed or could not be made, or its queue was emptied   *)
(* under the loop), a drained stone is not being sent, and when every call *)
(* has returned no stone that still works has events left: whatever was    *)
(* connecting, frozen or waiting when they came (evp.c:2144-2153,          *)
(* 2199-2231, 2207, 2294, 3699).                                           *)
EventsAccounted ==
  \A s \in Stones :
    /\ Cardinality(Senders(s)) <= 1
    /\ s \in discarded => connFailed[s]
    /\ Stuck(s) => connFailed[s] \/ conn[s] = None \/ "transfer" \in program.usage
    /\ draining[s] = 2 => Senders(s) = {}
    /\ Quiet => queue[s] = 0 \/ Stopped(s)

Has(b) == IF b THEN 1 ELSE 0

(* The references of a connection are those of the transport, of the list, *)
(* of the application and of the stones that have it, after every failure: *)
(* of two stones, of which the handler of the first keeps that of the      *)
(* second from being called, of a write and of the network thread that     *)
(* sees the end of file at the same time.  No thread waits on a connection *)
(* that is freed (evp.c:2079-2083, 2266-2272, cm.c:1373-1392).             *)
ReferencesExact ==
  \A c \in Conns :
    /\ conns[c].refs = Has(conns[c].listed) + Has(conns[c].used /\ ~conns[c].failed)
                         + Has(shared = c) + Cardinality({s \in Stones : conn[s] = c})
    /\ \A t \in Threads : In(t, "blocked") /\ Top(t).conn = c => conns[c].refs > 0

(* An event in the queue of a stone that works is sent, and every call     *)
(* returns (evp.c:2148, 2206, 3684, cm.c:3161).                            *)
EventsProceed ==
  /\ \A s \in Stones : (queue[s] > 0) ~> (queue[s] = 0 \/ Stopped(s))
  /\ \A t \in Apps : (stack[t] # <<>>) ~> (stack[t] = <<>>)
=============================================================================
