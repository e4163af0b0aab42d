------------------------------ MODULE CMControl ------------------------------
(***************************************************************************)
(* The control list of a CManager: its condition values, the thread that   *)
(* services the network, the select() loop with its wake pipe, and the     *)
(* shutdown of the CManager (cm_control.c and the parts of cm.c, cm_lock.c *)
(* and cmselect.c that they run).                                          *)
(*                                                                         *)
(* Everything between two points where the code drops the CManager lock    *)
(* (the pthread condition wait, select(), an upcall, the join) is one      *)
(* action, except that a thread in the select loop keeps the lock in the   *)
(* program counters LockedPCs so that the loop can be written step by step.*)
(* A thread's stack holds its nested CM activities, innermost last: user   *)
(* code runs on an empty stack or on top of an upcall.                     *)
(***************************************************************************)
EXTENDS Naturals, Sequences, FiniteSets

CONSTANTS
  AppThreads,     \* threads of the application
  CommThread,     \* the thread CMfork_comm_thread() creates
  NoThread,       \* (thr_thread_id) 0
  Conns,          \* connections a condition may depend on
  NoConn,         \* the NULL connection
  CloseHandled,   \* the connections that have a close handler registered
  MaxConditions,  \* bound on the conditions allocated; numbers start at 1
  MaxDepth,       \* bound on the nesting of waits inside upcalls
  CommAtStart,    \* whether the comm thread is forked before anything else
  Usage           \* the optional calls this application makes

Threads    == AppThreads \cup {CommThread}
Conditions == 1 .. MaxConditions
Calls      == {"fork", "run", "fail", "appsignal", "close_conn", "eof",
               "close_cm", "spurious"}

ASSUME ControlAssumption ==
  /\ CommThread \notin AppThreads
  /\ NoThread \notin Threads
  /\ NoConn \notin Conns
  /\ IsFiniteSet(Conns) /\ Conns \cap Conditions = {}
  /\ CloseHandled \subseteq Conns
  /\ MaxConditions \in Nat
  /\ MaxDepth \in Nat
  /\ CommAtStart \in BOOLEAN
  /\ Usage \subseteq Calls

(* Condition numbers are not used again.                                    *)
ASSUME NoWrapAssumption == MaxConditions < 16777215   \* 0xffffff

VARIABLES
  conds,         \* cl->condition_list, with the conditions already freed
  nextNum,       \* cl->next_condition_num
  hasThread,     \* cl->has_thread > 0
  serverThread,  \* cl->server_thread
  serverHandle,  \* cl->server_thread_handle
  condPolling,   \* cl->cond_polling
  closed,        \* cl->closed and sd->closed
  abortRead,     \* cm->abort_read_ahead
  cmConns,       \* cm->connections
  connFailed,    \* conn->failed
  connClosed,    \* conn->closed
  net,           \* what the network holds for this CManager, in order
  sent,          \* responses and end-of-files the network has already carried
  pipe,          \* bytes in the wake pipe
  lock,          \* owner of cm->exchange_lock
  pc,            \* what each thread is doing
  stack,         \* its nested CM activities
  rd,            \* the file descriptors its last select() found readable
  stale          \* select_consistency_number moved since it entered select(),
                 \* or it is not in socket_select

condVars == <<conds, nextNum>>
ctlVars  == <<hasThread, serverThread, serverHandle, condPolling, closed>>
connVars == <<cmConns, connFailed, connClosed>>
netVars  == <<net, sent, abortRead>>
selVars  == <<pipe, rd, stale>>
thrVars  == <<lock, pc, stack>>
vars     == <<condVars, ctlVars, connVars, netVars, selVars, thrVars>>
-----------------------------------------------------------------------------
(* Types.                                                                  *)

CondRecord ==
  [state : {"unused", "live", "freed"}, owner : Threads \cup {NoThread},
   conn : Conns \cup {NoConn}, waiting : BOOLEAN, signaled : BOOLEAN,
   failed : BOOLEAN, result : {"pending", "signaled", "failed"}]

WaitKinds == {"poller", "server", "blocked"}   \* branches of CMCondition_wait

Frame == [kind : WaitKinds \cup {"handler", "replied"}, arg : Conditions]
    \cup [kind : {"closing"}, arg : Conns]
    \cup [kind : {"forever"}, arg : {0}]

LockedPCs == {"loop", "dispatch", "stuck", "spin", "closeconns"}
FreePCs   == {"unborn", "start", "user", "select", "ready", "blocked",
              "resumed", "closing", "join", "exited", "crashed"}

TypeOK ==
  /\ conds \in [Conditions -> CondRecord]
  /\ nextNum \in 1 .. (MaxConditions + 1)
  /\ hasThread \in BOOLEAN
  /\ serverThread \in Threads \cup {NoThread}
  /\ serverHandle \in {CommThread, NoThread}
  /\ condPolling \in BOOLEAN /\ closed \in BOOLEAN /\ abortRead \in BOOLEAN
  /\ cmConns \subseteq Conns
  /\ connFailed \in [Conns -> BOOLEAN] /\ connClosed \in [Conns -> BOOLEAN]
  /\ net \in Seq(Conditions \cup Conns)
  /\ sent \subseteq Conditions \cup Conns
  /\ pipe \in Nat
  /\ lock \in Threads \cup {NoThread}
  /\ pc \in [Threads -> LockedPCs \cup FreePCs]
  /\ stack \in [Threads -> Seq(Frame)]
  /\ rd \in [Threads -> SUBSET {"wake", "net"}]
  /\ stale \in [Threads -> BOOLEAN]
-----------------------------------------------------------------------------
(* Helpers.                                                                *)

LockFree   == lock = NoThread
Pop(s)     == SubSeq(s, 1, Len(s) - 1)
Top(t)     == stack[t][Len(stack[t])]
OnTop(t, kinds) == stack[t] # <<>> /\ Top(t).kind \in kinds
Live(c)    == conds[c].state = "live"
Done(c)    == conds[c].signaled \/ conds[c].failed
Push(t, kind, arg) ==
  stack' = [stack EXCEPT ![t] = Append(@, [kind |-> kind, arg |-> arg])]

(* A thread runs application code: outside CM, or in one of its upcalls.   *)
InUser(t) == pc[t] = "user" /\ LockFree

(* Application code calls into CM only while the CManager is open, except   *)
(* from an upcall, which the closing thread waits for.                     *)
MayCall(t) == InUser(t) /\ (closed => stack[t] # <<>>)

WaitDepth(t) == Cardinality({i \in DOMAIN stack[t] : stack[t][i].kind \in WaitKinds})

(* CMCondition_trigger: a pthread signal reaches a thread that is blocked   *)
(* on one of the conditions of S, and nobody else.                         *)
TriggerNobody(S) == pc   \* Fault: no signal is sent.

(* Fault: every thread in a condition wait is woken.                        *)
TriggerAll(S) == [u \in Threads |-> IF pc[u] = "blocked" THEN "resumed" ELSE pc[u]]

Trigger(S) ==
  [u \in Threads |-> IF pc[u] = "blocked" /\ Top(u).arg \in S
                     THEN "resumed" ELSE pc[u]]

(* CMwake_server_thread, called only while cond_polling is set.  Fault: the *)
(* poller is taken to see the change by itself.                            *)
WakeNobody(n) == UNCHANGED pipe

WakePoller(n) == pipe' = IF condPolling THEN pipe + n ELSE pipe
-----------------------------------------------------------------------------
Unused == [state |-> "unused", owner |-> NoThread, conn |-> NoConn,
           waiting |-> FALSE, signaled |-> FALSE, failed |-> FALSE,
           result |-> "pending"]

(* The first condition number (CMControlList_create).  Fault: it is 0, which *)
(* is no condition number.                                                  *)
FirstNumZero == 0

FirstNum == 1

Init ==
  /\ conds = [c \in Conditions |-> Unused]
  /\ nextNum = FirstNum
  /\ hasThread = CommAtStart
  /\ serverThread = (IF CommAtStart THEN CommThread ELSE NoThread)
  /\ serverHandle = (IF CommAtStart THEN CommThread ELSE NoThread)
  /\ condPolling = FALSE /\ closed = FALSE /\ abortRead = FALSE
  /\ cmConns = Conns
  /\ connFailed = [k \in Conns |-> FALSE]
  /\ connClosed = [k \in Conns |-> FALSE]
  /\ net = <<>> /\ sent = {}
  /\ pipe = 0
  /\ lock = NoThread
  /\ pc = [t \in Threads |-> IF t # CommThread THEN "user"
                             ELSE IF CommAtStart THEN "start" ELSE "unborn"]
  /\ stack = [t \in Threads |-> IF t = CommThread /\ CommAtStart
                                THEN <<[kind |-> "forever", arg |-> 0]>>
                                ELSE <<>>]
  /\ rd = [t \in Threads |-> {}]
  /\ stale = [t \in Threads |-> TRUE]
-----------------------------------------------------------------------------
(* Calls on conditions.                                                    *)

(* INT_CMCondition_get.                                                    *)
ConditionGet(t, k) ==
  /\ MayCall(t)
  /\ nextNum \in Conditions
  /\ conds' = [conds EXCEPT ![nextNum] =
                 [Unused EXCEPT !.state = "live", !.owner = t, !.conn = k,
                                !.failed = (k # NoConn) /\ connClosed[k]]]
  /\ nextNum' = nextNum + 1
  /\ UNCHANGED <<ctlVars, connVars, netVars, selVars, thrVars>>

(* What CMCondition_wait returns, and CMCondition_destroy.                 *)
Finish(c) ==
  [conds EXCEPT ![c].state = "freed",
                ![c].result = IF conds[c].signaled THEN "signaled"
                              ELSE "failed"]

(* The condition values an application thread may wait on: the ones it     *)
(* allocated and has not waited on yet ("they can only be used once"), and *)
(* not the one that the handler it runs in is there to signal.             *)
MayWait(t, c) ==
  /\ MayCall(t) /\ Live(c) /\ conds[c].owner = t
  /\ ~conds[c].waiting /\ conds[c].result = "pending"
  /\ ~\E i \in DOMAIN stack[t] : stack[t][i] = [kind |-> "handler", arg |-> c]

(* INT_CMCondition_wait when the condition is already signaled or failed:  *)
(* the result is returned at once and the condition stays in the list.     *)
WaitAlreadyDone(t, c) ==
  /\ MayWait(t, c) /\ Done(c)
  /\ conds' = [conds EXCEPT ![c].result = IF conds[c].signaled
                                          THEN "signaled" ELSE "failed"]
  /\ UNCHANGED <<nextNum, ctlVars, connVars, netVars, selVars, thrVars>>

(* Who polls the network for a condition: without a comm thread, whoever   *)
(* finds no other server thread; with one, only the server thread itself.  *)
PollsAlways(t) == TRUE   \* Fault: everybody polls.

Polls(t) == IF hasThread THEN serverThread = t
            ELSE serverThread \in {NoThread, t}

(* INT_CMCondition_wait: the thread enters the network loop.               *)
WaitPolling(t, c) ==
  /\ MayWait(t, c) /\ ~Done(c) /\ Polls(t)
  /\ WaitDepth(t) < MaxDepth
  /\ conds' = [conds EXCEPT ![c].waiting = TRUE]
  /\ condPolling' = TRUE
  /\ Push(t, IF hasThread THEN "server" ELSE "poller", c)
  /\ pc' = [pc EXCEPT ![t] = "loop"] /\ lock' = t
  /\ UNCHANGED <<nextNum, hasThread, serverThread, serverHandle, closed,
                 connVars, netVars, selVars>>

(* INT_CMCondition_wait: another thread is the server thread, so this one  *)
(* does a pthread condition wait.                                          *)
WaitBlocking(t, c) ==
  /\ MayWait(t, c) /\ ~Done(c) /\ ~Polls(t)
  /\ WaitDepth(t) < MaxDepth
  /\ conds' = [conds EXCEPT ![c].waiting = TRUE]
  /\ Push(t, "blocked", c)
  /\ pc' = [pc EXCEPT ![t] = "blocked"]
  /\ UNCHANGED <<nextNum, lock, ctlVars, connVars, netVars, selVars>>

(* POSIX lets the condition wait return although nobody signaled.          *)
SpuriousWakeup(t) ==
  /\ "spurious" \in Usage
  /\ pc[t] = "blocked"
  /\ pc' = [pc EXCEPT ![t] = "resumed"]
  /\ UNCHANGED <<condVars, ctlVars, connVars, netVars, selVars, lock, stack>>

(* The pthread condition wait returned; the code tests nothing again.      *)
ReturnFromBlocking(t) ==
  /\ pc[t] = "resumed" /\ LockFree
  /\ conds' = Finish(Top(t).arg)
  /\ stack' = [stack EXCEPT ![t] = Pop(@)]
  /\ pc' = [pc EXCEPT ![t] = "user"]
  /\ UNCHANGED <<nextNum, lock, ctlVars, connVars, netVars, selVars>>

(* INT_CMCondition_signal; a condition no longer in the list is an error   *)
(* message and nothing else.                                               *)
SignalDestroys(c) ==   \* Fault: the signaled condition is freed.
  /\ conds' = [conds EXCEPT ![c].signaled = TRUE, ![c].state = "freed"]
  /\ pc' = Trigger({c})
  /\ UNCHANGED <<abortRead, pipe>>

SignalReadsOn(c) ==   \* Fault: reading ahead is not called off.
  /\ conds' = [conds EXCEPT ![c].signaled = @ \/ Live(c)]
  /\ pc' = Trigger({c})
  /\ WakePoller(1) /\ UNCHANGED abortRead

SignalEffect(c) ==
  IF Live(c)
  THEN /\ conds' = [conds EXCEPT ![c].signaled = TRUE]
       /\ pc' = IF conds[c].waiting THEN Trigger({c}) ELSE pc
       /\ abortRead' = (abortRead \/ ~hasThread)
       /\ WakePoller(1)
  ELSE UNCHANGED <<conds, pc, abortRead, pipe>>

(* An application thread signals a condition itself, at most once.         *)
AppSignal(t, c) ==
  /\ "appsignal" \in Usage
  /\ MayCall(t) /\ Live(c) /\ ~conds[c].signaled
  /\ SignalEffect(c)
  /\ UNCHANGED <<nextNum, ctlVars, connVars, net, sent, rd, stale, lock, stack>>

(* INT_CMCondition_fail, which the handshake timeout uses.                 *)
ConditionFail(t, c) ==
  /\ "fail" \in Usage
  /\ MayCall(t) /\ Live(c) /\ ~conds[c].failed
  /\ conds' = [conds EXCEPT ![c].failed = TRUE]
  /\ pc' = IF conds[c].waiting THEN Trigger({c}) ELSE pc
  /\ WakePoller(1)
  /\ UNCHANGED <<nextNum, ctlVars, connVars, netVars, rd, stale, lock, stack>>
-----------------------------------------------------------------------------
(* Threads that service the network.                                       *)

(* INT_CMfork_comm_thread.                                                 *)
ForkCommThread(t) ==
  /\ "fork" \in Usage
  /\ MayCall(t) /\ ~hasThread /\ pc[CommThread] = "unborn"
  /\ hasThread' = TRUE
  /\ serverThread' = CommThread /\ serverHandle' = CommThread
  /\ pc' = [pc EXCEPT ![CommThread] = "start"]
  /\ Push(CommThread, "forever", 0)
  /\ UNCHANGED <<condVars, condPolling, closed, connVars, netVars, selVars, lock>>

(* INT_CMrun_network: the caller becomes the server thread.                *)
RunNetwork(t) ==
  /\ "run" \in Usage
  /\ MayCall(t) /\ stack[t] = <<>>
  /\ serverThread' = t /\ hasThread' = TRUE
  /\ pc' = [pc EXCEPT ![t] = "start"]
  /\ Push(t, "forever", 0)
  /\ UNCHANGED <<condVars, serverHandle, condPolling, closed, connVars,
                 netVars, selVars, lock>>

(* CMpoll_forever takes the lock.                                          *)
Start(t) ==
  /\ pc[t] = "start" /\ LockFree
  /\ pc' = [pc EXCEPT ![t] = "loop"] /\ lock' = t
  /\ UNCHANGED <<condVars, ctlVars, connVars, netVars, selVars, stack>>

(* The condition the innermost wait of t is for.                           *)
WaitsDone(t) == OnTop(t, WaitKinds) /\ Done(Top(t).arg)

(* CMcontrol_list_wait: become the server thread and go into select().     *)
LoopSelect(t) ==
  /\ pc[t] = "loop" /\ ~closed /\ ~WaitsDone(t)
  /\ serverThread' = t
  /\ stale' = [stale EXCEPT ![t] = FALSE]
  /\ pc' = [pc EXCEPT ![t] = "select"] /\ lock' = NoThread
  /\ UNCHANGED <<condVars, hasThread, serverHandle, condPolling, closed,
                 connVars, netVars, pipe, rd, stack>>

(* The loop of CMCondition_wait is over: its condition is signaled or      *)
(* failed, or the server thread found the CManager closed and failed it.   *)
LoopReturn(t) ==
  LET c == Top(t).arg IN
  /\ pc[t] = "loop" /\ OnTop(t, {"poller", "server"})
  /\ Done(c) \/ (closed /\ Top(t).kind = "server")
  /\ conds' = [Finish(c) EXCEPT ![c].failed =
                 @ \/ (closed /\ Top(t).kind = "server")]
  /\ condPolling' = FALSE
  /\ serverThread' = IF Top(t).kind = "poller" THEN NoThread ELSE serverThread
  /\ stack' = [stack EXCEPT ![t] = Pop(@)]
  /\ pc' = [pc EXCEPT ![t] = "user"] /\ lock' = NoThread
  /\ UNCHANGED <<nextNum, hasThread, serverHandle, closed, connVars, netVars,
                 selVars>>

(* Without a comm thread the loop does not test cl->closed: select() is    *)
(* skipped and the thread goes round holding the lock.                     *)
LoopSpin(t) ==
  /\ pc[t] = "loop" /\ closed /\ OnTop(t, {"poller"}) /\ ~WaitsDone(t)
  /\ serverThread' = t
  /\ pc' = [pc EXCEPT ![t] = "spin"]
  /\ UNCHANGED <<condVars, hasThread, serverHandle, condPolling, closed,
                 connVars, netVars, selVars, lock, stack>>

(* CMpoll_forever sees cl->closed and goes on to CManager_close.           *)
LoopClosed(t) ==
  /\ pc[t] = "loop" /\ closed /\ OnTop(t, {"forever"})
  /\ pc' = [pc EXCEPT ![t] = "closing"] /\ lock' = NoThread
  /\ UNCHANGED <<condVars, ctlVars, connVars, netVars, selVars, stack>>

(* select() returns with what is readable; the lock is not held.           *)
SelectReturns(t) ==
  LET ready == (IF pipe > 0 THEN {"wake"} ELSE {})
               \cup (IF net # <<>> THEN {"net"} ELSE {})
  IN /\ pc[t] = "select" /\ ready # {}
     /\ rd' = [rd EXCEPT ![t] = ready]
     /\ pc' = [pc EXCEPT ![t] = "ready"]
     /\ UNCHANGED <<condVars, ctlVars, connVars, netVars, pipe, stale, lock, stack>>

(* The read of the wake pipe.  Fault: it does not depend on select().      *)
ReadsWakeAlways(t) == ~closed /\ ~stale[t]

ReadsWake(t) == "wake" \in rd[t] /\ ~closed /\ ~stale[t]

(* socket_select has the lock again: it gives up if the CManager closed or *)
(* the consistency number moved, otherwise it reads the wake pipe, where   *)
(* a read of an empty pipe blocks.                                         *)
AfterSelect(t) ==
  /\ pc[t] = "ready" /\ LockFree
  /\ lock' = t
  /\ pipe' = IF ReadsWake(t) /\ pipe > 0 THEN pipe - 1 ELSE pipe
  /\ pc' = [pc EXCEPT ![t] = IF closed \/ stale[t] THEN "loop"
                             ELSE IF ReadsWake(t) /\ pipe = 0 THEN "stuck"
                             ELSE "dispatch"]
  /\ rd' = [rd EXCEPT ![t] = IF closed \/ stale[t] THEN {} ELSE @]
  /\ UNCHANGED <<condVars, ctlVars, connVars, netVars, stale, stack>>

(* select_consistency_number++, which every socket_select under way sees.   *)
Bump == stale' = [u \in Threads |-> TRUE]

(* The rest of socket_select when CMDataAvailable returned.                *)
EndDispatch(t) ==
  /\ IF stale[t] THEN UNCHANGED stale ELSE Bump
  /\ pc' = [pc EXCEPT ![t] = "loop"] /\ lock' = t
  /\ UNCHANGED <<conds, connVars, net, pipe>>

(* CMconn_fail_conditions.  Fault: only those somebody waits for.           *)
DependentsWaiting(k) ==
  {c \in Conditions : Live(c) /\ conds[c].conn = k /\ conds[c].waiting}

Dependents(k) == {c \in Conditions : Live(c) /\ conds[c].conn = k}

(* CMDataAvailable reads the response to condition c; its handler is called *)
(* without the lock, on top of the frames s.                               *)
ReadResponse(t, s, c) ==
  /\ stack' = [stack EXCEPT ![t] = Append(s, [kind |-> "handler", arg |-> c])]
  /\ pc' = [pc EXCEPT ![t] = "user"] /\ lock' = NoThread
  /\ UNCHANGED <<conds, abortRead, connVars, pipe, stale>>

(* CMDataAvailable finds the end of connection k: INT_CMConnection_failed,  *)
(* with CMconn_fail_conditions and the transport's removal of the file      *)
(* descriptor (which wakes the server thread).  The close handlers run      *)
(* without the lock; without any, the connection is closed at once.         *)
ReadEof(t, s, k) ==
  /\ connFailed' = [connFailed EXCEPT ![k] = TRUE]
  /\ conds' = [c \in Conditions |->
                 [conds[c] EXCEPT !.failed = @ \/ c \in Dependents(k)]]
  /\ pipe' = pipe + (IF condPolling THEN 2 ELSE 1)
  /\ Bump
  /\ IF k \in CloseHandled /\ ~connClosed[k]
     THEN /\ stack' = [stack EXCEPT ![t] =
                         Append(s, [kind |-> "closing", arg |-> k])]
          /\ pc' = [Trigger(Dependents(k)) EXCEPT ![t] = "user"]
          /\ lock' = NoThread
          /\ UNCHANGED <<cmConns, connClosed, abortRead>>
     ELSE /\ stack' = [stack EXCEPT ![t] = s]
          /\ pc' = [Trigger(Dependents(k)) EXCEPT ![t] = "loop"]
          /\ lock' = t
          /\ connClosed' = [connClosed EXCEPT ![k] = TRUE]
          /\ cmConns' = cmConns \ {k}
          /\ abortRead' = TRUE

(* CMDataAvailable goes for the next message; s are the frames below it.    *)
(* The end of a connection that failed meanwhile is read by nobody.         *)
ReadNext(t, s) ==
  IF net = <<>>
  THEN /\ stack' = [stack EXCEPT ![t] = s]
       /\ EndDispatch(t) /\ UNCHANGED abortRead
  ELSE /\ net' = Tail(net)
       /\ \/ Head(net) \in Conditions /\ ReadResponse(t, s, Head(net))
          \/ Head(net) \in Conns /\ ~connFailed[Head(net)] /\ ReadEof(t, s, Head(net))
          \/ /\ Head(net) \in Conns /\ connFailed[Head(net)]
             /\ stack' = [stack EXCEPT ![t] = s]
             /\ pc' = [pc EXCEPT ![t] = "loop"] /\ lock' = t
             /\ UNCHANGED <<conds, abortRead, connVars, pipe, stale>>

(* socket_select calls the read function of the network's descriptor.       *)
Dispatch(t) ==
  /\ pc[t] = "dispatch"
  /\ IF "net" \in rd[t]
     THEN ReadNext(t, stack[t])
     ELSE EndDispatch(t) /\ UNCHANGED <<stack, abortRead>>
  /\ rd' = [rd EXCEPT ![t] = {}]
  /\ UNCHANGED <<nextNum, ctlVars, sent>>

(* The handler of a response signals the condition the response names.      *)
HandlerSignal(t) ==
  /\ InUser(t) /\ OnTop(t, {"handler"})
  /\ SignalEffect(Top(t).arg)
  /\ stack' = [stack EXCEPT ![t] = Append(Pop(@), [Top(t) EXCEPT !.kind = "replied"])]
  /\ UNCHANGED <<nextNum, ctlVars, connVars, net, sent, rd, stale, lock>>

(* The handler returns into CMDataAvailable, which reads ahead unless a     *)
(* signal asked it not to.                                                  *)
HandlerReturn(t) ==
  /\ InUser(t) /\ OnTop(t, {"replied"})
  /\ IF abortRead
     THEN /\ abortRead' = FALSE
          /\ stack' = [stack EXCEPT ![t] = Pop(@)]
          /\ EndDispatch(t)
     ELSE ReadNext(t, Pop(stack[t]))
  /\ UNCHANGED <<nextNum, ctlVars, sent, rd>>

(* The close handlers are done: the end of INT_CMConnection_failed.         *)
CloseHandlerReturn(t) ==
  LET k == Top(t).arg IN
  /\ InUser(t) /\ OnTop(t, {"closing"})
  /\ connClosed' = [connClosed EXCEPT ![k] = TRUE]
  /\ cmConns' = cmConns \ {k}
  /\ abortRead' = TRUE
  /\ stack' = [stack EXCEPT ![t] = Pop(@)]
  /\ pc' = [pc EXCEPT ![t] = "loop"] /\ lock' = t
  /\ UNCHANGED <<condVars, ctlVars, connFailed, net, sent, selVars>>
-----------------------------------------------------------------------------
(* The peers: a response to a condition that was handed out, the end of a   *)
(* connection.  Each is carried at most once.                               *)

ResponseArrives(c) ==
  /\ conds[c].state # "unused" /\ c \notin sent
  /\ net' = Append(net, c) /\ sent' = sent \cup {c}
  /\ UNCHANGED <<condVars, ctlVars, connVars, abortRead, selVars, thrVars>>

EofArrives(k) ==
  /\ "eof" \in Usage
  /\ k \in cmConns /\ k \notin sent
  /\ net' = Append(net, k) /\ sent' = sent \cup {k}
  /\ UNCHANGED <<condVars, ctlVars, connVars, abortRead, selVars, thrVars>>

(* INT_CMConnection_close: closed is set, and the reference the CManager's  *)
(* list holds keeps the connection up.                                      *)
ConnectionClose(t, k) ==
  /\ "close_conn" \in Usage
  /\ MayCall(t) /\ k \in cmConns /\ ~connClosed[k] /\ ~connFailed[k]
  /\ connClosed' = [connClosed EXCEPT ![k] = TRUE]
  /\ UNCHANGED <<condVars, ctlVars, cmConns, connFailed, netVars, selVars, thrVars>>
-----------------------------------------------------------------------------
(* CManager_close.                                                          *)

(* stop_select and wake_select, twice.  Fault: nobody is woken.             *)
StopSelectAsleep == UNCHANGED pipe

StopSelect == pipe' = pipe + 2

(* Only a thread other than the server thread joins it.  Fault: it joins    *)
(* itself.                                                                  *)
MustJoinAny(t) == hasThread

MustJoin(t) == hasThread /\ serverThread # t

(* INT_CMControlList_close, up to the join.  The thread is in application   *)
(* code, or is the server thread at the end of CMpoll_forever.              *)
CManagerClose(t) ==
  /\ LockFree
  /\ \/ "close_cm" \in Usage /\ MayCall(t) /\ ~closed
     \/ pc[t] = "closing"
  /\ closed' = TRUE
  /\ IF MustJoin(t)
     THEN /\ StopSelect
          /\ pc' = [pc EXCEPT ![t] = "join"] /\ UNCHANGED lock
     ELSE /\ pc' = [pc EXCEPT ![t] = "closeconns"] /\ lock' = t
          /\ UNCHANGED pipe
  /\ UNCHANGED <<condVars, hasThread, serverThread, serverHandle, condPolling,
                 connVars, netVars, rd, stale, stack>>

(* thr_thread_join(cl->server_thread_handle): with no handle the call has   *)
(* no defined effect; a thread that joins itself gets an error at once.     *)
Join(t) ==
  /\ pc[t] = "join"
  /\ IF serverHandle = NoThread
     THEN /\ pc' = [pc EXCEPT ![t] = "crashed"]
          /\ UNCHANGED <<hasThread, serverHandle, lock>>
     ELSE /\ pc[serverHandle] = "exited" \/ serverHandle = t
          /\ LockFree
          /\ hasThread' = FALSE /\ serverHandle' = NoThread
          /\ pc' = [pc EXCEPT ![t] = "closeconns"] /\ lock' = t
  /\ UNCHANGED <<condVars, serverThread, condPolling, closed, connVars,
                 netVars, selVars, stack>>

(* Where CManager_close returns to: the end of a thread, or an upcall.      *)
AfterClose(t) == IF stack[t] = <<>> \/ OnTop(t, {"forever"})
                 THEN "exited" ELSE "user"

(* The loop of INT_CManager_close: every connection is closed and failed,   *)
(* without its close handlers.  A connection that is in the middle of       *)
(* INT_CMConnection_failed stays in the list and keeps the loop going.      *)
CloseConns(t) ==
  /\ pc[t] = "closeconns"
  /\ IF \E k \in cmConns : connFailed[k]
     THEN /\ pc' = [pc EXCEPT ![t] = "spin"]
          /\ UNCHANGED <<conds, connVars, abortRead, pipe, stale, lock>>
     ELSE LET hit == UNION {Dependents(k) : k \in cmConns} IN
          /\ conds' = [c \in Conditions |->
                         [conds[c] EXCEPT !.failed = @ \/ c \in hit]]
          /\ connFailed' = [k \in Conns |-> connFailed[k] \/ k \in cmConns]
          /\ connClosed' = [k \in Conns |-> connClosed[k] \/ k \in cmConns]
          /\ cmConns' = {}
          /\ abortRead' = (abortRead \/ cmConns # {})
          /\ pipe' = pipe + Cardinality(cmConns) * (IF condPolling THEN 2 ELSE 1)
          /\ IF cmConns = {} THEN UNCHANGED stale ELSE Bump
          /\ pc' = [Trigger(hit) EXCEPT ![t] = AfterClose(t)]
          /\ lock' = NoThread
  /\ UNCHANGED <<nextNum, ctlVars, net, sent, rd, stack>>
-----------------------------------------------------------------------------
(* The specification.                                                       *)

AppCall(t) ==
  \/ \E k \in Conns \cup {NoConn} : ConditionGet(t, k)
  \/ \E c \in Conditions : AppSignal(t, c) \/ ConditionFail(t, c)
  \/ ForkCommThread(t)
  \/ RunNetwork(t)
  \/ \E k \in Conns : ConnectionClose(t, k)
  \/ CManagerClose(t)

AppWait(t) ==
  \E c \in Conditions :
     WaitAlreadyDone(t, c) \/ WaitPolling(t, c) \/ WaitBlocking(t, c)

(* The steps of code that is under way, as opposed to calls that may never  *)
(* be made.                                                                 *)
Run(t) ==
  \/ Start(t) \/ LoopSelect(t) \/ LoopReturn(t) \/ LoopSpin(t) \/ LoopClosed(t)
  \/ SelectReturns(t) \/ AfterSelect(t) \/ Dispatch(t)
  \/ HandlerSignal(t) \/ HandlerReturn(t) \/ CloseHandlerReturn(t)
  \/ ReturnFromBlocking(t)
  \/ Join(t) \/ CloseConns(t)
  \/ pc[t] = "closing" /\ CManagerClose(t)

Network == \/ \E c \in Conditions : ResponseArrives(c)
           \/ \E k \in Conns : EofArrives(k)

Next == \/ \E t \in Threads : AppCall(t) \/ AppWait(t) \/ Run(t) \/ SpuriousWakeup(t)
        \/ Network

Spec == Init /\ [][Next]_vars

(* Threads are scheduled, and the mutex is granted to every thread that     *)
(* keeps asking; calls, responses and failures need never happen.           *)
Fairness == \A t \in Threads : SF_vars(Run(t))

FairSpec == Spec /\ Fairness

(* The peers answer every request: the response to a condition some thread  *)
(* waits for is on its way.                                                 *)
PeersAnswer ==
  \A c \in Conditions : WF_vars(conds[c].waiting /\ ResponseArrives(c))

AnsweringSpec == FairSpec /\ PeersAnswer
-----------------------------------------------------------------------------
(* Safety.                                                                  *)

InPollLoop(t) == pc[t] \in {"select", "ready", "dispatch", "stuck"}

(* A condition some thread waits for is in the control list: nobody frees   *)
(* it under the waiter (CMCondition_destroy is the waiter's own).           *)
WaitedConditionLive ==
  \A t \in Threads : \A i \in DOMAIN stack[t] :
    stack[t][i].kind \in WaitKinds =>
      /\ Live(stack[t][i].arg) /\ conds[stack[t][i].arg].waiting
      /\ \A u \in Threads : \A j \in DOMAIN stack[u] :
           stack[u][j].kind \in WaitKinds /\ stack[u][j].arg = stack[t][i].arg
             => u = t /\ j = i

(* A thread asleep in select() although the condition it polls for is       *)
(* signaled or failed finds a byte in the wake pipe: CMCondition_signal,    *)
(* CMCondition_fail and CMconn_fail_conditions wake the server thread "in   *)
(* case we're not him".                                                     *)
NoLostWakeup ==
  \A t \in Threads : pc[t] = "select" /\ WaitsDone(t) => pipe > 0

(* Nobody stays in a pthread condition wait whose condition was triggered.  *)
NoLostTrigger ==
  \A t \in Threads : pc[t] = "blocked" => ~Done(Top(t).arg)

(* At most one thread handles input for a CManager.                         *)
OnePoller ==
  \A t, u \in Threads : InPollLoop(t) /\ InPollLoop(u) => t = u

(* Nobody blocks in the read of an empty wake pipe, with the lock held.     *)
WakeReadNeverBlocks == \A t \in Threads : pc[t] # "stuck"

(* A condition that depends on a connection that died or was closed is      *)
(* marked as failed, whenever it was allocated.                             *)
DependentConditionsFail ==
  \A c \in Conditions :
    Live(c) /\ conds[c].conn \in Conns
      /\ (connFailed[conds[c].conn] \/ connClosed[conds[c].conn])
      => conds[c].failed

(* CMCondition_wait returns 1 for a signaled condition, and 0 only for one  *)
(* that failed.                                                             *)
WaitResultSound ==
  \A c \in Conditions :
    /\ conds[c].result = "signaled" => conds[c].signaled
    /\ conds[c].result = "failed" => conds[c].failed

(* What a wait returns is what happened: conditions of a dead connection     *)
(* fail, and no wait reports a signal or a failure that was none.            *)
ResultsSound == DependentConditionsFail /\ WaitResultSound

(* The close of a CManager neither goes round for ever nor joins a thread   *)
(* that is not there.                                                       *)
CloseSafe == \A t \in Threads : pc[t] \notin {"spin", "crashed"}

(* Once the signal of the condition a thread polls for asked the reader to  *)
(* stop reading ahead, no handler return takes it to another message.       *)
ReadAheadStops ==
  [][\A t \in Threads :
       OnTop(t, {"replied"}) /\ Len(stack[t]) > 1
       /\ ~hasThread /\ stack[t][Len(stack[t]) - 1].kind = "poller"
       /\ conds[stack[t][Len(stack[t]) - 1].arg].signaled
         => stack'[t] = stack[t] \/ Len(stack'[t]) # Len(stack[t])]_vars
-----------------------------------------------------------------------------
(* Liveness.                                                                *)

(* A waiter whose condition is signaled or failed returns.                  *)
TriggeredWaitReturns ==
  \A c \in Conditions :
    (conds[c].waiting /\ Done(c)) ~> conds[c].result # "pending"

(* When the peers answer, every CMCondition_wait returns, those of upcalls   *)
(* on the server thread included.                                           *)
WaitReturns ==
  \A c \in Conditions : conds[c].waiting ~> conds[c].result # "pending"

(* CManager_close terminates the network handling thread and returns.       *)
CloseCompletes ==
  \A t \in Threads : pc[t] = "join" ~> pc[t] # "join" /\ pc[CommThread] = "exited"

(* Nobody is left behind by the close: neither its caller nor a thread whose *)
(* condition was signaled or failed meanwhile.                              *)
ClosingCompletes == TriggeredWaitReturns /\ CloseCompletes
=============================================================================
