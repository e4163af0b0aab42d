------------------------------- MODULE CMConn -------------------------------
(***************************************************************************)
(* The life of connections in one CManager (cm.c): CMget_conn with the     *)
(* initiation and the handshake, connections that are accepted, failure    *)
(* and its close handlers, CMConnection_close, and the reference counts    *)
(* that decide when a connection is freed.  Threads of the application     *)
(* and the network thread interleave wherever the CManager lock is         *)
(* dropped: in the wait for a handshake, in close handlers and in message  *)
(* handlers; what happens between two such points is one action.  The      *)
(* transport is the one of cmsockets.c.                                    *)
(***************************************************************************)
EXTENDS Integers, Sequences, FiniteSets, SequencesExt

CONSTANTS
  Users,      \* threads of the application
  Net,        \* the network thread
  Peers,
  Conns,      \* connection structures that can be allocated
  Programs,   \* what the users do, and what comes in over the network
  None

Threads == Users \cup {Net}

Ops == {"get", "register", "write", "close"}

(* A user gives its connection back before it gets another.                *)
GivesBack(ops) ==
  \A i, j \in DOMAIN ops : i < j /\ ops[i] = "get" /\ ops[j] = "get" =>
    \E k \in i..j : ops[k] = "close"

ASSUME ConnAssumption ==
  /\ Net \notin Users /\ None \notin Conns \cup Peers /\ IsFiniteSet(Users)
  /\ \A p \in Programs :
       /\ p.ops \in [Users -> Seq(Ops)] /\ \A u \in Users : GivesBack(p.ops[u])
       /\ p.peer \in [Users -> Peers]
       /\ p.closers \subseteq Users     \* whose close handler closes the connection
       /\ p.mortal \subseteq Peers
       /\ p.connecting \in SUBSET Peers

VARIABLES
  program,
  pos,       \* the next operation of each user
  held,      \* the connection each user has a reference to
  task,      \* where a thread is in an operation that dropped the lock
  conns,     \* the connection structures
  list,      \* cm->connections
  frame,     \* the connection CMDataAvailable is reading, and how far it is
  abort,     \* cm->abort_read_ahead
  alive,     \* peers that have not died
  called,    \* the users whose close handlers were called, per connection
  touched    \* a structure was looked at after it was freed

vars == <<program, pos, held, task, conns, list, frame, abort, alive, called, touched>>

Unused ==
  [peer |-> None, refs |-> 0, closed |-> FALSE, failed |-> FALSE, selected |-> FALSE, remote |-> FALSE,
   cond |-> "none", hooks |-> <<>>, used |-> FALSE, freed |-> FALSE, initiated |-> FALSE, messages |-> 0]

Idle == [at |-> "idle", conn |-> None, hooks |-> <<>>]

NoFrame == [conn |-> None, at |-> "none"]

Init ==
  /\ program \in Programs
  /\ pos = [u \in Users |-> 1]
  /\ held = [u \in Users |-> None]
  /\ task = [t \in Threads |-> Idle]
  /\ conns = [c \in Conns |-> Unused]
  /\ list = <<>> /\ frame = NoFrame /\ abort = FALSE
  /\ alive = Peers
  /\ called = [c \in Conns |-> <<>>]
  /\ touched = FALSE

---------------------------------------------------------------------------
(* CMConnection_create and add_conn_to_CM: one reference for the transport *)
(* and one for the list; one more for the user who initiates.              *)
Create(c, p, user) ==
  /\ ~conns[c].used
  /\ conns' = [conns EXCEPT ![c] =
       [Unused EXCEPT !.used = TRUE, !.peer = p, !.refs = IF user THEN 3 ELSE 2, !.selected = (p # None),
                      !.initiated = user, !.cond = IF user THEN "waiting" ELSE "none"]]
  /\ list' = Append(list, c)

(* CMConnection_dereference: the last reference frees the structure.  It   *)
(* is only reached after the connection has failed, see RefsSound.         *)
Dereference(cs, c) ==
  [cs EXCEPT ![c].refs = @ - 1, ![c].freed = @ \/ cs[c].refs = 1, ![c].closed = @ \/ cs[c].refs = 1]

(* Fault: conditions that depend on the connection do not fail.            *)
BrokenSilently(cs, c) ==
  Dereference([cs EXCEPT ![c].failed = TRUE, ![c].selected = FALSE, ![c].hooks = <<>>], c)

(* The first half of CMConnection_failed: conditions fail, the socket is   *)
(* closed and taken out of the select, whose reference goes, and the close *)
(* handlers are taken off the connection.                                  *)
Broken(cs, c) ==
  Dereference([cs EXCEPT ![c].failed = TRUE, ![c].selected = FALSE, ![c].hooks = <<>>,
                         ![c].cond = IF @ = "waiting" THEN "failed" ELSE @], c)

Removed(l, c) == RemoveFirst(l, c)

(* Fault: removing the connection does not end the reading ahead.          *)
AbortUnchanged == abort

AbortOnRemove == TRUE

(* The loop over the close handlers, and the end of CMConnection_failed:   *)
(* remove_conn_from_CM.  Handlers run without the lock, and only while     *)
(* nobody has closed the connection.                                       *)
Proceed(t, c, cs, hooks) ==
  IF hooks = <<>> \/ cs[c].closed
  THEN /\ conns' = Dereference([cs EXCEPT ![c].closed = TRUE], c)
       /\ list' = Removed(list, c)
       /\ abort' = AbortOnRemove
       /\ task' = [task EXCEPT ![t] = Idle]
  ELSE /\ conns' = cs
       /\ task' = [task EXCEPT ![t] = [at |-> "callback", conn |-> c, hooks |-> hooks]]
       /\ UNCHANGED <<list, abort>>

(* CMConnection_failed.                                                    *)
Fail(t, c) ==
  IF conns[c].failed THEN UNCHANGED <<conns, list, abort, task>>
  ELSE Proceed(t, c, Broken(conns, c), conns[c].hooks)

(* CMConnection_close by user u.                                           *)
Closed(cs, c) == Dereference([cs EXCEPT ![c].closed = TRUE], c)

(* A close handler runs.  One of the closing kind gives back the reference *)
(* of its user (stone_close_handler, evp.c:2059).                          *)
CloseHandler(t) ==
  LET c == task[t].conn
      u == Head(task[t].hooks)
      closes == u \in program.closers /\ held[u] = c
  IN
  /\ task[t].at = "callback"
  /\ called' = [called EXCEPT ![c] = Append(@, u)]
  /\ held' = IF closes THEN [held EXCEPT ![u] = None] ELSE held
  /\ Proceed(t, c, IF closes THEN Closed(conns, c) ELSE conns, Tail(task[t].hooks))
  /\ UNCHANGED <<program, pos, frame, alive, touched>>

---------------------------------------------------------------------------
(* The users.                                                              *)

At(u, op) == task[u] = Idle /\ pos[u] \in DOMAIN program.ops[u] /\ program.ops[u][pos[u]] = op

Done(u) == pos' = [pos EXCEPT ![u] = @ + 1]

Usable(c) == ~conns[c].closed /\ ~conns[c].failed

(* Fault: only a connection that has answered the handshake is compared.    *)
MatchesAnswered(u) ==
  {i \in DOMAIN list : LET c == list[i]
                       IN  Usable(c) /\ conns[c].peer = program.peer[u] /\ conns[c].remote}

Matches(u) ==
  {i \in DOMAIN list : Usable(list[i]) /\ conns[list[i]].peer = program.peer[u]}

(* CMinternal_get_conn finds the first connection to the same peer.        *)
GetFinds(u) ==
  /\ At(u, "get")
  /\ \E i \in Matches(u) :
       /\ \A j \in Matches(u) : i <= j
       /\ held' = [held EXCEPT ![u] = list[i]]
       /\ conns' = [conns EXCEPT ![list[i]].refs = @ + 1]
  /\ Done(u)
  /\ UNCHANGED <<program, task, list, frame, abort, alive, called, touched>>

(* It finds none: the transport connects, the handshake is sent and the    *)
(* user waits for the answer without the lock.                             *)
GetInitiates(u) ==
  /\ At(u, "get") /\ Matches(u) = {}
  /\ program.peer[u] \in alive
  /\ \E c \in Conns :
       /\ Create(c, program.peer[u], TRUE)
       /\ task' = [task EXCEPT ![u] = [Idle EXCEPT !.at = "shake", !.conn = c]]
  /\ UNCHANGED <<program, pos, held, frame, abort, alive, called, touched>>

(* The connect fails, and so does the call: the user's program ends.       *)
GetFails(u) ==
  /\ At(u, "get") /\ Matches(u) = {}
  /\ program.peer[u] \notin alive \/ \A c \in Conns : conns[c].used
  /\ pos' = [pos EXCEPT ![u] = Len(program.ops[u]) + 1]
  /\ UNCHANGED <<program, held, task, conns, list, frame, abort, alive, called, touched>>

(* The wait ends when the handshake came or the connection failed; the     *)
(* connection is returned in both cases.                                   *)
HandshakeDone(u) ==
  /\ task[u].at = "shake" /\ conns[task[u].conn].cond \in {"signaled", "failed"}
  /\ conns' = [conns EXCEPT ![task[u].conn].cond = "none"]
  /\ held' = [held EXCEPT ![u] = task[u].conn]
  /\ task' = [task EXCEPT ![u] = Idle]
  /\ Done(u)
  /\ UNCHANGED <<program, list, frame, abort, alive, called, touched>>

(* A user without a connection skips what it would do with one.            *)
Skip(u) ==
  /\ \E op \in Ops \ {"get"} : At(u, op)
  /\ held[u] = None
  /\ Done(u)
  /\ UNCHANGED <<program, held, task, conns, list, frame, abort, alive, called, touched>>

Register(u) ==
  /\ At(u, "register") /\ held[u] # None
  /\ conns' = [conns EXCEPT ![held[u]].hooks = Append(@, u)]
  /\ Done(u)
  /\ UNCHANGED <<program, held, task, list, frame, abort, alive, called, touched>>

(* A write goes through, or is refused on a closed connection.             *)
Write(u) ==
  /\ At(u, "write") /\ held[u] # None
  /\ Done(u)
  /\ UNCHANGED <<program, held, task, conns, list, frame, abort, alive, called, touched>>

WriteFails(u) ==
  /\ At(u, "write") /\ held[u] # None
  /\ ~conns[held[u]].closed /\ conns[held[u]].peer \notin alive
  /\ Fail(u, held[u])
  /\ Done(u)
  /\ UNCHANGED <<program, held, frame, alive, called, touched>>

Close(u) ==
  /\ At(u, "close") /\ held[u] # None
  /\ conns' = Closed(conns, held[u])
  /\ held' = [held EXCEPT ![u] = None]
  /\ Done(u)
  /\ UNCHANGED <<program, task, list, frame, abort, alive, called, touched>>

---------------------------------------------------------------------------
(* The network thread.                                                     *)

NetIdle == task[Net] = Idle /\ frame = NoFrame

(* socket_accept_conn.  If the peer says nothing the connection is left in *)
(* the list without being read.                                            *)
Accept(p) ==
  /\ NetIdle /\ p \in program.connecting \cap alive
  /\ ~\E c \in Conns : conns[c].used /\ ~conns[c].initiated
  /\ \E c \in Conns, heard \in BOOLEAN : Create(c, IF heard THEN p ELSE None, FALSE)
  /\ UNCHANGED <<program, pos, held, task, frame, abort, alive, called, touched>>

Heard(c) == NetIdle /\ conns[c].selected

(* CMdo_handshake: who waits for the handshake is told.                    *)
HandshakeArrives(c) ==
  /\ Heard(c) /\ ~conns[c].remote
  /\ conns' = [conns EXCEPT ![c].remote = TRUE, ![c].cond = IF @ = "waiting" THEN "signaled" ELSE @]
  /\ UNCHANGED <<program, pos, held, task, list, frame, abort, alive, called, touched>>

(* CMact_on_data calls a handler: it has a reference of its own.           *)
MessageArrives(c) ==
  /\ Heard(c) /\ conns[c].remote /\ conns[c].messages = 0
  /\ conns' = [conns EXCEPT ![c].refs = @ + 1, ![c].messages = 1]
  /\ frame' = [conn |-> c, at |-> "handler"]
  /\ UNCHANGED <<program, pos, held, task, list, abort, alive, called, touched>>

(* The handler answers, and the write fails.                               *)
AnswerFails ==
  /\ frame.at = "handler" /\ task[Net] = Idle
  /\ ~conns[frame.conn].closed /\ conns[frame.conn].peer \notin alive
  /\ Fail(Net, frame.conn)
  /\ UNCHANGED <<program, pos, held, frame, alive, called, touched>>

HandlerReturns ==
  /\ frame.at = "handler" /\ task[Net] = Idle
  /\ conns' = Dereference(conns, frame.conn)
  /\ frame' = [frame EXCEPT !.at = "read"]
  /\ UNCHANGED <<program, pos, held, task, list, abort, alive, called, touched>>

(* CMDataAvailable after a message: it stops if it is told to, and looks   *)
(* at the connection again otherwise.                                      *)
ReadAhead ==
  /\ frame.at = "read"
  /\ touched' = (touched \/ (~abort /\ conns[frame.conn].freed))
  /\ abort' = FALSE
  /\ frame' = NoFrame
  /\ UNCHANGED <<program, pos, held, task, conns, list, alive, called>>

Eof(c) ==
  /\ Heard(c) /\ conns[c].peer \notin alive
  /\ Fail(Net, c)
  /\ UNCHANGED <<program, pos, held, frame, alive, called, touched>>

PeerDies(p) ==
  /\ p \in program.mortal \cap alive
  /\ alive' = alive \ {p}
  /\ UNCHANGED <<program, pos, held, task, conns, list, frame, abort, called, touched>>

User(u) ==
  \/ GetFinds(u) \/ GetInitiates(u) \/ GetFails(u) \/ HandshakeDone(u) \/ Skip(u)
  \/ Register(u) \/ Write(u) \/ WriteFails(u) \/ Close(u)

Network(c) == HandshakeArrives(c) \/ MessageArrives(c) \/ Eof(c)

Next ==
  \/ \E u \in Users : User(u)
  \/ \E t \in Threads : CloseHandler(t)
  \/ \E c \in Conns : Network(c)
  \/ AnswerFails \/ HandlerReturns \/ ReadAhead
  \/ \E p \in Peers : Accept(p) \/ PeerDies(p)

Spec == Init /\ [][Next]_vars

Progress ==
  \/ \E u \in Users : User(u)
  \/ \E t \in Threads : CloseHandler(t)
  \/ \E c \in Conns : HandshakeArrives(c) \/ Eof(c)
  \/ HandlerReturns \/ ReadAhead

(* Users go on with their programs, handlers return, and what the network  *)
(* thread is told it looks at: answers to handshakes and ends of file.     *)
(* Each of these happens finitely often, so none can starve another.       *)
FairSpec == Spec /\ WF_vars(Progress)

---------------------------------------------------------------------------
Connection ==
  [peer : Peers \cup {None}, refs : Nat, closed : BOOLEAN, failed : BOOLEAN, selected : BOOLEAN,
   remote : BOOLEAN, cond : {"none", "waiting", "signaled", "failed"}, hooks : Seq(Users),
   used : BOOLEAN, freed : BOOLEAN, initiated : BOOLEAN, messages : {0, 1}]

TypeOK ==
  /\ program \in Programs /\ pos \in [Users -> Nat \ {0}]
  /\ held \in [Users -> Conns \cup {None}]
  /\ task \in [Threads -> [at : {"idle", "shake", "callback"}, conn : Conns \cup {None},
                           hooks : Seq(Users)]]
  /\ conns \in [Conns -> Connection] /\ list \in Seq(Conns)
  /\ frame \in [conn : Conns \cup {None}, at : {"none", "handler", "read"}]
  /\ abort \in BOOLEAN /\ alive \subseteq Peers /\ touched \in BOOLEAN
  /\ called \in [Conns -> Seq(Users)]

HasTransportRef(c) == conns[c].used /\ ~conns[c].failed

Count(S) == Cardinality(S)

References(c) ==
  Count({c} \cap Range(list)) +
  (IF HasTransportRef(c) THEN 1 ELSE 0) +
  Count({u \in Users : held[u] = c}) +
  Count({u \in Users : task[u].at = "shake" /\ task[u].conn = c}) +
  (IF frame.conn = c /\ frame.at = "handler" THEN 1 ELSE 0)

(* The reference count of a connection is the number of those who hold it: *)
(* it is freed when the last one lets go and not before, which is always   *)
(* after it failed, and nobody looks at it afterwards: not the thread that *)
(* calls close handlers, and not CMDataAvailable, which gives up its own   *)
(* reference before it reads ahead (cm.c:1067, 1318-1351, 1373-1391, 2752, *)
(* 2255).                                                                  *)
RefsSound ==
  /\ TypeOK
  /\ \A c \in Conns :
       /\ conns[c].refs = References(c)
       /\ conns[c].freed <=> (conns[c].used /\ conns[c].refs = 0)
       /\ conns[c].freed => conns[c].failed
  /\ \A t \in Threads : task[t].conn # None => ~conns[task[t].conn].freed
  /\ ~touched

Open(c) == c \in Range(list) /\ conns[c].initiated /\ ~conns[c].closed /\ ~conns[c].failed

(* Users of one peer share one connection, even while its handshake is     *)
(* under way, and each user's close handlers are called at most as often   *)
(* as the user registered, on connections that failed (cm.c:1745-1760,     *)
(* 1373-1389).                                                             *)
SharedOnce ==
  /\ \A c, d \in Conns : Open(c) /\ Open(d) /\ conns[c].peer = conns[d].peer => c = d
  /\ \A u \in Users : \A c \in Conns :
       Count({i \in DOMAIN called[c] : called[c][i] = u}) <=
         Count({i \in DOMAIN program.ops[u] : program.ops[u][i] = "register"})
  /\ \A c \in Conns : called[c] # <<>> => conns[c].failed

AllGone(c) == \A u \in Users : held[u] # c

(* Nobody waits for a handshake for ever, and a connection that failed is  *)
(* freed once its users have let go of it, whichever thread saw it fail    *)
(* and whatever its handlers did (cm.c:1568, 1355-1392).                   *)
ConnectionsEnd ==
  /\ \A u \in Users : (task[u].at = "shake") ~> (task[u].at # "shake")
  /\ \A c \in Conns : conns[c].failed ~> (conns[c].freed \/ ~AllGone(c))
=============================================================================
