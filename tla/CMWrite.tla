------------------------------ MODULE CMWrite ------------------------------
(***************************************************************************)
(* The write side of one CMConnection (cm.c: INT_CMwrite_attr,             *)
(* INT_CMwrite_raw_notify, CMWriteQueuedData, wait_for_pending_write and   *)
(* the write callbacks).  A message is a vector of pieces: a header, the   *)
(* encoded attributes if it has any, and the data.  A non-blocking write   *)
(* may take only a part of it; the remainder is queued on the connection,  *)
(* write_pending is set and the network thread finishes the message when   *)
(* the socket is writable again.  Until then every other writer waits:     *)
(* Pollers (a single-threaded program, or the network thread itself) enter *)
(* the select loop, all others wait on a condition that a write callback   *)
(* signals.  A byte is the message, the piece and its place in the piece.  *)
(*                                                                         *)
(* Every action is the code between two points at which the CManager lock  *)
(* is given up.                                                            *)
(***************************************************************************)
EXTENDS Naturals, Sequences, FiniteSets, SequencesExt

CONSTANTS
  Writers,      \* threads that write on the connection
  Pollers,      \* those of them that wait by polling the network
  NoMessage,
  Plain,        \* messages without attributes, written by INT_CMwrite_attr
  WithAttrs,    \* messages with attributes, written by INT_CMwrite_attr
  Raw,          \* messages handed to INT_CMwrite_raw by its other callers
  Direct,       \* replies to format queries, given to the transport at once
  HeaderLength, AttrLength, DataLengths,
  FirstPart,    \* bytes the socket takes of every message before it blocks
  Applications, \* what is written, and whether the connection is closed
  UserData,     \* client data of the application's write callback, or {}
  Breaks,       \* BOOLEAN: the peer may go away
  RepliesWait,  \* BOOLEAN: queries come only while no write is pending
  RegisterUntil \* bound: the application registers its callback before so
                \* many conditions exist

Messages == Plain \union WithAttrs \union Raw \union Direct

ASSUME WriteAssumption ==
  /\ Pollers \subseteq Writers
  /\ NoMessage \notin Messages
  /\ HeaderLength \in Nat \ {0} /\ AttrLength \in Nat
  /\ DataLengths \in Seq(Nat \ {0}) /\ Len(DataLengths) > 0
  /\ FirstPart \in Nat
  /\ Applications \subseteq
       [messages : SUBSET Messages, closes : SUBSET {"last", "shared"}]
  /\ UserData \subseteq Nat /\ RegisterUntil \in Nat
  /\ Breaks \in BOOLEAN /\ RepliesWait \in BOOLEAN

VARIABLES
  closes,     \* which closes the application may make: of the last
              \* reference, or while others hold one
  conn,       \* the connection: flags, queued_data and the write callbacks
  peer,       \* "up", or "down": the socket reports a serious error
  wire,       \* bytes the transport has taken
  pc, msg,    \* per writer: "idle", "poll" or "cond", and what it writes
  cond,       \* per writer: the condition it waits on, 0 if none
  signaled,   \* conditions that are done
  nextCond,   \* next_condition_num
  unsent,     \* messages nobody has tried to write yet
  accepted,   \* messages whose write was reported as a success, in order
  fault       \* what went wrong with the buffer of the remainder

vars == <<closes, conn, peer, wire, pc, msg, cond, signaled, nextCond, unsent, accepted, fault>>

(* full_vec: the pieces of a message. *)
Lengths(m) ==
  <<HeaderLength>> \o (IF m \in WithAttrs THEN <<AttrLength>> ELSE <<>>) \o DataLengths

Vector(m) == [i \in 1 .. Len(Lengths(m)) |-> [j \in 1 .. Lengths(m)[i] |-> <<m, i, j>>]]

(* The bytes before a piece. *)
Start(m, i) == Len(FlattenSeq(SubSeq(Vector(m), 1, i - 1)))

Bytes(m) == FlattenSeq(Vector(m))

Drop(s, n) == SubSeq(s, n + 1, Len(s))

Take(s, n) == SubSeq(s, 1, n)

Open == ~conn.closed /\ ~conn.failed

Remainder == conn.header \o conn.attrs \o conn.data

NoSlot == [func |-> "none", data |-> 0]

Init ==
  /\ \E a \in Applications : closes = a.closes /\ unsent = a.messages
  /\ conn = [closed |-> FALSE, failed |-> FALSE, pending |-> FALSE, notify |-> FALSE,
             header |-> <<>>, attrs |-> <<>>, data |-> <<>>, buffer |-> "unset",
             callbacks |-> <<>>]
  /\ peer = "up"
  /\ wire = <<>>
  /\ pc = [w \in Writers |-> "idle"]
  /\ msg = [w \in Writers |-> NoMessage]
  /\ cond = [w \in Writers |-> 0]
  /\ signaled = {}
  /\ nextCond = 1
  /\ accepted = <<>>
  /\ fault = "none"
-----------------------------------------------------------------------------
(* The write callbacks. *)

(* Fault: a new callback overwrites the last slot. *)
AddCallbackLast(slots, entry) ==
  IF slots = <<>> THEN <<entry>> ELSE [slots EXCEPT ![Len(slots)] = entry]

(* add_pending_write_callback: the first free slot, or a new one. *)
AddCallback(slots, entry) ==
  LET free == {i \in 1 .. Len(slots) : slots[i].func = "none"}
  IN IF free = {} THEN Append(slots, entry)
     ELSE [slots EXCEPT ![CHOOSE i \in free : \A j \in free : i <= j] = entry]

(* Fault: the slot is marked instead of cleared. *)
RemoveMarked(slots, entry) ==
  LET hits == {i \in 1 .. Len(slots) : slots[i].func = entry.func \/ slots[i].data = entry.data}
  IN IF hits = {} THEN slots
     ELSE [slots EXCEPT ![CHOOSE i \in hits : \A j \in hits : i <= j].func = "removed"]

(* remove_pending_write_callback: the search stops at the first slot in    *)
(* which the function or the client data is the wanted one.                *)
RemoveCallback(slots, entry) ==
  LET hits == {i \in 1 .. Len(slots) : slots[i].func = entry.func \/ slots[i].data = entry.data}
  IN IF hits = {} THEN slots
     ELSE [slots EXCEPT ![CHOOSE i \in hits : \A j \in hits : i <= j].func = "none"]

(* cm_wake_any_pending_write calls the callbacks that were registered when *)
(* it began; wake_pending_write removes itself and signals its condition.  *)
IsWake(entry) == entry.func = "wake"

AfterWake(slots) ==
  LET after[i \in 0 .. Len(slots)] ==
        IF i = 0 THEN slots
        ELSE IF IsWake(slots[i]) THEN RemoveCallback(after[i - 1], slots[i])
        ELSE after[i - 1]
  IN after[Len(slots)]

(* Fault: only the first callback is called. *)
WokenFirst(slots) ==
  {slots[i].data : i \in {j \in 1 .. Len(slots) : IsWake(slots[j]) /\ \A h \in 1 .. j - 1 : ~IsWake(slots[h])}}

WokenBy(slots) == {slots[i].data : i \in {j \in 1 .. Len(slots) : IsWake(slots[j])}}

(* INT_CMregister_write_callback and INT_CMunregister_write_callback, by   *)
(* the slot number.                                                        *)
Register ==
  /\ Open
  /\ \A i \in 1 .. Len(conn.callbacks) : conn.callbacks[i].func # "user"
  /\ nextCond <= RegisterUntil
  /\ \E d \in UserData : conn' = [conn EXCEPT !.callbacks = AddCallback(@, [func |-> "user", data |-> d])]
  /\ UNCHANGED <<closes, peer, wire, pc, msg, cond, signaled, nextCond, unsent, accepted, fault>>

Unregister ==
  /\ \E i \in 1 .. Len(conn.callbacks) :
       /\ conn.callbacks[i].func = "user"
       /\ conn' = [conn EXCEPT !.callbacks[i].func = "none"]
  /\ UNCHANGED <<closes, peer, wire, pc, msg, cond, signaled, nextCond, unsent, accepted, fault>>
-----------------------------------------------------------------------------
(* cm_return_data_buf of queued_data.buffer_to_free if it is not NULL.     *)
BadReturn(buffer) ==
  IF buffer = "unset" THEN "unset pointer returned"
  ELSE IF buffer = "returned" THEN "returned twice" ELSE fault

(* write_pending is reset and the waiters are woken. *)
Drained(c) ==
  [c EXCEPT !.pending = FALSE, !.notify = FALSE, !.callbacks = AfterWake(@)]

(* INT_CMConnection_failed: the waiters are woken and the transport closes *)
(* the socket; the close handlers belong to CMConn.                        *)
FailedConn(c) ==
  [Drained(c) EXCEPT !.failed = TRUE, !.closed = TRUE]

(* A write that finds the socket broken fails the connection and returns   *)
(* the buffer of the last remainder.                                       *)
WriteFailed ==
  /\ conn' = [FailedConn(conn) EXCEPT !.buffer = "null"]
  /\ fault' = BadReturn(conn.buffer)
  /\ signaled' = signaled \union WokenBy(conn.callbacks)
  /\ UNCHANGED <<wire, accepted>>

(* queue_remaining_write: the piece in which the write stopped, and what   *)
(* of the header, the attributes and the data is left.                     *)
StopPiece(m, n) ==
  CHOOSE i \in 1 .. Len(Lengths(m)) :
    /\ n <= Start(m, i) + Lengths(m)[i]
    /\ \A j \in 1 .. i - 1 : n > Start(m, j) + Lengths(m)[j]

(* Fault: the index is not corrected for the attributes. *)
DataFromUncorrected(m, i) == IF i < 2 THEN 2 ELSE i

DataFrom(m, i) ==
  LET first == IF m \in WithAttrs THEN 3 ELSE 2
  IN IF i < first THEN first ELSE i

(* Fault: the socket is not watched for writability. *)
QueueUnwatched(c, m, n) ==
  LET i == StopPiece(m, n)
      rest == [Vector(m) EXCEPT ![i] = Drop(@, n - Start(m, i))]
  IN [c EXCEPT
       !.header = IF i = 1 THEN rest[1] ELSE <<>>,
       !.attrs = IF m \in WithAttrs /\ i <= 2 THEN rest[2] ELSE <<>>,
       !.data = FlattenSeq(SubSeq(rest, DataFrom(m, i), Len(rest))),
       !.buffer = "held", !.pending = TRUE]

QueueRemaining(c, m, n) ==
  LET i == StopPiece(m, n)
      rest == [Vector(m) EXCEPT ![i] = Drop(@, n - Start(m, i))]
  IN [c EXCEPT
       !.header = IF i = 1 THEN rest[1] ELSE <<>>,
       !.attrs = IF m \in WithAttrs /\ i <= 2 THEN rest[2] ELSE <<>>,
       !.data = FlattenSeq(SubSeq(rest, DataFrom(m, i), Len(rest))),
       !.buffer = "held", !.notify = TRUE, !.pending = TRUE]

(* The non-blocking write of INT_CMwrite_raw_notify. *)
Write(m) ==
  \/ /\ peer = "up" /\ ~conn.failed
     /\ \E n \in FirstPart .. Len(Bytes(m)) :
          /\ wire' = wire \o Take(Bytes(m), n)
          /\ conn' = IF n = Len(Bytes(m)) THEN conn ELSE QueueRemaining(conn, m, n)
          /\ fault' = IF n < Len(Bytes(m)) /\ conn.buffer = "held" THEN "leaked" ELSE fault
     /\ accepted' = Append(accepted, m)
     /\ UNCHANGED signaled
  \/ /\ peer = "down" \/ conn.failed
     /\ WriteFailed
-----------------------------------------------------------------------------
(* The test at the head of the waiting loop. *)
MustWait == conn.pending /\ ~conn.closed

(* wait_for_pending_write, until the thread is blocked. *)
Block(w) ==
  /\ IF w \in Pollers
     THEN /\ pc' = [pc EXCEPT ![w] = "poll"]
          /\ UNCHANGED <<conn, cond, nextCond>>
     ELSE /\ pc' = [pc EXCEPT ![w] = "cond"]
          /\ cond' = [cond EXCEPT ![w] = nextCond]
          /\ nextCond' = nextCond + 1
          /\ conn' = [conn EXCEPT !.callbacks = AddCallback(@, [func |-> "wake", data |-> nextCond])]
  /\ UNCHANGED <<wire, signaled, accepted, fault>>

GiveUp(w) ==
  /\ pc' = [pc EXCEPT ![w] = "idle"]
  /\ msg' = [msg EXCEPT ![w] = NoMessage]
  /\ cond' = [cond EXCEPT ![w] = 0]

(* After the wait: INT_CMwrite_attr tests the connection again,            *)
(* INT_CMwrite_raw_notify does not test it after its own wait.             *)
Proceed(w) ==
  /\ IF Open \/ msg[w] \in Raw THEN Write(msg[w])
     ELSE UNCHANGED <<conn, wire, signaled, accepted, fault>>
  /\ GiveUp(w)
  /\ UNCHANGED nextCond

(* INT_CMwrite_attr, internal_write_event and INT_CMwrite_raw up to the    *)
(* end of the write or the wait for the pending one.                       *)
WriteCall(w, m) ==
  /\ pc[w] = "idle"
  /\ m \in unsent \ Direct
  /\ unsent' = unsent \ {m}
  /\ IF Open /\ conn.pending
     THEN /\ msg' = [msg EXCEPT ![w] = m]
          /\ Block(w)
     ELSE /\ IF Open THEN Write(m) ELSE UNCHANGED <<conn, wire, signaled, accepted, fault>>
          /\ UNCHANGED <<pc, msg, cond, nextCond>>
  /\ UNCHANGED <<closes, peer>>

(* CMcontrol_list_wait returns to a poller, which tests again. *)
PollReturn(w) ==
  /\ pc[w] = "poll"
  /\ ~MustWait
  /\ Proceed(w)
  /\ UNCHANGED <<closes, peer, unsent>>

(* INT_CMCondition_wait returns: the loop goes round or ends. *)
CondReturn(w) ==
  /\ pc[w] = "cond"
  /\ cond[w] \in signaled
  /\ IF MustWait
     THEN Block(w) /\ UNCHANGED msg
     ELSE Proceed(w)
  /\ UNCHANGED <<closes, peer, unsent>>

(* CMpbio_send_format_response: the reply goes to writev_func, which       *)
(* writes all of it, whatever is pending on the connection.                *)
Reply(m) ==
  /\ m \in unsent \intersect Direct
  /\ unsent' = unsent \ {m}
  /\ ~conn.failed
  /\ RepliesWait => ~conn.pending
  /\ IF peer = "up"
     THEN /\ wire' = wire \o Bytes(m)
          /\ accepted' = Append(accepted, m)
          /\ UNCHANGED conn
     ELSE /\ conn' = [conn EXCEPT !.closed = TRUE]
          /\ UNCHANGED <<wire, accepted>>
  /\ UNCHANGED <<closes, peer, pc, msg, cond, signaled, nextCond, fault>>
-----------------------------------------------------------------------------
(* CMWriteQueuedData, called by the network thread when the socket is      *)
(* writable.  The three parts are written one after the other, and the     *)
(* first that does not fit ends the call.  The length of a header and of   *)
(* attributes that were written completely is not reset.                   *)
Queued(k) == <<conn.header, conn.attrs, conn.data>>[k]

Before(k) ==
  (IF k > 1 THEN conn.header ELSE <<>>) \o (IF k > 2 THEN conn.attrs ELSE <<>>)

(* Fault: the data is taken from the start again. *)
ShortenedNot(k, n) == conn

Shortened(k, n) ==
  CASE k = 1 -> [conn EXCEPT !.header = Drop(@, n)]
    [] k = 2 -> [conn EXCEPT !.attrs = Drop(@, n)]
    [] k = 3 -> [conn EXCEPT !.data = Drop(@, n)]

Writable == conn.notify /\ ~conn.failed

PartWritten(k, n) ==
  /\ Writable /\ peer = "up"
  /\ n < Len(Queued(k)) /\ Len(Before(k)) + n > 0
  /\ wire' = wire \o Before(k) \o Take(Queued(k), n)
  /\ conn' = Shortened(k, n)
  /\ UNCHANGED <<closes, peer, pc, msg, cond, signaled, nextCond, unsent, accepted, fault>>

AllWritten ==
  /\ Writable /\ peer = "up"
  /\ wire' = wire \o Remainder
  /\ conn' = [Drained(conn) EXCEPT !.buffer = "returned"]
  /\ fault' = BadReturn(conn.buffer)
  /\ signaled' = signaled \union WokenBy(conn.callbacks)
  /\ UNCHANGED <<closes, peer, pc, msg, cond, nextCond, unsent, accepted>>

QueuedWriteFails ==
  /\ Writable /\ peer = "down"
  /\ WriteFailed
  /\ UNCHANGED <<closes, peer, pc, msg, cond, nextCond, unsent>>

(* The network thread reads the end of the stream. *)
ReadFails ==
  /\ peer = "down" /\ ~conn.failed
  /\ conn' = FailedConn(conn)
  /\ signaled' = signaled \union WokenBy(conn.callbacks)
  /\ UNCHANGED <<closes, peer, wire, pc, msg, cond, nextCond, unsent, accepted, fault>>

PeerGoes ==
  /\ Breaks /\ peer = "up"
  /\ peer' = "down"
  /\ UNCHANGED <<closes, conn, wire, pc, msg, cond, signaled, nextCond, unsent, accepted, fault>>

(* INT_CMConnection_close while others hold references. *)
CloseShared ==
  /\ "shared" \in closes /\ ~conn.closed
  /\ conn' = [conn EXCEPT !.closed = TRUE]
  /\ UNCHANGED <<closes, peer, wire, pc, msg, cond, signaled, nextCond, unsent, accepted, fault>>

(* INT_CMConnection_close of the last reference: closed is set before      *)
(* INT_CMConnection_dereference waits for the pending write, so the wait   *)
(* ends at once and the socket is shut down.                               *)
CloseLast ==
  /\ "last" \in closes /\ ~conn.closed
  /\ \A w \in Writers : pc[w] = "idle"
  /\ conn' = FailedConn(conn)
  /\ signaled' = signaled \union WokenBy(conn.callbacks)
  /\ UNCHANGED <<closes, peer, wire, pc, msg, cond, nextCond, unsent, accepted, fault>>

Next ==
  \/ \E w \in Writers, m \in Messages : WriteCall(w, m)
  \/ \E w \in Writers : PollReturn(w)
  \/ \E w \in Writers : CondReturn(w)
  \/ \E m \in Direct : Reply(m)
  \/ \E k \in 1 .. 3 : \E n \in 0 .. Len(Queued(k)) : PartWritten(k, n)
  \/ AllWritten
  \/ QueuedWriteFails
  \/ ReadFails
  \/ PeerGoes
  \/ CloseShared
  \/ CloseLast
  \/ Register
  \/ Unregister

Spec == Init /\ [][Next]_vars

(* The network thread serves a writable or broken socket, and a thread     *)
(* whose wait is over runs.                                                *)
FairSpec ==
  /\ Spec
  /\ WF_vars(\E k \in 1 .. 3 : \E n \in 0 .. Len(Queued(k)) : PartWritten(k, n) \/ AllWritten)
  /\ WF_vars(QueuedWriteFails)
  /\ \A w \in Writers : WF_vars(PollReturn(w)) /\ WF_vars(CondReturn(w))
-----------------------------------------------------------------------------
Byte == Messages \X Nat \X Nat

Slot == [func : {"none", "wake", "user"}, data : Nat]

(* Every variable holds a value of its kind. *)
TypeOK ==
  /\ conn \in [closed : BOOLEAN, failed : BOOLEAN, pending : BOOLEAN, notify : BOOLEAN,
               header : Seq(Byte), attrs : Seq(Byte), data : Seq(Byte),
               buffer : {"unset", "null", "held", "returned"}, callbacks : Seq(Slot)]
  /\ peer \in {"up", "down"}
  /\ wire \in Seq(Byte)
  /\ pc \in [Writers -> {"idle", "poll", "cond"}]
  /\ msg \in [Writers -> Messages \union {NoMessage}]
  /\ cond \in [Writers -> Nat]
  /\ signaled \subseteq Nat /\ nextCond \in Nat
  /\ unsent \subseteq Messages
  /\ accepted \in Seq(Messages)

(* What the application was told is written: its messages, one after the   *)
(* other and each one whole (evpath.h:541: the remaining bytes are copied  *)
(* and the send is finished asynchronously).                               *)
Stream == FlattenSeq([i \in 1 .. Len(accepted) |-> Bytes(accepted[i])])

(* While the connection works, what the transport has taken and what is    *)
(* queued are together the accepted messages, in order, byte by byte:      *)
(* nothing is lost, sent twice, or put into the middle of another message, *)
(* wherever the writes of the message and of its remainder stopped.        *)
WireExact == ~conn.failed => wire \o (IF conn.pending THEN Remainder ELSE <<>>) = Stream

Exact == TypeOK /\ WireExact

(* A thread that waits on a condition nobody has signaled is listed in the *)
(* callbacks of a connection whose write is pending: its wakeup cannot be  *)
(* lost to another waiter or another callback in the same slots.           *)
WaitersListed ==
  \A w \in Writers :
    pc[w] = "cond" /\ cond[w] \notin signaled =>
      /\ conn.pending
      /\ \E i \in 1 .. Len(conn.callbacks) : conn.callbacks[i] = [func |-> "wake", data |-> cond[w]]

(* The application's write callback stays registered until it is           *)
(* unregistered: no step of the connection but Unregister removes it.      *)
HasUser(c) == \E i \in 1 .. Len(c.callbacks) : c.callbacks[i].func = "user"

UserKept == HasUser(conn) /\ ~HasUser(conn') => Unregister

(* Nobody who waits for the connection is forgotten.                       *)
CallbacksKept == [][WaitersListed' /\ UserKept]_vars

(* Every accepted message is written completely unless the peer goes or    *)
(* the last reference to the connection is given up.                       *)
AcceptedArrives ==
  []<>(Len(wire) = Len(Stream) \/ peer = "down" \/ "last" \in closes)

(* The connection is the stream its writers were promised.                 *)
Promise == INSTANCE ByteStream WITH
  Message <- Messages, sent <- accepted, arrived <- wire,
  broken <- peer = "down" \/ conn.failed

ImplementsByteStream == Promise!Spec

(* A thread that waits for the pending write goes on. *)
WaitersProceed == \A w \in Writers : pc[w] # "idle" ~> pc[w] = "idle"

(* The queued bytes and the threads that wait for them move on.            *)
WritesProceed == AcceptedArrives /\ WaitersProceed
=============================================================================
