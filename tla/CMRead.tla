------------------------------- MODULE CMRead -------------------------------
(***************************************************************************)
(* The reading side of cm.c: CMDataAvailable, which assembles messages     *)
(* from what a transport that offers read_to_buffer delivers, CMact_on_    *)
(* data, which says how much of a message is missing and dispatches it,    *)
(* and the pool of CMbuffers.  One thread services the network.  Its stack *)
(* is a sequence of frames: the bottom one is the thread's own wait, above *)
(* it every CMDataAvailable, whose handler may wait for a condition and so *)
(* service the network again, on the same connection or another.           *)
(*                                                                         *)
(* A stream is counted in words of four bytes; a word of a message's body  *)
(* is never taken for the key of a message (cm.c:2351).                    *)
(***************************************************************************)
EXTENDS Integers, Sequences, FiniteSets, FiniteSetsExt, SequencesExt

CONSTANTS
  Connections,
  NoConn,       \* what the bottom frame of the thread's stack reads
  Programs,     \* what peers send and handlers do, and whether CM has a thread
  MsgLimit,     \* read_ahead_msg_limit
  Ratio         \* a buffer so many times too big is made smaller (10 in the code)

Kinds == {"data", "converted", "event", "performance", "handshake", "unknown"}

(* What the code around a message does: waits for the condition <<c, k>>   *)
(* of the message, signals the condition "wakes" if there is one, takes    *)
(* the buffer, or is missing, so that the message is dropped.              *)
Messages ==
  [kind : Kinds, words : Nat, does : {"returns", "waits", "takes", "missing"},
   wakes : SUBSET (Connections \X Nat)]

ASSUME ReadAssumption ==
  /\ NoConn \notin Connections
  /\ \A p \in Programs :
       /\ p.sent \in [Connections -> Seq(Messages)]
       /\ p.hasThread \in BOOLEAN
       /\ p.dies \subseteq Connections
  /\ MsgLimit \in Nat /\ Ratio \in Nat \ {0}

VARIABLES
  program,
  arrived,    \* words the peer has sent that reached the socket
  ended,      \* connections on which an end of file follows them
  taken,      \* words read from the socket
  saved,      \* conn->buffer_full_point, buffer_data_end, message_buffer
  failed,     \* conn->failed
  frames,     \* the network thread's stack
  pool,       \* cm->cm_buffer_list, oldest first
  kept,       \* buffers held by the application or by queued events
  signaled,   \* conditions that were signaled
  abort,      \* cm->abort_read_ahead
  handled     \* the messages dispatched, in order

vars == <<program, arrived, ended, taken, saved, failed, frames, pool, kept, signaled, abort, handled>>

Message(c, k) == program.sent[c][k]

Sent(c) == DOMAIN program.sent[c]

(* The words of the messages before message k, and so the word of the      *)
(* stream at which it starts.                                              *)
Before(c, k) == UNION {{j} \X (1 .. Message(c, j).words) : j \in 1 .. k - 1}

Start(c, k) == Cardinality(Before(c, k))

Length(c) == Start(c, Len(program.sent[c]) + 1)

(* The message that starts behind word n, 0 if none does.                  *)
MessageAt(c, n) == IF \E k \in Sent(c) : Start(c, k) = n THEN CHOOSE k \in Sent(c) : Start(c, k) = n ELSE 0

HeaderBuffer == 5   \* HEADER_BUFFER_SIZE

Idle == [full |-> 0, end |-> 0, buf |-> 0]

HeaderLength(kind) ==
  CASE kind \in {"data", "converted", "event"} -> 4
    [] kind = "performance" -> 3
    [] kind = "handshake" -> 2
    [] kind = "unknown" -> 1

(* No message ends in its header, and a record or an event has more words  *)
(* than its header: its data begins with the name of the format.           *)
ASSUME SizeAssumption ==
  \A p \in Programs : \A c \in Connections : \A k \in DOMAIN p.sent[c] :
    LET m == p.sent[c][k] IN
    /\ m.words >= HeaderLength(m.kind)
    /\ m.kind \in {"data", "converted", "event"} => m.words >= HeaderBuffer

Depth == Len(frames)

Top == frames[Depth]

SetTop(f) == frames' = [frames EXCEPT ![Depth] = f]

Pop == frames' = Front(frames)

(* Nothing above a frame that waits, or whose handler runs, holds the lock. *)
LockFree == Top.pc \in {"waits", "handler", "took"}

Frame(c) ==
  [conn |-> c, pc |-> "read", full |-> 0, end |-> 0, buf |-> 0, decode |-> 0, first |-> FALSE,
   msg |-> 0, msgs |-> 0, pass |-> {}]

Init ==
  /\ program \in Programs
  /\ arrived = [c \in Connections |-> 0] /\ taken = arrived
  /\ ended = {} /\ failed = {}
  /\ saved = [c \in Connections |-> Idle]
  /\ frames = <<[Frame(NoConn) EXCEPT !.pc = "waits"]>>
  /\ pool = <<>> /\ kept = {} /\ signaled = {} /\ abort = FALSE
  /\ handled = [c \in Connections |-> <<>>]

---------------------------------------------------------------------------
(* The pool of buffers (cm_get_data_buf, cm_extend_data_buf and            *)
(* cm_return_data_buf).  New buffers are put in front of the list.  The    *)
(* field "holds" is the message a buffer was filled with last.             *)

(* Fault: a buffer of which one reference is left counts as free.          *)
FreeOneLeft(p) == {b \in DOMAIN p : p[b].ref <= 1}

Free(p) == {b \in DOMAIN p : p[b].ref <= 0}

Fitting(p, length) == {b \in Free(p) : p[b].size >= length /\ p[b].size \div Ratio < length}

(* The buffer cm_get_data_buf takes: one that fits, one that is far too    *)
(* big, one that is too small, or a new one.                               *)
Chosen(p, length) ==
  LET big == {b \in Free(p) : p[b].size >= length} IN
  IF Fitting(p, length) # {} THEN Max(Fitting(p, length))
  ELSE IF big # {} THEN Max(big)
  ELSE IF Free(p) # {} THEN Max(Free(p))
  ELSE Len(p) + 1

GetDataBuf(p, length, m) ==
  LET b == Chosen(p, length)
      size == IF b \in Fitting(p, length) THEN p[b].size ELSE length
      new == [size |-> size, ref |-> 1, holds |-> m]
  IN IF b > Len(p) THEN Append(p, new) ELSE [p EXCEPT ![b] = new]

ExtendDataBuf(p, b, length) == [p EXCEPT ![b].size = Max({@, length})]

ReturnDataBuf(p, b) == IF b = 0 THEN p ELSE [p EXCEPT ![b].ref = @ - 1]

---------------------------------------------------------------------------
(* Polling: one round visits the connections that were readable when it    *)
(* began.  Rounds begun below are over when one ends above them, for the   *)
(* list of selected descriptors counts as changed (cmselect.c:490, 552).   *)

Readable(c) == c \notin failed /\ (arrived[c] > taken[c] \/ c \in ended)

Void(fs) == [i \in DOMAIN fs |-> [fs[i] EXCEPT !.pass = {}]]

(* A condition is done when it is signaled or its connection has failed.   *)
Awake(f) == <<f.conn, f.msg>> \in signaled \/ f.conn \in failed

Poll ==
  LET ready == {c \in Connections : Readable(c)} IN
  /\ Top.pc = "waits" /\ ~Awake(Top)
  /\ Top.pass = {} /\ ready # {}
  /\ frames' = [Void(frames) EXCEPT ![Depth].pass = ready]
  /\ UNCHANGED <<program, arrived, ended, taken, saved, failed, pool, kept, signaled, abort, handled>>

(* Fault: how much has been read already is not saved.                     *)
SavedFromStart(f) == [full |-> f.full, end |-> 0, buf |-> f.buf]

(* What is saved of a message by a call that returns in the middle of it.  *)
Saved(f) == [full |-> f.full, end |-> f.end, buf |-> f.buf]

Resumed(c) ==
  [Frame(c) EXCEPT !.full = saved[c].full, !.end = saved[c].end, !.buf = saved[c].buf]

(* CMDataAvailable is called: what an earlier call saved is taken over.    *)
DataAvailable(c) ==
  /\ Top.pc = "waits" /\ c \in Top.pass
  /\ frames' = Append([frames EXCEPT ![Depth].pass = @ \ {c}], Resumed(c))
  /\ saved' = [saved EXCEPT ![c] = Idle]
  /\ UNCHANGED <<program, arrived, ended, taken, failed, pool, kept, signaled, abort, handled>>

(* Fault: the first read of a message blocks as well.                      *)
StartedBlocking(f) == IF f.full = 0 THEN [f EXCEPT !.full = 1, !.end = 0] ELSE f

(* start_read: the next message begins with the word that says its kind,   *)
(* and from then on the call does not block.  A call that goes on with     *)
(* what an earlier one saved blocks, with the lock held.                   *)
Started(f) == IF f.full = 0 THEN [f EXCEPT !.full = 1, !.end = 0, !.first = TRUE] ELSE f

(* Short messages are read into the header buffer of the connection; what  *)
(* it holds is copied when it turns out to be too small.                   *)
WithSpace(f) ==
  IF f.full < HeaderBuffer THEN [frame |-> f, pool |-> pool]
  ELSE IF f.buf = 0
  THEN [frame |-> [f EXCEPT !.buf = Chosen(pool, f.full)],
        pool |-> GetDataBuf(pool, f.full, <<f.conn, MessageAt(f.conn, taken[f.conn] - f.end)>>)]
  ELSE [frame |-> f, pool |-> ExtendDataBuf(pool, f.buf, f.full)]

Reading == Top.pc = "read" /\ Top.conn \notin failed

(* read_to_buffer: all that was asked for, or, when nothing is there or an *)
(* end of file follows, less.                                              *)
Read ==
  LET c == Top.conn
      w == WithSpace(Started(Top))
      f == w.frame
      there == arrived[c] - taken[c]
      asked == f.full - f.end
  IN
  /\ Reading
  /\ pool' = w.pool
  /\ \/ /\ there >= asked
        /\ taken' = [taken EXCEPT ![c] = @ + asked]
        /\ SetTop([f EXCEPT !.end = f.full, !.pc = "act"])
        /\ UNCHANGED saved
     \/ /\ there < asked
        /\ \/ there = 0 /\ f.first
           \/ there > 0 /\ c \in ended
        /\ taken' = [taken EXCEPT ![c] = @ + there]
        /\ saved' = [saved EXCEPT ![c] = Saved([f EXCEPT !.end = @ + there])]
        /\ Pop
  /\ UNCHANGED <<program, arrived, ended, failed, kept, signaled, abort, handled>>

(* Nothing is left before the end of file: a blocking read reports it, a   *)
(* non-blocking one only if an old error number is still set.              *)
ReadFails ==
  LET c == Top.conn IN
  /\ Reading
  /\ c \in ended /\ arrived[c] = taken[c]
  /\ pool' = WithSpace(Started(Top)).pool
  /\ failed' = failed \cup {c}
  /\ frames' = Void(Front(frames))
  /\ UNCHANGED <<program, arrived, ended, taken, saved, kept, signaled, abort, handled>>

(* The connection failed while a handler above ran: start_read returns.    *)
ReadAfterFailure ==
  /\ Top.pc = "read" /\ Top.conn \in failed
  /\ Pop
  /\ UNCHANGED <<program, arrived, ended, taken, saved, failed, pool, kept, signaled, abort, handled>>

---------------------------------------------------------------------------
(* CMact_on_data, and the end of the loop of CMDataAvailable behind it.    *)

Current == MessageAt(Top.conn, taken[Top.conn] - Top.end)

(* The message is consumed: its buffer goes back, and reading goes on      *)
(* unless a condition was signaled or enough was read in this call.        *)
Consumed(fs, p) ==
  LET f == Last(fs) IN
  /\ pool' = ReturnDataBuf(p, f.buf)
  /\ abort' = FALSE
  /\ frames' = IF abort \/ f.msgs + 1 > MsgLimit THEN Front(fs)
               ELSE Append(Front(fs), [Frame(f.conn) EXCEPT !.first = f.first, !.msgs = f.msgs + 1])

Missing(f, m) ==
  IF f.end < HeaderLength(m.kind) THEN HeaderLength(m.kind) - f.end ELSE m.words - f.end

(* A message of another protocol, or a word in the middle of a message.    *)
Unknown(c, k) == k = 0 \/ (k # 0 /\ Message(c, k).kind = "unknown")

(* Part of the message is missing: the loop reads on.                      *)
ReadMore ==
  /\ Top.pc = "act" /\ ~Unknown(Top.conn, Current)
  /\ LET n == Missing(Top, Message(Top.conn, Current)) IN
       /\ n > 0
       /\ SetTop([Top EXCEPT !.full = @ + n, !.pc = "read"])
  /\ UNCHANGED <<program, arrived, ended, taken, saved, failed, pool, kept, signaled, abort, handled>>

Complete == Top.pc = "act" /\ ~Unknown(Top.conn, Current) /\ Missing(Top, Message(Top.conn, Current)) = 0

Dispatched == handled' = [handled EXCEPT ![Top.conn] = Append(@, Current)]

(* No message has this key: the connection fails.                          *)
UnknownMessage ==
  /\ Top.pc = "act" /\ Unknown(Top.conn, Current)
  /\ failed' = failed \cup {Top.conn}
  /\ Consumed(Void(frames), pool)
  /\ UNCHANGED <<program, arrived, ended, taken, saved, kept, signaled, handled>>

(* Handshakes and performance messages are answered on the spot; a message *)
(* without format, conversion or handler is dropped.                       *)
ActAtOnce ==
  /\ Complete
  /\ LET m == Message(Top.conn, Current) IN
       m.kind \in {"handshake", "performance"} \/ (m.does = "missing" /\ m.kind # "event")
  /\ Dispatched
  /\ Consumed(frames, pool)
  /\ UNCHANGED <<program, arrived, ended, taken, saved, failed, kept, signaled>>

(* internal_cm_network_submit: the event keeps the buffer until the stones *)
(* are done with it.                                                       *)
SubmitEvent ==
  /\ Complete /\ Message(Top.conn, Current).kind = "event"
  /\ kept' = kept \cup {[buf |-> Top.buf, msg |-> <<Top.conn, Current>>]}
  /\ Dispatched
  /\ Consumed(frames, [pool EXCEPT ![Top.buf].ref = @ + 1])
  /\ UNCHANGED <<program, arrived, ended, taken, saved, failed, signaled>>

(* A record is decoded where it is or into a buffer of its own, and its    *)
(* handler is called without the lock.                                     *)
CallHandler ==
  LET m == Message(Top.conn, Current)
      id == <<Top.conn, Current>>
      own == m.kind = "converted"
  IN
  /\ Complete /\ m.kind \in {"data", "converted"} /\ m.does # "missing"
  /\ Dispatched
  /\ pool' = IF own THEN GetDataBuf(pool, m.words + 1, id) ELSE pool
  /\ SetTop([Top EXCEPT !.pc = "handler", !.msg = Current,
                        !.decode = IF own THEN Chosen(pool, m.words + 1) ELSE 0])
  /\ UNCHANGED <<program, arrived, ended, taken, saved, failed, kept, signaled, abort>>

---------------------------------------------------------------------------
(* Handlers and the application.                                           *)

HandlerMessage == Message(Top.conn, Top.msg)

(* Fault: the signal does not end it.                                      *)
SignalNeverAborts == FALSE

(* CMCondition_signal: only without a network thread does it end the       *)
(* reading ahead.                                                          *)
SignalAborts == ~program.hasThread

HandlerSignals ==
  /\ Top.pc = "handler"
  /\ HandlerMessage.wakes \ signaled # {}
  /\ signaled' = signaled \cup HandlerMessage.wakes
  /\ abort' = (abort \/ SignalAborts)
  /\ UNCHANGED <<program, arrived, ended, taken, saved, failed, frames, pool, kept, handled>>

HandlerWaits ==
  /\ Top.pc = "handler" /\ HandlerMessage.does = "waits" /\ ~Awake(Top)
  /\ SetTop([Top EXCEPT !.pc = "waits"])
  /\ UNCHANGED <<program, arrived, ended, taken, saved, failed, pool, kept, signaled, abort, handled>>

WaitEnds ==
  /\ Top.pc = "waits" /\ Top.conn # NoConn /\ Awake(Top) /\ Top.pass = {}
  /\ SetTop([Top EXCEPT !.pc = "handler"])
  /\ UNCHANGED <<program, arrived, ended, taken, saved, failed, pool, kept, signaled, abort, handled>>

(* The buffer that holds the record.                                       *)
RecordIn(f) == IF f.decode # 0 THEN f.decode ELSE f.buf

TakenBy(f) == [buf |-> RecordIn(f), msg |-> <<f.conn, f.msg>>]

(* CMtake_buffer.                                                          *)
TakeBuffer ==
  /\ Top.pc = "handler" /\ HandlerMessage.does = "takes"
  /\ kept' = kept \cup {TakenBy(Top)}
  /\ pool' = [pool EXCEPT ![RecordIn(Top)].ref = @ + 1]
  /\ SetTop([Top EXCEPT !.pc = "took"])
  /\ UNCHANGED <<program, arrived, ended, taken, saved, failed, signaled, abort, handled>>

(* The handler returns, and CMDataAvailable goes on.                       *)
HandlerReturns ==
  /\ Top.pc \in {"handler", "took"}
  /\ HandlerMessage.does = "takes" => Top.pc = "took"
  /\ HandlerMessage.wakes \subseteq signaled
  /\ HandlerMessage.does = "waits" => Awake(Top)
  /\ Consumed(frames, ReturnDataBuf(pool, Top.decode))
  /\ UNCHANGED <<program, arrived, ended, taken, saved, failed, kept, signaled, handled>>

(* CMreturn_buffer, or return_event for an event that is done.             *)
ReturnBuffer ==
  /\ LockFree
  /\ \E k \in kept :
       /\ kept' = kept \ {k}
       /\ pool' = ReturnDataBuf(pool, k.buf)
  /\ UNCHANGED <<program, arrived, ended, taken, saved, failed, frames, signaled, abort, handled>>

---------------------------------------------------------------------------
(* The peers.                                                              *)

Arrive(c) ==
  /\ arrived[c] < Length(c) /\ c \notin ended
  /\ arrived' = [arrived EXCEPT ![c] = @ + 1]
  /\ UNCHANGED <<program, ended, taken, saved, failed, frames, pool, kept, signaled, abort, handled>>

PeerDies(c) ==
  /\ c \in program.dies \ ended
  /\ ended' = ended \cup {c}
  /\ UNCHANGED <<program, arrived, taken, saved, failed, frames, pool, kept, signaled, abort, handled>>

NetworkThread ==
  \/ Poll
  \/ \E c \in Connections : DataAvailable(c)
  \/ Read \/ ReadFails \/ ReadAfterFailure
  \/ ReadMore \/ UnknownMessage \/ ActAtOnce \/ SubmitEvent \/ CallHandler
  \/ HandlerSignals \/ HandlerWaits \/ WaitEnds \/ TakeBuffer \/ HandlerReturns

Next ==
  \/ NetworkThread
  \/ ReturnBuffer
  \/ \E c \in Connections : Arrive(c) \/ PeerDies(c)

Spec == Init /\ [][Next]_vars

(* What was sent arrives, and the network thread runs: it is never kept    *)
(* from the lock for ever and handlers return.                             *)
FairSpec ==
  /\ Spec
  /\ WF_vars(NetworkThread)
  /\ \A c \in Connections : WF_vars(Arrive(c))

---------------------------------------------------------------------------
(* The peer has stopped in the middle, or talks another protocol.          *)
Spoiled(c) ==
  \/ c \in ended
  \/ \E k \in Sent(c) : k = Len(handled[c]) + 1 /\ Message(c, k).kind = "unknown"

(* Every message of a connection is dispatched once and in order, and the  *)
(* reader fails no connection whose peer sends well-formed messages: it    *)
(* never starts a message in the middle of another (cm.c:2100, 2247,       *)
(* 2420).                                                                  *)
FramingKept ==
  \A c \in Connections :
    /\ handled[c] = [k \in DOMAIN handled[c] |-> k]
    /\ c \in failed => Spoiled(c)

Holders(b) ==
  Cardinality({i \in DOMAIN frames : frames[i].buf = b}) +
  Cardinality({i \in DOMAIN frames : frames[i].decode = b}) +
  Cardinality({c \in Connections : saved[c].buf = b}) +
  Cardinality({k \in kept : k.buf = b})

(* A buffer is free exactly when nothing holds it (as long as no           *)
(* connection failed: what one holds then is lost), and the record a       *)
(* handler, the application or an event looks at is still the one that was *)
(* read, whatever was read meanwhile (cm.c:1871-1923, 1949, 2776).         *)
BuffersSound ==
  /\ \A b \in DOMAIN pool :
       /\ pool[b].ref >= Holders(b)
       /\ failed = {} => pool[b].ref = Holders(b)
  /\ \A i \in DOMAIN frames : frames[i].msg # 0 =>
       pool[RecordIn(frames[i])].holds = <<frames[i].conn, frames[i].msg>>
  /\ \A k \in kept : pool[k.buf].holds = k.msg

Most == 1 .. Max({Len(p.sent[c]) : p \in Programs, c \in Connections})

(* Every message that was sent is dispatched unless its own peer dies or   *)
(* sends something unknown before, though other peers do and handlers      *)
(* wait: nothing that was read is forgotten and nothing readable is left   *)
(* unread.                                                                 *)
EveryMessageServed ==
  \A c \in Connections, k \in Most :
    k \in Sent(c) ~> (k <= Len(handled[c]) \/ Spoiled(c))
=============================================================================
