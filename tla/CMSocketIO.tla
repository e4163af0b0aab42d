----------------------------- MODULE CMSocketIO -----------------------------
(***************************************************************************)
(* One call into the socket transport (cmsockets.c): writev_func, which    *)
(* writes a whole vector, NBwritev_func, which writes what the socket      *)
(* takes, long_writev, which cuts a vector into calls below the limit of   *)
(* the kernel, and read_to_buffer_func.  The kernel decides at every       *)
(* system call how much is moved and which error is reported; every        *)
(* system call is a step.  A byte is its number in the message, and a      *)
(* piece of the vector is the number of bytes before it and its length.    *)
(***************************************************************************)
EXTENDS Integers, Sequences, FiniteSetsExt, SequencesExt

CONSTANTS
  Vectors,      \* the calls, each with the sequences of lengths it may get
  IovMax,       \* pieces the kernel takes in one call (IOV_MAX)
  MaxRW,        \* bytes the kernel takes in one call (MAX_RW_COUNT)
  TrailBuffer,  \* TRAIL_BUFFER
  Short         \* the calls whose system calls may move less than asked

Calls == DOMAIN Vectors

ASSUME SocketAssumption ==
  /\ Calls \subseteq {"writev", "nonblocking", "long", "read"}
  /\ \A c \in Calls : \A v \in Vectors[c] : v \in Seq(Nat)
  /\ IovMax \in Nat \ {0} /\ TrailBuffer \in Nat /\ MaxRW \in Nat
  /\ TrailBuffer < MaxRW
  /\ Short \subseteq Calls

VARIABLES
  call,    \* which call this is
  iov,     \* the vector: changed in place as it is written
  total,   \* bytes of the message, or bytes asked for
  inner,   \* the current writev: first piece, pieces, pieces left, bytes left
  long,    \* long_writev: first piece, the piece that was cut and where
  out,     \* bytes that were moved, in order
  result,  \* what the call returned, or -2 while it runs
  cut      \* the call was ended by an error, the end of the stream or EAGAIN

vars == <<call, iov, total, inner, long, out, result, cut>>

Running == result = -2

Lengths(lo, hi) == FoldLeft(LAMBDA n, i : n + iov[i].len, 0, [k \in 1 .. hi - lo + 1 |-> lo + k - 1])

Base(v, i) == FoldLeft(+, 0, SubSeq(v, 1, i - 1))

Pieces(v) == [i \in 1 .. Len(v) |-> [base |-> Base(v, i), len |-> v[i]]]

(* The bytes of pieces lo to hi as they stand. *)
BytesOf(lo, hi) ==
  FlattenSeq([k \in 1 .. hi - lo + 1 |->
                [b \in 1 .. iov[lo + k - 1].len |-> iov[lo + k - 1].base + b]])

NoLong == [base |-> 0, last |-> 0, part |-> 0, saved |-> 0]

NoWritev == [off |-> 0, cnt |-> 0, iovleft |-> 0, left |-> 0]

(* Fault: one byte is counted that is not there. *)
WritevMore(off, cnt, bytes) == [off |-> off, cnt |-> cnt, iovleft |-> cnt, left |-> bytes + 1]

(* The start of writev_func or NBwritev_func: all pieces, all bytes. *)
Writev(off, cnt, bytes) == [off |-> off, cnt |-> cnt, iovleft |-> cnt, left |-> bytes]

Init ==
  /\ call \in Calls
  /\ \E v \in Vectors[call] :
       /\ iov = Pieces(v)
       /\ total = Base(v, Len(v) + 1)
       /\ total > 0
       /\ inner = IF call \in {"writev", "nonblocking"} THEN Writev(0, Len(v), total) ELSE NoWritev
  /\ long = NoLong
  /\ out = <<>>
  /\ result = -2
  /\ cut = FALSE
-----------------------------------------------------------------------------
(* writev(2) of the next pieces, at most IOV_MAX of them.  The first       *)
(* piece is counted from the end of the vector.                            *)
FirstPiece == inner.off + inner.cnt - inner.iovleft + 1

Count == Min({inner.iovleft, IovMax})

LastPiece == FirstPiece + Count - 1

Moves(bytes) == IF call \in Short THEN 1 .. bytes ELSE {bytes}

(* The pieces that a writev of n bytes has used up, and what it leaves of  *)
(* the piece in which it stopped.                                          *)
UsedUp(n) == Min({k \in 1 .. Count : n <= Lengths(FirstPiece, FirstPiece + k - 1)})

Stopped(n) == FirstPiece + UsedUp(n) - 1

Rest(n) == Lengths(FirstPiece, Stopped(n)) - n

(* Fault: what was written is subtracted twice. *)
TrimmedTwice(i, rest) == [iov EXCEPT ![i] = [base |-> @.base + @.len - rest, len |-> 2 * rest - @.len]]

Trimmed(i, rest) == [iov EXCEPT ![i] = [base |-> @.base + @.len - rest, len |-> rest]]

(* writev_func: go on until everything is written. *)
WritevMoves(n) ==
  /\ call \in {"writev", "long"} /\ Running /\ inner.left > 0
  /\ n \in Moves(Lengths(FirstPiece, LastPiece))
  /\ out' = out \o SubSeq(BytesOf(FirstPiece, LastPiece), 1, n)
  /\ IF n = inner.left
     THEN /\ inner' = [inner EXCEPT !.left = 0]
          /\ UNCHANGED iov
     ELSE /\ iov' = IF Rest(n) > 0 THEN Trimmed(Stopped(n), Rest(n)) ELSE iov
          /\ inner' = [inner EXCEPT !.left = @ - n,
                         !.iovleft = @ - (IF Rest(n) > 0 THEN UsedUp(n) - 1 ELSE UsedUp(n))]
  /\ result' = IF n = inner.left /\ call = "writev" THEN inner.cnt ELSE result
  /\ UNCHANGED <<call, total, long, cut>>

(* A serious error: the number of pieces that were written is returned. *)
WritevFails ==
  /\ call \in {"writev", "long"} /\ Running /\ inner.left > 0
  /\ result' = long.base + inner.cnt - inner.iovleft
  /\ cut' = TRUE
  /\ UNCHANGED <<call, iov, total, inner, long, out>>

(* Fault: the test never finds a write complete. *)
ThisWriteMore == Lengths(1, Count) + 1

(* NBwritev_func.  The length of a call of writev is added up from the     *)
(* first piece of the vector, whichever piece the call begins with, and a  *)
(* call that moved another number of bytes is taken for one that blocked.  *)
ThisWriteBytes == Lengths(1, Count)

NonblockingMoves(n) ==
  /\ call = "nonblocking" /\ Running /\ inner.left > 0
  /\ \/ inner.iovleft = 0 /\ n = 0
     \/ inner.iovleft > 0 /\ n \in Moves(Lengths(FirstPiece, LastPiece))
  /\ out' = out \o SubSeq(BytesOf(FirstPiece, LastPiece), 1, n)
  /\ LET left == inner.left - n
     IN IF n # ThisWriteBytes
        THEN /\ result' = total - left
             /\ cut' = (n < Lengths(FirstPiece, LastPiece))
             /\ UNCHANGED inner
        ELSE /\ inner' = [inner EXCEPT !.left = left, !.iovleft = @ - Count]
             /\ result' = IF left = 0 THEN total ELSE result
             /\ UNCHANGED cut
  /\ UNCHANGED <<call, iov, total, long>>

(* EAGAIN, or a serious error. *)
NonblockingFails ==
  /\ call = "nonblocking" /\ Running /\ inner.left > 0
  /\ \/ call \in Short /\ result' = total - inner.left
     \/ result' = -1
  /\ cut' = TRUE
  /\ UNCHANGED <<call, iov, total, inner, long, out>>
-----------------------------------------------------------------------------
(* long_writev adds pieces until the next one would reach the limit, cuts  *)
(* that one, and writes up to the cut; what is left begins with the rest   *)
(* of the cut piece.                                                       *)
CutAt == {j \in long.base + 1 .. Len(iov) : Lengths(long.base + 1, j) + TrailBuffer > MaxRW}

LongWrite ==
  /\ call = "long" /\ Running /\ inner.left = 0 /\ long.last = 0
  /\ Len(out) < total
  /\ IF CutAt = {}
     THEN /\ inner' = Writev(long.base, Len(iov) - long.base, Lengths(long.base + 1, Len(iov)))
          /\ UNCHANGED <<iov, long>>
     ELSE LET j == Min(CutAt)
              part == MaxRW - Lengths(long.base + 1, j - 1) - TrailBuffer
          IN /\ long' = [long EXCEPT !.last = j, !.part = part, !.saved = iov[j].len - part]
             /\ iov' = [iov EXCEPT ![j].len = part]
             /\ inner' = Writev(long.base, j - long.base, Lengths(long.base + 1, j - 1) + part)
  /\ UNCHANGED <<call, total, out, result, cut>>

(* Fault: the next call begins behind the cut piece. *)
NextBaseBehind(j) == j

NextBase(j) == j - 1

(* The length of what was written is added to the piece's base.  The base  *)
(* was moved already when the kernel took the piece in parts.              *)
LongNext ==
  /\ call = "long" /\ Running /\ inner.left = 0 /\ long.last # 0
  /\ iov' = [iov EXCEPT ![long.last] = [base |-> @.base + long.part, len |-> long.saved]]
  /\ long' = [NoLong EXCEPT !.base = NextBase(long.last)]
  /\ UNCHANGED <<call, total, inner, out, result, cut>>

LongEnds ==
  /\ call = "long" /\ Running /\ inner.left = 0 /\ long.last = 0
  /\ Len(out) >= total
  /\ result' = Len(iov)
  /\ UNCHANGED <<call, iov, total, inner, long, out, cut>>
-----------------------------------------------------------------------------
(* read_to_buffer_func.  Only the first system call may end the call       *)
(* without data: with 0 if the caller does not want to block and the error *)
(* is a transient or old one, and else with -1.  After it, a transient     *)
(* error is tried again and everything else ends the call with the number  *)
(* of bytes there are.                                                     *)
ReadMoves(n) ==
  /\ call = "read" /\ Running
  /\ n \in Moves(Min({total - Len(out), MaxRW}))
  /\ out' = out \o [b \in 1 .. n |-> Len(out) + b]
  /\ result' = IF Len(out') = total THEN total ELSE result
  /\ UNCHANGED <<call, iov, total, inner, long, cut>>

(* Fault: the number of bytes that are missing is returned. *)
ReadResultMissing == total - Len(out)

ReadResult == Len(out)

ReadEnds ==
  /\ call = "read" /\ Running
  /\ \/ out = <<>> /\ result' \in {0, -1}
     \/ out # <<>> /\ result' = ReadResult
  /\ cut' = TRUE
  /\ UNCHANGED <<call, iov, total, inner, long, out>>

Next ==
  \/ \E n \in 1 .. total : WritevMoves(n)
  \/ WritevFails
  \/ \E n \in 0 .. total : NonblockingMoves(n)
  \/ NonblockingFails
  \/ LongWrite
  \/ LongNext
  \/ LongEnds
  \/ \E n \in 1 .. total : ReadMoves(n)
  \/ ReadEnds

Spec == Init /\ [][Next]_vars

(* The kernel goes on moving bytes. *)
FairSpec ==
  /\ Spec
  /\ WF_vars(\/ \E n \in 1 .. total : WritevMoves(n) \/ ReadMoves(n)
             \/ \E n \in 0 .. total : NonblockingMoves(n)
             \/ LongWrite \/ LongNext \/ LongEnds)
-----------------------------------------------------------------------------
(* Every variable holds a value of its kind. *)
TypeOK ==
  /\ call \in Calls
  /\ iov \in Seq([base : Nat, len : Nat])
  /\ total \in Nat
  /\ inner \in [off : Nat, cnt : Nat, iovleft : Nat, left : Nat]
  /\ long \in [base : Nat, last : Nat, part : Nat, saved : Nat]
  /\ out \in Seq(Nat)
  /\ result \in Int
  /\ cut \in BOOLEAN

(* The bytes that were moved are the first bytes of the message, in order  *)
(* and each once, wherever the kernel stopped and however the vector was   *)
(* cut.                                                                    *)
InOrder == out = [b \in 1 .. Len(out) |-> b]

BytesInOrder == TypeOK /\ InOrder

(* What the call returns is what it did: success means every byte, and a   *)
(* number of bytes is the number of bytes that were moved (CM queues the   *)
(* rest of a message from this number).                                    *)
ResultExact ==
  ~Running =>
    CASE call \in {"writev", "long"} -> result = Len(iov) => Len(out) = total
      [] call = "nonblocking" -> result >= 0 => result = Len(out)
      [] call = "read" -> result > 0 => result = Len(out)

(* A call ends early only for a reason: an error, the end of the stream or *)
(* a socket that takes no more.                                            *)
EndsForAReason == ~Running /\ ~cut => Len(out) = total

ResultSound == ResultExact /\ EndsForAReason

(* The call returns. *)
CallReturns == <>~Running
=============================================================================
