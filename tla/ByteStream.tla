----------------------------- MODULE ByteStream -----------------------------
(***************************************************************************)
(* What a CMConnection promises to its writers (evpath.h:473, 541): the    *)
(* messages whose write succeeded are put on the stream one after the      *)
(* other, each whole and in the order of the writes, and nothing is left   *)
(* behind unless the stream breaks.                                        *)
(***************************************************************************)
EXTENDS Sequences, SequencesExt

CONSTANTS
  Message,
  Bytes(_)    \* the bytes of a message

VARIABLES
  sent,       \* the messages whose write succeeded
  arrived,    \* the bytes on the stream
  broken      \* the stream has ended

vars == <<sent, arrived, broken>>

Stream(messages) == FlattenSeq([i \in 1 .. Len(messages) |-> Bytes(messages[i])])

Init == sent = <<>> /\ arrived = <<>> /\ broken = FALSE

(* The stream grows, and never past what was sent.                         *)
Flows == IsPrefix(arrived, arrived') /\ IsPrefix(arrived', Stream(sent'))

Accept ==
  /\ ~broken
  /\ \E m \in Message : sent' = Append(sent, m)
  /\ Flows
  /\ UNCHANGED broken

Deliver ==
  /\ ~broken
  /\ arrived # Stream(sent)
  /\ arrived' # arrived
  /\ Flows
  /\ UNCHANGED <<sent, broken>>

Break ==
  /\ broken' = TRUE
  /\ UNCHANGED <<sent, arrived>>

Next == Accept \/ Deliver \/ Break

Spec == Init /\ [][Next]_vars

(* Whatever was sent arrives, as long as the stream holds.                 *)
Arrives == []<>(broken \/ arrived = Stream(sent))
=============================================================================
