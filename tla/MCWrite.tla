------------------------------ MODULE MCWrite ------------------------------
(* Small programs that write: messages of every kind on a connection that  *)
(* stays open, and messages of the checked kinds on one that is closed.    *)
EXTENDS CMWrite, TLC

CONSTANTS m1, m2, m3, m4, m5

(* Two pieces of data, so that a write may also stop inside the second.    *)
TwoPieces == <<2, 1>>

OpenAndClosed ==
  {[messages |-> {m1, m3, m4}, closes |-> {}],
   [messages |-> {m1, m2, m3}, closes |-> {"shared", "last"}],
   [messages |-> {m3, m5}, closes |-> {"shared"}]}
=============================================================================
