------------------------------- MODULE MCConn -------------------------------
(* Small programs for CMConn: two users of one peer.                       *)
EXTENDS CMConn, TLC

CONSTANTS u1, u2, p

Both(x, y) == (u1 :> x) @@ (u2 :> y)

SamePeer == Both(p, p)

(* Both share a connection whose close handlers close it, and one comes    *)
(* back for a new one.                                                     *)
Sharing ==
  [ops |-> Both(<<"get", "register", "write", "close">>, <<"get", "register", "close", "get", "close">>),
   peer |-> SamePeer, closers |-> {u1, u2}, mortal |-> {p}, connecting |-> {}]

(* The peer connects as well, and handlers do not close.                   *)
Accepting ==
  [ops |-> Both(<<"get", "register", "write">>, <<"get", "write", "close">>),
   peer |-> SamePeer, closers |-> {}, mortal |-> {p}, connecting |-> {p}]

TwoPrograms == {Sharing, Accepting}
=============================================================================
