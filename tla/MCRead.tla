------------------------------- MODULE MCRead -------------------------------
(* Small sets of messages for CMRead.                                      *)
EXTENDS CMRead, TLC

CONSTANTS k1, k2

M(kind, words, does) == [kind |-> kind, words |-> words, does |-> does, wakes |-> {}]

Reply(words, to) == [M("data", words, "returns") EXCEPT !.wakes = {to}]

Peers(x, y) == (k1 :> x) @@ (k2 :> y)

(* One connection: a handler waits for a reply that may be cut anywhere.   *)
Waiting ==
  [sent |-> Peers(<<M("data", 5, "waits"), M("event", 5, "returns"), Reply(6, <<k1, 1>>),
                    M("converted", 9, "takes"), M("data", 5, "takes")>>, <<>>),
   hasThread |-> FALSE, dies |-> {}]

(* Two connections: one peer dies, or talks another protocol.              *)
Dying ==
  [sent |-> Peers(<<M("event", 6, "returns"), M("handshake", 5, "returns")>>,
                  <<M("data", 5, "missing"), M("performance", 3, "returns")>>),
   hasThread |-> TRUE, dies |-> {k2}]

Foreign ==
  [sent |-> Peers(<<M("converted", 5, "takes"), M("event", 5, "returns")>>,
                  <<M("performance", 4, "returns"), M("unknown", 2, "returns")>>),
   hasThread |-> TRUE, dies |-> {}]

(* A handler waits for a reply on the other connection.                    *)
Crossing ==
  [sent |-> Peers(<<M("data", 5, "waits")>>, <<Reply(5, <<k1, 1>>), M("converted", 5, "takes")>>),
   hasThread |-> TRUE, dies |-> {}]

Quiet == {Waiting, Dying, Foreign, Crossing}

(* A handler that waits on a connection that CM's own thread services.     *)
Threaded ==
  {[sent |-> Peers(<<M("data", 5, "waits"), Reply(5, <<k1, 1>>), M("data", 5, "returns")>>, <<>>),
    hasThread |-> TRUE, dies |-> {}]}
=============================================================================
