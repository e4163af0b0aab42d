------------------------------ MODULE MCStone -------------------------------
(* Small applications for TLC: a stone graph and what is done with it.      *)
EXTENDS EVStone

CONSTANTS a1, a2

(* A split that feeds a terminal twice, and another one through a filter;   *)
(* two threads and the network submit while stones are frozen.              *)
Splitting ==
  [threads |-> {a1, a2}, action |-> <<"split", "terminal", "terminal", "filter">>,
   outputs |-> << <<2, 4, 2>>, <<>>, <<>>, <<3>> >>, limit |-> -1,
   entry |-> {1}, kinds |-> {"app", "net"}, usage |-> {"freeze", "unfreeze"},
   maxCalls |-> 1, maxPolls |-> 1]

(* A filter in front of a terminal, fed by the network and drained.         *)
Draining ==
  [threads |-> {a1}, action |-> <<"filter", "terminal">>,
   outputs |-> << <<2>>, <<>> >>, limit |-> -1,
   entry |-> {1}, kinds |-> {"net"}, usage |-> {"freeze", "unfreeze", "drain"},
   maxCalls |-> 3, maxPolls |-> 1]

(* Every kind of action and every call, with a store that may hold one      *)
(* event.                                                                   *)
Storing ==
  [threads |-> {a1}, action |-> <<"split", "terminal", "filter", "store">>,
   outputs |-> << <<4, 3>>, <<>>, <<2>>, <<2>> >>, limit |-> 1,
   entry |-> {1}, kinds |-> {"app"}, usage |-> Calls,
   maxCalls |-> 2, maxPolls |-> 0]

AllPrograms == {Splitting, Draining, Storing}
=============================================================================
