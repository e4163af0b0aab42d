------------------------------ MODULE MCMaster ------------------------------
(* Small applications for TLC: who the clients are and what they do.        *)
EXTENDS EVMaster, TLC

CONSTANTS r1, r2, r3

AnyVote == {"success", "failure", "nothing"}

(* What a handler asks for: a new stone on c, a link of a deployed stone of *)
(* c to the newest one of d.                                                *)
NewStone(c)  == [op |-> "create", on |-> c, to |-> c]
LinkTo(c, d) == [op |-> "link", on |-> c, to |-> d]

(* A static list in a program without comm thread; r2 may vote anything.    *)
Static ==
  [remote |-> {r1, r2, r3}, members |-> {Local, r1, r2, r3},
   list |-> <<Local, r1, r2, r3>>, expected |-> 0,
   late |-> {}, lateWaits |-> TRUE, hosts |-> {Local, r1, r2, r3},
   grow |-> {<<>>},
   votes |-> [c \in {Local, r1, r2, r3} |->
                IF c = r2 THEN AnyVote ELSE {"success"}],
   forcers |-> {}, crashers |-> {}, triggers |-> {},
   failHandler |-> FALSE, commThread |-> FALSE]

(* A join handler: r1 and r3 make up the graph, r2 joins the running one,   *)
(* and old and new clients may get new stones.                              *)
Dynamically ==
  [Static EXCEPT !.members = {r1, r2, r3}, !.list = <<>>, !.expected = 2,
                 !.late = {r2}, !.hosts = {r1, r3},
                 !.grow = {<<>>, <<NewStone(r1), NewStone(r2)>>},
                 !.votes[r2] = {"failure"}]

(* The handler links a stone of r1 to the late client and gives r3 another: *)
(* a remote call between two deployments.  r3 does not vote.                *)
Linking ==
  [Dynamically EXCEPT !.grow = {<<NewStone(r2), LinkTo(r1, r2), NewStone(r3)>>},
                      !.votes[r3] = {}]

Pair ==
  [Static EXCEPT !.remote = {r1, r2}, !.members = {Local, r1, r2},
                 !.list = <<r1, Local, r2>>, !.hosts = {Local, r1, r2},
                 !.failHandler = TRUE,
                 !.votes = [c \in {Local, r1, r2} |-> {"success"}]]

(* Without comm thread a handler of r1 flushes attributes or triggers a     *)
(* reconfiguration, and the local client may force the shutdown.            *)
Triggering ==
  [Pair EXCEPT !.votes[Local] = {"success", "failure"},
               !.grow = {<<>>, <<NewStone(Local), LinkTo(r2, Local)>>},
               !.forcers = {Local}, !.triggers = {r1}]

(* r2 joins the graph of r1 while a handler of r1 triggers: a deployment    *)
(* inside the waits of another.                                             *)
Nesting ==
  [Pair EXCEPT !.members = {r1, r2}, !.list = <<>>,
               !.expected = 1, !.late = {r2}, !.hosts = {r1},
               !.grow = {<<NewStone(r2), LinkTo(r1, r2)>>},
               !.triggers = {r1}]

(* With a comm thread r2 may die and be reported, while the local client    *)
(* does not contribute a status.                                            *)
Dying ==
  [Pair EXCEPT !.votes[Local] = {"nothing"}, !.crashers = {r2},
               !.grow = {<<NewStone(Local)>>},
               !.commThread = TRUE]

(* The local client votes beside the comm thread; the other one may die.    *)
Beside ==
  [Dying EXCEPT !.remote = {r1}, !.members = {Local, r1}, !.list = <<r1, Local>>,
                !.hosts = {Local, r1}, !.crashers = {r1},
                !.grow = {<<>>, <<NewStone(Local)>>},
                !.votes = [c \in {Local, r1} |-> {"success", "failure"}]]

(* A handler of the local client triggers.                                  *)
Selfish ==
  [Pair EXCEPT !.remote = {r1}, !.members = {Local, r1}, !.list = <<Local, r1>>,
               !.hosts = {Local, r1}, !.grow = {<<>>}, !.triggers = {Local}]

AllPrograms ==
  {Static, Dynamically, Linking, Triggering, Nesting, Dying, Beside, Selfish}

=============================================================================
