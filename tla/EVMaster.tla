------------------------------ MODULE EVMaster ------------------------------
(***************************************************************************)
(* The EVdfg master and its clients (ev_dfg.c): joining, deployment,       *)
(* readiness, reconfiguration after a join, a failure or a trigger, and    *)
(* the vote that shuts the graph down.                                     *)
(*                                                                         *)
(* The master is one process.  Its network thread is the stack of frames   *)
(* `stack`: it takes messages off the connections, runs the poll function  *)
(* handle_queued_messages, and in it the handlers, which may wait for      *)
(* acknowledgements, wait for the answer to a remote call or sleep and so  *)
(* run the poll function again.  With a comm thread (CommThread) the       *)
(* application of the master's process runs beside it as `app`; without    *)
(* one it makes its calls when the stack is empty.  Stones are named by    *)
(* the generation that created them: the initial graph is generation 1,    *)
(* each reconfiguration the next one.                                      *)
(***************************************************************************)
EXTENDS Integers, Sequences, FiniteSets, SequencesExt

CONSTANTS
  Local,        \* the client in the master's process
  Programs      \* the applications to consider, records as `program` below

VARIABLES
  program,  \* the application: its clients and what they may do
  mstate,   \* EVmaster.state
  queue,    \* EVmaster.queued_messages
  nodes,    \* EVmaster.nodes
  master,   \* its flags reconfig, sig_reconfig_bool and old_node_count
  dfg,      \* the EVdfg: realized, stones, actions, acknowledgements
  stack,    \* the network thread of the master's process
  app,      \* the application thread of the master's process
  up, down, \* connections: client to master, master to client
  cl,       \* the clients
  fault     \* the assertion, exit or NULL pointer the master ran into

vars == <<program, mstate, queue, nodes, master, dfg, stack, app, up, down, cl, fault>>
net  == <<up, down>>

Clients == UNION {p.remote : p \in Programs}

-----------------------------------------------------------------------------
(* The application, chosen once.                                            *)
Remote      == program.remote       \* the clients in other processes
Members     == program.members      \* Remote, with or without Local
StaticList  == program.list         \* EVmaster_register_node_list, or <<>>
Expected    == program.expected     \* joins before the graph is realized
Late        == program.late         \* clients that join a deployed graph
LateWaits   == program.lateWaits    \* ... once every other client is ready
Hosts       == program.hosts        \* clients with stones at first
Grow        == program.grow         \* what reconfigurations may ask for
Votes       == program.votes        \* what each may contribute to shutdown
Forcers     == program.forcers      \* callers of EVclient_force_shutdown
Crashers    == program.crashers     \* clients that may die
Triggers    == program.triggers     \* handlers that trigger reconfiguration
FailHandler == program.failHandler  \* a fail handler is registered
CommThread  == program.commThread   \* CMfork_comm_thread was called

Dynamic == StaticList = <<>>
States  == {"Joining", "Starting", "Running", "Reconfiguring", "Shutting_Down"}
Types   == {"join", "ack", "contrib", "conn_shutdown", "flush"}
None    == "none"

-----------------------------------------------------------------------------
(* action_model: handled, unexpected, left queued or ignored.               *)
ActionModel(s, t) ==
  CASE s = "Joining"       -> IF t = "join" THEN "H" ELSE "U"
    [] s = "Running"       -> IF t = "ack" THEN "U" ELSE "H"
    [] s = "Shutting_Down" -> IF t = "conn_shutdown" THEN "I" ELSE "U"
    [] OTHER               -> IF t \in {"ack", "contrib"} THEN "H" ELSE "Q"

Init ==
  /\ program \in Programs
  /\ mstate = "Joining"
  /\ queue = <<>>
  /\ nodes = [i \in DOMAIN StaticList |->
                [client |-> StaticList[i], conn |-> FALSE, self |-> FALSE,
                 status |-> "undetermined", needsReady |-> FALSE]]
  /\ master = [reconfig |-> FALSE, sig |-> FALSE, oldCount |-> 1]
  /\ dfg = [realized |-> ~Dynamic, gen |-> IF Dynamic THEN 0 ELSE 1,
            made |-> [c \in Members |->
                        IF ~Dynamic /\ c \in Hosts THEN {1} ELSE {}],
            pending |-> <<>>, frozen |-> {}, bridges |-> {},
            sent |-> 0, deployed |-> FALSE, acks |-> 0, ackCond |-> FALSE]
  /\ stack = <<>> /\ app = [pc |-> "idle"]
  /\ up = [c \in Remote |-> <<>>] /\ down = [c \in Remote |-> <<>>]
  /\ cl = [c \in Members |->
             [phase |-> "new", stones |-> {}, twice |-> FALSE, ready |-> FALSE,
              vote |-> None, value |-> None, told |-> {}]]
  /\ fault = None

-----------------------------------------------------------------------------
(* The network thread's stack, and who holds the CManager lock.             *)
At(pc)    == fault = None /\ stack # <<>> /\ stack[1].pc = pc
Push(f)   == <<f>> \o stack
Pop       == Tail(stack)
Become(f) == <<f>> \o Tail(stack)

Waits    == {"ackwait", "revwait", "sleep"}
Unlocked == Waits \cup {"append", "ack", "joincall", "failcall", "selfdeploy",
                        "selfready", "readyrest", "relock"}
CanPoll  == fault = None /\ (stack # <<>> => stack[1].pc \in Waits)
AppHolds == app.pc = "append"
LockFree == stack # <<>> => stack[1].pc \in Unlocked
AppCalls == fault = None /\ app.pc = "idle" /\ IF CommThread THEN LockFree ELSE stack = <<>>

(* CManager_lock after a call made without it: another thread may come      *)
(* first, if there is one.                                                  *)
Relocking(s) == IF CommThread THEN <<[pc |-> "relock"]>> \o s ELSE s
Relock ==
  /\ At("relock") /\ ~AppHolds
  /\ stack' = Pop
  /\ UNCHANGED <<program, mstate, queue, nodes, master, dfg, app, net, cl, fault>>

Send(d, c, m) ==
  [d EXCEPT ![c] = IF cl[c].phase = "crashed" THEN <<>> ELSE Append(@, m)]

(* INT_CMwrite of msgs[i] to each node i of its domain with a connection.   *)
SendAll(msgs) ==
  LET S == DOMAIN msgs IN
  [c \in Remote |->
     IF \E i \in S : nodes[i].client = c /\ nodes[i].conn
     THEN Send(down, c, msgs[CHOOSE j \in S : nodes[j].client = c])[c]
     ELSE down[c]]

-----------------------------------------------------------------------------
(* queue_master_msg: the end of the list is found, then the message linked. *)
(* The handlers of incoming messages call it without the CManager lock, so  *)
(* the end may by then have a successor, or have left the list itself.      *)
Appending(m) == [pc |-> "append", msg |-> m, at |-> Len(queue),
                 last |-> IF queue = <<>> THEN <<>> ELSE queue[Len(queue)]]
LinkAfter(f) ==
  queue' = IF f.at = 0 \/ (f.at <= Len(queue) /\ queue[f.at] = f.last)
           THEN Append(SubSeq(queue, 1, f.at), f.msg)
           ELSE queue

Receive(c) ==
  /\ CanPoll
  /\ up[c] # <<>> /\ Head(up[c]).type \in Types
  /\ stack' = Push(Appending(Head(up[c])))
  /\ up' = [up EXCEPT ![c] = Tail(@)]
  /\ UNCHANGED <<program, mstate, queue, nodes, master, dfg, app, down, cl, fault>>

(* The answer to a remote call signals the condition of the first call to c *)
(* that still waits.  A connection that the master closed is still read:    *)
(* the CManager and the other end refer to it.                              *)
ReceiveResponse(c) ==
  /\ CanPoll
  /\ up[c] # <<>> /\ Head(up[c]).type = "response"
  /\ LET W == {i \in DOMAIN stack : stack[i].pc = "revwait" /\ stack[i].on = c
                                    /\ ~stack[i].got}
     IN  stack' = IF W = {} THEN stack ELSE [stack EXCEPT ![Max(W)].got = TRUE]
  /\ up' = [up EXCEPT ![c] = Tail(@)]
  /\ UNCHANGED <<program, mstate, queue, nodes, master, dfg, app, down, cl, fault>>

Link ==
  /\ At("append")
  /\ LinkAfter(stack[1])
  /\ stack' = Pop
  /\ UNCHANGED <<program, mstate, nodes, master, dfg, app, net, cl, fault>>

(* handle_queued_messages: what one pass over the list finds.  last_ptr     *)
(* stays at the head of the list, so removing a message also removes those  *)
(* it passed over.                                                          *)
Handled(i)  == ActionModel(mstate, queue[i].type) = "H"
Discards(i) == ActionModel(mstate, queue[i].type) \in {"U", "I"}
FirstHandled ==
  SelectInSeq(queue, LAMBDA m : ActionModel(mstate, m.type) = "H")
LastDiscarded ==
  SelectLastInSeq(queue, LAMBDA m : ActionModel(mstate, m.type) \in {"U", "I"})
Unlink(i) == queue' = SubSeq(queue, i + 1, Len(queue))

Poll ==
  /\ CanPoll /\ ~AppHolds
  /\ FirstHandled # 0 \/ LastDiscarded # 0
  /\ stack' = Push([pc |-> "drain"])
  /\ UNCHANGED <<program, mstate, queue, nodes, master, dfg, app, net, cl, fault>>

(* Freeing a message whose list of attributes is not one.                   *)
Wild(m) == m.type = "flush" /\ m.wild

DrainEnds ==
  /\ At("drain") /\ ~AppHolds /\ FirstHandled = 0
  /\ Unlink(LastDiscarded)
  /\ stack' = Pop
  /\ fault' = IF \E i \in DOMAIN queue : Discards(i) /\ Wild(queue[i])
              THEN "wild pointer" ELSE fault
  /\ UNCHANGED <<program, mstate, nodes, master, dfg, app, net, cl>>

(* A message of type t is removed and its handler called.                   *)
Takes(t) ==
  /\ At("drain") /\ ~AppHolds /\ FirstHandled # 0
  /\ queue[FirstHandled].type = t
  /\ Unlink(FirstHandled)
Message == queue[FirstHandled]

-----------------------------------------------------------------------------
(* handle_node_join, then check_all_nodes_registered.                       *)
AfterJoin == IF mstate = "Running" THEN "Reconfiguring" ELSE mstate

JoinStatic ==
  /\ Takes("join") /\ ~Dynamic
  /\ mstate' = AfterJoin
  /\ LET c == Message.from
         known == c \in ToSet(StaticList)
     IN  /\ nodes' = [i \in DOMAIN nodes |->
                        IF nodes[i].client # c THEN nodes[i]
                        ELSE [nodes[i] EXCEPT !.conn = c # Local,
                                              !.self = c = Local]]
         /\ stack' = IF known THEN Push([pc |-> "check"]) ELSE stack
  /\ UNCHANGED <<program, master, dfg, app, net, cl, fault>>

JoinDynamic ==
  /\ Takes("join") /\ Dynamic
  /\ mstate' = AfterJoin
  /\ nodes' = Append(nodes,
                [client |-> Message.from, conn |-> Message.from # Local,
                 self |-> Message.from = Local,
                 status |-> "undetermined", needsReady |-> FALSE])
  /\ master' = IF dfg.realized /\ ~master.reconfig
               THEN [reconfig |-> TRUE, sig |-> TRUE, oldCount |-> Len(nodes)]
               ELSE master
  /\ stack' = Push([pc |-> "check"])
  /\ UNCHANGED <<program, dfg, app, net, cl, fault>>

AllRegistered == \A i \in DOMAIN nodes : nodes[i].self \/ nodes[i].conn

CheckAllNodesRegistered ==
  /\ At("check") /\ ~AppHolds
  /\ stack' = IF Dynamic THEN Become([pc |-> "joincall"])
              ELSE IF AllRegistered THEN Become([pc |-> "perform"]) ELSE Pop
  /\ UNCHANGED <<program, mstate, queue, nodes, master, dfg, app, net, cl, fault>>

(* What a handler of the application does to the working configuration.     *)
(* EVdfg_create_stone and EVdfg_assign_node give a client a stone of the    *)
(* new generation and queue its creation; to link a deployed stone, one     *)
(* that deploy_to_node sent, queues that it is frozen, unless it is, and    *)
(* the call that links it.  A stone is linked to one of another client by a *)
(* bridge, to be made when the deployment is performed.                     *)
Joined == {nodes[i].client : i \in DOMAIN nodes}
Failed == {nodes[i].client : i \in {j \in DOMAIN nodes : nodes[j].status = "failed"}}
Act(t, c, g) == [type |-> t, on |-> c, gen |-> g]

Create(d, c) == [d EXCEPT !.made[c] = @ \cup {d.gen},
                          !.pending = Append(@, Act("create", c, d.gen))]
LinkStones(d, c, to) ==
  [d EXCEPT !.pending = @ \o (IF c \in d.frozen THEN <<>> ELSE <<Act("call", c, 0)>>)
                          \o <<Act("call", c, 0)>>,
            !.frozen = @ \cup {c},
            !.bridges = IF c = to THEN @ ELSE @ \cup {c}]
CanLink(d, c, to) == to \in Joined /\ d.made[to] # {} /\ \E g \in d.made[c] : g <= d.sent

Created(plan) ==
  FoldLeft(LAMBDA d, op :
             IF op.on \notin Joined \ Failed THEN d
             ELSE IF op.op = "create" THEN Create(d, op.on)
             ELSE IF CanLink(d, op.on, op.to) THEN LinkStones(d, op.on, op.to) ELSE d,
           [dfg EXCEPT !.gen = @ + 1], plan)

(* The graph that the first deployment sends as a whole.                    *)
InitialGraph == [dfg EXCEPT !.gen = 1, !.realized = TRUE,
                            !.made = [c \in Members |->
                                        IF c \in Hosts \cap Joined THEN {1} ELSE {}]]

(* The join handler: it builds and realizes the graph once the expected     *)
(* nodes have joined, extends it and realizes it again for every later one. *)
JoinHandler ==
  /\ At("joincall") /\ ~AppHolds
  /\ \/ /\ dfg.realized
        /\ \E plan \in Grow : dfg' = Created(plan)
        /\ master' = [master EXCEPT !.reconfig = FALSE]
     \/ /\ ~dfg.realized /\ Len(nodes) >= Expected
        /\ dfg' = InitialGraph
        /\ UNCHANGED master
     \/ /\ ~dfg.realized /\ Len(nodes) < Expected
        /\ UNCHANGED <<dfg, master>>
  /\ stack' = Relocking(IF dfg'.realized /\ ~master'.reconfig
                        THEN Become([pc |-> "perform"]) ELSE Pop)
  /\ UNCHANGED <<program, mstate, queue, nodes, app, net, cl, fault>>

-----------------------------------------------------------------------------
(* perform_deployment.  The first time, and on the nodes that joined since, *)
(* deploy_to_node sends each node all of its stones that are not deployed;  *)
(* a node without any counts as deployed.  Every such node needs a ready    *)
(* message.                                                                 *)
DeployMessage(S) == [type |-> "deploy", stones |-> S]
Holding(c, S) == [cl EXCEPT ![c].stones = @ \cup S,
                            ![c].twice = @ \/ cl[c].stones \cap S # {}]

(* A node without connection is taken for the local client, whose stones    *)
(* are created without the lock before the frame f goes on.                 *)
DeployThen(i, S, f) ==
  IF nodes[i].conn
  THEN /\ down' = Send(down, nodes[i].client, DeployMessage(S))
       /\ stack' = Become(f)
       /\ UNCHANGED fault
  ELSE /\ stack' = <<[pc |-> "selfdeploy", stones |-> S]>> \o Become(f)
       /\ fault' = IF nodes[i].self THEN fault ELSE "no connection"
       /\ UNCHANGED down

(* Fault: stones already deployed are sent.                                 *)
OldStones(i) == {g \in dfg.made[nodes[i].client] : g <= dfg.sent}

Stones(i) == {g \in dfg.made[nodes[i].client] : g > dfg.sent}

(* The frames of the loop over the nodes, of that over the actions, and of  *)
(* wait_for_deploy_acks.  `queue` says what has become of the actions: they *)
(* are there, or a deployment inside a wait freed them while others were to *)
(* be done ("null") or not ("end").                                         *)
Acting(k, q) == [pc |-> "actions", at |-> k, queue |-> q]
FromNode(i) == IF i <= Len(nodes) THEN [pc |-> "deploy", node |-> i]
               ELSE IF master.sig THEN Acting(1, "held") ELSE [pc |-> "acks"]

(* add_bridge_stones puts the bridges in front, add_unfreeze_actions the    *)
(* calls at the end.                                                        *)
PerformDeployment ==
  /\ At("perform") /\ ~AppHolds
  /\ fault' = IF mstate = IF master.sig THEN "Reconfiguring" ELSE "Joining"
              THEN fault ELSE "deployment in the wrong state"
  /\ IF master.sig
     THEN /\ dfg' = [dfg EXCEPT
               !.pending = [i \in 1..Cardinality(dfg.bridges) |->
                              Act("create", SetToSeq(dfg.bridges)[i], dfg.gen)]
                           \o @ \o
                           [i \in 1..Cardinality(dfg.frozen) |->
                              Act("call", SetToSeq(dfg.frozen)[i], 0)],
               !.made = [c \in Members |->
                           @[c] \cup IF c \in dfg.bridges THEN {dfg.gen} ELSE {}],
               !.bridges = {}, !.frozen = {}]
          /\ stack' = Become(FromNode(master.oldCount + 1))
          /\ UNCHANGED mstate
     ELSE /\ dfg' = [dfg EXCEPT !.acks = 0, !.ackCond = TRUE]
          /\ stack' = Become(FromNode(1))
          /\ mstate' = "Starting"
  /\ UNCHANGED <<program, queue, nodes, master, app, net, cl>>

(* Fault: what a new node was sent is created again.                        *)
EveryAct(c, k, T) == dfg.pending

(* The actions of type T from k on that concern c are done.                 *)
WithoutActs(c, k, T) ==
  [j \in DOMAIN dfg.pending |->
     IF j >= k /\ dfg.pending[j].on = c /\ dfg.pending[j].type \in T
     THEN [dfg.pending[j] EXCEPT !.type = "noop"] ELSE dfg.pending[j]]

DeployToNode ==
  /\ At("deploy") /\ ~AppHolds
  /\ LET i == stack[1].node
         left == WithoutActs(nodes[i].client, 1, {"create", "call"})
     IN  /\ dfg' = [dfg EXCEPT !.acks = IF Stones(i) = {} THEN @ + 1 ELSE @,
                               !.pending = IF master.sig THEN left ELSE @]
         /\ nodes' = [nodes EXCEPT ![i].needsReady = TRUE]
         /\ IF Stones(i) = {}
            THEN stack' = Become(FromNode(i + 1)) /\ UNCHANGED <<down, fault>>
            ELSE DeployThen(i, Stones(i), FromNode(i + 1))
  /\ UNCHANGED <<program, mstate, queue, master, app, up, cl>>

(* perform_actions_on_nodes, from action k on: calls on the local client's  *)
(* stones are made at once.                                                 *)
NodeOf(c) == CHOOSE i \in DOMAIN nodes : nodes[i].client = c
NextAct(k) ==
  LET J == {j \in k..Len(dfg.pending) :
              LET a == dfg.pending[j]
              IN  a.type = "create" \/ (a.type = "call" /\ ~nodes[NodeOf(a.on)].self)}
  IN  IF J = {} THEN 0 ELSE Min(J)
AtAct(t) ==
  /\ At("actions") /\ ~AppHolds /\ stack[1].queue = "held"
  /\ NextAct(stack[1].at) # 0 /\ dfg.pending[NextAct(stack[1].at)].type = t

(* Fault: nodes with new stones count as deployed.                          *)
NotDiscounted(i) == dfg.acks

(* A node that was ready is not counted until it acknowledges again.        *)
Discounted(i) == IF nodes[i].needsReady THEN dfg.acks ELSE dfg.acks - 1

(* One message takes all stones still to be created on the node.            *)
CreateStones ==
  /\ AtAct("create")
  /\ LET k == NextAct(stack[1].at)
         c == dfg.pending[k].on
         i == NodeOf(c)
         acts == {j \in k..Len(dfg.pending) :
                    dfg.pending[j].on = c /\ dfg.pending[j].type = "create"}
     IN  /\ dfg' = [dfg EXCEPT !.pending = WithoutActs(c, k, {"create"}),
                               !.acks = Discounted(i)]
         /\ nodes' = [nodes EXCEPT ![i].needsReady = TRUE]
         /\ DeployThen(i, {dfg.pending[j].gen : j \in acts}, Acting(k + 1, "held"))
  /\ UNCHANGED <<program, mstate, queue, master, app, up, cl>>

(* INT_REVfreeze_stone and the like write the request and wait.             *)
CallStone ==
  /\ AtAct("call")
  /\ LET k == NextAct(stack[1].at)
         c == dfg.pending[k].on
     IN  IF nodes[NodeOf(c)].conn
         THEN /\ down' = Send(down, c, [type |-> "rev"])
              /\ stack' = Become([pc |-> "revwait", at |-> k + 1, queue |-> "held",
                                  on |-> c, got |-> FALSE])
              /\ UNCHANGED fault
         ELSE fault' = "no connection" /\ UNCHANGED <<down, stack>>
  /\ UNCHANGED <<program, mstate, queue, nodes, master, dfg, app, up, cl>>

(* The network step that brought the answer, or found the client dead, ends *)
(* with the poll functions.                                                 *)
CallReturns ==
  /\ At("revwait") /\ ~AppHolds
  /\ \/ stack[1].got
     \/ cl[stack[1].on].phase = "crashed" /\ up[stack[1].on] = <<>>
  /\ stack' = <<[pc |-> "drain"]>> \o Become(Acting(stack[1].at, stack[1].queue))
  /\ UNCHANGED <<program, mstate, queue, nodes, master, dfg, app, net, cl, fault>>

(* The queue is freed, for the deployments further down too.                *)
Freed(f) ==
  IF f.pc \notin {"actions", "revwait"} THEN f
  ELSE [f EXCEPT !.queue = IF f.queue # "held" \/ f.at <= Len(dfg.pending)
                           THEN "null" ELSE "end"]
EndActions ==
  /\ stack' = <<[pc |-> "acks"]>> \o [i \in DOMAIN Pop |-> Freed(Pop[i])]
  /\ dfg' = [dfg EXCEPT !.pending = <<>>]
  /\ UNCHANGED <<program, mstate, queue, nodes, master, app, net, cl>>

ActionsEnd ==
  /\ At("actions") /\ ~AppHolds
  /\ stack[1].queue = "held" /\ NextAct(stack[1].at) = 0
  /\ EndActions /\ UNCHANGED fault

ActionsFreed ==
  /\ At("actions") /\ ~AppHolds /\ stack[1].queue # "held"
  /\ EndActions
  /\ fault' = IF stack[1].queue = "null" THEN "no actions" ELSE fault

(* Fault: one acknowledgement too few.                                      *)
CountAckEarly ==
  LET n == dfg.acks + 1
      last == n >= Len(nodes) - 1
  IN  /\ dfg' = [dfg EXCEPT !.acks = n, !.ackCond = @ /\ ~last]
      /\ UNCHANGED fault
      /\ mstate' = IF last THEN "Running" ELSE mstate

(* Fault: one acknowledgement too many.                                     *)
CountAckLate ==
  LET n == dfg.acks + 1
      last == n > Len(nodes)
  IN  /\ dfg' = [dfg EXCEPT !.acks = n, !.ackCond = @ /\ ~last]
      /\ UNCHANGED fault
      /\ mstate' = IF last THEN "Running" ELSE mstate

(* handle_deploy_ack, which runs without the lock.                          *)
CountAck ==
  LET n    == dfg.acks + 1
      last == n = Len(nodes)
  IN  /\ dfg' = [dfg EXCEPT !.acks = n, !.ackCond = @ /\ ~last]
      /\ fault' = IF last /\ dfg.ackCond /\ mstate # "Starting"
                  THEN "last acknowledgement in the wrong state" ELSE fault
      /\ mstate' = IF last /\ (dfg.ackCond \/ mstate = "Reconfiguring")
                   THEN "Running" ELSE mstate

(* The local client's stones are created in the call, without the lock.     *)
SelfDeploy ==
  /\ At("selfdeploy") /\ ~AppHolds
  /\ cl' = Holding(Local, stack[1].stones)
  /\ CountAck
  /\ stack' = Relocking(Pop)
  /\ UNCHANGED <<program, queue, nodes, master, app, net>>

(* Fault: the acknowledgements are not awaited.                             *)
GoOnWithoutAcks ==
  /\ At("acks") /\ ~AppHolds
  /\ stack' = Become([pc |-> "commit"])
  /\ UNCHANGED <<program, mstate, queue, nodes, master, dfg, app, net, cl, fault>>

(* wait_for_deploy_acks.                                                    *)
WaitForDeployAcks ==
  /\ At("acks") /\ ~AppHolds
  /\ stack' = Become([pc |-> IF dfg.acks # Len(nodes) /\ dfg.ackCond
                             THEN "ackwait" ELSE "commit"])
  /\ UNCHANGED <<program, mstate, queue, nodes, master, dfg, app, net, cl, fault>>

AcksComplete ==
  /\ At("ackwait") /\ ~dfg.ackCond
  /\ stack' = Become([pc |-> "commit"])
  /\ UNCHANGED <<program, mstate, queue, nodes, master, dfg, app, net, cl, fault>>

HandleDeployAck ==
  /\ Takes("ack")
  /\ stack' = Push([pc |-> "ack"])
  /\ UNCHANGED <<program, mstate, nodes, master, dfg, app, net, cl, fault>>

AckCounted ==
  /\ At("ack")
  /\ CountAck
  /\ stack' = Relocking(Pop)
  /\ UNCHANGED <<program, queue, nodes, master, app, net, cl>>

-----------------------------------------------------------------------------
(* The working configuration becomes the deployed one; signal_ready.        *)
ReadyMessages(S) == [i \in S |-> [type |-> "ready"]]
Unready == {i \in DOMAIN nodes : nodes[i].needsReady}
SelfReady == {i \in Unready : nodes[i].self}
SignalReady(S) ==
  /\ fault' = IF \E i \in S : ~nodes[i].conn THEN "no connection" ELSE fault
  /\ down' = SendAll(ReadyMessages(S))
  /\ nodes' = [i \in DOMAIN nodes |->
                 [nodes[i] EXCEPT !.needsReady = @ /\ i \notin S]]
Deployed(d) == [d EXCEPT !.sent = dfg.gen]

Commit ==
  /\ At("commit") /\ ~AppHolds
  /\ LET copied == [dfg EXCEPT !.deployed = TRUE, !.pending = <<>>]
     IN  IF SelfReady = {}
         THEN /\ SignalReady(Unready)
              /\ dfg' = Deployed(copied)
              /\ master' = [master EXCEPT !.oldCount = Len(nodes)]
              /\ stack' = Pop
         ELSE /\ SignalReady({i \in Unready : \A s \in SelfReady : i < s})
              /\ dfg' = copied
              /\ stack' = Become([pc |-> "selfready"])
              /\ UNCHANGED master
  /\ UNCHANGED <<program, mstate, queue, app, up, cl>>

LocalReady ==
  /\ At("selfready") /\ ~AppHolds
  /\ cl' = [cl EXCEPT ![Local].ready = TRUE]
  /\ stack' = Become([pc |-> "readyrest"])
  /\ UNCHANGED <<program, mstate, queue, nodes, master, dfg, app, net, fault>>

ReadyRest ==
  /\ At("readyrest") /\ ~AppHolds
  /\ fault' = IF \E i \in Unready \ SelfReady : ~nodes[i].conn
              THEN "no connection" ELSE fault
  /\ down' = SendAll(ReadyMessages(Unready \ SelfReady))
  /\ nodes' = [i \in DOMAIN nodes |-> [nodes[i] EXCEPT !.needsReady = FALSE]]
  /\ dfg' = Deployed(dfg)
  /\ master' = [master EXCEPT !.oldCount = Len(nodes)]
  /\ stack' = Pop
  /\ UNCHANGED <<program, mstate, queue, app, up, cl>>

-----------------------------------------------------------------------------
(* handle_conn_shutdown and handle_flush_reconfig: the deployed             *)
(* configuration is read, the application's handler called without the lock.*)
ConnShutdown ==
  /\ Takes("conn_shutdown")
  /\ IF ~dfg.deployed
     THEN /\ fault' = "no deployed configuration"
          /\ UNCHANGED <<mstate, nodes, stack>>
     ELSE IF ~FailHandler THEN UNCHANGED <<mstate, nodes, stack, fault>>
     ELSE /\ mstate' = "Reconfiguring"
          /\ nodes' = [i \in DOMAIN nodes |->
                         IF nodes[i].client = Message.about
                         THEN [nodes[i] EXCEPT !.status = "failed"]
                         ELSE nodes[i]]
          /\ stack' = Push([pc |-> "failcall"])
          /\ UNCHANGED fault
  /\ UNCHANGED <<program, master, dfg, app, net, cl>>

FlushReconfig ==
  /\ Takes("flush")
  /\ IF ~dfg.deployed
     THEN /\ fault' = "no deployed configuration"
          /\ UNCHANGED <<mstate, stack>>
     ELSE IF Wild(Message)
     THEN /\ fault' = "wild pointer"
          /\ UNCHANGED <<mstate, stack>>
     ELSE IF ~Message.reconfig THEN UNCHANGED <<mstate, stack, fault>>
     ELSE /\ mstate' = "Reconfiguring"
          /\ stack' = Push([pc |-> "failcall"])
          /\ UNCHANGED fault
  /\ UNCHANGED <<program, nodes, master, dfg, app, net, cl>>

FailHandlerCall ==
  /\ At("failcall") /\ ~AppHolds
  /\ \E plan \in Grow : dfg' = Created(plan)
  /\ master' = [master EXCEPT !.reconfig = TRUE, !.sig = TRUE]
  /\ stack' = Relocking(Become([pc |-> "check"]))
  /\ UNCHANGED <<program, mstate, queue, nodes, app, net, cl, fault>>

-----------------------------------------------------------------------------
(* possibly_signal_shutdown for the contribution v of client c.  conn is    *)
(* NULL for the local client, and NULL is the connection of every node that *)
(* has none; the last match counts.                                         *)
(* Fault: the local client is not looked for.                               *)
MatchesConnected(c) ==
  {i \in DOMAIN nodes : nodes[i].client = c /\ nodes[i].conn}

Matches(c) == {i \in DOMAIN nodes :
                 \/ c = Local /\ (nodes[i].self \/ ~nodes[i].conn)
                 \/ c # Local /\ nodes[i].client = c /\ nodes[i].conn}
Contributed(c, v) ==
  LET i == CHOOSE j \in Matches(c) : \A k \in Matches(c) : k <= j
  IN  [nodes EXCEPT ![i].status = v]
Statuses(ns) == {ns[i].status : i \in DOMAIN ns}
(* Fault: undecided nodes are not asked.                                    *)
ShutsDownEarly(ns, force) == {"success", "failed"} \cap Statuses(ns) # {}

(* Fault: only a failed node decides.                                       *)
ShutsDownNever(ns, force) == "undetermined" \notin Statuses(ns) /\ "failed" \in Statuses(ns)

ShutsDown(ns, force) ==
  /\ force \/ "undetermined" \notin Statuses(ns)
  /\ {"success", "failed"} \cap Statuses(ns) # {}
(* Fault: the last vote alone decides.                                      *)
LastVote(ns, v, force) == IF v = "failure" THEN v ELSE "success"

ShutdownValue(ns, v, force) ==
  IF force THEN v
  ELSE IF "failure" \in Statuses(ns) THEN "failure" ELSE "success"

(* The caller, a message handler or a call of the local client, sleeps with *)
(* the lock given up.                                                       *)
Sleeps(caller, v) ==
  IF caller = "app" /\ CommThread
  THEN app' = [pc |-> "sleep", value |-> v] /\ UNCHANGED stack
  ELSE stack' = Push([pc |-> "sleep", value |-> v]) /\ UNCHANGED app

(* The shutdown messages are written before the sleep.                      *)
PossiblySignalShutdown(c, v, force, caller) ==
  IF Matches(c) = {}
  THEN /\ fault' = "contribution of an unknown node"
       /\ UNCHANGED <<mstate, nodes, down, stack, app>>
  ELSE LET ns    == Contributed(c, v)
           value == ShutdownValue(ns, v, force)
           told  == [i \in DOMAIN nodes |-> [type |-> "shutdown", value |-> value]]
       IN  /\ nodes' = ns
           /\ IF ShutsDown(ns, force)
              THEN /\ mstate' = "Shutting_Down"
                   /\ down' = SendAll(told)
                   /\ fault' = IF AllRegistered THEN fault
                               ELSE "shutdown without connection"
                   /\ Sleeps(caller, value)
              ELSE UNCHANGED <<mstate, down, fault, stack, app>>

ShutdownContrib ==
  /\ Takes("contrib")
  /\ PossiblySignalShutdown(Message.from, Message.vote, Message.force, "net")
  /\ UNCHANGED <<program, master, dfg, up, cl>>

(* The connections are closed, for the master: others refer to them, so the *)
(* client sees nothing of it.  The local client is told.  Its shutdown      *)
(* conditions are signalled: those taken before.                            *)
FinishShutdown(v) ==
  /\ nodes' = [i \in DOMAIN nodes |-> [nodes[i] EXCEPT !.conn = FALSE]]
  /\ cl' = IF Local \notin Members \/ cl[Local].phase = "new" THEN cl
           ELSE [cl EXCEPT ![Local].value = v,
                           ![Local].phase = IF @ = "waiting" \/ app.pc = "sleep"
                                            THEN "left" ELSE @]

NetWakes ==
  /\ At("sleep") /\ ~AppHolds
  /\ FinishShutdown(stack[1].value)
  /\ stack' = Pop
  /\ UNCHANGED <<program, mstate, queue, master, dfg, app, net, fault>>

AppWakes ==
  /\ app.pc = "sleep" /\ LockFree
  /\ FinishShutdown(app.value)
  /\ app' = [pc |-> "idle"]
  /\ UNCHANGED <<program, mstate, queue, master, dfg, stack, net, fault>>

-----------------------------------------------------------------------------
(* The local client's calls.  Messages to the own master go to the queue.   *)
(* Where no wait has left its thread as the server thread they are handled  *)
(* in the call, which here is a Poll before the application's next step.    *)
QueueLocal(m) ==
  IF CommThread
  THEN /\ app' = Appending(m)
       /\ UNCHANGED <<queue, stack>>
  ELSE /\ queue' = Append(queue, m)
       /\ UNCHANGED <<app, stack>>

JoinMessage(c) == [type |-> "join", from |-> c]
VoteMessage(c, v, f) == [type |-> "contrib", from |-> c, vote |-> v, force |-> f]

LocalAssoc ==
  /\ Local \in Members /\ AppCalls
  /\ cl[Local].phase = "new"
  /\ QueueLocal(JoinMessage(Local))
  /\ cl' = [cl EXCEPT ![Local].phase = "joined"]
  /\ UNCHANGED <<program, mstate, nodes, master, dfg, net, fault>>

MayVote(c) == cl[c].phase = "joined" /\ cl[c].ready /\ cl[c].value = None

LocalShutdown ==
  /\ Local \in Members /\ AppCalls /\ MayVote(Local)
  /\ \E v \in Votes[Local] \ {"nothing"} :
       /\ QueueLocal(VoteMessage(Local, v, FALSE))
       /\ cl' = [cl EXCEPT ![Local].phase = "voting", ![Local].vote = v]
  /\ UNCHANGED <<program, mstate, nodes, master, dfg, net, fault>>

(* With a comm thread: the message is linked and the lock given up; the     *)
(* condition to wait for is taken after that.                               *)
AppLink ==
  /\ app.pc = "append"
  /\ LinkAfter(app)
  /\ app' = [pc |-> "idle"]
  /\ cl' = [cl EXCEPT ![Local].phase =
              IF @ # "voting" THEN @
              ELSE IF cl[Local].value # None THEN "left" ELSE "closing"]
  /\ UNCHANGED <<program, mstate, nodes, master, dfg, stack, net, fault>>

NewShutdownCondition ==
  /\ Local \in Members /\ cl[Local].phase = "closing"
  /\ cl' = [cl EXCEPT ![Local].phase = "waiting"]
  /\ UNCHANGED <<program, mstate, queue, nodes, master, dfg, stack, app, net, fault>>

(* EVclient_force_shutdown and EVclient_ready_for_shutdown of the local     *)
(* client decide at once.                                                   *)
LocalVotesDirectly(v, force) ==
  /\ Local \in Members /\ AppCalls
  /\ PossiblySignalShutdown(Local, v, force, "app")
  /\ cl' = [cl EXCEPT ![Local].vote = v,
              ![Local].phase = IF <<stack', app'>> # <<stack, app>> THEN "voting"
                               ELSE IF ~CommThread \/ ~force THEN "voted"
                               ELSE "closing"]
  /\ UNCHANGED <<program, queue, master, dfg, up>>

LocalReadyForShutdown ==
  /\ Local \in Members /\ MayVote(Local)
  /\ "nothing" \in Votes[Local] /\ LocalVotesDirectly("nothing", FALSE)

LocalForceShutdown ==
  /\ Local \in Forcers /\ MayVote(Local)
  /\ \E v \in Votes[Local] \ {"nothing"} : LocalVotesDirectly(v, TRUE)

(* EVclient_wait_for_shutdown, and the wait in the other calls when no      *)
(* other thread can run in between.                                         *)
LocalWaitForShutdown ==
  /\ Local \in Members /\ AppCalls
  /\ \/ cl[Local].phase = "voted"
     \/ cl[Local].phase = "voting" /\ ~CommThread
     \/ cl[Local].phase = "joined" /\ cl[Local].value # None
  /\ cl' = [cl EXCEPT ![Local].phase =
              IF cl[Local].value # None THEN "left" ELSE "waiting"]
  /\ UNCHANGED <<program, mstate, queue, nodes, master, dfg, stack, app, net, fault>>

-----------------------------------------------------------------------------
(* A client in a process of its own.                                        *)
Alive(c)    == cl[c].phase \notin {"new", "crashed"}
Tell(c, m)  == up' = [up EXCEPT ![c] = Append(@, m)]
Gets(c, t)  == Alive(c) /\ down[c] # <<>> /\ Head(down[c]).type = t
Consume(c)  == down' = [down EXCEPT ![c] = Tail(@)]

ClientAssoc(c) ==
  /\ cl[c].phase = "new"
  /\ (c \in Late /\ LateWaits) => \A d \in Members \ Late : cl[d].ready
  /\ Tell(c, JoinMessage(c))
  /\ cl' = [cl EXCEPT ![c].phase = "joined"]
  /\ UNCHANGED <<program, mstate, queue, nodes, master, dfg, stack, app, down, fault>>

DeployHandler(c) ==
  /\ Gets(c, "deploy")
  /\ cl' = Holding(c, Head(down[c]).stones)
  /\ Consume(c) /\ Tell(c, [type |-> "ack", from |-> c])
  /\ UNCHANGED <<program, mstate, queue, nodes, master, dfg, stack, app, fault>>

ReadyHandler(c) ==
  /\ Gets(c, "ready")
  /\ cl' = [cl EXCEPT ![c].ready = TRUE]
  /\ Consume(c)
  /\ UNCHANGED <<program, mstate, queue, nodes, master, dfg, stack, app, up, fault>>

ShutdownHandler(c) ==
  /\ Gets(c, "shutdown")
  /\ cl' = [cl EXCEPT ![c].value = Head(down[c]).value, ![c].phase = "left"]
  /\ Consume(c)
  /\ UNCHANGED <<program, mstate, queue, nodes, master, dfg, stack, app, up, fault>>

(* A remote call on one of its stones, answered in its network thread.      *)
RevHandler(c) ==
  /\ Gets(c, "rev")
  /\ Consume(c) /\ Tell(c, [type |-> "response"])
  /\ UNCHANGED <<program, mstate, queue, nodes, master, dfg, stack, app, cl, fault>>

ClientVote(c) ==
  /\ MayVote(c)
  /\ \E v \in Votes[c], f \in (IF c \in Forcers THEN {TRUE} ELSE {FALSE}) :
       /\ f => v # "nothing"
       /\ Tell(c, VoteMessage(c, v, f))
       /\ cl' = [cl EXCEPT ![c].phase = "voted", ![c].vote = v]
  /\ UNCHANGED <<program, mstate, queue, nodes, master, dfg, stack, app, down, fault>>

(* dfg_stone_close_handler: a bridge from c to d broke.  The local client   *)
(* queues its report with the lock held.                                    *)
BridgeBroke(c, d) ==
  /\ Alive(c) /\ cl[c].stones # {} /\ cl[c].phase # "left"
  /\ cl[d].phase = "crashed" /\ cl[d].stones # {} /\ d \notin cl[c].told
  /\ cl' = [cl EXCEPT ![c].told = @ \cup {d}]
ConnShutdownMessage(c, d) == [type |-> "conn_shutdown", from |-> c, about |-> d]

StoneCloseHandler(c, d) ==
  /\ BridgeBroke(c, d)
  /\ Tell(c, ConnShutdownMessage(c, d))
  /\ UNCHANGED <<program, mstate, queue, nodes, master, dfg, stack, app, down, fault>>

LocalStoneCloseHandler(d) ==
  /\ Local \in Members /\ CanPoll /\ ~AppHolds
  /\ BridgeBroke(Local, d)
  /\ queue' = Append(queue, ConnShutdownMessage(Local, d))
  /\ UNCHANGED <<program, mstate, nodes, master, dfg, stack, app, net, fault>>

(* flush_and_trigger, called by a handler on one of c's stones.             *)
MayTrigger(c) ==
  /\ c \in Triggers \ cl[c].told /\ Alive(c) /\ cl[c].stones # {}
  /\ \E d \in Members : cl[d].ready
  /\ cl[c].phase # "left"
  /\ cl' = [cl EXCEPT ![c].told = @ \cup {c}]
FlushMessage(c, r, w) == [type |-> "flush", from |-> c, reconfig |-> r, wild |-> w]

FlushAndTrigger(c) ==
  /\ MayTrigger(c)
  /\ \E r \in BOOLEAN : Tell(c, FlushMessage(c, r, FALSE))
  /\ UNCHANGED <<program, mstate, queue, nodes, master, dfg, stack, app, down, fault>>

(* The local client passes the address of the pointer to the format for the *)
(* message: what the master reads there is anything.                        *)
LocalFlushAndTrigger ==
  /\ Local \in Members /\ CanPoll
  /\ MayTrigger(Local)
  /\ \E r, w \in BOOLEAN : stack' = Push(Appending(FlushMessage(Local, r, w)))
  /\ UNCHANGED <<program, mstate, queue, nodes, master, dfg, app, net, fault>>

Crash(c) ==
  /\ c \in Crashers /\ Alive(c) /\ cl[c].phase # "left"
  /\ cl' = [cl EXCEPT ![c].phase = "crashed"]
  /\ down' = [down EXCEPT ![c] = <<>>]
  /\ UNCHANGED <<program, mstate, queue, nodes, master, dfg, stack, app, up, fault>>

-----------------------------------------------------------------------------
NetThread ==
  \/ Link \/ Poll \/ DrainEnds \/ Relock
  \/ (\E c \in Remote : Receive(c) \/ ReceiveResponse(c))
  \/ JoinStatic \/ JoinDynamic \/ CheckAllNodesRegistered \/ JoinHandler
  \/ PerformDeployment \/ DeployToNode \/ SelfDeploy
  \/ CreateStones \/ CallStone \/ CallReturns \/ ActionsEnd \/ ActionsFreed
  \/ WaitForDeployAcks \/ AcksComplete \/ HandleDeployAck \/ AckCounted
  \/ Commit \/ LocalReady \/ ReadyRest
  \/ ConnShutdown \/ FlushReconfig \/ FailHandlerCall
  \/ ShutdownContrib \/ NetWakes
  \/ (\E d \in Remote : LocalStoneCloseHandler(d))

AppThread ==
  \/ LocalAssoc \/ LocalShutdown \/ AppLink \/ NewShutdownCondition
  \/ LocalReadyForShutdown \/ LocalForceShutdown \/ LocalWaitForShutdown
  \/ AppWakes

Client(c) ==
  \/ ClientAssoc(c) \/ DeployHandler(c) \/ ReadyHandler(c) \/ ShutdownHandler(c)
  \/ RevHandler(c) \/ ClientVote(c) \/ (\E d \in Remote : StoneCloseHandler(c, d))

Environment(c) == Crash(c) \/ FlushAndTrigger(c)

Next ==
  \/ NetThread \/ AppThread
  \/ LocalFlushAndTrigger
  \/ \E c \in Remote : Client(c) \/ Environment(c)

Spec == Init /\ [][Next]_vars
FairSpec ==
  /\ Spec
  /\ WF_vars(NetThread) /\ WF_vars(AppThread)
  /\ \A c \in Clients : WF_vars(c \in Remote /\ Client(c))

-----------------------------------------------------------------------------
Msgs == [type : {"join", "ack"}, from : Members]
  \cup [type : {"contrib"}, from : Members,
        vote : {"success", "failure", "nothing"}, force : BOOLEAN]
  \cup [type : {"conn_shutdown"}, from : Members, about : Remote]
  \cup [type : {"flush"}, from : Members, reconfig : BOOLEAN, wild : BOOLEAN]

TypeOK ==
  /\ mstate \in States
  /\ queue \in Seq(Msgs)
  /\ \A c \in Remote : up[c] \in Seq(Msgs \cup [type : {"response"}])
  /\ \A i \in DOMAIN nodes :
       /\ nodes[i].client \in Members
       /\ nodes[i].status \in {"undetermined", "success", "failure", "nothing", "failed"}
       /\ nodes[i].needsReady \in BOOLEAN
  /\ master.oldCount \in Nat
  /\ dfg.acks \in Int

Undisturbed == Crashers = {} /\ Triggers = {}

(* A reconfiguration that links deployed stones waits for remote calls.     *)
(* Where nothing but a single late join asks for one, nothing that changes  *)
(* the graph can be handled in these waits.                                 *)
Calls   == \E plan \in Grow : \E i \in DOMAIN plan : plan[i].op = "link"
Settled == Calls => Undisturbed /\ Cardinality(Late) <= 1

(* No assertion of the master fails, no pointer it reads is NULL and no     *)
(* node is without a connection when it is written to (ev_dfg.c:2518, 2561, *)
(* 2575, 2631, 2724), as long as no client dies and no handler of the local *)
(* client triggers: but for what the waits of remote calls let in.  There   *)
(* the votes may shut the graph down, and the deployment goes on with the   *)
(* connections that are no more, or another deployment free the actions.    *)
NoFault ==
  Crashers = {} /\ Local \notin Triggers =>
    \/ fault = None
    \/ ~Settled /\ fault = "no connection" /\ mstate = "Shutting_Down"
    \/ ~Settled /\ fault = "no actions"

Sound == TypeOK /\ NoFault

(* When the master enters state Running every deployment it has sent has    *)
(* been acknowledged: none is under way and no acknowledgement is left to   *)
(* be counted.  Without remote calls it stays so: with them the deployment  *)
(* that was waiting may send more (ev_dfg.c:2271, 2591).  (Where handlers   *)
(* fail or trigger, an acknowledgement of the local client may end a        *)
(* deployment early.)                                                       *)
AllAcknowledged ==
  /\ \A c \in Remote : \A i \in DOMAIN down[c] : down[c][i].type # "deploy"
  /\ \A c \in Remote : \A i \in DOMAIN up[c] : up[c][i].type # "ack"
  /\ \A i \in DOMAIN queue : queue[i].type # "ack"

RunningIsDeployed ==
  [][Undisturbed /\ mstate' = "Running" /\ (mstate # "Running" \/ ~Calls)
       => AllAcknowledged']_vars

(* A client of the initial deployment is told to start only when all of     *)
(* them have their stones: EVclient_ready_wait returns for a graph that is  *)
(* completely instantiated.                                                 *)
ReadyMeansInstantiated ==
  \A c \in Members \ Late : cl[c].ready =>
    \A d \in Hosts \ Late : 1 \in cl[d].stones

(* A client told to start has all the stones the graph gives it: a late     *)
(* one is ready once it is incorporated.                                    *)
ReadyHasStones ==
  \A c \in Members : (Undisturbed /\ ~cl[c].ready /\ cl'[c].ready) =>
    dfg.made[c] \subseteq cl[c].stones

(* No client is told twice to create the same stones, unless a handler      *)
(* triggers another deployment in the waits of the one for a late client,   *)
(* whose node still counts as new (ev_dfg.c:2586).                          *)
DeployedOnce == (Settled \/ Late = {}) => \A c \in Members : ~cl[c].twice

(* Deployment and start are in order: no stones twice, no start without.    *)
StartInOrder ==
  [][ReadyMeansInstantiated' /\ DeployedOnce' /\ ReadyHasStones]_vars

(* Unless somebody forces it, no client is shut down before every node of   *)
(* the graph has voted or died.                                             *)
ShutdownByAll ==
  (\E c \in Members : cl[c].value # None) /\ Forcers = {} =>
    \A i \in DOMAIN nodes :
      cl[nodes[i].client].phase \in {"voting", "voted", "closing", "waiting",
                                     "left", "crashed"}

(* All shutdown calls on all nodes return one value, and without force it   *)
(* is a failure when the vote of a client that lives is.                    *)
ShutdownAgreed ==
  LET told == {c \in Members : cl[c].value # None}
  IN  /\ Cardinality({cl[c].value : c \in told}) <= 1
      /\ \A d \in Members :
           (Forcers = {} /\ cl[d].vote = "failure" /\ cl[d].phase # "crashed") =>
             \A c \in told : cl[c].value = "failure"

ShutdownSound == ShutdownByAll /\ ShutdownAgreed

(* Every client that joins becomes ready, unless the graph is shut down.    *)
JoinsBecomeReady ==
  \A c \in Clients \cup {Local} :
    (Undisturbed /\ c \in Members /\ cl[c].phase = "joined")
      ~> (c \in Members => cl[c].ready \/ cl[c].phase # "joined" \/
                              mstate = "Shutting_Down")

(* When all have voted, the shutdown call of each returns.                  *)
VotesShutDown ==
  (Undisturbed /\ \A c \in Members : cl[c].vote # None)
    ~> (\A c \in Members : cl[c].phase \in {"left", "crashed"})

(* Nobody waits for ever, neither to start nor to end.                      *)
AllProceed == JoinsBecomeReady /\ VotesShutDown
=============================================================================
