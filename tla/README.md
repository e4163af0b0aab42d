# EVPath in TLA+

A verification development beside the EVPath sources: TLA+ modules that model
the connection manager (CM) and the event layer on top of it, TLC
configurations that check them on small instances, and theorems checked by
TLAPS. File names such as `cm.c` are those of `src/`.

    tlc -config control_comm.cfg MCControl      # model-check one run
    tlapm CMControlProofs.tla                   # check the proofs of one module

`PROJECT.json` lists the runs, the faults that show each property is alive, the
source lines behind every definition, the hazards and the theorems.

## 1. Inventory

EVPath is a C library. A process has one or more **CManagers**; a CManager owns
connections to peers, a list of *condition values* (one-shot wait/signal
objects), a `select()` or `epoll` loop, a table of message handlers and an
`_event_path_data` with the *stones* of the event layer. Every public call
takes the one CManager lock (`cm->exchange_lock`) around an `INT_` function;
the lock is dropped in `select()`, in pthread condition waits, in `sleep`s and
around **upcalls** (message handlers, stone handlers, close handlers, tasks).
Everything that is hard in this code happens at these points: after an upcall
the world may have changed, and the upcall may itself call back into CM, wait
and so run the network loop one level deeper.

| part | state it keeps | operations | what is hard |
|---|---|---|---|
| conditions, control list (`cm_control.c`, `cm_lock.c`) | condition list, `server_thread`, `has_thread`, `cond_polling`, `closed` | get, wait, signal, fail, destroy; becoming the server thread | who polls and who blocks; nested waits; a signal between test and `select()`; one pthread wait without a loop |
| CM core (`cm.c`) | connections, reference counts, buffers, handlers, `abort_read_ahead` | `CMfork_comm_thread`, `CMrun_network`, reading and dispatching messages, connection failure and close, `CManager_close`, writes and write queues, handshake, pull schedule | failure paths that call handlers without the lock; close by one thread while another reads; queued writes and their callbacks |
| select loop (`cmselect.c`), epoll loop (`cmepoll.c`) | descriptor sets, wake pipe, consistency number, periodic and delayed tasks | select step, wake, stop, add and remove tasks and descriptors | stale descriptor sets, wake bytes read twice, a task removed while it runs |
| stones (`evp.c`) | stones, event queues, queue-item pool, event reference counts, `events_in_play`, `last_active_stone` | submit, associate actions, the loop over local actions, store calls, freeze/unfreeze/drain/transfer, bridges, stalls | several threads in one loop whose handlers run unlocked; reference counts; counts that guard passes |
| EVPath threads (`evp_threads.c`) | thread-bridge queues between CManagers | enqueue into another CManager, shut down | two locks, a target that goes away |
| data-flow graphs (`ev_dfg.c`) | DFG master and client state machines | deploy, join, voluntary reconfiguration, shutdown | a distributed protocol on top of CM messages |
| formats (`cm_formats.c`, `cm_pbio.c`, `cm_evol.c`), transports (`cmsockets.c`, ...), responses (`response.c`), thin server, metrics | bindings to the FFS, COD and transport libraries | | mostly glue; external semantics |

Interactions: a thread in the select loop calls `CMDataAvailable`, which calls
message handlers; one of them, `internal_cm_network_submit`, submits events to
stones; stone handlers submit more events, wait for conditions or send
messages. Bridge stones write to connections; writes that would block are
queued on the connection, and their completion re-runs the stone loop through a
deferred task. Connection failure fails the conditions that depend on it and
runs close handlers.

What makes each part correct:

- **Conditions**: a wait returns, and returns what happened; nobody frees a
  condition somebody waits for; nobody sleeps over a signal; at most one thread
  handles input; while somebody waits, somebody polls; failure of a connection
  reaches every condition that depends on it.
- **Shutdown**: `CManager_close` ends the network thread and returns; it never
  waits for a thread that cannot come.
- **Stones**: no event is freed early or leaked, lost or handled twice; the
  count of events in play is exact; when all is quiet nothing is left that
  could be processed; frozen stones start nothing, drained ones run nothing;
  submitted data belongs to the application again when the call returns.
- **Tasks**: a periodic or delayed task that was removed is not started again,
  one that is due is started, and the list can be walked while handlers and
  other threads change it.
- **Writes**: the messages whose write succeeded are on the stream one after the
  other, each whole; who waits for a pending write is told, and user callbacks
  are kept.
- **Socket calls**: whatever the kernel takes or gives per system call, the
  bytes that moved are the right ones and the result says how many.
- **Reading**: every message starts where the one before it ended; a buffer has
  one owner; what arrived is dispatched.
- **Connections**: the reference count is the number of those who hold one;
  users of one peer share one connection; a failed connection is freed.
- **Bridges**: one thread at a time sends the events of a stone; none is lost
  while the connection is good; none is left behind when all is quiet.
- **Data-flow graphs**: a client is deployed before it is ready and ready
  before it votes; nobody runs before everybody is ready; the value of the
  shutdown is one that was voted for.

`PROJECT.json` lists every source file under a component, with what is not
modelled and why, and each hazard at its line.

## 2. Modules

| module | models | instances, runs |
|---|---|---|
| `CMControl` | conditions, network threads, wake pipe, shutdown | `MCControl`: `control_comm`, `control_close`, `control_any` |
| `CMControlProofs` | theorems about `CMControl` | |
| `CMTasks` | periodic and delayed tasks of the select loop | `MCTasks`: `tasks` |
| `CMTasksProofs` | theorems about `CMTasks` | |
| `CMWrite` | writing messages, remainders, write callbacks | `MCWrite`: `write` |
| `CMWriteProofs` | theorems about `CMWrite`, the refinement among them | |
| `ByteStream` | what a connection promises to its writers; `CMWrite` implements it | |
| `CMSocketIO` | one call into the socket transport | `MCSocketIO`: `socket` |
| `CMRead` | reading, framing, buffers, dispatch | `MCRead`: `read`, `read_nested` |
| `CMReadProofs` | theorems about `CMRead` | |
| `CMConn` | initiation, sharing, failure, closing and freeing of connections | `MCConn`: `conn` |
| `CMConnProofs` | theorems about `CMConn` | |
| `EVStone` | queues, events, actions, the stone loop | `MCStone`: `stone` |
| `EVStoneProofs` | theorems about `EVStone` | |
| `EVBridge` | bridge stones on shared connections | `MCBridge`: `bridge` |
| `EVBridgeProofs` | theorems about `EVBridge` | |
| `EVMaster` | the EVdfg master and its clients | `MCMaster`: `master` |
| `ListLemmas` | what the list operators of the modules return: appending, removing one element, counting | |

Each module models one component at the depth its hazards need and takes the
others at their interface: `CMControl` sees a connection as a tag that fails,
`CMRead` sees a condition as signaled or not, `CMConn` and `EVBridge` see a write
as accepted or failed, which is what `CMWrite` shows about `CMSocketIO`'s calls
put together, `EVMaster` sees messages as delivered in order per connection,
which is what `ByteStream` promises. `EVBridge` composes the stone side with the
connection side: queues and `is_outputting` with reference counts, close handlers
and pending writes.

Most modules take `Programs` (or `Applications`): records that say what the
application does, one of which is chosen in `Init` and kept. The MC module
defines a few, and so one run checks several small programs together.

Definitions that a comment calls a *fault* are the mutated forms of the
definition that follows them; no action uses them.

### CMControl

State and code: `conds` is `cl->condition_list` with the history variables
`result` and the state `freed`; `hasThread`, `serverThread`, `serverHandle`,
`condPolling`, `closed` are the fields of the control list; `pipe` counts the
bytes in the wake pipe; `rd` is what a thread's last `select()` found; `stale`
says that `select_consistency_number` moved since the thread entered
`socket_select`; `stack` holds each thread's nested CM activities: a wait that
polls without (`poller`) or with (`server`) a comm thread, a pthread wait
(`blocked`), a response handler before (`handler`) and after (`replied`) it
signaled, close handlers (`closing`), `CMpoll_forever` (`forever`).

Actions and code: `ConditionGet`, `WaitAlreadyDone`, `WaitPolling`,
`WaitBlocking`, `LoopSelect`, `LoopReturn`, `ReturnFromBlocking`, `AppSignal`,
`ConditionFail` are the branches of the `INT_CMCondition_*` functions;
`SelectReturns`, `AfterSelect`, `Dispatch` are `socket_select`;
`ReadResponse`, `ReadEof`, `ReadNext`, `HandlerReturn`, `CloseHandlerReturn`
are `CMDataAvailable` with its reading ahead and `INT_CMConnection_failed`;
`CManagerClose`, `Join`, `CloseConns`, `LoopClosed`, `LoopSpin` the shutdown.

Choices:

- one action is what the code does between two points where it drops the lock,
  except in the select loop, where a thread keeps the lock over several actions
  (`LockedPCs`);
- `CMDataAvailable` takes one message per step and reads ahead until
  `abort_read_ahead`; its limit of 50 messages is not reached with the few
  messages of an instance. Registered poll functions are left out;
- a message is the response to one condition, whose handler signals it; the end
  of a connection is a message in the same queue. Connections are the tags that
  conditions depend on; their reference counts are in `CMConn`;
- condition numbers are not used again (`NoWrapAssumption`);
- waits nest up to `MaxDepth` (`WaitDepth` counts those of a thread);
- application threads call CM only while the CManager is open, or from an
  upcall. A thread waits for its own conditions, once each (the documented use),
  and a handler does not wait for the condition it is there to signal;
- undefined behaviour: `thr_thread_join` of a zero handle leaves the thread
  `crashed`; a read of an empty pipe leaves it `stuck` with the lock.

### EVStone

State and code: `queue` and `store` hold queue items, `items` maps each item to
its event and `freeItems` is the free list (a stack); `ref` is the event's
reference count and `appMem` whether it still points to the caller's memory;
`inPlay`, `lastActive` are the fields of `action_state`; `sending` stands for
`is_sending` together with `pending_output`. A thread's `stack` holds its
frames: the call (`submit`, `send`, `limit`, `task`), `process_local_actions`
(`loop` with its phases), `process_events_stone` (`stone`), an action that loops
(`split`, `overflow`), a `handler`, a sleeping `drain`.

Actions and code: `Submit`, `NetworkSubmit`, `SubmitReturn` are `INT_EVsubmit`,
`INT_EVsubmit_encoded`, `internal_cm_network_submit`; `LoopActive`, `LoopScan`,
`LoopEnd`, `ConsiderStone` are `process_local_actions` and
the tests at the head of `process_events_stone`; `PendingOutput`, `ItemsEnd`, `HandlerStart`,
`HandlerReturn`, `SplitStart`, `SplitOutput`, `StoreEvent`, `StoreOverflow` are
`process_events_stone`; the other actions are the store and reconfiguration
calls they are named after.

Choices:

- a stone has one action, a terminal, a filter, a split or a store. Bridges are
  in `EVBridge`; immediate and multi-queue actions, congestion and thread bridges
  are left out, and so `process_local_actions`' output passes do nothing but reset
  `last_active_stone`. Stones are never freed;
- the CManager has a comm thread, `Server`, which runs the deferred tasks and
  the submissions from the network;
- `EVdrain_stone` is called outside handlers and once per stone, so that it is the
  only call on its thread's stack; `maxPolls` stands for its 21 polls;
- a queue item cleared from a store goes back to `malloc` and is not used again;
- `more_pending` and `count` are booleans; `is_paused` is never set;
- walking off the end of a queue or dequeuing from an empty store leaves a
  `crashed` frame that keeps the lock.

### CMTasks

State and code: `list` is `periodic_task_list`, `task` the records with
`executing` for the field of that name, `pipe` the wake pipe, `handles` what the
application can still pass to `CMremove_task`. A thread's `stack` holds its
`socket_select` or epoll calls (asleep in `select`, or in the `walk` over the
list with the pointer `at` and the next one), the task `handler`s above them, and
the busy wait of a removal (`spin`). `now` is the clock in ticks.

Actions and code: `Add` is `add_periodic` and `add_delayed_task` with the wake;
`EnterSelect`, `SelectReturns` are the timeout computed from the list and the
call; `PassTask`, `StartTask`, `HandlerReturn`, `WalkEnds` the walk;
`RemovePeriodic`, `RemoveFrees` are `remove_periodic` with the wait for a task
that is being executed (`Removable` says whom the application may remove). `cmselect.c` and `cmepoll.c` have the same text here.

Choices: `malloc` may give any address that was freed; a read of a freed record
or of an empty list sets `fault`; deadlines are compared in whole ticks.
`Removals` names which tasks are removed: `waiting` ones, as the run has it, the
task's `own` handler or a `running` one (see the observations).

### CMWrite and ByteStream

State and code: `conn` holds `closed`, `failed`, `write_pending`, the remainder
(`queued_data`: header, attributes, data), whether the transport was asked to
report writability (`notify`) and `write_callbacks`; `pc`, `msg`, `cond` are the
threads in `wait_for_pending_write`; `wire` is what the transport took;
`accepted` the history of writes that returned success.

Actions and code: `WriteCall`, `Proceed` with `Write` and `QueueRemaining`
are `INT_CMwrite_attr`, `INT_CMwrite_raw_notify` and `queue_remaining_write`;
`Block`, `PollReturn`, `CondReturn`, `GiveUp` are the wait; `PartWritten`,
`AllWritten`, `QueuedWriteFails` are `CMWriteQueuedData`; `Reply` is the direct
write of a format reply in `cm_pbio.c`; `Register`, `Unregister`, `AddCallback`,
`RemoveCallback` the callback slots; `ReadFails`, `CloseShared`, `CloseLast` how
a connection ends.

`ByteStream` is the abstract specification: messages are accepted one after the
other, the bytes on the stream are a prefix of the accepted messages, and it may
break at any time. `CMWrite` implements it with `sent <- accepted`,
`arrived <- wire`, `broken <- peer = "down" \/ conn.failed`.

Choices: a byte is its message, piece and place, so that any byte lost,
doubled or misplaced shows; how many bytes the socket takes is free beyond
`FirstPart`; `RepliesWait` and `FirstPart` exclude two cases in which the code
does not keep `Exact` (observations). Blocking connections and
`CMformat_preload` are left out. The application registers its callback while
few conditions exist (`RegisterUntil`), which bounds the slots.

### CMSocketIO

One call from its entry to its return: `iov` is the caller's vector, changed in
place; `inner` are the locals of `writev_func` or `NBwritev_func` (first piece,
pieces and bytes left), `long` those of `long_writev` (the piece that was cut and
what it was). `WritevMoves`, `WritevFails`, `NonblockingMoves`,
`NonblockingFails`, `LongWrite`, `LongNext`, `LongEnds`, `ReadMoves`, `ReadEnds`
are one system call each with what follows it. The kernel moves any number of
bytes it may. `IovMax`, `MaxRW`, `TrailBuffer` are the constants of the code at
small values.

### CMRead

State and code: `saved` is what a connection keeps between calls
(`buffer_full_point`, `buffer_data_end`, `message_buffer`), `frames` the network
thread's stack of `CMDataAvailable` calls with their locals and the handler each
is in, `pool` is `cm_buffer_list` with sizes and reference counts, `abort` is
`abort_read_ahead`, `arrived` and `taken` the positions on the streams.

Actions and code: `Poll`, `DataAvailable` with `WithSpace`, `Read`,
`ReadFails`, `ReadMore`, `ReturnBuffer` are `CMDataAvailable`; `UnknownMessage`, `ActAtOnce`,
`SubmitEvent`, `CallHandler`, `HandlerReturns` are `CMact_on_data`;
`HandlerSignals`, `HandlerWaits`, `WaitEnds`, `TakeBuffer` what handlers do
through the API; `GetDataBuf`, `ExtendDataBuf`, `ReturnDataBuf` the pool.

Choices: lengths are counted in words of four bytes, since all headers are
multiples of four; a position on a stream is a number of words, `Start` is the number
of words before a message. `SizeAssumption` says that no message ends within what
is read as its header: the data of a record or an event begins with the name of its
format, which is what the five words of the first read take of it. Transports
without `read_to_buffer`, handlers for foreign protocols and `CM_pbio_query` are left
out; the limit of bytes read ahead is not reached before that of messages.

### CMConn

State and code: `conns` are `CMConnection` structures (`conn_ref_count`,
`closed`, `failed`, `handshake_condition`, close handlers), `list` is
`cm->connections`, `frame` the connection `CMDataAvailable` reads, `task` where a
thread is in a call that dropped the lock (waiting for the handshake, in a close
handler). `called` and `touched` are histories: the close handlers that were
called and whether a freed structure was looked at.

Actions and code: `GetFinds`, `GetInitiates`, `HandshakeDone`, `GetFails` are
`CMinternal_get_conn` and `CMinternal_initiate_conn`; `Create`, `Dereference`,
`Broken`, `Proceed`, `CloseHandler` are `CMConnection_create`,
`INT_CMConnection_dereference` and `CMConnection_failed`; `Accept`,
`HandshakeArrives`, `MessageArrives`, `HandlerReturns`, `ReadAhead`, `Eof` are
the network side; `Register`, `Write`, `Close` the user's calls.

Choices: the transport is that of `cmsockets.c`; an accepted connection belongs
to nobody and goes with its peer; structures are not allocated twice. The
programs give a connection back before they get another (`GivesBack`).

### EVBridge

State and code: `queue` counts a stone's events (they are alike here),
`outputting` is `is_outputting`, `conn`, `connFailed` are fields of the bridge
action, `inGetConn`, `delayPending`, `tasks` are `in_get_conn`,
`delay_task_pending` and the deferred task; `conns` the connections with
references, failure, pending write and close handlers. `stack` holds the calls a
thread is in: the `pass` over the stones, `connecting`, the sending `loop`,
`blocked` on a pending write, `unsent` (the failed event is put back),
`closing` handlers, a `drain`. `lock` is the thread that goes on without giving
the CManager lock up.

Actions and code: `Skip`, `Starts`, `StartSends`, `StartConnects`, `Connected`,
`ConnectFails`, `LoopWaits`, `LoopSends`, `LoopFails`, `LoopDiscards`,
`LoopEnds`, `Unsent` are `do_bridge_action`; `CallCloseHandler`,
`CloseHandler`, `Closed` are `stone_close_handler` under `CMConnection_failed`;
`RunTask` is `deferred_process_actions`; `Drain`, `DrainReturns`, `Freeze`,
`Unfreeze`, `Transfer` the reconfiguration calls; `Share`, `Unshare` an
application that uses the same connection; `Flush`, `Eof`, `PeerDies` the rest of
the world.

Choices: connections are those of `CMConn` with the handshake left out; a write
is accepted or fails as a whole; stones are neither freed nor destroyed while
threads work on them.

### EVMaster

State and code: `mstate`, `queue`, `nodes`, `dfg` are the master's `state`,
`queued_messages`, `nodes` and `EVdfg` (acknowledgement count and condition,
stones made and deployed, `pending` for `pending_action_queue`); `stack` is the
network thread of the master's process (`handle_queued_messages`, the handlers and
their waits, the one-second sleep of the shutdown), `app` its application thread,
`up` and `down` the connections, `cl` the clients. Stones are named by the
generation of the graph that made them.

Actions and code: `Receive`, `Link` are the message handlers and
`queue_master_msg` (which links the record without the lock); `Poll`, `DrainEnds`
with `ActionModel` are `handle_queued_messages`; `JoinStatic`, `JoinDynamic`,
`CheckAllNodesRegistered`, `JoinHandler` are `handle_node_join`, with what the
application's handler asks for (`Created`, `LinkStones`).
`PerformDeployment`, `DeployToNode`, `SelfDeploy` are `perform_deployment` and
`deploy_to_node`, one node per step; `CreateStones`, `CallStone`, `CallReturns`,
`ActionsEnd` the loop of `perform_actions_on_nodes`, one action per step, in which a
remote call (`INT_REVfreeze_stone` and the like) waits for its answer
(`RevHandler`, `ReceiveResponse`) and the network and the poll function run;
`ActionsFreed` is that loop after a deployment in such a wait freed the queue.
`CountAck`, `WaitForDeployAcks`, `HandleDeployAck` are the acknowledgements;
`Commit`, `LocalReady`, `ReadyRest` `signal_ready`; `ConnShutdown`,
`FailHandlerCall`, `FlushReconfig` the handlers of failures and flushes;
`ShutdownContrib`, `PossiblySignalShutdown`, `FinishShutdown` the vote; `Client...`,
`DeployHandler`, `ReadyHandler`, `ShutdownHandler`, `StoneCloseHandler`,
`FlushAndTrigger` the clients, the local one included (`Local...`); `Crash` the
death of a process. `Relock` is the window before a `CManager_lock` in which the
application thread may come first.

Choices:

- connections deliver in order, as `ByteStream` promises, until the process on the
  other end dies. The master's close of a connection is not seen at the other end,
  since the connection lists and the transport still refer to it;
- a reconfiguration is a sequence of new stones and links (`Grow`). A link of a
  deployed stone queues its freezing, the link and its unfreezing, and a bridge when
  it leads to another client; all of these but the bridge are calls, and so would be
  unlinking, attributes and destroying, which are not distinguished. The plans ask
  nothing of failed nodes, whose actions are left without a node number, which the loop
  reads (`ev_dfg.c:417`, `458`);
- one client at most joins late, when every other one is ready (`LateWaits`);
- without comm thread the local application makes its calls when the network thread
  is not in a handler. Its message is then handled in the call if no wait has left
  `server_thread` set, and at the next poll else; the model lets both happen;
- the local `flush_and_trigger` passes the address of a pointer for the message
  (`ev_dfg.c:1489`): what the master reads there is `wild` or not, and asks for a
  reconfiguration or not.

## 3. Runs

| run | question | instance |
|---|---|---|
| `control_comm` | with a comm thread: no lost wakeup, one poller, waited conditions live, results sound, every wait returns if the peers answer | 2 threads + comm thread, 2 conditions, 1 connection that fails |
| `control_close` | close by an application thread: nothing spins or joins a missing thread, triggered waits return, the comm thread ends, close returns | 2 + comm, 2 conditions |
| `control_any` | what holds for every combination of every call: triggers reach their waiters, reading ahead stops | 2 + comm (forked, or not), 1 condition, all of `Usage` |
| `stone` | the books of events and queues; when all is quiet everything was delivered as often as it should; stopped stones are idle; what is queued gets processed | `Splitting`, `Draining`, `Storing`; 2 events |
| `bridge` | one sender per stone, nothing discarded or left behind without reason; exact references; events are sent and calls return | 2 threads + network, 2 stones, 2 connections, 3 events; `Dying`, `DyingBlocked`, `Sharing`, `Stopping`, `Emptying` |
| `conn` | references are exact and nothing freed is used; peers are shared; failed connections end | 2 users, 1 peer, 3 structures; `Sharing`, `Accepting` |
| `write` | the byte stream is kept and implemented; waiters and user callbacks are not forgotten; writes go on | 3 writers, messages of each kind in two data pieces, the peer may go |
| `socket` | bytes in order, results exact, calls return | vectors of up to 5 pieces of 0 to 3 bytes (0, 1, 4, 9 in `long_writev`), 2 pieces and 6 bytes per system call |
| `read` | messages are dispatched once, in order; buffers have their holders; every message is served | 2 connections, up to 5 messages cut anywhere; `Waiting` (a handler waits for a reply on its own connection), `Crossing` (on the other one), `Dying`, `Foreign` |
| `read_nested` | *violated*: a handler on CM's own thread waits for a reply on its connection | 1 connection, 3 messages |
| `tasks` | walking the list is sound; no task starts after its removal; delayed tasks run | server + 1 worker, 2 addresses, 2 tasks, 4 nested frames, 4 ticks |
| `master` | no assertion fails and no pointer is null; running means deployed; start and shutdown in order and agreed; nobody waits for ever | `Static`, `Dynamically`, `Linking`, `Triggering`, `Nesting`, `Dying`, `Beside`, `Selfish`; up to 4 clients; 131 000 states |

Why the bounds are enough. The conflicts in `CMControl` are between a thread
that polls, one that waits or signals, and the comm thread, about one or two
conditions; depth 1 gives a wait within a handler or a close handler. Each
response and each end of a connection is carried once, and a bump of the
consistency number, a wake byte and a message can all be pending together. In
`EVStone` two events and two threads give a queue with a successor item, two
threads in the loop at once, and a free list that is reused; a split to a
terminal twice and through a filter gives several references to one event. In
`EVBridge` three events let a stone have one under way and one queued while the
other stone works, with two connections one can replace another. Two users of one
peer and three structures in `CMConn` let one user come back while the other
still holds the old connection. The three writers of `CMWrite` are one that
polls and two that wait on conditions; two waiters is what it takes to steal a
wakeup or a callback slot. Vectors in `CMSocketIO` are longer than a system call
takes, with empty pieces anywhere, and cut at every byte. The streams of `CMRead`
have every kind of header, and messages that are read ahead past `MsgLimit`. Two
tasks at two addresses in `CMTasks` are enough for one to be removed, freed and
its address used again under a walk at the other. The programs of `EVMaster` have
three nodes so that one can die, or join late, while others acknowledge, and so that
one deployment can be sent before a remote call and one after it (`Linking`); in
`Nesting` a late join and a trigger give a deployment in the wait of another, in
`Triggering` votes are handled in such a wait. What happens where is said by
hypotheses in the properties: `Undisturbed` (no deaths, no triggers), `Calls` (some
plan links) and `Settled` (if so, nothing but one late join asks for a
reconfiguration).

The bounds are `MaxConditions`, `MaxDepth`, `MaxEvents`, `MaxAdds`, `MaxTime`,
`RegisterUntil`, the sets in the configurations and the fields `calls`, `maxCalls`, `maxPolls` of programs.
`CHECK_DEADLOCK` is off because programs end: calls are bounded and need not be
made. That nobody is stuck is said by the liveness properties of each run.
Symmetry (application threads) is used only in `control_any`, which
has no liveness property. `ReadAheadStops` is an action property.

Fairness. It says that code that is under way goes on and handlers return, and
that what is on its way arrives; calls, failures and deaths need never happen.

- `CMControl`, `EVStone`: `SF_vars(Run(t))` for each thread. A thread that keeps
  asking for the mutex gets it although others take it in between: an
  assumption about the platform, since POSIX does not promise a fair mutex, but
  every holder gives the lock up at the next `select()`, upcall or pthread wait,
  and the mutexes in use hand it on. `AnsweringSpec` adds that the peers answer
  the conditions that are waited for; only `control_comm` uses it.
- `CMTasks`: strong fairness of the server's steps, since a worker may bump the
  consistency number or take the lock in between; weak fairness of the clock and
  of a removal that waits.
- `CMWrite`: the network thread finishes queued writes when the socket takes
  bytes, notices when it does not work any more, and waiters that were told go on.
- `CMSocketIO`: the call goes on and the kernel moves bytes in the end.
- `CMRead`: the network thread runs, and what was sent arrives.
- `CMConn`, `EVBridge`: `WF_vars(Progress)`, one disjunction of the steps that
  threads and the network still have to take. Each of them happens finitely often in
  an instance, so weak fairness of the whole means that each is
  taken. In `EVBridge` a deferred task may come back as long as a stone
  connects, so the step that ends a wait has strong fairness (the mutex again).
- `EVMaster`: weak fairness of the master's two threads and of each client that
  has not died.

## 4. Observations

One disagreement between the code and its documentation is kept as a run that TLC
must find violated (`read_nested`, see the `findings` of `PROJECT.json`). The
following were seen with variants of the same modules, or while modelling, and are
not kept as runs; the properties of the passing runs are stated, or their
instances chosen, so that they are about the rest.

Conditions and shutdown:

- Without a comm thread a second waiter is not served when the polling one
  leaves (`cm_control.c:258`). A nested wait clears `cond_polling` and
  `server_thread` while the outer one still polls (`cm_control.c:253`, `258`):
  a signal is lost, or two threads poll, both see one wake byte and the second
  read blocks with the lock held (`cmselect.c:831-843`; `evpath.h:172` expects one
  network thread). `CommThreadPollsAlone`, `CommThreadReadsWake` and
  `NoWakeupLost` (section 5) say when this cannot happen.
- A condition allocated while the close handlers of its connection run never
  fails (`cm.c:1365`, `1390`, `cm_control.c:76`; `evpath.h:860-863`). A user's
  `CMConnection_close` fails no conditions (`cm.c:1403`). Hence `ConnsDieAtOnce`.
- A spurious wakeup makes `CMCondition_wait` return 0 although nothing failed
  (`cm_control.c:299`; `evpath.h:876-878`): `NoSpuriousWakeups`. A wait for a condition that is
  already done never frees it (`cm_control.c:231`; `evpath.h:889-891`).
- `CManager_close` during another thread's `CMrun_network` joins a zero handle
  (`cm.c:1443`; `evpath.h:149-150`), and its close loop spins with the lock held
  while another thread is in a close handler (`cm.c:976`): `CommThreadServes` and
  `NoCloseHandlers` of `CloseIsSafe`.
- A wait nested in a handler consumes `abort_read_ahead`, which was set for the
  outer one (`cm.c:2255`): `ReadAheadStops` is about waits at depth 1. A signal
  given while there is a network thread asks nobody to stop (`cm_control.c:327`);
  hence `ThreadStays`.

Tasks:

- The handler of a periodic task that removes that task has the walk read the
  freed record (`cmselect.c:530`); a worker that removes a running task waits for
  ever with the lock held (`cmselect.c:784`); hence `Removals = {"waiting"}`, which is `OnlyWaiting`.
  `CMremove_task` of a delayed task that has already run uses a freed record, and
  with an empty list a null pointer.
- A periodic task that ran late is run again before its period is over
  (`cmselect.c:518`; `evpath.h:677-680`). Tasks behind one whose handler polls
  wait as long as it does.
- In `cmepoll.c` timeouts below a millisecond are rounded down to zero, and
  adding a read descriptor again also asks for output.

Writes and socket calls:

- When the remainder of a message blocks again inside its header or attributes, the
  rest of these is sent again (`cm.c:2855`); `FirstPart` excludes it. A reply to a
  format query is put into the middle of a message that is pending
  (`cm_pbio.c:173`); `RepliesWait` excludes it.
- A raw write that waited on a connection that was closed meanwhile replaces the
  remainder (`cm.c:3218`) and may give its buffer back twice (`cm.c:3246`). The
  last close drops what is queued (`cm.c:1332`; `evpath.h:541`).
- A wake callback is removed by its client data, which may be that of a user's
  callback (`cm.c:3122`); with `UserData = {0}` it never is.
- `NBwritev_func` counts the bytes of each further call from the first piece
  (`cmsockets.c:1193`): right for vectors that fit one call or whose pieces have one
  length, which is what the run has. `long_writev` moves the start of a cut piece
  twice when the kernel takes it in parts (`cmsockets.c:1078`); `Short` excludes
  it. As many empty pieces in a row as a call takes loop for ever. EINTR in the
  first blocking read fails the connection.

Reading:

- A reader that goes on with half a message after a nested wait misreads the
  stream (the finding). It also happens without a comm thread when the reply
  comes on another connection.
- A resumed read blocks with the lock held, and the buffer of a connection that
  fails in the middle of a message is not given back (`cm.c:2115`, `2186`).
- Messages with the event control header `0x45564300` match no case of the reader
  (`cm.c:2368-2371`), so squelch messages are not read. Byte-swapped long lengths
  pass through a signed temporary (`cm.c:2489-2499`).

Connections:

- `CMConnection_close` by its only user never shuts a socket connection: the
  transport and the list still have references (`evpath.h:323-327`). The first of
  several users to close sets `closed`, and the others' writes are refused
  (`evpath.h:340-341`). A close handler that closes the connection has the
  remaining handlers skipped (`cm.c:1378`).
- An accepted connection on which the peer says nothing is kept unread
  (`cmsockets.c:312`), and the wait for a handshake has no timeout on sockets.
- The reader thread of `cm_threadio.c:39` holds no reference. A nested poll may
  clear `abort_read_ahead` so that a freed connection is looked at
  (`cm.c:2255`).

Stones and bridges:

- The saved pointer to the next queue item is used after the handler ran unlocked;
  another thread's loop may have processed it (`evp.c:1742`; the action
  `ItemGone`). `EVsubmit` may return while another thread's handler reads the
  caller's data (`evp.c:3458`; `evpath.h:1828-1830`), and `EVsubmit_encoded` leaves
  a frozen stone with a pointer to it (`evp.c:3481`).
- A store never gives back the reference of the queue (`evp.c:1929`).
  `EVclear_stored` leaves `num_stored` (`evp.c:806`): a send that is pending then
  dequeues from an empty store (`evp.c:2765`). `EVstore_start_send` on a stone with
  an empty queue sends nothing until an event arrives (`evp.c:1715`).
- `EVset_store_limit` sets a lower limit first and then sends what is over it event
  by event, with the loop and its handlers after each (`evp.c:2309`): meanwhile the
  store is over its limit with the lock free. `StoreBounded` leaves out the stones
  for which such a call is under way.
- A draining stone stops processing what its drainer waits for (`evp.c:1741`,
  `3699`; `evpath.h:2117-2119`). The first of two handlers of a stone to return
  clears `is_processing` (`evp.c:1852`): a drained stone is idle when one handler
  is at work at a time.
- `is_outputting` stays set on the early returns of `do_bridge_action`
  (`evp.c:2160`, `2194`, `2209`): the stone never sends again and a drain takes its
  ten seconds and fails. `Stuck` names these stones, and `EventsAccounted` the
  only reasons for it.
- A thread that waits for a pending write has no reference: when the connection
  fails and the close handler gives the stone's back, it looks at freed memory
  (`cm.c:3175-3182`). `DyingBlocked` has the application keep a reference.
- A frozen bridge whose loop is under way goes on sending, events queued after
  the freeze included (`evp.c:2199`; `evpath.h:2089-2091`). Freeing a stone
  whose loop waits leaves the loop with a freed stone (`evp.c:3809`).
- Of two stones on one connection only the first one's close handler is called; the
  second finds out at its next write.

Data-flow graphs:

- The waits of remote calls (`ev_dfg.c:486`, `530`) handle the queue in the middle of
  a deployment. The acknowledgements of the nodes sent to so far may complete the
  count there: the state is `Running`, the next node is discounted and sent its stones
  (`ev_dfg.c:2271`), and its acknowledgement is discarded as unexpected. So
  `RunningIsDeployed` is about the step that enters `Running`, and about the state
  itself only where no plan links.
- When a handler triggers, votes may be handled in such a wait and shut the graph
  down; the deployment goes on with connections that are `NULL` (`ev_dfg.c:481`,
  `2273`), or `signal_ready` exits (`ev_dfg.c:2631`). Another reconfiguration in the
  wait frees the queue of actions under the loop (`ev_dfg.c:452`, `2592`). If a late
  client is being deployed, `old_node_count` still counts it as new there, and it is
  sent its stones twice (`ev_dfg.c:2586`). `NoFault` names the first two where a program
  is not `Settled`, `DeployedOnce` excepts the third.
- A local acknowledgement may complete the count before the remote ones are
  discounted (`ev_dfg.c:2271`): `Running` too early. A node without stones that
  completes the count leaves `Starting` or `Reconfiguring` for ever
  (`ev_dfg.c:2307`). Hence `RunningIsDeployed` speaks of `Undisturbed` programs.
- The local `flush_and_trigger` queues the address of its format pointer as the message
  (`ev_dfg.c:1489`): the master reads attributes from, and later frees, whatever lies
  there. `NoFault` is about programs in which the local client does not trigger.
- `handle_queued_messages` drops the messages it passed over (`ev_dfg.c:270`), and
  `queue_master_msg` links without the lock (`ev_dfg.c:2492`): a message may be
  lost. Votes that are all failures never shut down (`ev_dfg.c:2693`). A local
  force during the one-second sleep gives a second value (`ev_dfg.c:1820`).
- A failure reported between the last acknowledgement and the deployed state reads
  a null pointer (`ev_dfg.c:1052`). An unknown or second name joining a static
  graph that runs ends in an assertion (`ev_dfg.c:2561`). So `NoFault` is about
  programs without deaths.
- A dynamic join while acknowledgements are awaited deploys again (`lateWaits` off);
  a late join in `Shutting_Down` is dropped.

## 5. Proofs

The theorems hold for every value of the constants: any threads, connections,
messages, addresses and programs, any bounds.

| theorem | says | if |
|---|---|---|
| **`CMControlProofs`** | | |
| `TypeCorrect` | `[]TypeOK` | |
| `WaitedConditionsLive` | `[]WaitedConditionLive` | |
| `TriggersReachWaiters` | `[]NoLostTrigger` | |
| `CommThreadPollsAlone` | `[]OnePoller` | `CommThreadServes` |
| `CommThreadReadsWake` | `[]WakeReadNeverBlocks` | `CommThreadServes` |
| `NoWakeupLost` | `[]NoLostWakeup` | `CommThreadServes`, `WaitsDoNotNest` |
| `WaitResultsSound` | `[]WaitResultSound`, the part of `ResultsSound` about waits | `NoSpuriousWakeups` |
| `ResultsAreSound` | `[]ResultsSound` | `NoSpuriousWakeups`, `ConnsDieAtOnce` |
| `CloseIsSafe` | `[]CloseSafe` | `CommThreadServes`, `NoCloseHandlers` |
| `ReadingAheadStops` | `ReadAheadStops`, an action property | `WaitsDoNotNest`, `ThreadStays` |
| **`CMTasksProofs`** | | |
| `WalkIsSound` | `[]WalkSound` | `OnlyWaiting` |
| `TasksStartInTime` | `NoLateStart`, an action property | `OnlyWaiting` |
| **`CMConnProofs`** | | |
| `RefsAreSound` | `[]RefsSound` | |
| `ConnectionsShared` | `[]SharedOnce` | |
| **`CMWriteProofs`** | | |
| `WriteIsExact` | `[]Exact` | `HeadersTaken`, `RepliesWait`, `RawApart` |
| `StreamIsKept` | `ImplementsByteStream`: `CMWrite` refines `ByteStream` | the same |
| `NobodyForgotten` | `CallbacksKept`, an action property | `NoNumbers` |
| **`CMReadProofs`** | | |
| `FramesAreKept` | `[]FramingKept` | `HandlersWaitSafely` |
| `BuffersAreSound` | `[]BuffersSound` | `HandlersWaitSafely` |
| **`EVBridgeProofs`** | | |
| `EventsAreAccounted` | `[]EventsAccounted` | |
| `CountsAreExact` | `[]Counted`, the part of `ReferencesExact` about the counts | |
| `ReferencesAreExact` | `[]ReferencesExact` | `ReferenceKept` |
| **`EVStoneProofs`** | | |
| `EventsAreHeld` | `[]EventsHeld` | |
| `QueuesAreExact` | `[]QueuesExact` | |
| `StoppedAreIdle` | `StoppedStonesIdle`, an action property | `[]OneHandler` |
| `NoEventIsStranded` | `[]NoStrandedEvent`, the part of `QuietMeansDone` about queues | |
| `QuietIsDone` | `[]QuietMeansDone` | `OwnOutputs` |

### What is assumed

Each module names the assumptions on its constants (`ControlAssumption`,
`NoWrapAssumption`, `TaskAssumption`, `ConnAssumption`, `WriteAssumption`,
`BridgeAssumption`, `StoneAssumption`, `ReadAssumption`, `SizeAssumption`); TLC
evaluates them on every run. They say that constants are
of the right kind and that null values are none of the things they stand for.
Four say more: condition numbers do not wrap (`NoWrapAssumption`), and a user
of `CMConn` gives its connection back before it gets another (`GivesBack`), so
that one variable holds what a user has; the users, and the callers of `EVStone`,
are finitely many because what they hold is counted; `StoneAssumption` also says
that filters and stores have an output, as the calls that make them require; and
`SizeAssumption` that a message is at least as long as the header that its first
word announces, and a record or an event no shorter than what is read first,
which its encoded data fills.

The conditions in the third column are hypotheses of the theorems, not
assumptions of the modules: the actions they exclude are in the modules, the code
can take them, and the property is then false, as section 4 says with the
lines. Each is a condition on the application or on what the kernel does. Each
holds in the run that checks the property, except as noted:

- `CommThreadServes`: the comm thread is forked before anything else and nobody calls
  `CMrun_network`; `WaitsDoNotNest`: no handler waits below another wait of its thread
  (`MaxDepth <= 1`). Without them a second waiter or the return of an inner wait
  clears `cond_polling` under the others.
- `ThreadStays`: a CManager with a network thread is not closed. A signal that is
  given while there is such a thread asks nobody to stop; a close that joins it
  below the handler leaves the rest of the reading to that handler's thread, and it
  stops only if the close still found a connection to fail. `control_any` forks
  and closes, so its run says more than the theorem; the case does not come up in
  its instance.
- `HandlersWaitSafely`: in each program, a handler that waits is the one of the
  last message of its connection, or there is no network thread, one handler at most
  waits and only messages of its own connection wake it (what
  `abort_read_ahead` is for). All programs of `read` satisfy it; that of
  `read_nested` does not, and there a message is lost.
- `NoSpuriousWakeups`: `pthread_cond_wait` returns for no other reason than a signal.
- `ConnsDieAtOnce`: a connection that fails is closed in the same critical section
  (no close handlers) and users do not close it themselves. `NoCloseHandlers` is
  its first half.
- `OnlyWaiting`: the application removes no task while it runs.
- `HeadersTaken`: the socket takes at least header and attributes of a message
  before it stops; `RepliesWait`: no format query is answered while a write is
  pending; `RawApart`: nobody closes a connection that somebody else writes raw
  messages to.
- `NoNumbers`: the client data of user callbacks are no condition numbers.
- `OneHandler`: at every moment a stone has at most one handler under way. It is
  about the states of a run, since two loops may meet at a stone whenever a handler
  runs unlocked; the first of two handlers to return says that the stone is idle.
- `OwnOutputs`: in a program that only freezes and unfreezes, no stone leads back to a
  split that events are submitted to, and the terminals that split names are named
  by no other stone. `QuietMeansDone` counts the events of one split at a terminal, so
  one that comes by another way would be counted with them. It is a condition on the
  graphs alone; those of `stone` satisfy it.
- `ReferenceKept`: where the peer may die while a write is pending, the application
  made the connection first and keeps its reference.

### The arguments

A property is seldom inductive as it stands. Every inductive invariant below was
checked by TLC on the instance of the run before it was proved.

*`CMControl`.* That a wait's condition stays in the list depends on its frame being
the only one, on unallocated numbers being unused (else `ConditionGet` could
overwrite a waited condition) and on a blocked thread having its wait on top of
its stack (else a trigger or a return would be about another frame). `WaitInv` is
`BlockedOnTop /\ FreshUnused /\ WaitedConditionLive /\ NoLostTrigger`; the step
proof splits the actions by what they do to stacks (`StackStep`, `QuietStep`,
`NewWait`, `WaitReturn`, `FinishFrees`) and to conditions (`SignalWaits`,
`FailedOnly`, `TriggeredAll`). `CommInv` adds that `server_thread` is the comm
thread for good, so that application threads only ever block and the byte the
comm thread saw is still in the pipe when it has the lock. On top of these,
`WakeInv`: `cond_polling` is set as long as the comm thread is in its one wait, and
asleep over a condition that is done it has a byte in the pipe; `ResultInv`: a thread
that leaves the pthread wait has a condition that is done; `DeadInv`: a
connection that failed is closed, and the conditions that depend on it are
failed; `CloseInv`: one thread closes, and the handle it joins exists until then.
`AheadInv`, for the action property, says that as long as there is no network
thread, a thread whose condition was signaled while it reads for its own wait has
`abort_read_ahead` set, until it is back in the loop of the wait.

*`CMTasks`.* The walk keeps a pointer while handlers run unlocked. `IInv` says what
makes it good: the record under the walk is kept by `executing` as long as the handler
above it runs, at every level of nesting, no two levels execute the same record,
nobody but one thread is in the list with the lock, a linked record is in the
list exactly once or belongs to the one removal that took it out, and each record is
one task that was not removed, nor started if it is a delayed one that waits.
Freeing a record and using its address again is then invisible to the walk.

*`CMRead`.* `Inv` says where every word is. `StackOK` and `TopOK` describe the
frames, of any depth: which may lie below a handler, and what the one at the top
has in its hands at each step. `StreamOK` accounts for the stream of one
connection: the messages handled are the first ones in order, and the
reader is either between two messages or inside the next, with as many words as
were taken off the socket since that message began. `MarksOK` says that at most one
place holds what is half read of a connection, `saved` or one frame. `BufferOK` is
about one buffer: it has one owner or is parked on one connection, its reference
count is the number of its holders, and what a holder relies on is still in it. Each way
to change a buffer has a lemma (`BufferParked`, `BufferResumed`, `BufferTaken`,
`BufferDispatched`, `BufferKept`, `BufferUnkept`, `BufferLeft`), as has each way to
change a stack. All this survives a nested read only if a handler does not
return into a loop over a connection that the nested read left half read: the
loop would start a message in the middle of one. `NestInv` excludes that: `Apart`
(no two frames are about one message, and none has yet to visit the connection of
the frame above) and `CalmInv` (when the condition of a waiting handler is
signaled, its connection is between two messages, and it is the handler that
signaled, or the frame it returns to, that has `abort_read_ahead` to see). It is the
only part that needs `HandlersWaitSafely`.

*`CMConn`.* `RefsInv`: the count is the sum over the holders (list, transport, users,
threads in a handshake, reader), a connection that has not failed is in the
list, one thread at a time runs the close handlers of a connection, which the list's
reference keeps, and the reader, whose own reference is gone when it reads
ahead, has been told to stop if the connection left the list. The cardinalities
change by one when one user changes (section "Counting" of the module); a
failure is proved in its stages, first the transport, then each handler, then the
list. `IInv` adds for `SharedOnce` that the handlers called, about to be called
and still registered are together at most the registrations made, and that two
open connections never have one peer.

*`CMWrite`.* `RestIsExact` is the arithmetic at the heart: wherever a write of
`n` bytes stops in the vector of pieces, what `queue_remaining_write` keeps of
header, attributes and data is the message without its first `n` bytes. `ByteInv`
says that wire and queue are together the stream of accepted messages, that the
queue has no header or attributes left, that a pending write is known to
the transport, and that a closed connection that has not failed was closed by
somebody. The refinement follows: the wire only grows, and never past the
stream. `CallInv` adds to the list of waiters what the data of the slots are, so
that `remove_pending_write_callback`, which compares function *or* data, takes out
no other's slot.

*`EVBridge`.* `RefsInv`: one frame, of all threads and all depths, sends the
events of a stone, and one fails a connection; a stone that is being sent is
`outputting` and has its connection or knows that it failed; a connection whose
close handlers run is still listed; counts are exact. `is_outputting` is what
makes this inductive: it keeps every other pass away from the connection of a
stone that is being sent. `EventInv` is why nothing is left behind: a stone with
events that may be sent has a task that is due, or a pass on some stack that has
not come to it yet; and a stone that stays `outputting` without a sender has lost
its connection, never had one, or was emptied. `KeptInv` is for the waits: a
thread blocked on a pending write waits on the connection its stone still holds, or
on the one the application keeps.

*`EVStone`.* The sums of the properties, over items in queues and over frames on
stacks of any depth, become cardinalities of sets of indices. `IInv` is `Types`,
`Nested` (which frame may lie on which: a `split` on the `stone` that called it, a
`submit` at the bottom or on a `handler`), `OneLock` (of all threads one at most is
at a frame that has the lock), `ItemInv`, `RefInv` and `StoreInv`. `Nested` is
what makes a return known: the frame that a call returns to takes its
`more_pending`, and nothing is returned into a handler that is not there.
`OneLock` leaves room for what is only true between two steps of one call:
`StoreInv` lets a store be one over its limit only while the thread that has the lock
is about to pass the oldest event on, and that thread finds the store not empty. The step
proof has one lemma for each way to change a stack (`PushMove`, `StayMove`,
`UpMove`), one for each way to move an item (enqueued, dequeued, forwarded,
transferred, cleared), and one that adds the two into the reference counts
(`Moved`). `StopInv` says that a stone with a handler is `is_processing` and not
drained; only `HandlerStart` adds a handler (`StartsNone` for all other steps), and
with `OneHandler` the return that clears the flag removes the last one.

For `QuietMeansDone` the question is who will come back to an event that waits.
`CareInv` answers it: if a stone with events is neither frozen nor draining, a task is
due or some frame of some thread sees to that stone (`Cares`): a loop that has not
come to it yet or that will go round again (`more`), or a call of
`process_events_stone` that is at the item at the head of its queue. The case that
is easy to get wrong is the last one, since another loop, in a handler above, may
take items out of the queue meanwhile: `NextHead` is about the pointer that was
read before. `MoreInv` says that whoever is about to enqueue has set `more_pending`
in the frame it returns to, and `NoSending` that no store sends in the background.
`ServeInv` is the history of an event that was submitted to a split, read off the
state: it waits there and no output has been given it, or a thread is in
`Action_Split` and each terminal has been given it as often as it is named among
the outputs before the one the thread has come to, or as often as it is named at all
(`Served`); given are the events handled and those that wait at the terminal
(`Given`). Each step of the split moves one between these counts (`NamedSets`,
`EnqueueHolds`, `DequeueHolds`), and with all queues empty only the last case is left.

*Induction.* The library's induction theorems cannot be instantiated, so facts about
sequences are proved from least counterexamples (`WFMin`, `LeastNat`), counting with
`Cardinality` and the theorems about finite sets, and recursive *functions*
(`FlattenSeq`, `AfterWake`) by lemmas that give their equation from the existence
of the function.

### Only model-checked

Liveness, and whatever speaks of ENABLED, is out of the prover's reach:
`WaitReturns`, `ClosingCompletes`, `QueuedProcessed`, `AllProceed`, `DelayedRuns`,
`WritesProceed`, `CallReturns`, `EveryMessageServed`, `ConnectionsEnd`,
`EventsProceed`. Not proved: `Sound`, `RunningIsDeployed` and `ShutdownSound` of
`EVMaster`, whose protocol has a separate invariant for each state of the master;
`BytesInOrder` and `ResultSound` of `CMSocketIO`, where the position in the vector is
a sum that a recursive function computes.

## 6. Not modelled

- *Device and library bindings*: the other transports, transport and plug-in
  loading, FFS formats, COD handlers and response specifications, metrics and
  host data. What they do is defined by code outside the repository; one pass
  over a table, or I/O. `zpl-enet` is third-party.
- *Generated interface*: it takes the lock around each `INT_` function, which the
  modules assume. Tests, examples, documentation and headers were read for what
  they promise.
- *Backpressure* (stall states of a stone graph), *thread bridges* between two
  CManagers, multi-queue and congestion actions, freeing stones under load;
  *checkpoint and restart* of graphs; the arguments of remote calls, and which call
  a reconfiguration makes beyond creating, freezing, linking and unfreezing; format
  preloading, `CM_pbio_query`, foreign protocols, the
  pull schedule of reads, bandwidth measurement: in the plan, or without state
  that several actors share.

## 7. Plan

Done: `CMControl`, `CMTasks`, `CMWrite` with `ByteStream`, `CMConn`, `CMRead`,
`EVBridge` and `EVStone` with proofs of all their safety properties;
`CMSocketIO` and `EVMaster`, model-checked.

Left, in this order:

1. Proofs: `BytesInOrder` and `ResultSound` of `CMSocketIO`; the vote of `EVMaster`.
2. `Backpressure`, the recursive stall state with its unstall callbacks, and
   `ThreadBridge`, two CManagers that feed each other.
3. `EVMaster` extended by checkpointing, and by several late joins at a time.
4. Pure algorithms: the overlap test of the pull schedule against a definition,
   and the wrap of condition numbers with a small modulus.

Runs stay one per question: new programs join the instance of their module, and a
module that composes others replaces runs about their interfaces.
