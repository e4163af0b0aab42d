------------------------------- MODULE EVStone -------------------------------
(***************************************************************************)
(* The stones of a CManager: their event queues, the pool of queue items,  *)
(* the reference counts of the events, and the loop that runs the local    *)
(* actions (evp.c).  Stones carry one action each: a terminal or a filter, *)
(* whose handlers run without the CManager lock, a split or a store.       *)
(*                                                                         *)
(* A thread's stack holds the calls it is in, innermost last.  A thread    *)
(* holds the CManager lock from the first step of a call to its last,      *)
(* except while it runs a handler or sleeps in EVdrain_stone: the steps of *)
(* a call are written one by one, but another thread gets in only there.   *)
(***************************************************************************)
EXTENDS Integers, Sequences, FiniteSets, SequencesExt, FiniteSetsExt

CONSTANTS
  Callers,     \* threads of the application
  Server,      \* the thread that services the network and runs the tasks
  Programs,    \* the applications: stone graphs and what is done with them
  MaxEvents    \* bound on the events submitted

(* An application has                                                       *)
(*   threads    the application threads it uses                             *)
(*   action     the kind of action each stone carries, in map order         *)
(*   outputs    their output stones; a filter or a store has one            *)
(*   limit      the store limit given to EVassoc_store_action, -1 for none  *)
(*   entry      the stones that events are submitted to                     *)
(*   kinds      the ways this application submits events                    *)
(*   usage      the other calls it makes, maxCalls of them                  *)
(*   maxPolls   polls before EVdrain_stone fails (21 in the code)           *)

Events  == 1 .. MaxEvents
None    == 0

SubmitKinds == {"app", "free", "encoded", "net"}
Calls == {"freeze", "unfreeze", "drain", "transfer", "send", "clear",
          "startsend", "limit"}

ASSUME StoneAssumption ==
  /\ Server \notin Callers /\ IsFiniteSet(Callers) /\ MaxEvents \in Nat
  /\ \A p \in Programs : LET S == DOMAIN p.action IN
       /\ p.threads \subseteq Callers
       /\ p.action \in Seq({"terminal", "filter", "split", "store"})
       /\ p.outputs \in [S -> Seq(S)]
       /\ \A s \in S : p.action[s] \in {"filter", "store"}
                        => p.outputs[s] # <<>>
       /\ p.limit \in Int /\ p.limit >= -1
       /\ p.entry \subseteq S /\ p.kinds \subseteq SubmitKinds
       /\ p.usage \subseteq Calls /\ p.maxCalls \in Nat /\ p.maxPolls \in Nat

VARIABLES
  program,     \* the application that runs
  queue,       \* stone->queue: queue items, oldest first
  store,       \* o.store.queue of a store stone
  items,       \* the event each queue item allocated so far points to
  freeItems,   \* evp->queue_items_free_list
  ref,         \* event->ref_count
  appMem,      \* the event still refers to the memory the application gave
  origin,      \* how and where each event was submitted
  returned,    \* the submission of the event has returned
  frozen,      \* stone->is_frozen
  draining,    \* stone->is_draining
  processing,  \* stone->is_processing
  numStored,   \* o.store.num_stored
  maxStored,   \* o.store.max_stored
  sending,     \* o.store.is_sending, which stone->pending_output counts
  lastActive,  \* as->last_active_stone
  inPlay,      \* as->events_in_play
  tasks,       \* deferred_process_actions tasks that are due
  calls,       \* calls made
  delivered,   \* how often the handler of a stone was given an event
  stack        \* the calls each thread is in

queueVars == <<queue, store, items, freeItems>>
eventVars == <<ref, appMem, origin, returned>>
stoneVars == <<frozen, draining, processing>>
storeVars == <<numStored, maxStored, sending>>
loopVars  == <<lastActive, inPlay>>
envVars   == <<tasks, calls, delivered>>
vars == <<program, queueVars, eventVars, stoneVars, storeVars, loopVars,
          envVars, stack>>

Threads   == Callers \cup {Server}
AllStones == UNION {DOMAIN p.action : p \in Programs}
Stones    == DOMAIN program.action
Action    == program.action
Outputs   == program.outputs
-----------------------------------------------------------------------------
(* Frames.                                                                  *)

Ops == {"submit", "send", "limit", "task",   \* calls that run the loop
        "loop",                              \* process_local_actions
        "stone", "split", "overflow",        \* process_events_stone
        "handler", "drain", "crashed"}

Phases == {"active", "scan",        \* of process_local_actions
           "pending", "items",      \* of process_events_stone
           "app", "own",            \* whose memory a handler was given
           "none"}

Frame(op, at, s, e, i, more) ==
  [op |-> op, at |-> at, stone |-> s, event |-> e, item |-> i, more |-> more]

Loop == Frame("loop", "active", 1, None, None, TRUE)

Top(t)   == Last(stack[t])
Below(t) == Front(stack[t])
At(t, op) == stack[t] # <<>> /\ Top(t).op = op

(* A thread holds the lock unless it is outside, in a handler, or asleep.   *)
Locks(t) == stack[t] # <<>> /\ Top(t).op \notin {"handler", "drain"}
LockFree == \A t \in Threads : ~Locks(t)

(* Application code runs outside EVPath or in a handler.                    *)
MayCall(t) == LockFree /\ (IF stack[t] = <<>> THEN t \in program.threads
                            ELSE At(t, "handler"))

Call(t, frames)  == stack' = [stack EXCEPT ![t] = @ \o frames]
Return(t)        == stack' = [stack EXCEPT ![t] = Front(@)]
Replace(t, f)    == stack' = [stack EXCEPT ![t] = Append(Front(@), f)]

(* process_events_stone gives its more_pending to process_local_actions.    *)
(* Fault: it is lost.                                                       *)
ReturnNoMore(t, more) == Return(t)

ReturnMore(t, more) ==
  LET f == [Last(Below(t)) EXCEPT !.more = @ \/ more] IN
  stack' = [stack EXCEPT ![t] = Append(Front(Front(@)), f)]
-----------------------------------------------------------------------------
TypeOK ==
  /\ program \in Programs
  /\ items \in Seq(Events)
  /\ LET Item == 1 .. Len(items) IN
     /\ queue \in [Stones -> Seq(Item)]
     /\ store \in [Stones -> Seq(Item)]
     /\ freeItems \in Seq(Item)
  /\ ref \in [Events -> Nat]
  /\ appMem \in [Events -> BOOLEAN]
  /\ origin \in Seq([kind : SubmitKinds, stone : Stones])
  /\ returned \in [Events -> BOOLEAN]
  /\ frozen \in [Stones -> BOOLEAN]
  /\ draining \in [Stones -> 0 .. 2]
  /\ processing \in [Stones -> BOOLEAN]
  /\ numStored \in [Stones -> Nat]
  /\ maxStored \in [Stones -> Int]
  /\ sending \in [Stones -> BOOLEAN]
  /\ lastActive \in Stones \cup {None}
  /\ inPlay \in Nat /\ tasks \in Nat /\ calls \in 0 .. program.maxCalls
  /\ delivered \in [Stones -> [Events -> Nat]]
  /\ \A t \in Threads : \A d \in DOMAIN stack[t] :
       /\ stack[t][d].op \in Ops /\ stack[t][d].at \in Phases
       /\ stack[t][d].event \in Events \cup {None}
       /\ stack[t][d].item \in Nat      \* a queue item, or a counter
       /\ stack[t][d].more \in BOOLEAN

Init ==
  /\ program \in Programs
  /\ queue = [s \in Stones |-> <<>>] /\ store = [s \in Stones |-> <<>>]
  /\ items = <<>> /\ freeItems = <<>>
  /\ ref = [e \in Events |-> 0]
  /\ appMem = [e \in Events |-> FALSE]
  /\ origin = <<>>
  /\ returned = [e \in Events |-> FALSE]
  /\ frozen = [s \in Stones |-> FALSE]
  /\ draining = [s \in Stones |-> 0]
  /\ processing = [s \in Stones |-> FALSE]
  /\ numStored = [s \in Stones |-> 0]
  /\ maxStored = [s \in Stones |-> program.limit]
  /\ sending = [s \in Stones |-> FALSE]
  /\ lastActive = None /\ inPlay = 0 /\ tasks = 0 /\ calls = 0
  /\ delivered = [s \in Stones |-> [e \in Events |-> 0]]
  /\ stack = [t \in Threads |-> <<>>]
-----------------------------------------------------------------------------
(* Queues.                                                                  *)

(* raw_enqueue_event: the queue item comes from the head of the free list   *)
(* or is allocated.  Fault: an off-by-one in the allocation.                *)
NewItemOffByOne == IF freeItems # <<>> THEN Head(freeItems) ELSE Len(items)

NewItem == IF freeItems # <<>> THEN Head(freeItems) ELSE Len(items) + 1

(* enqueue_event, without the reference it adds.  Fault: the free list      *)
(* keeps the item.                                                          *)
EnqueueNotTaken(s, e) ==
  /\ queue' = [queue EXCEPT ![s] = Append(@, NewItem)]
  /\ items' = IF freeItems # <<>> THEN [items EXCEPT ![NewItem] = e]
              ELSE Append(items, e)
  /\ lastActive' = s /\ inPlay' = inPlay + 1 /\ UNCHANGED freeItems

Enqueue(s, e) ==
  /\ queue' = [queue EXCEPT ![s] = Append(@, NewItem)]
  /\ items' = IF freeItems # <<>> THEN [items EXCEPT ![NewItem] = e]
              ELSE Append(items, e)
  /\ freeItems' = IF freeItems # <<>> THEN Tail(freeItems) ELSE freeItems
  /\ lastActive' = s /\ inPlay' = inPlay + 1

(* dequeue_item: the item goes to the head of the free list.  Fault:        *)
(* events_in_play is forgotten.                                             *)
DequeueStillInPlay(s, i) ==
  /\ queue' = [queue EXCEPT ![s] = RemoveFirst(@, i)]
  /\ freeItems' = <<i>> \o freeItems
  /\ UNCHANGED inPlay

Dequeue(s, i) ==
  /\ queue' = [queue EXCEPT ![s] = RemoveFirst(@, i)]
  /\ freeItems' = <<i>> \o freeItems
  /\ inPlay' = inPlay - 1

(* A dequeue from the store followed by an enqueue on the target: the item  *)
(* just freed is the one the enqueue takes.                                 *)
ForwardStored(s) ==
  LET u == Head(Outputs[s]) IN
  /\ store' = [store EXCEPT ![s] = Tail(@)]
  /\ queue' = [queue EXCEPT ![u] = Append(@, Head(store[s]))]
  /\ lastActive' = u /\ inPlay' = inPlay + 1
  /\ UNCHANGED <<items, freeItems>>

(* return_event.  Faults: the reference is kept, or given back twice.       *)
UnrefNever(e) == UNCHANGED ref
UnrefTwice(e) == ref' = [ref EXCEPT ![e] = @ - 2]

Unref(e) == ref' = [ref EXCEPT ![e] = @ - 1]

(* The item behind i in the queue of s.                                     *)
Behind(s, i) ==
  LET p == SelectInSeq(queue[s], LAMBDA j : j = i)
  IN IF p = Len(queue[s]) THEN None ELSE queue[s][p + 1]
-----------------------------------------------------------------------------
(* Submission.                                                              *)

(* INT_EVsubmit, with or without a free function, and INT_EVsubmit_encoded, *)
(* up to their loop.                                                        *)
Submit(t, s, k) ==
  LET e == Len(origin) + 1 IN
  /\ s \in program.entry /\ k \in program.kinds \ {"net"}
  /\ MayCall(t) /\ e \in Events
  /\ Enqueue(s, e)
  /\ ref' = [ref EXCEPT ![e] = 2]
  /\ appMem' = [appMem EXCEPT ![e] = k \in {"app", "encoded"}]
  /\ origin' = Append(origin, [kind |-> k, stone |-> s])
  /\ Call(t, <<Frame("submit", "none", s, e, None, FALSE), Loop>>)
  /\ UNCHANGED <<program, store, returned, stoneVars, storeVars, envVars>>

(* internal_cm_network_submit gives its reference back before the loop.     *)
NetworkSubmit(s) ==
  LET e == Len(origin) + 1 IN
  /\ s \in program.entry /\ "net" \in program.kinds
  /\ LockFree /\ stack[Server] = <<>> /\ e \in Events
  /\ Enqueue(s, e)
  /\ ref' = [ref EXCEPT ![e] = 1]
  /\ origin' = Append(origin, [kind |-> "net", stone |-> s])
  /\ returned' = [returned EXCEPT ![e] = TRUE]
  /\ Call(Server, <<Frame("task", "none", s, None, None, FALSE), Loop>>)
  /\ UNCHANGED <<program, store, appMem, stoneVars, storeVars, envVars>>

(* The end of INT_EVsubmit: an event that somebody still refers to is moved *)
(* to memory of its own (reassign_memory_event).  INT_EVsubmit_encoded does *)
(* not look.  Fault: the event is not moved.                                *)
SubmitReturnAtOnce(t) ==
  LET e == Top(t).event IN
  /\ At(t, "submit")
  /\ Unref(e)
  /\ returned' = [returned EXCEPT ![e] = TRUE]
  /\ Return(t)
  /\ UNCHANGED <<program, queueVars, appMem, origin, stoneVars, storeVars,
                 loopVars, envVars>>

SubmitReturn(t) ==
  LET e == Top(t).event IN
  /\ At(t, "submit")
  /\ appMem' = [appMem EXCEPT ![e] =
                  @ /\ ~(ref[e] # 1 /\ origin[e].kind = "app")]
  /\ Unref(e)
  /\ returned' = [returned EXCEPT ![e] = TRUE]
  /\ Return(t)
  /\ UNCHANGED <<program, queueVars, origin, stoneVars, storeVars, loopVars,
                 envVars>>
-----------------------------------------------------------------------------
(* process_local_actions.                                                   *)

(* process_events_stone, up to its loop over the items.                     *)
ConsiderStone(t, s, class, frame) ==
  /\ lastActive' = IF lastActive = s THEN None ELSE lastActive
  /\ IF queue[s] = <<>> \/ draining[s] = 2 \/ frozen[s]
     THEN Replace(t, frame)
     ELSE stack' = [stack EXCEPT ![t] =
            Front(@) \o <<frame, Frame("stone", class, s, None,
                                       Head(queue[s]), FALSE)>>]

(* The stone that was active last, as long as there is more to do.          *)
LoopActive(t) ==
  /\ At(t, "loop") /\ Top(t).at = "active"
  /\ IF Top(t).more /\ lastActive # None
     THEN ConsiderStone(t, lastActive, "items", [Top(t) EXCEPT !.more = FALSE])
     ELSE /\ Replace(t, [Top(t) EXCEPT !.at = "scan", !.more = FALSE,
                 !.stone = IF inPlay > 0 THEN 1 ELSE Cardinality(Stones) + 1])
          /\ UNCHANGED lastActive
  /\ UNCHANGED <<program, queueVars, eventVars, stoneVars, storeVars, inPlay,
                 envVars>>

(* All the stones in turn, until one of them made another one active.       *)
LoopScan(t) ==
  /\ At(t, "loop") /\ Top(t).at = "scan"
  /\ IF Top(t).more /\ lastActive # None
     THEN Replace(t, Loop) /\ UNCHANGED lastActive
     ELSE /\ Top(t).stone \in Stones
          /\ ConsiderStone(t, Top(t).stone,
                           IF sending[Top(t).stone] THEN "pending" ELSE "items",
                           [Top(t) EXCEPT !.stone = @ + 1])
  /\ UNCHANGED <<program, queueVars, eventVars, stoneVars, storeVars, inPlay,
                 envVars>>

(* No stone is left; the callers go round until nothing is pending.         *)
LoopEnd(t) ==
  /\ At(t, "loop") /\ Top(t).at = "scan"
  /\ Top(t).stone \notin Stones /\ ~(Top(t).more /\ lastActive # None)
  /\ lastActive' = None
  /\ IF Top(t).more THEN Replace(t, Loop) ELSE Return(t)
  /\ UNCHANGED <<program, queueVars, eventVars, stoneVars, storeVars, inPlay,
                 envVars>>

(* process_stone_pending_output: one stored event is sent.  Its reference   *)
(* in the store is not given back.                                          *)
PendingOutput(t) ==
  LET s == Top(t).stone IN
  /\ At(t, "stone") /\ Top(t).at = "pending"
  /\ IF store[s] = <<>>
     THEN /\ Replace(t, [Top(t) EXCEPT !.op = "crashed"])
          /\ UNCHANGED <<queueVars, ref, storeVars, loopVars>>
     ELSE LET last == numStored[s] = 1 IN
          /\ store' = [store EXCEPT ![s] = Tail(@)]
          /\ queue' = [queue EXCEPT ![Head(Outputs[s])] = Append(@, Head(store[s]))]
          /\ lastActive' = Head(Outputs[s])
          /\ inPlay' = IF last THEN inPlay ELSE inPlay + 1
          /\ ref' = [ref EXCEPT ![items[Head(store[s])]] = @ + 1]
          /\ numStored' = [numStored EXCEPT ![s] = @ - 1]
          /\ sending' = [sending EXCEPT ![s] = ~last]
          /\ Replace(t, [Top(t) EXCEPT !.at = "items", !.more = ~last])
          /\ UNCHANGED <<items, freeItems, maxStored>>
  /\ UNCHANGED <<program, appMem, origin, returned, stoneVars, envVars>>

(* The loop over the items ends with the queue, or when the stone was       *)
(* frozen or began to drain.                                                *)
StopsWhenDraining(s) == draining[s] # 0   \* Fault: frozen is not looked at.

Stops(s) == draining[s] # 0 \/ frozen[s]

ItemsEnd(t) ==
  /\ At(t, "stone") /\ Top(t).at = "items"
  /\ Top(t).item = None \/ Stops(Top(t).stone)
  /\ ReturnMore(t, Top(t).more)
  /\ UNCHANGED <<program, queueVars, eventVars, stoneVars, storeVars, loopVars,
                 envVars>>

(* The item the loop is at; the pointer to the one behind it is read now.   *)
AtItem(t, kinds) ==
  /\ At(t, "stone") /\ Top(t).at = "items"
  /\ Top(t).item # None /\ ~Stops(Top(t).stone)
  /\ Action[Top(t).stone] \in kinds

Queued(t) == Contains(queue[Top(t).stone], Top(t).item)

Advance(t) == [Top(t) EXCEPT !.item = Behind(Top(t).stone, Top(t).item)]

(* dequeue_item does not find an item that somebody else has processed      *)
(* meanwhile and runs off the end of the queue.                             *)
ItemGone(t) ==
  /\ AtItem(t, {"terminal", "filter", "split", "store"}) /\ ~Queued(t)
  /\ Replace(t, [Top(t) EXCEPT !.op = "crashed"])
  /\ UNCHANGED <<program, queueVars, eventVars, stoneVars, storeVars, loopVars,
                 envVars>>

(* Action_Terminal and Action_Filter, up to the handler.                    *)
HandlerStart(t) ==
  LET s == Top(t).stone
      e == items[Top(t).item] IN
  /\ AtItem(t, {"terminal", "filter"}) /\ Queued(t)
  /\ Dequeue(s, Top(t).item)
  /\ processing' = [processing EXCEPT ![s] = TRUE]
  /\ delivered' = [delivered EXCEPT ![s][e] = @ + 1]
  /\ stack' = [stack EXCEPT ![t] =
       Front(@) \o <<Advance(t),
                     Frame("handler", IF appMem[e] THEN "app" ELSE "own",
                           s, e, None, FALSE)>>]
  /\ UNCHANGED <<program, store, items, eventVars, frozen, draining, storeVars,
                 lastActive, tasks, calls>>

(* The handler has returned; the event a filter passes goes to its target.  *)
HandlerReturn(t) ==
  LET s == Top(t).stone
      e == Top(t).event IN
  /\ LockFree /\ At(t, "handler")
  /\ processing' = [processing EXCEPT ![s] = FALSE]
  /\ \/ /\ Unref(e) /\ Return(t)
        /\ UNCHANGED <<queueVars, loopVars>>
     \/ /\ Action[s] = "filter"
        /\ Enqueue(Head(Outputs[s]), e)
        /\ stack' = [stack EXCEPT ![t] =
             Append(Front(Front(@)), [Last(Front(@)) EXCEPT !.more = TRUE])]
        /\ UNCHANGED <<store, ref>>
  /\ UNCHANGED <<program, appMem, origin, returned, frozen, draining,
                 storeVars, envVars>>

(* Action_Split.                                                            *)
SplitStart(t) ==
  LET f == [Advance(t) EXCEPT !.more = @ \/ Outputs[Top(t).stone] # <<>>] IN
  /\ AtItem(t, {"split"}) /\ Queued(t)
  /\ Dequeue(Top(t).stone, Top(t).item)
  /\ stack' = [stack EXCEPT ![t] =
       Front(@) \o <<f, Frame("split", "none", Top(t).stone,
                              items[Top(t).item], 1, FALSE)>>]
  /\ UNCHANGED <<program, store, items, eventVars, stoneVars, storeVars,
                 lastActive, envVars>>

(* Fault: the last output is left out.                                      *)
SplitOutputShort(t) ==
  LET s == Top(t).stone
      e == Top(t).event IN
  /\ At(t, "split")
  /\ IF Top(t).item >= Len(Outputs[s])
     THEN Unref(e) /\ Return(t) /\ UNCHANGED <<queueVars, loopVars>>
     ELSE /\ Enqueue(Outputs[s][Top(t).item], e)
          /\ ref' = [ref EXCEPT ![e] = @ + 1]
          /\ Replace(t, [Top(t) EXCEPT !.item = @ + 1])
          /\ UNCHANGED store
  /\ UNCHANGED <<program, appMem, origin, returned, stoneVars, storeVars,
                 envVars>>

SplitOutput(t) ==
  LET s == Top(t).stone
      e == Top(t).event IN
  /\ At(t, "split")
  /\ IF Top(t).item > Len(Outputs[s])
     THEN Unref(e) /\ Return(t) /\ UNCHANGED <<queueVars, loopVars>>
     ELSE /\ Enqueue(Outputs[s][Top(t).item], e)
          /\ ref' = [ref EXCEPT ![e] = @ + 1]
          /\ Replace(t, [Top(t) EXCEPT !.item = @ + 1])
          /\ UNCHANGED store
  /\ UNCHANGED <<program, appMem, origin, returned, stoneVars, storeVars,
                 envVars>>

(* The store limit is exceeded by one more event.  Fault: one event late.   *)
OverLimitLate(s) == maxStored[s] # -1 /\ numStored[s] > maxStored[s]

OverLimit(s) == maxStored[s] # -1 /\ numStored[s] + 1 > maxStored[s]

(* Action_Store: the event moves to the store, which adds a reference; the  *)
(* one its queue held is not given back.  Memory of the application is      *)
(* copied (ensure_ev_owned).                                                *)
StoreEvent(t) ==
  LET s == Top(t).stone
      e == items[Top(t).item] IN
  /\ AtItem(t, {"store"}) /\ Queued(t)
  /\ queue' = [queue EXCEPT ![s] = RemoveFirst(@, Top(t).item)]
  /\ store' = [store EXCEPT ![s] = Append(@, Top(t).item)]
  /\ inPlay' = inPlay - 1
  /\ ref' = [ref EXCEPT ![e] = @ + 1]
  /\ appMem' = [appMem EXCEPT ![e] = FALSE]
  /\ numStored' = [numStored EXCEPT ![s] = @ + 1]
  /\ IF OverLimit(s)
     THEN stack' = [stack EXCEPT ![t] =
            Front(@) \o <<[Advance(t) EXCEPT !.more = TRUE],
                          Frame("overflow", "none", s, None, None, FALSE)>>]
     ELSE Replace(t, Advance(t))
  /\ UNCHANGED <<program, items, freeItems, origin, returned, stoneVars,
                 maxStored, sending, lastActive, envVars>>

(* The oldest stored event is passed on when the limit is exceeded.         *)
StoreOverflow(t) ==
  LET s == Top(t).stone IN
  /\ At(t, "overflow")
  /\ ForwardStored(s)
  /\ numStored' = [numStored EXCEPT ![s] = @ - 1]
  /\ Return(t)
  /\ UNCHANGED <<program, eventVars, stoneVars, maxStored, sending, envVars>>
-----------------------------------------------------------------------------
(* Calls on stores.                                                         *)

MayUse(t, call, s) ==
  /\ call \in program.usage /\ s \in Stones
  /\ MayCall(t) /\ calls < program.maxCalls
  /\ calls' = calls + 1

IsStore(s) == Action[s] = "store"

(* INT_EVclear_stored: the items are freed; num_stored is left alone.       *)
ClearStored(t, s) ==
  /\ MayUse(t, "clear", s) /\ IsStore(s) /\ store[s] # <<>>
  /\ ref' = [e \in Events |->
               ref[e] - Cardinality({p \in DOMAIN store[s] : items[store[s][p]] = e})]
  /\ store' = [store EXCEPT ![s] = <<>>]
  /\ UNCHANGED <<program, queue, items, freeItems, appMem, origin, returned,
                 stoneVars, storeVars, loopVars, tasks, delivered, stack>>

(* INT_EVsend_stored: store by store event, with the loop after each.       *)
SendStored(t, s) ==
  /\ MayUse(t, "send", s) /\ IsStore(s)
  /\ Call(t, <<Frame("send", "none", s, None, None, FALSE)>>)
  /\ UNCHANGED <<program, queueVars, eventVars, stoneVars, storeVars, loopVars,
                 tasks, delivered>>

SendStoredNext(t) ==
  LET s == Top(t).stone IN
  /\ At(t, "send")
  /\ IF store[s] = <<>>
     THEN Return(t) /\ UNCHANGED <<queueVars, numStored, loopVars>>
     ELSE /\ ForwardStored(s)
          /\ numStored' = [numStored EXCEPT ![s] = @ - 1]
          /\ Call(t, <<Loop>>)
  /\ UNCHANGED <<program, eventVars, stoneVars, maxStored, sending, envVars>>

(* INT_EVset_store_limit.  The event it sends keeps a reference until the   *)
(* loop after it has run.                                                   *)
SetStoreLimit(t, s, n) ==
  /\ MayUse(t, "limit", s) /\ IsStore(s)
  /\ maxStored' = [maxStored EXCEPT ![s] = n]
  /\ Call(t, <<Frame("limit", "none", s, None, None, FALSE)>>)
  /\ UNCHANGED <<program, queueVars, eventVars, stoneVars, numStored, sending,
                 loopVars, tasks, delivered>>

SetStoreLimitNext(t) ==
  LET s == Top(t).stone
      e == Top(t).event IN
  /\ At(t, "limit")
  /\ IF maxStored[s] = -1 \/ numStored[s] <= maxStored[s] \/ store[s] = <<>>
     THEN /\ IF e = None THEN UNCHANGED ref ELSE Unref(e)
          /\ Return(t)
          /\ UNCHANGED <<queueVars, numStored, loopVars>>
     ELSE LET f == items[Head(store[s])] IN
          /\ ForwardStored(s)
          /\ numStored' = [numStored EXCEPT ![s] = @ - 1]
          /\ ref' = [d \in Events |-> ref[d] + (IF d = f THEN 1 ELSE 0)
                                             - (IF d = e THEN 1 ELSE 0)]
          /\ stack' = [stack EXCEPT ![t] =
               Front(@) \o <<[Top(t) EXCEPT !.event = f], Loop>>]
  /\ UNCHANGED <<program, appMem, origin, returned, stoneVars, maxStored,
                 sending, envVars>>

(* INT_EVstore_start_send.                                                  *)
StoreStartSend(t, s) ==
  /\ MayUse(t, "startsend", s) /\ IsStore(s)
  /\ numStored[s] # 0 /\ ~sending[s]
  /\ sending' = [sending EXCEPT ![s] = TRUE]
  /\ inPlay' = inPlay + 1
  /\ tasks' = tasks + 1
  /\ UNCHANGED <<program, queueVars, eventVars, stoneVars, numStored,
                 maxStored, lastActive, delivered, stack>>
-----------------------------------------------------------------------------
(* Reconfiguration.                                                         *)

(* INT_EVfreeze_stone.                                                      *)
Freeze(t, s) ==
  /\ MayUse(t, "freeze", s) /\ ~frozen[s]
  /\ frozen' = [frozen EXCEPT ![s] = TRUE]
  /\ UNCHANGED <<program, queueVars, eventVars, draining, processing,
                 storeVars, loopVars, tasks, delivered, stack>>

(* INT_EVunfreeze_stone: the loop is run by a task.  Fault: it is not.      *)
UnfreezeIdle(t, s) ==
  /\ MayUse(t, "unfreeze", s) /\ frozen[s]
  /\ frozen' = [frozen EXCEPT ![s] = FALSE]
  /\ UNCHANGED <<program, queueVars, eventVars, draining, processing,
                 storeVars, loopVars, tasks, delivered, stack>>

Unfreeze(t, s) ==
  /\ MayUse(t, "unfreeze", s) /\ frozen[s]
  /\ frozen' = [frozen EXCEPT ![s] = FALSE]
  /\ tasks' = tasks + 1
  /\ UNCHANGED <<program, queueVars, eventVars, draining, processing,
                 storeVars, loopVars, delivered, stack>>

(* deferred_process_actions, run by the thread that services the network.   *)
DeferredActions ==
  /\ tasks > 0 /\ LockFree /\ stack[Server] = <<>>
  /\ tasks' = tasks - 1
  /\ Call(Server, <<Frame("task", "none", 1, None, None, FALSE), Loop>>)
  /\ UNCHANGED <<program, queueVars, eventVars, stoneVars, storeVars, loopVars,
                 calls, delivered>>

TaskReturn(t) ==
  /\ At(t, "task")
  /\ Return(t)
  /\ UNCHANGED <<program, queueVars, eventVars, stoneVars, storeVars, loopVars,
                 envVars>>

(* INT_EVtransfer_events: every item is dequeued and enqueued at once.      *)
TransferEvents(t, s, u) ==
  /\ MayUse(t, "transfer", s) /\ u \in Stones \ {s} /\ queue[s] # <<>>
  /\ queue' = [queue EXCEPT ![s] = <<>>, ![u] = @ \o queue[s]]
  /\ lastActive' = u
  /\ UNCHANGED <<program, store, items, freeItems, eventVars, stoneVars,
                 storeVars, inPlay, tasks, delivered, stack>>

(* INT_EVdrain_stone tests the stone and sleeps, maxPolls times at most.    *)
(* It is the only call its thread is in.                                    *)
(* Fault: a handler that still runs is not looked for.                      *)
UndrainedQueue(s) == queue[s] # <<>>

Undrained(s) == processing[s] \/ queue[s] # <<>>

DrainTest(t, s, polls) ==
  IF ~Undrained(s)
  THEN /\ draining' = [draining EXCEPT ![s] = 2]
       /\ stack' = [stack EXCEPT ![t] = <<>>]
  ELSE /\ draining' = [draining EXCEPT ![s] = 1]
       /\ stack' = [stack EXCEPT ![t] =
            IF polls > program.maxPolls THEN <<>>
            ELSE <<Frame("drain", "none", s, None, polls, FALSE)>>]

Drain(t, s) ==
  /\ MayUse(t, "drain", s) /\ draining[s] = 0 /\ stack[t] = <<>>
  /\ DrainTest(t, s, 0)
  /\ UNCHANGED <<program, queueVars, eventVars, frozen, processing, storeVars,
                 loopVars, tasks, delivered>>

DrainPoll(t) ==
  /\ LockFree /\ At(t, "drain")
  /\ DrainTest(t, Top(t).stone, Top(t).item + 1)
  /\ UNCHANGED <<program, queueVars, eventVars, frozen, processing, storeVars,
                 loopVars, envVars>>
-----------------------------------------------------------------------------
(* The specification.                                                       *)

AppCall(t) ==
  \/ \E s \in AllStones, k \in SubmitKinds : Submit(t, s, k)
  \/ \E s \in AllStones :
       \/ Freeze(t, s) \/ Unfreeze(t, s) \/ Drain(t, s)
       \/ ClearStored(t, s) \/ SendStored(t, s)
       \/ StoreStartSend(t, s) \/ SetStoreLimit(t, s, 0)
       \/ \E u \in AllStones : TransferEvents(t, s, u)

(* Steps of code that is under way.                                         *)
Run(t) ==
  \/ LoopActive(t) \/ LoopScan(t) \/ LoopEnd(t)
  \/ PendingOutput(t) \/ ItemsEnd(t) \/ ItemGone(t)
  \/ HandlerStart(t) \/ HandlerReturn(t)
  \/ SplitStart(t) \/ SplitOutput(t) \/ StoreEvent(t) \/ StoreOverflow(t)
  \/ SubmitReturn(t) \/ TaskReturn(t)
  \/ SendStoredNext(t) \/ SetStoreLimitNext(t) \/ DrainPoll(t)
  \/ t = Server /\ DeferredActions

Next == \/ \E t \in Threads : AppCall(t) \/ Run(t)
        \/ \E s \in AllStones : NetworkSubmit(s)

Spec == Init /\ [][Next]_vars

(* Threads are scheduled, handlers return, and the mutex is granted to      *)
(* every thread that keeps asking.                                          *)
FairSpec == Spec /\ \A t \in Threads : SF_vars(Run(t))
-----------------------------------------------------------------------------
(* Safety.                                                                  *)

Frames(t)   == {stack[t][d] : d \in DOMAIN stack[t]}
InHandler(s) == \E t \in Threads : \E f \in Frames(t) :
                  f.op = "handler" /\ f.stone = s
Crashed     == \E t \in Threads : At(t, "crashed")

(* Nobody runs or is about to run the loop.                                 *)
Quiet == tasks = 0 /\ \A t \in Threads : \A f \in Frames(t) : f.op = "drain"

(* Where the queue items are.                                               *)
InQueue(i) == \E s \in Stones : Contains(queue[s], i)
InStore(i) == \E s \in Stones : Contains(store[s], i)

(* The references to e that the code will still give back: those of queue   *)
(* items and those of the calls that threads are in.                        *)
HoldingItems(e)  == {i \in DOMAIN items : items[i] = e /\ (InQueue(i) \/ InStore(i))}
HoldingFrames(e) ==
  UNION {{<<t, d>> : d \in {n \in DOMAIN stack[t] : stack[t][n].event = e}} : t \in Threads}

Holders(e) == Cardinality(HoldingItems(e)) + Cardinality(HoldingFrames(e))

(* No event is freed while a queue, a store, a handler or a submission      *)
(* still refers to it.                                                      *)
NoEarlyFree == \A e \in Events : ref[e] >= Holders(e)

(* Without a store, an event is freed as soon as nobody refers to it.       *)
RefsGivenBack ==
  (\A s \in Stones : ~IsStore(s)) => \A e \in Events : ref[e] = Holders(e)

(* Every queue item is in one place: one queue, one store or the free list. *)
ItemsInOnePlace ==
  /\ IsInjective(freeItems)
  /\ \A s \in Stones : IsInjective(queue[s]) /\ IsInjective(store[s])
  /\ \A i \in DOMAIN items :
       /\ \A s, u \in Stones : Contains(queue[s], i) /\ Contains(queue[u], i) => s = u
       /\ \A s, u \in Stones : Contains(store[s], i) /\ Contains(store[u], i) => s = u
       /\ ~(InQueue(i) /\ InStore(i))
       /\ Contains(freeItems, i) => ~InQueue(i) /\ ~InStore(i)

(* events_in_play counts the queued events and the stores that send; the    *)
(* loop looks at no stone when it is zero.                                  *)
InPlayExact ==
  inPlay = Cardinality({i \in DOMAIN items : InQueue(i)})
             + Cardinality({s \in Stones : sending[s]})

(* Calls that leave the events where they are and the loop to others.       *)
Moderate == program.usage \subseteq {"freeze", "unfreeze", "drain"}

(* When no thread is in the loop and none is about to enter it, no event    *)
(* waits on a stone that could process it, unless it was transferred there  *)
(* (EVtransfer_events runs no loop).                                        *)
NoStrandedEvent ==
  Moderate /\ Quiet =>
    \A s \in Stones : ~frozen[s] /\ draining[s] = 0 => queue[s] = <<>>

(* Once everything is quiet, an event submitted to a split has been handled *)
(* exactly once for every time the split names a terminal that works.       *)
SplitServesAll ==
  Quiet /\ program.usage \subseteq {"freeze", "unfreeze"} =>
    \A e \in DOMAIN origin : \A u \in Stones :
    LET s == origin[e].stone
        n == Cardinality({p \in DOMAIN Outputs[s] : Outputs[s][p] = u})
    IN Action[s] = "split" /\ Action[u] = "terminal" /\ n > 0
       /\ ~frozen[s] /\ ~frozen[u] => delivered[u][e] = n

(* When the threads have left the loop all there was to do is done.         *)
QuietMeansDone == NoStrandedEvent /\ SplitServesAll

(* The step starts the handler of stone s on thread t.                      *)
StartsHandler(t, s) == Len(stack'[t]) > Len(stack[t])
                       /\ Last(stack'[t]).op = "handler" /\ Last(stack'[t]).stone = s

(* No handler of a frozen stone starts, whatever loops are under way.       *)
FrozenStartsNothing ==
  \A t \in Threads, s \in Stones : StartsHandler(t, s) => ~frozen[s]

(* When EVsubmit has returned, EVPath keeps no pointer to memory of the     *)
(* application, whatever stones and stores still refer to the event (the    *)
(* call moves it, reassign_memory_event).  Handlers of other threads that   *)
(* already run may still look at it, and EVsubmit_encoded keeps it.         *)
AppDataReleased ==
  \A e \in DOMAIN origin :
    returned[e] /\ origin[e].kind = "app" => ~(appMem[e] /\ ref[e] > 0)

(* The books of an event are right: nobody holds a freed one, none is kept  *)
(* that nobody holds, and none keeps pointing to the application's data.    *)
EventsHeld == NoEarlyFree /\ RefsGivenBack /\ AppDataReleased

(* A store never holds more than its limit when its stone is not at work    *)
(* and nobody is about to lower the limit (EVset_store_limit sends what is  *)
(* over it one by one, with the loop after each).                           *)
Limiting(s) == \E t \in Threads : \E f \in Frames(t) : f.op = "limit" /\ f.stone = s

StoreBounded ==
  LockFree => \A s \in Stones :
    maxStored[s] # -1 /\ ~Limiting(s) => Len(store[s]) <= maxStored[s]

(* The books of the queues are right.                                       *)
QueuesExact == TypeOK /\ ItemsInOnePlace /\ InPlayExact /\ StoreBounded

(* A stone EVdrain_stone reported as drained runs no handler.               *)
DrainedIsIdle == \A s \in Stones : draining[s] = 2 => ~InHandler(s)

(* A stone that was frozen or drained stays idle.                           *)
StoppedStonesIdle == [][DrainedIsIdle' /\ FrozenStartsNothing]_vars
-----------------------------------------------------------------------------
(* Liveness.                                                                *)

(* Events queued on a stone that is neither frozen nor draining get         *)
(* processed, whichever thread was to run the loop, unless two loops met at *)
(* one queue item (ItemGone).                                               *)
QueuedProcessed ==
  LET Waiting(s) == /\ Moderate /\ s \in Stones
                    /\ queue[s] # <<>> /\ ~frozen[s] /\ draining[s] = 0
  IN \A s \in AllStones : Waiting(s) ~> ~Waiting(s) \/ Crashed
=============================================================================
