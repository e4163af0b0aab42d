------------------------------ MODULE CMTasks -------------------------------
(***************************************************************************)
(* Periodic and delayed tasks of a CManager: the task list that            *)
(* cmselect.c and cmepoll.c keep and walk after each select, with the      *)
(* same code in both.  Handlers run without the CManager lock and may add  *)
(* tasks, remove tasks and enter the select loop again.                    *)
(***************************************************************************)
EXTENDS Integers, Sequences, FiniteSets, SequencesExt

CONSTANTS
  Server,     \* the thread in the network loop
  Workers,    \* application threads
  Nobody,     \* no thread, no task
  Addrs,      \* addresses of task records
  Periods,    \* periods of periodic tasks
  Delays,     \* delays of delayed tasks
  Removals,   \* tasks that may be removed: "waiting" or "own", "running"
  MaxAdds,    \* bound: tasks added in a behaviour
  MaxDepth,   \* bound: frames on the server's stack
  MaxTime     \* bound: the clock

ASSUME TaskAssumption ==
  /\ Server \notin Workers /\ Nobody \notin Addrs \cup Workers \cup {Server}
  /\ Periods \subseteq Nat \ {0} /\ Delays \subseteq Nat
  /\ MaxAdds \in Nat /\ MaxDepth \in Nat /\ MaxTime \in Nat

Threads == {Server} \cup Workers
Never   == MaxTime + 1

VARIABLES
  now,      \* gettimeofday
  list,     \* periodic_task_list, as the sequence of addresses
  task,     \* the records; `id` tells the tasks at one address apart
  handles,  \* CMTaskHandles the application still holds
  pipe,     \* bytes in the wake pipe
  stack,    \* activities of each thread, innermost first
  adds,     \* number of tasks added
  runs,     \* history: for each id its starts, and if it was removed
  fault     \* a freed record or a NULL list was read

vars == <<now, list, task, handles, pipe, stack, adds, runs, fault>>

Free == [state |-> "free", period |-> 0, next |-> 0, executing |-> Nobody, id |-> 0]
Init ==
  /\ now = 0 /\ list = <<>> /\ task = [a \in Addrs |-> Free]
  /\ handles = {} /\ pipe = 0 /\ stack = [t \in Threads |-> <<>>]
  /\ adds = 0 /\ fault = FALSE
  /\ runs = [i \in 1..MaxAdds |-> [starts |-> 0, removed |-> FALSE]]

-----------------------------------------------------------------------------
Top(t)      == IF stack[t] = <<>> THEN [pc |-> "idle"] ELSE stack[t][1]
Push(f, t, s)   == [s EXCEPT ![t] = <<f>> \o @]
Become(f, t, s) == [s EXCEPT ![t] = <<f>> \o Tail(@)]
Pop(t, s)       == [s EXCEPT ![t] = Tail(@)]
LockFree    == ~fault /\ \A t \in Threads : Top(t).pc \notin {"walk", "spin"}

(* select_consistency_number++: every socket_select under way will see it.  *)
Bumped(s) == [t \in Threads |-> [i \in DOMAIN s[t] |->
                IF s[t][i].pc \in {"select", "walk"}
                THEN [s[t][i] EXCEPT !.stale = TRUE] ELSE s[t][i]]]

(* Threads that may call: a worker, or the server within a handler.         *)
Calls(t) ==
  /\ LockFree
  /\ \/ t \in Workers /\ Top(t).pc = "idle"
     \/ Top(t).pc = "handler"

(* Fault: the server is not woken.                                          *)
NoWake == 0

Wake == 1

(* add_periodic, add_delayed_task: a delayed task has period 0.  malloc     *)
(* may give an address that was freed before.                               *)
Add(t) ==
  /\ Calls(t) /\ adds < MaxAdds
  /\ \E a \in Addrs, p \in Periods \cup {0} : \E d \in IF p = 0 THEN Delays ELSE {p} :
       /\ task[a].state = "free"
       /\ task' = [task EXCEPT ![a] =
                     [state |-> "linked", period |-> p, next |-> now + d,
                      executing |-> Nobody, id |-> adds + 1]]
       /\ list' = <<a>> \o list
       /\ handles' = handles \cup {[at |-> a, id |-> adds + 1]}
  /\ adds' = adds + 1
  /\ pipe' = pipe + Wake
  /\ UNCHANGED <<now, stack, runs, fault>>

-----------------------------------------------------------------------------
(* remove_periodic_task.                                                    *)
(* Fault: the record before the task keeps pointing to it.                  *)
UnlinkHead(a) == IF Head(list) = a THEN Tail(list) ELSE list

Unlinked(a) == RemoveFirst(list, a)

(* The task may be running: on this thread, on another one, or not at all.  *)
(* The handle of a delayed task that has run is not used: it was freed.     *)
Removable(h, t) ==
  LET r == task[h.at]
  IN  /\ r.id = h.id
      /\ r.period = 0 => runs[h.id].starts = 0
      /\ CASE r.executing = Nobody -> "waiting" \in Removals
           [] r.executing = t      -> "own" \in Removals
           [] OTHER                -> "running" \in Removals

(* The task is unlinked.  If another thread executes it the caller yields,  *)
(* with the lock, until `executing` is reset; then the record is freed.     *)
RemovePeriodic(t) ==
  /\ Calls(t)
  /\ \E h \in handles :
       /\ Removable(h, t)
       /\ handles' = handles \ {h}
       /\ runs' = [runs EXCEPT ![h.id].removed = TRUE]
       /\ list' = Unlinked(h.at)
       /\ stack' = Push([pc |-> "spin", at |-> h.at], t, stack)
  /\ UNCHANGED <<now, task, pipe, adds, fault>>

RemoveFrees(t) ==
  /\ Top(t).pc = "spin" /\ task[Top(t).at].executing \in {Nobody, t}
  /\ task' = [task EXCEPT ![Top(t).at] = Free]
  /\ stack' = Bumped(Pop(t, stack))
  /\ UNCHANGED <<now, list, handles, pipe, adds, runs, fault>>

-----------------------------------------------------------------------------
(* socket_select.  The timeout ends when the soonest task that is not       *)
(* executing is due; with none in the list there is no timeout.             *)
Idle == {i \in DOMAIN list : task[list[i]].executing = Nobody}
Deadline ==
  IF list = <<>> THEN Never
  ELSE IF Idle = {} THEN now
  ELSE LET i == CHOOSE j \in Idle : \A k \in Idle : task[list[j]].next <= task[list[k]].next
       IN  task[list[i]].next

EnterSelect ==
  /\ LockFree
  /\ Top(Server).pc \in {"idle", "handler"}
  /\ Len(stack[Server]) < MaxDepth
  /\ stack' = Push([pc |-> "select", until |-> Deadline, stale |-> FALSE], Server, stack)
  /\ UNCHANGED <<now, list, task, handles, pipe, adds, runs, fault>>

(* Fault: the read does not ask whether there is a byte.                    *)
ReadAlways == pipe - 1

(* The pipe's bytes are read one at a time, unless the number has changed.  *)
AfterRead == IF pipe > 0 THEN pipe - 1 ELSE 0

SelectReturns ==
  LET f == Top(Server)
  IN  /\ f.pc = "select" /\ LockFree
      /\ f.until <= now \/ pipe > 0
      /\ IF f.stale
         THEN stack' = Pop(Server, stack) /\ UNCHANGED pipe
         ELSE /\ pipe' = AfterRead
              /\ stack' = Become([pc |-> "walk", stale |-> FALSE,
                                  at |-> IF list = <<>> THEN Nobody ELSE list[1]],
                                 Server, stack)
      /\ UNCHANGED <<now, list, task, handles, adds, runs, fault>>

Due(a) == now > task[a].next

(* increment_time, and once more from now if the task has fallen behind.    *)
NextTime(a) == LET n == task[a].next + task[a].period
               IN  IF n > now THEN n ELSE now + task[a].period

Successor(a) == LET i == CHOOSE j \in DOMAIN list : list[j] = a
                IN  IF i = Len(list) THEN Nobody ELSE list[i + 1]

(* Fault: a task is started whoever executes it.                            *)
StartsAlways(a) == Due(a)

Starts(a) == Due(a) /\ task[a].executing = Nobody

(* One task of the walk that is not started.                                *)
PassTask ==
  LET f == Top(Server)
  IN  /\ f.pc = "walk" /\ f.at # Nobody /\ ~fault
      /\ ~Starts(f.at)
      /\ task' = IF Due(f.at) THEN [task EXCEPT ![f.at].next = NextTime(f.at)] ELSE task
      /\ stack' = IF f.stale THEN Pop(Server, stack)
                  ELSE Become([f EXCEPT !.at = Successor(f.at)], Server, stack)
      /\ UNCHANGED <<now, list, handles, pipe, adds, runs, fault>>

StartTask ==
  LET f == Top(Server)
      r == task[f.at]
  IN  /\ f.pc = "walk" /\ f.at # Nobody /\ ~fault
      /\ Starts(f.at)
      /\ task' = [task EXCEPT ![f.at].next = NextTime(f.at), ![f.at].executing = Server]
      /\ runs' = [runs EXCEPT ![r.id].starts = @ + 1]
      /\ stack' = Push([pc |-> "handler", id |-> r.id], Server, stack)
      /\ UNCHANGED <<now, list, handles, pipe, adds, fault>>

(* The handler returns: the record is read again, and a delayed task        *)
(* removed.  The walk goes on unless the consistency number has changed.    *)
HandlerReturn ==
  /\ Top(Server).pc = "handler" /\ LockFree
  /\ LET id    == Top(Server).id
         below == Pop(Server, stack)
         a     == below[Server][1].at
     IN  IF task[a].id # id
         THEN /\ fault' = TRUE
              /\ UNCHANGED <<list, task, stack>>
         ELSE IF task[a].period = 0
         THEN /\ list' = Unlinked(a)
              /\ task' = [task EXCEPT ![a] = Free]
              /\ stack' = Bumped(Pop(Server, below))
              /\ UNCHANGED fault
         ELSE /\ task' = [task EXCEPT ![a].executing = Nobody]
              /\ stack' = IF below[Server][1].stale THEN Pop(Server, below)
                          ELSE Become([below[Server][1] EXCEPT !.at = Successor(a)],
                                      Server, below)
              /\ UNCHANGED <<list, fault>>
  /\ UNCHANGED <<now, handles, pipe, adds, runs>>

WalkEnds ==
  /\ Top(Server).pc = "walk" /\ Top(Server).at = Nobody
  /\ stack' = Bumped(Pop(Server, stack))
  /\ UNCHANGED <<now, list, task, handles, pipe, adds, runs, fault>>

Tick ==
  /\ now < MaxTime
  /\ now' = now + 1
  /\ UNCHANGED <<list, task, handles, pipe, stack, adds, runs, fault>>

-----------------------------------------------------------------------------
(* EnterSelect from a handler, Add and Remove are the application's choice. *)
ServerStep ==
  \/ EnterSelect /\ stack[Server] = <<>>
  \/ SelectReturns \/ PassTask \/ StartTask \/ HandlerReturn \/ WalkEnds

Next ==
  \/ ServerStep \/ EnterSelect \/ Tick
  \/ \E t \in Threads : Add(t) \/ RemovePeriodic(t) \/ RemoveFrees(t)

Spec == Init /\ [][Next]_vars
FairSpec == Spec /\ SF_vars(ServerStep) /\ WF_vars(Tick)
                 /\ \A t \in Threads : WF_vars(RemoveFrees(t))

-----------------------------------------------------------------------------
Task == [state : {"free", "linked"}, period : Nat, next : Nat,
         executing : Threads \cup {Nobody}, id : 0..MaxAdds]
Frame == [pc : {"select"}, until : Nat, stale : BOOLEAN]
         \cup [pc : {"walk"}, stale : BOOLEAN, at : Addrs \cup {Nobody}]
         \cup [pc : {"handler"}, id : 1..MaxAdds]
         \cup [pc : {"spin"}, at : Addrs]

TypeOK ==
  /\ now \in 0..MaxTime /\ list \in Seq(Addrs) /\ adds \in 0..MaxAdds
  /\ pipe \in Nat /\ fault \in BOOLEAN
  /\ task \in [Addrs -> Task]
  /\ handles \subseteq [at : Addrs, id : 1..MaxAdds]
  /\ stack \in [Threads -> Seq(Frame)]
  /\ runs \in [1..MaxAdds -> [starts : Nat, removed : BOOLEAN]]

(* The walk never reads a record that was freed while a handler ran, by     *)
(* removals, by nested select loops that ran the same or other delayed      *)
(* tasks, or by malloc giving its address to another task (cmselect.c:530). *)
NoFault == ~fault

(* The list holds each record that is not freed once, and no other; what    *)
(* remove_periodic_task or the end of a delayed task leaves is a list.      *)
ListIsLive ==
  /\ \A i, j \in DOMAIN list : list[i] = list[j] => i = j
  /\ ToSet(list) = {a \in Addrs : task[a].state = "linked"} \
                   {stack[t][1].at : t \in {u \in Threads : Top(u).pc = "spin"}}

(* The walk of the list and the list itself are sound.                      *)
WalkSound == TypeOK /\ NoFault /\ ListIsLive

(* A task is not started after its removal returned, a delayed task not     *)
(* more than once: also when its handler enters the select loop.            *)
NoLateStart ==
  [][\A i \in 1..MaxAdds : runs'[i].starts > runs[i].starts =>
       /\ ~runs[i].removed
       /\ \A a \in Addrs : task[a].id = i /\ task[a].period = 0 => runs[i].starts = 0]_vars

(* A delayed task is executed or removed in the end: the select call that   *)
(* was under way when it was added does not sleep over it.                  *)
DelayedRuns ==
  \A a \in Addrs, i \in 1..MaxAdds :
    (task[a].id = i /\ task[a].period = 0 /\ task[a].next < MaxTime)
      ~> (runs[i].starts > 0 \/ runs[i].removed)
=============================================================================
