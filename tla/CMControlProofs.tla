--------------------------- MODULE CMControlProofs ---------------------------
(***************************************************************************)
(* Proofs about the control list of a CManager, for every set of threads,  *)
(* connections and condition values, every bound on the nesting of waits   *)
(* and every combination of calls (Usage).                                 *)
(***************************************************************************)
EXTENDS CMControl, SequenceTheorems, FiniteSetTheorems, TLAPS

USE DEF condVars, ctlVars, connVars, netVars, selVars, thrVars
-----------------------------------------------------------------------------
(* Stacks and frames.                                                      *)

(* Pop drops the innermost frame and leaves the others where they are.      *)
LEMMA PopProperties ==
  ASSUME NEW s \in Seq(Frame)
  PROVE  /\ Pop(s) \in Seq(Frame)
         /\ Len(Pop(s)) = IF s = <<>> THEN 0 ELSE Len(s) - 1
         /\ \A i \in 1 .. Len(Pop(s)) : Pop(s)[i] = s[i]
<1>1. Len(s) \in Nat /\ \A i \in 1 .. Len(s) - 1 : s[i] \in Frame
  BY LenProperties, ElementOfSeq
<1>2. s = <<>> => Len(s) = 0
  OBVIOUS
<1>3. s # <<>> => Len(s) > 0
  BY EmptySeq
<1>4. /\ SubSeq(s, 1, Len(s) - 1) \in Seq(Frame)
      /\ Len(SubSeq(s, 1, Len(s) - 1)) =
           IF 1 <= Len(s) - 1 THEN Len(s) - 1 - 1 + 1 ELSE 0
      /\ \A i \in 1 .. Len(s) - 1 - 1 + 1 :
           SubSeq(s, 1, Len(s) - 1)[i] = s[1 + i - 1]
  BY <1>1, SubSeqProperties
<1>5. /\ Len(s) - 1 - 1 + 1 = Len(s) - 1
      /\ \A i \in 1 .. Len(s) - 1 : 1 + i - 1 = i
  BY <1>1
<1> QED BY <1>1, <1>2, <1>3, <1>4, <1>5 DEF Pop

(* The frames the actions push.                                             *)
LEMMA FrameType ==
  /\ \A k \in WaitKinds \cup {"handler", "replied"} : \A c \in Conditions :
       [kind |-> k, arg |-> c] \in Frame
  /\ \A k \in Conns : [kind |-> "closing", arg |-> k] \in Frame
  /\ [kind |-> "forever", arg |-> 0] \in Frame
BY DEF Frame

(* The innermost frame of a stack, and what its kind says of its argument.  *)
LEMMA TopProperties ==
  ASSUME TypeOK, NEW t \in Threads, stack[t] # <<>>
  PROVE  /\ Len(stack[t]) \in DOMAIN stack[t]
         /\ Top(t) \in Frame
         /\ Top(t).kind \in WaitKinds \cup {"handler", "replied"} =>
              Top(t).arg \in Conditions
         /\ Top(t).kind = "closing" => Top(t).arg \in Conns
<1>1. stack[t] \in Seq(Frame)
  BY DEF TypeOK
<1>2. Len(stack[t]) \in DOMAIN stack[t] /\ Top(t) \in Frame
  BY <1>1, EmptySeq, LenProperties, ElementOfSeq DEF Top
<1> QED BY <1>2 DEF Frame, WaitKinds
-----------------------------------------------------------------------------
(* The type invariant.                                                     *)

PCs == LockedPCs \cup FreePCs

LEMMA InitType == Init => TypeOK
<1> SUFFICES ASSUME Init PROVE TypeOK
  OBVIOUS
<1>1. conds \in [Conditions -> CondRecord]
  BY DEF Init, Unused, CondRecord
<1>2. stack \in [Threads -> Seq(Frame)]
  BY FrameType DEF Init
<1>3. pc \in [Threads -> LockedPCs \cup FreePCs]
  BY DEF Init, FreePCs
<1>4. nextNum \in 1 .. (MaxConditions + 1) /\ net \in Seq(Conditions \cup Conns)
  BY ControlAssumption DEF Init, FirstNum
<1>5. /\ hasThread \in BOOLEAN
      /\ serverThread \in Threads \cup {NoThread}
      /\ serverHandle \in {CommThread, NoThread}
  BY ControlAssumption DEF Init, Threads
<1> QED BY <1>1, <1>2, <1>3, <1>4, <1>5 DEF Init, TypeOK

(* The updates of a condition value.                                        *)
LEMMA CondType ==
  ASSUME TypeOK
  PROVE  /\ \A c : [conds EXCEPT ![c].waiting = TRUE] \in [Conditions -> CondRecord]
         /\ \A c : [conds EXCEPT ![c].signaled = TRUE] \in [Conditions -> CondRecord]
         /\ \A c : [conds EXCEPT ![c].failed = TRUE] \in [Conditions -> CondRecord]
         /\ \A c : Finish(c) \in [Conditions -> CondRecord]
         /\ \A S : [c \in Conditions |-> [conds[c] EXCEPT !.failed = @ \/ c \in S]]
                     \in [Conditions -> CondRecord]
<1> conds \in [Conditions -> CondRecord]
  BY DEF TypeOK
<1>1. ASSUME NEW r \in CondRecord
      PROVE  /\ [r EXCEPT !.waiting = TRUE] \in CondRecord
             /\ [r EXCEPT !.signaled = TRUE] \in CondRecord
             /\ \A b \in BOOLEAN : [r EXCEPT !.failed = b] \in CondRecord
             /\ \A v \in {"signaled", "failed"} :
                  [r EXCEPT !.state = "freed", !.result = v] \in CondRecord
  BY DEF CondRecord
<1>2. ASSUME NEW c
      PROVE  /\ [conds EXCEPT ![c].waiting = TRUE] \in [Conditions -> CondRecord]
             /\ [conds EXCEPT ![c].signaled = TRUE] \in [Conditions -> CondRecord]
             /\ [conds EXCEPT ![c].failed = TRUE] \in [Conditions -> CondRecord]
  BY <1>1
<1>3. ASSUME NEW c PROVE Finish(c) \in [Conditions -> CondRecord]
  <2>1. CASE c \in Conditions
    <3>1. [conds[c] EXCEPT !.state = "freed",
             !.result = IF conds[c].signaled THEN "signaled" ELSE "failed"] \in CondRecord
      BY <1>1, <2>1
    <3> QED BY <3>1 DEF Finish
  <2>2. CASE c \notin Conditions
    BY <2>2 DEF Finish
  <2> QED BY <2>1, <2>2
<1>4. ASSUME NEW S
      PROVE  [c \in Conditions |-> [conds[c] EXCEPT !.failed = @ \/ c \in S]]
               \in [Conditions -> CondRecord]
  BY DEF CondRecord
<1> QED BY <1>2, <1>3, <1>4

LEMMA TriggerType ==
  ASSUME TypeOK, NEW S
  PROVE  Trigger(S) \in [Threads -> PCs]
BY DEF TypeOK, Trigger, PCs, FreePCs

(* CMCondition_signal.                                                      *)
LEMMA SignalType ==
  ASSUME TypeOK, NEW c, SignalEffect(c)
  PROVE  /\ conds' \in [Conditions -> CondRecord] /\ pc' \in [Threads -> PCs]
         /\ abortRead' \in BOOLEAN /\ pipe' \in Nat
<1>1. conds' \in [Conditions -> CondRecord]
  <2>1. conds' = [conds EXCEPT ![c].signaled = TRUE] \/ conds' = conds
    BY DEF SignalEffect
  <2>2. [conds EXCEPT ![c].signaled = TRUE] \in [Conditions -> CondRecord]
    BY CondType
  <2>3. conds \in [Conditions -> CondRecord]
    BY DEF TypeOK
  <2> QED BY <2>1, <2>2, <2>3
<1>2. pc' \in [Threads -> PCs]
  BY TriggerType DEF SignalEffect, TypeOK, PCs
<1>3. abortRead' \in BOOLEAN
  BY Zenon DEF SignalEffect, TypeOK
<1>4. pipe' \in Nat
  BY DEF SignalEffect, WakePoller, TypeOK
<1> QED BY <1>1, <1>2, <1>3, <1>4

(* What is left of a read when the data is there: the next message, or the  *)
(* end of the dispatch.                                                     *)
ReadType ==
  /\ conds' \in [Conditions -> CondRecord]
  /\ stack' \in [Threads -> Seq(Frame)] /\ pc' \in [Threads -> PCs]
  /\ lock' \in Threads \cup {NoThread}
  /\ net' \in Seq(Conditions \cup Conns) /\ abortRead' \in BOOLEAN
  /\ cmConns' \subseteq Conns
  /\ connFailed' \in [Conns -> BOOLEAN] /\ connClosed' \in [Conns -> BOOLEAN]
  /\ pipe' \in Nat /\ stale' \in [Threads -> BOOLEAN]

LEMMA EndDispatchType ==
  ASSUME TypeOK, NEW t \in Threads, EndDispatch(t),
         stack' \in [Threads -> Seq(Frame)], abortRead' \in BOOLEAN
  PROVE  ReadType
BY DEF TypeOK, EndDispatch, Bump, ReadType, PCs, LockedPCs

LEMMA ReadResponseType ==
  ASSUME TypeOK, NEW t \in Threads, NEW s \in Seq(Frame), NEW c \in Conditions,
         ReadResponse(t, s, c), net' \in Seq(Conditions \cup Conns)
  PROVE  ReadType
<1>1. Append(s, [kind |-> "handler", arg |-> c]) \in Seq(Frame)
  BY FrameType, AppendProperties
<1>2. stack' \in [Threads -> Seq(Frame)]
  BY <1>1 DEF ReadResponse, TypeOK
<1> QED BY <1>2 DEF TypeOK, ReadResponse, ReadType, PCs, FreePCs

LEMMA ReadEofType ==
  ASSUME TypeOK, NEW t \in Threads, NEW s \in Seq(Frame), NEW k \in Conns,
         ReadEof(t, s, k), net' \in Seq(Conditions \cup Conns)
  PROVE  ReadType
<1>1. conds' \in [Conditions -> CondRecord]
  BY CondType DEF ReadEof
<1>2. connFailed' \in [Conns -> BOOLEAN] /\ pipe' \in Nat
      /\ stale' \in [Threads -> BOOLEAN]
  BY DEF TypeOK, ReadEof, Bump
<1>3. CASE k \in CloseHandled /\ ~connClosed[k]
  <2>1. Append(s, [kind |-> "closing", arg |-> k]) \in Seq(Frame)
    BY FrameType, AppendProperties
  <2>2. stack' \in [Threads -> Seq(Frame)]
    BY <1>3, <2>1 DEF ReadEof, TypeOK
  <2>3. pc' \in [Threads -> PCs]
    BY <1>3, TriggerType DEF ReadEof, PCs, FreePCs
  <2> QED BY <1>1, <1>2, <1>3, <2>2, <2>3 DEF ReadEof, ReadType, TypeOK
<1>4. CASE ~(k \in CloseHandled /\ ~connClosed[k])
  <2>1. stack' \in [Threads -> Seq(Frame)]
    BY <1>4 DEF ReadEof, TypeOK
  <2>2. pc' \in [Threads -> PCs]
    BY <1>4, TriggerType DEF ReadEof, PCs, LockedPCs
  <2> QED BY <1>1, <1>2, <1>4, <2>1, <2>2 DEF ReadEof, ReadType, TypeOK
<1> QED BY <1>3, <1>4

LEMMA ReadNextType ==
  ASSUME TypeOK, NEW t \in Threads, NEW s \in Seq(Frame), ReadNext(t, s)
  PROVE  ReadType
<1>1. CASE net = <<>>
  <2>1. stack' \in [Threads -> Seq(Frame)] /\ abortRead' \in BOOLEAN /\ EndDispatch(t)
    BY <1>1 DEF ReadNext, TypeOK
  <2> QED BY <2>1, EndDispatchType
<1>2. CASE net # <<>>
  <2>1. net' \in Seq(Conditions \cup Conns)
    <3>1. net \in Seq(Conditions \cup Conns) /\ net' = Tail(net)
      BY <1>2 DEF ReadNext, TypeOK
    <3> QED BY <1>2, <3>1, HeadTailProperties
  <2>2. CASE Head(net) \in Conditions /\ ReadResponse(t, s, Head(net))
    BY <2>1, <2>2, ReadResponseType
  <2>3. CASE Head(net) \in Conns /\ ReadEof(t, s, Head(net))
    BY <2>1, <2>3, ReadEofType
  <2>4. CASE /\ stack' = [stack EXCEPT ![t] = s]
             /\ pc' = [pc EXCEPT ![t] = "loop"] /\ lock' = t
             /\ UNCHANGED <<conds, abortRead, connVars, pipe, stale>>
    BY <2>1, <2>4 DEF TypeOK, ReadType, PCs, LockedPCs
  <2> QED BY <1>2, <2>2, <2>3, <2>4 DEF ReadNext
<1> QED BY <1>1, <1>2

(* Every step keeps the types.                                              *)
LEMMA StepType == TypeOK /\ [Next]_vars => TypeOK'
<1> SUFFICES ASSUME TypeOK, [Next]_vars PROVE TypeOK'
  OBVIOUS
<1> USE DEF PCs
<1>1. ASSUME NEW t \in Threads, NEW k \in Conns \cup {NoConn}, ConditionGet(t, k) PROVE TypeOK'
  <2>1. conds' \in [Conditions -> CondRecord]
    <3> DEFINE r == [Unused EXCEPT !.state = "live", !.owner = t, !.conn = k,
                                   !.failed = (k # NoConn) /\ connClosed[k]]
    <3>1. r \in CondRecord
      BY DEF Unused, CondRecord
    <3>2. conds' = [conds EXCEPT ![nextNum] = r]
      BY <1>1 DEF ConditionGet
    <3> HIDE DEF r
    <3> QED BY <3>1, <3>2 DEF TypeOK
  <2>2. nextNum' \in 1 .. (MaxConditions + 1)
    BY <1>1, ControlAssumption DEF ConditionGet, Conditions, TypeOK
  <2> QED BY <1>1, <2>1, <2>2 DEF ConditionGet, TypeOK
<1>2. ASSUME NEW t \in Threads, NEW c \in Conditions, AppSignal(t, c) PROVE TypeOK'
  BY <1>2, SignalType DEF AppSignal, TypeOK
<1>3. ASSUME NEW t \in Threads, NEW c \in Conditions, ConditionFail(t, c) PROVE TypeOK'
  <2>1. conds' \in [Conditions -> CondRecord] /\ pc' \in [Threads -> PCs]
    BY <1>3, CondType, TriggerType DEF ConditionFail, TypeOK
  <2>2. pipe' \in Nat
    BY <1>3 DEF ConditionFail, WakePoller, TypeOK
  <2> QED BY <1>3, <2>1, <2>2 DEF ConditionFail, TypeOK
<1>4. ASSUME NEW t \in Threads, ForkCommThread(t) PROVE TypeOK'
  <2>1. stack' \in [Threads -> Seq(Frame)]
    BY <1>4, FrameType, AppendProperties DEF ForkCommThread, Push, TypeOK
  <2> QED BY <1>4, <2>1 DEF ForkCommThread, TypeOK, FreePCs, Threads
<1>5. ASSUME NEW t \in Threads, RunNetwork(t) PROVE TypeOK'
  <2>1. stack' \in [Threads -> Seq(Frame)]
    BY <1>5, FrameType, AppendProperties DEF RunNetwork, Push, TypeOK
  <2> QED BY <1>5, <2>1 DEF RunNetwork, TypeOK, FreePCs
<1>6. ASSUME NEW t \in Threads, NEW k \in Conns, ConnectionClose(t, k) PROVE TypeOK'
  BY <1>6 DEF ConnectionClose, TypeOK
<1>7. ASSUME NEW t \in Threads, CManagerClose(t) PROVE TypeOK'
  <2>1. CASE MustJoin(t)
    <3>1. pc' \in [Threads -> PCs] /\ closed' \in BOOLEAN
      BY <1>7, <2>1 DEF CManagerClose, TypeOK, FreePCs
    <3> QED BY <1>7, <2>1, <3>1, SMTT(30) DEF CManagerClose, StopSelect, TypeOK, FreePCs
  <2>2. CASE ~MustJoin(t)
    BY <1>7, <2>2 DEF CManagerClose, TypeOK, LockedPCs
  <2> QED BY <2>1, <2>2
<1>8. ASSUME NEW t \in Threads, NEW c \in Conditions, WaitAlreadyDone(t, c) PROVE TypeOK'
  <2>1. conds' \in [Conditions -> CondRecord]
    <3>1. conds \in [Conditions -> CondRecord]
      BY DEF TypeOK
    <3>2. [conds[c] EXCEPT !.result = IF conds[c].signaled THEN "signaled"
                                      ELSE "failed"] \in CondRecord
      BY <3>1 DEF CondRecord
    <3> QED BY <1>8, <3>1, <3>2 DEF WaitAlreadyDone
  <2> QED BY <1>8, <2>1 DEF WaitAlreadyDone, TypeOK
<1>9. ASSUME NEW t \in Threads, NEW c \in Conditions, WaitPolling(t, c) PROVE TypeOK'
  <2>1. conds' \in [Conditions -> CondRecord]
    BY <1>9, CondType DEF WaitPolling
  <2>2. stack' \in [Threads -> Seq(Frame)]
    BY <1>9, FrameType, AppendProperties DEF WaitPolling, Push, WaitKinds, TypeOK
  <2> QED BY <1>9, <2>1, <2>2 DEF WaitPolling, TypeOK, LockedPCs
<1>10. ASSUME NEW t \in Threads, NEW c \in Conditions, WaitBlocking(t, c) PROVE TypeOK'
  <2>1. conds' \in [Conditions -> CondRecord]
    BY <1>10, CondType DEF WaitBlocking
  <2>2. stack' \in [Threads -> Seq(Frame)]
    BY <1>10, FrameType, AppendProperties DEF WaitBlocking, Push, WaitKinds, TypeOK
  <2> QED BY <1>10, <2>1, <2>2 DEF WaitBlocking, TypeOK, FreePCs
<1>11. ASSUME NEW t \in Threads, SpuriousWakeup(t) PROVE TypeOK'
  BY <1>11 DEF SpuriousWakeup, TypeOK, FreePCs
<1>12. ASSUME NEW t \in Threads, ReturnFromBlocking(t) PROVE TypeOK'
  <2>1. conds' \in [Conditions -> CondRecord]
    BY <1>12, CondType DEF ReturnFromBlocking
  <2>2. stack' \in [Threads -> Seq(Frame)]
    BY <1>12, PopProperties DEF ReturnFromBlocking, TypeOK
  <2> QED BY <1>12, <2>1, <2>2 DEF ReturnFromBlocking, TypeOK, FreePCs
<1>13. ASSUME NEW t \in Threads, Start(t) PROVE TypeOK'
  BY <1>13 DEF Start, TypeOK, LockedPCs
<1>14. ASSUME NEW t \in Threads, LoopSelect(t) PROVE TypeOK'
  BY <1>14 DEF LoopSelect, TypeOK, FreePCs
<1>15. ASSUME NEW t \in Threads, LoopReturn(t) PROVE TypeOK'
  <2>1. conds' \in [Conditions -> CondRecord]
    <3> DEFINE c == Top(t).arg
               f == Finish(c)
    <3>1. f \in [Conditions -> CondRecord]
      BY CondType
    <3>2. c \in Conditions
      BY <1>15, TopProperties DEF LoopReturn, OnTop, WaitKinds
    <3>3. conds' = [f EXCEPT ![c].failed = @ \/ (closed /\ Top(t).kind = "server")]
      BY <1>15 DEF LoopReturn
    <3> HIDE DEF c, f
    <3>4. [f[c] EXCEPT !.failed = @ \/ (closed /\ Top(t).kind = "server")] \in CondRecord
      BY <3>1, <3>2 DEF CondRecord
    <3> QED BY <3>1, <3>2, <3>3, <3>4
  <2>2. stack' \in [Threads -> Seq(Frame)]
    BY <1>15, PopProperties DEF LoopReturn, TypeOK
  <2>3. pc' \in [Threads -> PCs] /\ serverThread' \in Threads \cup {NoThread}
    BY <1>15 DEF LoopReturn, TypeOK, FreePCs
  <2> QED BY <1>15, <2>1, <2>2, <2>3 DEF LoopReturn, TypeOK
<1>16. ASSUME NEW t \in Threads, LoopSpin(t) PROVE TypeOK'
  BY <1>16 DEF LoopSpin, TypeOK, LockedPCs
<1>17. ASSUME NEW t \in Threads, LoopClosed(t) PROVE TypeOK'
  BY <1>17 DEF LoopClosed, TypeOK, FreePCs
<1>18. ASSUME NEW t \in Threads, SelectReturns(t) PROVE TypeOK'
  <2>1. rd' \in [Threads -> SUBSET {"wake", "net"}]
    BY <1>18 DEF SelectReturns, TypeOK
  <2> QED BY <1>18, <2>1 DEF SelectReturns, TypeOK, FreePCs
<1>19. ASSUME NEW t \in Threads, AfterSelect(t) PROVE TypeOK'
  <2>1. pc' \in [Threads -> PCs] /\ rd' \in [Threads -> SUBSET {"wake", "net"}]
    BY <1>19 DEF AfterSelect, TypeOK, LockedPCs
  <2>2. pipe' \in Nat
    BY <1>19 DEF AfterSelect, TypeOK
  <2> QED BY <1>19, <2>1, <2>2 DEF AfterSelect, TypeOK
<1>20. ASSUME NEW t \in Threads, Dispatch(t) PROVE TypeOK'
  <2>1. ReadType
    <3>1. CASE "net" \in rd[t]
      BY <1>20, <3>1, ReadNextType DEF Dispatch, TypeOK
    <3>2. CASE "net" \notin rd[t]
      BY <1>20, <3>2, EndDispatchType DEF Dispatch, TypeOK
    <3> QED BY <3>1, <3>2
  <2> QED BY <1>20, <2>1 DEF Dispatch, ReadType, TypeOK
<1>21. ASSUME NEW t \in Threads, HandlerSignal(t) PROVE TypeOK'
  <2>1. /\ conds' \in [Conditions -> CondRecord] /\ pc' \in [Threads -> PCs]
        /\ abortRead' \in BOOLEAN /\ pipe' \in Nat
    BY <1>21, SignalType DEF HandlerSignal
  <2>2. stack' \in [Threads -> Seq(Frame)]
    <3>1. stack[t] # <<>> /\ Top(t).kind = "handler"
      BY <1>21 DEF HandlerSignal, OnTop
    <3>2. [Top(t) EXCEPT !.kind = "replied"] \in Frame
      BY <3>1, TopProperties DEF Frame, WaitKinds
    <3> QED BY <1>21, <3>2, PopProperties, AppendProperties DEF HandlerSignal, TypeOK
  <2> QED BY <1>21, <2>1, <2>2 DEF HandlerSignal, TypeOK
<1>22. ASSUME NEW t \in Threads, HandlerReturn(t) PROVE TypeOK'
  <2>1. Pop(stack[t]) \in Seq(Frame)
    BY PopProperties DEF TypeOK
  <2>2. ReadType
    <3>1. CASE abortRead
      <4>1. stack' \in [Threads -> Seq(Frame)] /\ abortRead' \in BOOLEAN
        BY <1>22, <2>1, <3>1 DEF HandlerReturn, TypeOK
      <4> QED BY <1>22, <3>1, <4>1, EndDispatchType DEF HandlerReturn
    <3>2. CASE ~abortRead
      BY <1>22, <2>1, <3>2, ReadNextType DEF HandlerReturn
    <3> QED BY <3>1, <3>2
  <2> QED BY <1>22, <2>2 DEF HandlerReturn, ReadType, TypeOK
<1>23. ASSUME NEW t \in Threads, CloseHandlerReturn(t) PROVE TypeOK'
  <2>1. stack' \in [Threads -> Seq(Frame)]
    BY <1>23, PopProperties DEF CloseHandlerReturn, TypeOK
  <2> QED BY <1>23, <2>1 DEF CloseHandlerReturn, TypeOK, LockedPCs
<1>24. ASSUME NEW t \in Threads, Join(t) PROVE TypeOK'
  <2>1. /\ pc' \in [Threads -> PCs] /\ hasThread' \in BOOLEAN
        /\ serverHandle' \in {CommThread, NoThread} /\ lock' \in Threads \cup {NoThread}
    BY <1>24 DEF Join, TypeOK, FreePCs, LockedPCs
  <2> QED BY <1>24, <2>1 DEF Join, TypeOK
<1>25. ASSUME NEW t \in Threads, CloseConns(t) PROVE TypeOK'
  <2>1. CASE \E k \in cmConns : connFailed[k]
    BY <1>25, <2>1 DEF CloseConns, TypeOK, LockedPCs
  <2>2. CASE ~\E k \in cmConns : connFailed[k]
    <3> DEFINE hit == UNION {Dependents(k) : k \in cmConns}
    <3>1. conds' \in [Conditions -> CondRecord]
      <4>1. conds' = [c \in Conditions |-> [conds[c] EXCEPT !.failed = @ \/ c \in hit]]
        BY <1>25, <2>2 DEF CloseConns
      <4> HIDE DEF hit
      <4> QED BY <4>1, CondType
    <3>2. pc' \in [Threads -> PCs]
      BY <1>25, <2>2, TriggerType DEF CloseConns, AfterClose, FreePCs
    <3>3. pipe' \in Nat
      <4>1. Cardinality(cmConns) \in Nat
        BY ControlAssumption, FS_Subset, FS_CardinalityType DEF TypeOK
      <4>2. pipe' = pipe + Cardinality(cmConns) * (IF condPolling THEN 2 ELSE 1)
        BY <1>25, <2>2 DEF CloseConns
      <4> QED BY <4>1, <4>2 DEF TypeOK
    <3> QED BY <1>25, <2>2, <3>1, <3>2, <3>3 DEF CloseConns, Bump, TypeOK
  <2> QED BY <2>1, <2>2
<1>26. ASSUME Network PROVE TypeOK'
  <2>1. ASSUME NEW x \in Conditions \cup Conns, net' = Append(net, x)
        PROVE  net' \in Seq(Conditions \cup Conns)
    BY <2>1, AppendProperties DEF TypeOK
  <2>2. ASSUME NEW c \in Conditions, ResponseArrives(c) PROVE TypeOK'
    BY <2>1, <2>2 DEF ResponseArrives, TypeOK
  <2>3. ASSUME NEW k \in Conns, EofArrives(k) PROVE TypeOK'
    BY <2>1, <2>3 DEF EofArrives, TypeOK
  <2> QED BY <1>26, <2>2, <2>3 DEF Network
<1>27. ASSUME UNCHANGED vars PROVE TypeOK'
  BY <1>27 DEF vars, TypeOK
<1> QED
  BY <1>1, <1>2, <1>3, <1>4, <1>5, <1>6, <1>7, <1>8, <1>9, <1>10,
     <1>11, <1>12, <1>13, <1>14, <1>15, <1>16, <1>17, <1>18, <1>19,
     <1>20, <1>21, <1>22, <1>23, <1>24, <1>25, <1>26, <1>27
  DEF Next, AppCall, AppWait, Run

(* Every reachable state is well typed.                                     *)
THEOREM TypeCorrect == Spec => []TypeOK
BY InitType, StepType, PTL DEF Spec
-----------------------------------------------------------------------------
(* Waits and the conditions they are for.                                   *)

(* A thread in the pthread condition wait of CMCondition_wait has that wait *)
(* as its innermost activity.                                               *)
BlockedOnTop ==
  \A t \in Threads : pc[t] \in {"blocked", "resumed"} => OnTop(t, {"blocked"})

(* Condition numbers not yet handed out belong to no condition.             *)
FreshUnused ==
  \A c \in Conditions : c >= nextNum => conds[c].state = "unused"

(* The inductive invariant: with it a trigger finds every thread that waits *)
(* for the condition, and the return of a wait frees a condition that no    *)
(* other wait is for.                                                       *)
WaitInv == BlockedOnTop /\ FreshUnused /\ WaitedConditionLive /\ NoLostTrigger

(* What most steps have in common: no wait begins or changes its place, the *)
(* conditions of S and no others may become done, and the threads blocked   *)
(* on them do not stay so.                                                  *)
WaitsKept ==
  \A u \in Threads : \A i \in DOMAIN stack'[u] :
    stack'[u][i].kind \in WaitKinds =>
      i \in DOMAIN stack[u] /\ stack'[u][i] = stack[u][i]

OnlyDone(S) ==
  \A c \in Conditions : /\ conds'[c].state = conds[c].state
                        /\ conds'[c].waiting = conds[c].waiting
                        /\ Done(c)' => Done(c) \/ c \in S

BlockedKept(S) ==
  \A u \in Threads : pc'[u] \in {"blocked", "resumed"} =>
    /\ pc[u] \in {"blocked", "resumed"} /\ stack'[u] = stack[u]
    /\ pc'[u] = "blocked" => pc[u] = "blocked" /\ Top(u).arg \notin S

(* A wait frame names a condition, also when it is on top of its stack.     *)
LEMMA WaitFrame ==
  ASSUME TypeOK, NEW u \in Threads, NEW i \in DOMAIN stack[u],
         stack[u][i].kind \in WaitKinds
  PROVE  stack[u][i].arg \in Conditions
<1>1. stack[u] \in Seq(Frame)
  BY DEF TypeOK
<1>2. stack[u][i] \in Frame
  BY <1>1, LenProperties, ElementOfSeq
<1> QED BY <1>2 DEF Frame, WaitKinds

LEMMA BlockedFrame ==
  ASSUME TypeOK, BlockedOnTop, NEW u \in Threads, pc[u] \in {"blocked", "resumed"}
  PROVE  /\ stack[u] # <<>> /\ Top(u).kind = "blocked" /\ Top(u).arg \in Conditions
         /\ Len(stack[u]) \in DOMAIN stack[u]
BY TopProperties DEF BlockedOnTop, OnTop, WaitKinds

LEMMA WaitStep ==
  ASSUME TypeOK, WaitInv, NEW S, nextNum' = nextNum,
         WaitsKept, OnlyDone(S), BlockedKept(S)
  PROVE  WaitInv'
<1>1. BlockedOnTop'
  BY DEF WaitInv, BlockedOnTop, BlockedKept, OnTop, Top
<1>2. FreshUnused'
  BY DEF WaitInv, FreshUnused, OnlyDone
<1>3. WaitedConditionLive'
  <2> SUFFICES ASSUME NEW t \in Threads, NEW i \in DOMAIN stack'[t],
                      stack'[t][i].kind \in WaitKinds
               PROVE  /\ conds'[stack'[t][i].arg].state = "live"
                      /\ conds'[stack'[t][i].arg].waiting
                      /\ \A u \in Threads : \A j \in DOMAIN stack'[u] :
                           stack'[u][j].kind \in WaitKinds
                           /\ stack'[u][j].arg = stack'[t][i].arg => u = t /\ j = i
    BY DEF WaitedConditionLive, Live
  <2>1. /\ i \in DOMAIN stack[t] /\ stack'[t][i] = stack[t][i]
        /\ stack[t][i].arg \in Conditions
    BY WaitFrame DEF WaitsKept
  <2>2. Live(stack[t][i].arg) /\ conds[stack[t][i].arg].waiting
    BY <2>1 DEF WaitInv, WaitedConditionLive
  <2>3. /\ conds'[stack'[t][i].arg].state = "live"
        /\ conds'[stack'[t][i].arg].waiting
    BY <2>1, <2>2 DEF OnlyDone, Live
  <2>4. ASSUME NEW u \in Threads, NEW j \in DOMAIN stack'[u],
               stack'[u][j].kind \in WaitKinds, stack'[u][j].arg = stack'[t][i].arg
        PROVE  u = t /\ j = i
    BY <2>1, <2>4 DEF WaitsKept, WaitInv, WaitedConditionLive
  <2> QED BY <2>3, <2>4
<1>4. NoLostTrigger'
  <2> SUFFICES ASSUME NEW u \in Threads, pc'[u] = "blocked"
               PROVE  ~Done(Top(u).arg)'
    BY DEF NoLostTrigger
  <2>1. pc[u] = "blocked" /\ Top(u)' = Top(u) /\ Top(u).arg \notin S
    BY DEF BlockedKept, Top
  <2>2. Top(u).arg \in Conditions /\ ~Done(Top(u).arg)
    BY <2>1, BlockedFrame DEF WaitInv, NoLostTrigger
  <2> QED BY <2>1, <2>2 DEF OnlyDone, Done
<1> QED BY <1>1, <1>2, <1>3, <1>4 DEF WaitInv

(* A step that leaves the stacks alone, or changes the innermost activity   *)
(* of t to something that is not a wait.                                    *)
LEMMA StackStep ==
  ASSUME TypeOK, NEW t \in Threads, NEW s \in {stack[t], Pop(stack[t])},
         NEW f \in Frame, f.kind \notin WaitKinds,
         stack' \in {stack, [stack EXCEPT ![t] = s],
                     [stack EXCEPT ![t] = Append(s, f)]}
  PROVE  WaitsKept
<1> SUFFICES ASSUME NEW u \in Threads, NEW i \in DOMAIN stack'[u],
                    stack'[u][i].kind \in WaitKinds
             PROVE  i \in DOMAIN stack[u] /\ stack'[u][i] = stack[u][i]
  BY DEF WaitsKept
<1>1. CASE stack'[u] = stack[u]
  BY <1>1
<1>2. CASE stack'[u] # stack[u]
  <2>1. u = t /\ stack'[t] \in {s, Append(s, f)}
    BY <1>2 DEF TypeOK
  <2>2. /\ stack[t] \in Seq(Frame) /\ s \in Seq(Frame)
        /\ DOMAIN stack[t] = 1 .. Len(stack[t]) /\ Len(stack[t]) \in Nat
        /\ DOMAIN s = 1 .. Len(s) /\ Len(s) \in Nat
    BY PopProperties, LenProperties DEF TypeOK
  <2>3. \A j \in DOMAIN s : j \in DOMAIN stack[t] /\ s[j] = stack[t][j]
    BY <2>2, PopProperties, EmptySeq
  <2>4. CASE stack'[t] = s
    BY <2>1, <2>3, <2>4
  <2>5. CASE stack'[t] = Append(s, f)
    <3>1. /\ DOMAIN Append(s, f) = 1 .. Len(s) + 1
          /\ \A j \in 1 .. Len(s) : Append(s, f)[j] = s[j]
          /\ Append(s, f)[Len(s) + 1] = f
      BY <2>2, AppendProperties, LenProperties
    <3>2. i \in 1 .. Len(s)
      BY <2>1, <2>2, <2>5, <3>1
    <3> QED BY <2>1, <2>2, <2>3, <2>5, <3>1, <3>2
  <2> QED BY <2>1, <2>4, <2>5
<1> QED BY <1>1, <1>2

(* A step of a thread that is not blocked and changes no condition.         *)
LEMMA QuietStep ==
  ASSUME TypeOK, WaitInv, NEW t \in Threads, pc[t] \notin {"blocked", "resumed"},
         UNCHANGED <<conds, nextNum>>, WaitsKept,
         \A u \in Threads \ {t} : pc'[u] = pc[u] /\ stack'[u] = stack[u],
         pc'[t] \notin {"blocked", "resumed"}
  PROVE  WaitInv'
<1>1. OnlyDone({})
  BY DEF OnlyDone, Done
<1>2. BlockedKept({})
  BY DEF BlockedKept
<1> QED BY <1>1, <1>2, WaitStep

(* CMCondition_signal triggers all the threads that wait for c.             *)
LEMMA SignalWaits ==
  ASSUME TypeOK, WaitInv, NEW c \in Conditions, SignalEffect(c),
         \A u \in Threads : pc[u] \in {"blocked", "resumed"} => stack'[u] = stack[u]
  PROVE  OnlyDone({c}) /\ BlockedKept({c})
<1>1. OnlyDone({c})
  <2>1. conds' = [conds EXCEPT ![c].signaled = TRUE] \/ conds' = conds
    BY DEF SignalEffect
  <2>2. conds \in [Conditions -> CondRecord]
    BY DEF TypeOK
  <2>3. CASE conds' = [conds EXCEPT ![c].signaled = TRUE]
    <3>1. \A d \in Conditions \ {c} : conds'[d] = conds[d]
      BY <2>2, <2>3
    <3>2. conds'[c] = [conds[c] EXCEPT !.signaled = TRUE]
      BY <2>2, <2>3
    <3>3. /\ conds'[c].state = conds[c].state
          /\ conds'[c].waiting = conds[c].waiting
      BY <2>2, <3>2 DEF CondRecord
    <3> QED BY <3>1, <3>3 DEF OnlyDone, Done
  <2> QED BY <2>1, <2>3 DEF OnlyDone, Done
<1>2. \A u \in Threads : pc'[u] \in {"blocked", "resumed"} =>
        pc[u] \in {"blocked", "resumed"}
  BY DEF SignalEffect, Trigger, TypeOK
<1>3. ASSUME NEW u \in Threads, pc'[u] = "blocked"
      PROVE  pc[u] = "blocked" /\ Top(u).arg # c
  <2>1. pc[u] = "blocked"
    BY <1>3 DEF SignalEffect, Trigger, TypeOK
  <2>2. Live(Top(u).arg) /\ conds[Top(u).arg].waiting
    BY <2>1, BlockedFrame DEF WaitInv, WaitedConditionLive, Top, WaitKinds
  <2>3. CASE Live(c) /\ conds[c].waiting
    BY <1>3, <2>1, <2>3 DEF SignalEffect, Trigger, TypeOK
  <2> QED BY <2>1, <2>2, <2>3
<1> QED BY <1>1, <1>2, <1>3 DEF BlockedKept

(* CMconn_fail_conditions: marking the conditions of S as failed.           *)
LEMMA FailedOnly ==
  ASSUME TypeOK, NEW S,
         conds' = [c \in Conditions |-> [conds[c] EXCEPT !.failed = @ \/ c \in S]]
  PROVE  OnlyDone(S)
<1> SUFFICES ASSUME NEW c \in Conditions
             PROVE  /\ conds'[c].state = conds[c].state
                    /\ conds'[c].waiting = conds[c].waiting
                    /\ Done(c)' => Done(c) \/ c \in S
  BY DEF OnlyDone
<1>1. conds[c] \in CondRecord
  BY DEF TypeOK
<1>2. conds'[c] = [conds[c] EXCEPT !.failed = @ \/ c \in S]
  OBVIOUS
<1> QED BY <1>1, <1>2 DEF CondRecord, Done

(* ... and triggering the threads that wait for them.                       *)
LEMMA TriggeredAll ==
  ASSUME TypeOK, NEW S, NEW t \in Threads, NEW x \in PCs \ {"blocked", "resumed"},
         pc[t] \notin {"blocked", "resumed"},
         pc' = [Trigger(S) EXCEPT ![t] = x],
         \A u \in Threads \ {t} : stack'[u] = stack[u]
  PROVE  BlockedKept(S)
BY DEF BlockedKept, Trigger, TypeOK

(* WaitedConditionLive after a step, spelt out.                             *)
LEMMA WaitedNext ==
  ASSUME \A u \in Threads : \A i \in DOMAIN stack'[u] :
           stack'[u][i].kind \in WaitKinds =>
             /\ conds'[stack'[u][i].arg].state = "live"
             /\ conds'[stack'[u][i].arg].waiting
             /\ \A v \in Threads : \A j \in DOMAIN stack'[v] :
                  stack'[v][j].kind \in WaitKinds
                  /\ stack'[v][j].arg = stack'[u][i].arg => v = u /\ j = i
  PROVE  WaitedConditionLive'
BY DEF WaitedConditionLive, Live

(* A new wait for condition c, which nobody waits for.                      *)
LEMMA NewWait ==
  ASSUME TypeOK, WaitInv, NEW t \in Threads, NEW c \in Conditions,
         NEW f \in Frame, f.kind \in WaitKinds, f.arg = c,
         NEW x, x = "loop" \/ (x = "blocked" /\ f.kind = "blocked"),
         Live(c), ~conds[c].waiting, ~Done(c),
         conds' = [conds EXCEPT ![c].waiting = TRUE], nextNum' = nextNum,
         stack' = [stack EXCEPT ![t] = Append(stack[t], f)],
         pc[t] = "user", pc' = [pc EXCEPT ![t] = x]
  PROVE  WaitInv'
<1>1. /\ \A d \in Conditions :
           /\ conds'[d].state = conds[d].state
           /\ Done(d)' <=> Done(d)
           /\ conds[d].waiting => conds'[d].waiting
      /\ conds'[c].waiting
  <2>1. conds \in [Conditions -> CondRecord]
    BY DEF TypeOK
  <2>2. \A d \in Conditions \ {c} : conds'[d] = conds[d]
    BY <2>1
  <2>3. conds'[c] = [conds[c] EXCEPT !.waiting = TRUE]
    BY <2>1
  <2>4. /\ conds'[c].state = conds[c].state /\ conds'[c].waiting
        /\ conds'[c].signaled = conds[c].signaled /\ conds'[c].failed = conds[c].failed
    BY <2>1, <2>3 DEF CondRecord
  <2> QED BY <2>2, <2>4 DEF Done
<1>2. /\ stack[t] \in Seq(Frame) /\ Len(stack[t]) \in Nat
      /\ DOMAIN stack[t] = 1 .. Len(stack[t])
      /\ Len(stack'[t]) = Len(stack[t]) + 1 /\ stack'[t] # <<>>
      /\ DOMAIN stack'[t] = 1 .. Len(stack[t]) + 1
      /\ \A i \in 1 .. Len(stack[t]) : stack'[t][i] = stack[t][i]
      /\ stack'[t][Len(stack[t]) + 1] = f
  <2>1. stack \in [Threads -> Seq(Frame)]
    BY DEF TypeOK
  <2>2. stack[t] \in Seq(Frame) /\ stack'[t] = Append(stack[t], f)
    BY <2>1
  <2>3. /\ Len(stack[t]) \in Nat
        /\ DOMAIN stack[t] = 1 .. Len(stack[t])
    BY <2>2, LenProperties
  <2>4. /\ Len(stack'[t]) = Len(stack[t]) + 1 /\ stack'[t] # <<>>
        /\ DOMAIN stack'[t] = 1 .. Len(stack[t]) + 1
        /\ \A i \in 1 .. Len(stack[t]) : stack'[t][i] = stack[t][i]
        /\ stack'[t][Len(stack[t]) + 1] = f
    BY <2>2, <2>3, AppendProperties
  <2> QED BY <2>2, <2>3, <2>4
<1>3. \A u \in Threads \ {t} : stack'[u] = stack[u] /\ pc'[u] = pc[u]
  BY DEF TypeOK
<1>4. BlockedOnTop'
  BY <1>2, <1>3 DEF WaitInv, BlockedOnTop, OnTop, Top, TypeOK
<1>5. FreshUnused'
  BY <1>1 DEF WaitInv, FreshUnused
<1>6. WaitedConditionLive'
  <2>1. ASSUME NEW u \in Threads, NEW i \in DOMAIN stack'[u],
               stack'[u][i].kind \in WaitKinds
        PROVE  \/ u = t /\ i = Len(stack[t]) + 1 /\ stack'[u][i].arg = c
               \/ /\ i \in DOMAIN stack[u] /\ stack'[u][i] = stack[u][i]
                  /\ stack[u][i].arg \in Conditions \ {c}
    <3>1. CASE u = t /\ i = Len(stack[t]) + 1
      BY <1>2, <3>1
    <3>2. CASE ~(u = t /\ i = Len(stack[t]) + 1)
      <4>1. i \in DOMAIN stack[u] /\ stack'[u][i] = stack[u][i]
        BY <1>2, <1>3, <2>1, <3>2
      <4>2. stack[u][i].arg \in Conditions /\ conds[stack[u][i].arg].waiting
        BY <2>1, <4>1, WaitFrame DEF WaitInv, WaitedConditionLive
      <4> QED BY <4>1, <4>2
    <3> QED BY <3>1, <3>2
  <2> SUFFICES ASSUME NEW u \in Threads, NEW i \in DOMAIN stack'[u],
                      stack'[u][i].kind \in WaitKinds
               PROVE  /\ conds'[stack'[u][i].arg].state = "live"
                      /\ conds'[stack'[u][i].arg].waiting
                      /\ \A v \in Threads : \A j \in DOMAIN stack'[v] :
                           stack'[v][j].kind \in WaitKinds
                           /\ stack'[v][j].arg = stack'[u][i].arg => v = u /\ j = i
    BY WaitedNext
  <2>2. CASE u = t /\ i = Len(stack[t]) + 1
    BY <1>1, <1>2, <2>1, <2>2 DEF Live
  <2>3. CASE ~(u = t /\ i = Len(stack[t]) + 1)
    <3>1. /\ i \in DOMAIN stack[u] /\ stack'[u][i] = stack[u][i]
          /\ stack[u][i].arg \in Conditions \ {c}
      BY <2>1, <2>3
    <3>2. Live(stack[u][i].arg) /\ conds[stack[u][i].arg].waiting
      BY <3>1 DEF WaitInv, WaitedConditionLive
    <3>3. /\ conds'[stack'[u][i].arg].state = "live"
          /\ conds'[stack'[u][i].arg].waiting
      BY <1>1, <3>1, <3>2 DEF Live
    <3>4. ASSUME NEW v \in Threads, NEW j \in DOMAIN stack'[v],
                 stack'[v][j].kind \in WaitKinds, stack'[v][j].arg = stack'[u][i].arg
          PROVE  v = u /\ j = i
      BY <2>1, <3>1, <3>4 DEF WaitInv, WaitedConditionLive
    <3> QED BY <3>3, <3>4
  <2> QED BY <2>2, <2>3
<1>7. NoLostTrigger'
  <2> SUFFICES ASSUME NEW u \in Threads, pc'[u] = "blocked" PROVE ~Done(Top(u).arg)'
    BY DEF NoLostTrigger
  <2>1. CASE u = t
    <3>1. Top(u)'.arg = c
      BY <1>2, <2>1 DEF Top
    <3> QED BY <1>1, <3>1 DEF Done
  <2>2. CASE u # t
    <3>1. pc[u] = "blocked" /\ Top(u)' = Top(u)
      BY <1>3, <2>2 DEF Top
    <3>2. Top(u).arg \in Conditions /\ ~Done(Top(u).arg)
      BY <3>1, BlockedFrame DEF WaitInv, NoLostTrigger
    <3> QED BY <1>1, <3>1, <3>2 DEF Done
  <2> QED BY <2>1, <2>2
<1> QED BY <1>4, <1>5, <1>6, <1>7 DEF WaitInv

(* The wait on top of the stack of t returns, and its condition is freed.   *)
LEMMA WaitReturn ==
  ASSUME TypeOK, WaitInv, NEW t \in Threads, NEW c \in Conditions,
         stack[t] # <<>>, Top(t).kind \in WaitKinds, Top(t).arg = c,
         nextNum' = nextNum, conds'[c].state = "freed",
         \A d \in Conditions \ {c} : conds'[d] = conds[d],
         stack' = [stack EXCEPT ![t] = Pop(@)], pc' = [pc EXCEPT ![t] = "user"]
  PROVE  WaitInv'
<1>1. /\ stack[t] \in Seq(Frame) /\ Len(stack[t]) \in Nat \ {0}
      /\ DOMAIN stack[t] = 1 .. Len(stack[t]) /\ stack'[t] = Pop(stack[t])
      /\ DOMAIN stack'[t] = 1 .. Len(stack[t]) - 1
      /\ \A i \in 1 .. Len(stack[t]) - 1 : stack'[t][i] = stack[t][i]
  <2>1. stack[t] \in Seq(Frame) /\ stack'[t] = Pop(stack[t])
    BY DEF TypeOK
  <2>2. Len(stack[t]) \in Nat \ {0} /\ DOMAIN stack[t] = 1 .. Len(stack[t])
    BY <2>1, EmptySeq, LenProperties
  <2>3. /\ Pop(stack[t]) \in Seq(Frame) /\ Len(Pop(stack[t])) = Len(stack[t]) - 1
        /\ \A i \in 1 .. Len(stack[t]) - 1 : Pop(stack[t])[i] = stack[t][i]
    BY <2>1, PopProperties
  <2>4. DOMAIN Pop(stack[t]) = 1 .. Len(stack[t]) - 1
    BY <2>3, LenProperties
  <2> QED BY <2>1, <2>2, <2>3, <2>4
<1>2. \A u \in Threads \ {t} : stack'[u] = stack[u] /\ pc'[u] = pc[u]
  BY DEF TypeOK
<1>3. \A u \in Threads : \A i \in DOMAIN stack'[u] :
        i \in DOMAIN stack[u] /\ stack'[u][i] = stack[u][i]
        /\ ~(u = t /\ i = Len(stack[t]))
  BY <1>1, <1>2
<1>4. ASSUME NEW u \in Threads, NEW i \in DOMAIN stack[u],
             stack[u][i].kind \in WaitKinds, ~(u = t /\ i = Len(stack[t]))
      PROVE  stack[u][i].arg \in Conditions \ {c}
  <2>1. Len(stack[t]) \in DOMAIN stack[t] /\ stack[t][Len(stack[t])] = Top(t)
    BY <1>1 DEF Top
  <2>2. stack[u][i].arg # c
    BY <1>4, <2>1 DEF WaitInv, WaitedConditionLive
  <2> QED BY <1>4, <2>2, WaitFrame
<1>5. BlockedOnTop'
  BY <1>2 DEF WaitInv, BlockedOnTop, OnTop, Top, TypeOK
<1>6. FreshUnused'
  <2>1. Live(c)
    BY <1>1 DEF WaitInv, WaitedConditionLive, Top
  <2>2. ~(c >= nextNum)
    BY <2>1 DEF WaitInv, FreshUnused, Live
  <2> QED BY <2>2 DEF WaitInv, FreshUnused
<1>7. WaitedConditionLive'
  <2> SUFFICES ASSUME NEW u \in Threads, NEW i \in DOMAIN stack'[u],
                      stack'[u][i].kind \in WaitKinds
               PROVE  /\ conds'[stack'[u][i].arg].state = "live"
                      /\ conds'[stack'[u][i].arg].waiting
                      /\ \A v \in Threads : \A j \in DOMAIN stack'[v] :
                           stack'[v][j].kind \in WaitKinds
                           /\ stack'[v][j].arg = stack'[u][i].arg => v = u /\ j = i
    BY DEF WaitedConditionLive, Live
  <2>1. /\ i \in DOMAIN stack[u] /\ stack'[u][i] = stack[u][i]
        /\ stack[u][i].arg \in Conditions \ {c}
    BY <1>3, <1>4
  <2>2. /\ conds'[stack'[u][i].arg].state = "live"
        /\ conds'[stack'[u][i].arg].waiting
    BY <2>1 DEF WaitInv, WaitedConditionLive, Live
  <2>3. ASSUME NEW v \in Threads, NEW j \in DOMAIN stack'[v],
               stack'[v][j].kind \in WaitKinds, stack'[v][j].arg = stack'[u][i].arg
        PROVE  v = u /\ j = i
    BY <1>3, <2>1, <2>3 DEF WaitInv, WaitedConditionLive
  <2> QED BY <2>2, <2>3
<1>8. NoLostTrigger'
  <2> SUFFICES ASSUME NEW u \in Threads, pc'[u] = "blocked" PROVE ~Done(Top(u).arg)'
    BY DEF NoLostTrigger
  <2>1. u # t /\ pc[u] = "blocked" /\ Top(u)' = Top(u)
    BY <1>2 DEF Top, TypeOK
  <2>2. Top(u).arg \in Conditions \ {c} /\ ~Done(Top(u).arg)
    BY <1>4, <2>1, BlockedFrame DEF WaitInv, NoLostTrigger, Top, WaitKinds
  <2> QED BY <2>1, <2>2 DEF Done
<1> QED BY <1>5, <1>6, <1>7, <1>8 DEF WaitInv

LEMMA FinishFrees ==
  ASSUME TypeOK, NEW c \in Conditions
  PROVE  /\ Finish(c)[c].state = "freed" /\ DOMAIN Finish(c) = Conditions
         /\ \A d \in Conditions \ {c} : Finish(c)[d] = conds[d]
<1>1. conds \in [Conditions -> CondRecord]
  BY DEF TypeOK
<1>2. Finish(c)[c] = [conds[c] EXCEPT !.state = "freed",
                        !.result = IF conds[c].signaled THEN "signaled" ELSE "failed"]
  BY <1>1 DEF Finish
<1> QED BY <1>1, <1>2 DEF Finish, CondRecord

(* The steps of CMDataAvailable, on top of s.                               *)
LEMMA ReadWaits ==
  ASSUME TypeOK, WaitInv, NEW t \in Threads, pc[t] \notin {"blocked", "resumed"},
         nextNum' = nextNum, NEW s \in {stack[t], Pop(stack[t])},
         \/ ReadNext(t, s)
         \/ EndDispatch(t) /\ stack' = [stack EXCEPT ![t] = s]
  PROVE  WaitInv'
<1> stack[t] \in Seq(Frame) /\ s \in Seq(Frame)
  BY PopProperties DEF TypeOK
<1>1. ASSUME stack' = [stack EXCEPT ![t] = s], conds' = conds,
             pc' = [pc EXCEPT ![t] = "loop"]
      PROVE  WaitInv'
  <2>1. WaitsKept
    BY <1>1, StackStep, FrameType DEF WaitKinds
  <2> QED BY <1>1, <2>1, QuietStep DEF TypeOK
<1>2. CASE EndDispatch(t) /\ stack' = [stack EXCEPT ![t] = s]
  BY <1>1, <1>2 DEF EndDispatch
<1>3. ASSUME NEW c \in Conditions, ReadResponse(t, s, c) PROVE WaitInv'
  <2>1. WaitsKept
    <3> DEFINE f == [kind |-> "handler", arg |-> c]
    <3>1. f \in Frame /\ f.kind \notin WaitKinds
      BY FrameType DEF WaitKinds
    <3>2. stack' = [stack EXCEPT ![t] = Append(s, f)]
      BY <1>3 DEF ReadResponse
    <3> HIDE DEF f
    <3> QED BY <3>1, <3>2, StackStep
  <2> QED BY <1>3, <2>1, QuietStep DEF ReadResponse, TypeOK
<1>4. ASSUME NEW k \in Conns, ReadEof(t, s, k) PROVE WaitInv'
  <2>1. /\ conds' = [c \in Conditions |->
                       [conds[c] EXCEPT !.failed = @ \/ c \in Dependents(k)]]
        /\ pc' \in {[Trigger(Dependents(k)) EXCEPT ![t] = x] : x \in {"user", "loop"}}
        /\ stack' \in {[stack EXCEPT ![t] = s],
                       [stack EXCEPT ![t] = Append(s, [kind |-> "closing", arg |-> k])]}
    BY <1>4 DEF ReadEof
  <2>2. WaitsKept
    BY <2>1, StackStep, FrameType DEF WaitKinds
  <2>3. OnlyDone(Dependents(k))
    BY <2>1, FailedOnly
  <2>4. BlockedKept(Dependents(k))
    <3>1. PICK x \in {"user", "loop"} : pc' = [Trigger(Dependents(k)) EXCEPT ![t] = x]
      BY <2>1
    <3>2. x \in PCs \ {"blocked", "resumed"}
      BY DEF PCs, LockedPCs, FreePCs
    <3>3. \A u \in Threads \ {t} : stack'[u] = stack[u]
      BY <2>1 DEF TypeOK
    <3> QED BY <3>1, <3>2, <3>3, TriggeredAll
  <2> QED BY <2>2, <2>3, <2>4, WaitStep
<1>5. ASSUME ReadNext(t, s), net = <<>> PROVE WaitInv'
  BY <1>2, <1>5 DEF ReadNext
<1>6. ASSUME ReadNext(t, s), net # <<>> PROVE WaitInv'
  BY <1>1, <1>3, <1>4, <1>6 DEF ReadNext
<1> QED BY <1>2, <1>5, <1>6

(* Every step keeps the invariant.                                          *)
LEMMA StepWaits == TypeOK /\ WaitInv /\ [Next]_vars => WaitInv'
<1> SUFFICES ASSUME TypeOK, WaitInv, [Next]_vars PROVE WaitInv'
  OBVIOUS
<1> USE DEF InUser, MayCall, LockFree
<1>1. ASSUME NEW t \in Threads, NEW k \in Conns \cup {NoConn}, ConditionGet(t, k) PROVE WaitInv'
  <2>1. /\ nextNum \in Conditions /\ ~Live(nextNum)
        /\ nextNum \in Nat /\ nextNum' = nextNum + 1
        /\ pc' = pc /\ stack' = stack
        /\ \A c \in Conditions \ {nextNum} : conds'[c] = conds[c]
    <3>1. /\ nextNum \in Conditions /\ nextNum' = nextNum + 1
          /\ pc' = pc /\ stack' = stack
      BY <1>1 DEF ConditionGet
    <3>2. nextNum \in Nat
      BY <3>1, ControlAssumption DEF Conditions
    <3>3. ~Live(nextNum)
      BY <3>1, <3>2 DEF WaitInv, FreshUnused, Live
    <3>4. \A c \in Conditions \ {nextNum} : conds'[c] = conds[c]
      BY <1>1 DEF ConditionGet, TypeOK
    <3> QED BY <3>1, <3>2, <3>3, <3>4
  <2>2. BlockedOnTop'
    BY <2>1 DEF WaitInv, BlockedOnTop, OnTop, Top
  <2>3. FreshUnused'
    BY <2>1 DEF WaitInv, FreshUnused, Conditions
  <2>4. WaitedConditionLive'
    <3>1. ASSUME NEW u \in Threads, NEW i \in DOMAIN stack[u],
                 stack[u][i].kind \in WaitKinds
          PROVE  /\ conds'[stack[u][i].arg].state = "live"
                 /\ conds'[stack[u][i].arg].waiting
      <4>1. /\ stack[u][i].arg \in Conditions
            /\ Live(stack[u][i].arg) /\ conds[stack[u][i].arg].waiting
        BY <3>1, WaitFrame DEF WaitInv, WaitedConditionLive
      <4> QED BY <2>1, <4>1 DEF Live
    <3> QED BY <2>1, <3>1 DEF WaitInv, WaitedConditionLive, Live
  <2>5. NoLostTrigger'
    <3> SUFFICES ASSUME NEW u \in Threads, pc[u] = "blocked" PROVE ~Done(Top(u).arg)'
      BY <2>1 DEF NoLostTrigger
    <3>1. Top(u).arg \in Conditions /\ Live(Top(u).arg) /\ ~Done(Top(u).arg)
      BY BlockedFrame DEF WaitInv, WaitedConditionLive, NoLostTrigger, Top, WaitKinds
    <3> QED BY <2>1, <3>1 DEF Done, Top
  <2> QED BY <2>2, <2>3, <2>4, <2>5 DEF WaitInv
<1>2. ASSUME NEW t \in Threads, NEW c \in Conditions, AppSignal(t, c) PROVE WaitInv'
  <2>1. WaitsKept
    BY <1>2 DEF AppSignal, WaitsKept
  <2> QED BY <1>2, <2>1, SignalWaits, WaitStep DEF AppSignal
<1>3. ASSUME NEW t \in Threads, NEW c \in Conditions, ConditionFail(t, c) PROVE WaitInv'
  <2>1. WaitsKept
    BY <1>3 DEF ConditionFail, WaitsKept
  <2>2. OnlyDone({c})
    <3>1. conds' = [conds EXCEPT ![c].failed = TRUE] /\ conds \in [Conditions -> CondRecord]
      BY <1>3 DEF ConditionFail, TypeOK
    <3>2. \A d \in Conditions \ {c} : conds'[d] = conds[d]
      BY <3>1
    <3>3. conds'[c] = [conds[c] EXCEPT !.failed = TRUE]
      BY <3>1
    <3>4. conds'[c].state = conds[c].state /\ conds'[c].waiting = conds[c].waiting
      BY <3>1, <3>3 DEF CondRecord
    <3> QED BY <3>2, <3>4 DEF OnlyDone, Done
  <2>3. BlockedKept({c})
    <3> SUFFICES ASSUME NEW u \in Threads, pc'[u] \in {"blocked", "resumed"}
                 PROVE  /\ pc[u] \in {"blocked", "resumed"} /\ stack'[u] = stack[u]
                        /\ pc'[u] = "blocked" => pc[u] = "blocked" /\ Top(u).arg # c
      BY DEF BlockedKept
    <3>1. /\ pc[u] \in {"blocked", "resumed"} /\ stack'[u] = stack[u]
          /\ pc'[u] = "blocked" => pc[u] = "blocked"
      BY <1>3 DEF ConditionFail, Trigger, TypeOK
    <3>2. pc[u] = "blocked" => Live(Top(u).arg) /\ conds[Top(u).arg].waiting
      BY BlockedFrame DEF WaitInv, WaitedConditionLive, Top, WaitKinds
    <3> QED BY <1>3, <3>1, <3>2 DEF ConditionFail, Trigger, TypeOK
  <2> QED BY <1>3, <2>1, <2>2, <2>3, WaitStep DEF ConditionFail
<1>4. ASSUME NEW t \in Threads, ForkCommThread(t) PROVE WaitInv'
  <2>1. CommThread \in Threads
    BY DEF Threads
  <2>2. WaitsKept
    BY <1>4, <2>1, StackStep, FrameType DEF ForkCommThread, Push, WaitKinds
  <2> QED BY <1>4, <2>1, <2>2, QuietStep DEF ForkCommThread, Push, TypeOK
<1>5. ASSUME NEW t \in Threads, RunNetwork(t) PROVE WaitInv'
  <2>1. WaitsKept
    BY <1>5, StackStep, FrameType DEF RunNetwork, Push, WaitKinds, TypeOK
  <2> QED BY <1>5, <2>1, QuietStep DEF RunNetwork, Push, TypeOK
<1>6. ASSUME NEW t \in Threads, NEW k \in Conns, ConnectionClose(t, k) PROVE WaitInv'
  <2>1. WaitsKept
    BY <1>6 DEF ConnectionClose, WaitsKept
  <2> QED BY <1>6, <2>1, QuietStep DEF ConnectionClose, TypeOK
<1>7. ASSUME NEW t \in Threads, CManagerClose(t) PROVE WaitInv'
  <2>1. WaitsKept
    BY <1>7 DEF CManagerClose, WaitsKept
  <2> QED BY <1>7, <2>1, QuietStep DEF CManagerClose, TypeOK
<1>8. ASSUME NEW t \in Threads, NEW c \in Conditions, WaitAlreadyDone(t, c) PROVE WaitInv'
  <2>1. WaitsKept /\ BlockedKept({})
    BY <1>8 DEF WaitAlreadyDone, WaitsKept, BlockedKept
  <2>2. OnlyDone({})
    <3>1. conds \in [Conditions -> CondRecord]
      BY DEF TypeOK
    <3>2. \A d \in Conditions \ {c} : conds'[d] = conds[d]
      BY <1>8, <3>1 DEF WaitAlreadyDone
    <3>3. conds'[c] = [conds[c] EXCEPT !.result = IF conds[c].signaled THEN "signaled"
                                                   ELSE "failed"]
      BY <1>8, <3>1 DEF WaitAlreadyDone
    <3>4. conds'[c].state = conds[c].state /\ conds'[c].waiting = conds[c].waiting
      BY <3>1, <3>3 DEF CondRecord
    <3> QED BY <1>8, <3>2, <3>4 DEF OnlyDone, Done, WaitAlreadyDone
  <2> QED BY <1>8, <2>1, <2>2, WaitStep DEF WaitAlreadyDone
<1>9. ASSUME NEW t \in Threads, NEW c \in Conditions, WaitPolling(t, c) PROVE WaitInv'
  <2> DEFINE f == [kind |-> IF hasThread THEN "server" ELSE "poller", arg |-> c]
  <2>1. f \in Frame /\ f.kind \in WaitKinds /\ f.arg = c
    BY FrameType DEF WaitKinds
  <2>2. /\ Live(c) /\ ~conds[c].waiting /\ ~Done(c)
        /\ conds' = [conds EXCEPT ![c].waiting = TRUE] /\ nextNum' = nextNum
        /\ stack' = [stack EXCEPT ![t] = Append(stack[t], f)]
        /\ pc[t] = "user" /\ pc' = [pc EXCEPT ![t] = "loop"]
    BY <1>9 DEF WaitPolling, MayWait, Push, TypeOK
  <2> HIDE DEF f
  <2> QED BY <2>1, <2>2, NewWait
<1>10. ASSUME NEW t \in Threads, NEW c \in Conditions, WaitBlocking(t, c) PROVE WaitInv'
  <2> DEFINE f == [kind |-> "blocked", arg |-> c]
  <2>1. f \in Frame /\ f.kind \in WaitKinds /\ f.arg = c
        /\ f.kind = "blocked"
    BY FrameType DEF WaitKinds
  <2>2. /\ Live(c) /\ ~conds[c].waiting /\ ~Done(c)
        /\ conds' = [conds EXCEPT ![c].waiting = TRUE] /\ nextNum' = nextNum
        /\ stack' = [stack EXCEPT ![t] = Append(stack[t], f)]
        /\ pc[t] = "user" /\ pc' = [pc EXCEPT ![t] = "blocked"]
    BY <1>10 DEF WaitBlocking, MayWait, Push, TypeOK
  <2> HIDE DEF f
  <2> QED BY <2>1, <2>2, NewWait
<1>11. ASSUME NEW t \in Threads, SpuriousWakeup(t) PROVE WaitInv'
  <2>1. WaitsKept /\ OnlyDone({}) /\ BlockedKept({})
    BY <1>11 DEF SpuriousWakeup, WaitsKept, OnlyDone, BlockedKept, Done, TypeOK
  <2> QED BY <1>11, <2>1, WaitStep DEF SpuriousWakeup
<1>12. ASSUME NEW t \in Threads, ReturnFromBlocking(t) PROVE WaitInv'
  <2> DEFINE c == Top(t).arg
  <2>1. stack[t] # <<>> /\ Top(t).kind = "blocked" /\ c \in Conditions
    BY <1>12, BlockedFrame DEF ReturnFromBlocking, WaitInv
  <2>2. conds'[c].state = "freed" /\ \A d \in Conditions \ {c} : conds'[d] = conds[d]
    BY <1>12, <2>1, FinishFrees DEF ReturnFromBlocking
  <2> QED BY <1>12, <2>1, <2>2, WaitReturn DEF ReturnFromBlocking, WaitKinds
<1>13. ASSUME NEW t \in Threads, Start(t) PROVE WaitInv'
  <2>1. WaitsKept
    BY <1>13 DEF Start, WaitsKept
  <2> QED BY <1>13, <2>1, QuietStep DEF Start, TypeOK
<1>14. ASSUME NEW t \in Threads, LoopSelect(t) PROVE WaitInv'
  <2>1. WaitsKept
    BY <1>14 DEF LoopSelect, WaitsKept
  <2> QED BY <1>14, <2>1, QuietStep DEF LoopSelect, TypeOK
<1>15. ASSUME NEW t \in Threads, LoopReturn(t) PROVE WaitInv'
  <2> DEFINE c == Top(t).arg
  <2>1. stack[t] # <<>> /\ Top(t).kind \in WaitKinds /\ c \in Conditions
    BY <1>15, TopProperties DEF LoopReturn, OnTop, WaitKinds
  <2>2. conds'[c].state = "freed" /\ \A d \in Conditions \ {c} : conds'[d] = conds[d]
    <3> DEFINE f == Finish(c)
    <3>1. f \in [Conditions -> CondRecord]
      BY CondType
    <3>2. f[c].state = "freed" /\ \A d \in Conditions \ {c} : f[d] = conds[d]
      BY <2>1, FinishFrees
    <3>3. conds' = [f EXCEPT ![c].failed = @ \/ (closed /\ Top(t).kind = "server")]
      BY <1>15 DEF LoopReturn
    <3> HIDE DEF f
    <3>4. conds'[c] = [f[c] EXCEPT !.failed = @ \/ (closed /\ Top(t).kind = "server")]
      BY <2>1, <3>1, <3>3
    <3>5. conds'[c].state = f[c].state
      BY <2>1, <3>1, <3>4 DEF CondRecord
    <3> QED BY <2>1, <3>1, <3>2, <3>3, <3>5
  <2> QED BY <1>15, <2>1, <2>2, WaitReturn DEF LoopReturn
<1>16. ASSUME NEW t \in Threads, LoopSpin(t) PROVE WaitInv'
  <2>1. WaitsKept
    BY <1>16 DEF LoopSpin, WaitsKept
  <2> QED BY <1>16, <2>1, QuietStep DEF LoopSpin, TypeOK
<1>17. ASSUME NEW t \in Threads, LoopClosed(t) PROVE WaitInv'
  <2>1. WaitsKept
    BY <1>17 DEF LoopClosed, WaitsKept
  <2> QED BY <1>17, <2>1, QuietStep DEF LoopClosed, TypeOK
<1>18. ASSUME NEW t \in Threads, SelectReturns(t) PROVE WaitInv'
  <2>1. WaitsKept
    BY <1>18 DEF SelectReturns, WaitsKept
  <2> QED BY <1>18, <2>1, QuietStep DEF SelectReturns, TypeOK
<1>19. ASSUME NEW t \in Threads, AfterSelect(t) PROVE WaitInv'
  <2>1. WaitsKept
    BY <1>19 DEF AfterSelect, WaitsKept
  <2> QED BY <1>19, <2>1, QuietStep DEF AfterSelect, TypeOK
<1>20. ASSUME NEW t \in Threads, Dispatch(t) PROVE WaitInv'
  <2>1. CASE "net" \in rd[t]
    BY <1>20, <2>1, ReadWaits DEF Dispatch
  <2>2. CASE "net" \notin rd[t]
    <3>1. stack' = [stack EXCEPT ![t] = stack[t]] /\ EndDispatch(t)
      BY <1>20, <2>2 DEF Dispatch, TypeOK
    <3> QED BY <1>20, <3>1, ReadWaits DEF Dispatch
  <2> QED BY <2>1, <2>2
<1>21. ASSUME NEW t \in Threads, HandlerSignal(t) PROVE WaitInv'
  <2>1. stack[t] # <<>> /\ Top(t).kind = "handler" /\ Top(t).arg \in Conditions
    BY <1>21, TopProperties DEF HandlerSignal, OnTop
  <2>2. WaitsKept
    <3>1. [Top(t) EXCEPT !.kind = "replied"] \in Frame
          /\ [Top(t) EXCEPT !.kind = "replied"].kind \notin WaitKinds
      BY <2>1, TopProperties DEF Frame, WaitKinds
    <3>2. stack' = [stack EXCEPT ![t] = Append(Pop(stack[t]),
                                               [Top(t) EXCEPT !.kind = "replied"])]
      BY <1>21 DEF HandlerSignal
    <3> QED BY <3>1, <3>2, StackStep
  <2>3. OnlyDone({Top(t).arg}) /\ BlockedKept({Top(t).arg})
    BY <1>21, <2>1, SignalWaits DEF HandlerSignal, TypeOK
  <2> QED BY <1>21, <2>2, <2>3, WaitStep DEF HandlerSignal
<1>22. ASSUME NEW t \in Threads, HandlerReturn(t) PROVE WaitInv'
  BY <1>22, ReadWaits DEF HandlerReturn
<1>23. ASSUME NEW t \in Threads, CloseHandlerReturn(t) PROVE WaitInv'
  <2>1. WaitsKept
    BY <1>23, StackStep, FrameType DEF CloseHandlerReturn, WaitKinds, TypeOK
  <2> QED BY <1>23, <2>1, QuietStep DEF CloseHandlerReturn, TypeOK
<1>24. ASSUME NEW t \in Threads, Join(t) PROVE WaitInv'
  <2>1. WaitsKept
    BY <1>24 DEF Join, WaitsKept
  <2> QED BY <1>24, <2>1, QuietStep DEF Join, TypeOK
<1>25. ASSUME NEW t \in Threads, CloseConns(t) PROVE WaitInv'
  <2>1. CASE \E k \in cmConns : connFailed[k]
    <3>1. WaitsKept
      BY <1>25 DEF CloseConns, WaitsKept
    <3> QED BY <1>25, <2>1, <3>1, QuietStep DEF CloseConns, TypeOK
  <2>2. CASE ~\E k \in cmConns : connFailed[k]
    <3> DEFINE hit == UNION {Dependents(k) : k \in cmConns}
    <3>1. /\ conds' = [c \in Conditions |-> [conds[c] EXCEPT !.failed = @ \/ c \in hit]]
          /\ pc' = [Trigger(hit) EXCEPT ![t] = AfterClose(t)]
          /\ stack' = stack /\ pc[t] = "closeconns" /\ nextNum' = nextNum
      BY <1>25, <2>2 DEF CloseConns
    <3> HIDE DEF hit
    <3>2. WaitsKept /\ OnlyDone(hit)
      BY <3>1, FailedOnly DEF WaitsKept
    <3>3. AfterClose(t) \in PCs \ {"blocked", "resumed"}
      BY DEF AfterClose, PCs, FreePCs
    <3>4. BlockedKept(hit)
      BY <3>1, <3>3, TriggeredAll
    <3> QED BY <3>1, <3>2, <3>4, WaitStep
  <2> QED BY <2>1, <2>2
<1>26. ASSUME Network PROVE WaitInv'
  <2>1. WaitsKept /\ OnlyDone({}) /\ BlockedKept({}) /\ nextNum' = nextNum
    BY <1>26 DEF Network, ResponseArrives, EofArrives, WaitsKept, OnlyDone, BlockedKept, Done
  <2> QED BY <2>1, WaitStep
<1>27. ASSUME UNCHANGED vars PROVE WaitInv'
  <2>1. WaitsKept /\ OnlyDone({}) /\ BlockedKept({}) /\ nextNum' = nextNum
    BY <1>27 DEF vars, WaitsKept, OnlyDone, BlockedKept, Done
  <2> QED BY <2>1, WaitStep
<1> QED
  BY <1>1, <1>2, <1>3, <1>4, <1>5, <1>6, <1>7, <1>8, <1>9, <1>10,
     <1>11, <1>12, <1>13, <1>14, <1>15, <1>16, <1>17, <1>18, <1>19,
     <1>20, <1>21, <1>22, <1>23, <1>24, <1>25, <1>26, <1>27
  DEF Next, AppCall, AppWait, Run

LEMMA InitWaits == Init => WaitInv
BY DEF Init, WaitInv, BlockedOnTop, FreshUnused, WaitedConditionLive,
       NoLostTrigger, Unused, WaitKinds

LEMMA WaitInvariant == Spec => []WaitInv
BY InitWaits, StepWaits, TypeCorrect, PTL DEF Spec

(* Whatever an application does and however its threads interleave, nobody  *)
(* frees a condition that a thread waits for, and no two waits are for the  *)
(* same condition (CMCondition_wait and CMCondition_destroy).               *)
THEOREM WaitedConditionsLive == Spec => []WaitedConditionLive
BY WaitInvariant, PTL DEF WaitInv

(* No thread stays in the pthread condition wait of a condition that was    *)
(* signaled or failed (CMCondition_signal, CMCondition_fail and             *)
(* CMconn_fail_conditions trigger it in the same critical section).         *)
THEOREM TriggersReachWaiters == Spec => []NoLostTrigger
BY WaitInvariant, PTL DEF WaitInv
-----------------------------------------------------------------------------
(* A CManager whose network is serviced by a comm thread.                   *)

(* The comm thread is forked first and nobody calls CMrun_network.          *)
CommThreadServes == CommAtStart /\ "run" \notin Usage

FrameKinds(s) == {s[i].kind : i \in DOMAIN s}

AppPCs == {"user", "blocked", "resumed", "join", "closeconns", "spin", "exited",
           "crashed"}

(* The inductive invariant: the comm thread is the server thread for good,  *)
(* so the other threads only ever block, and the byte it saw in the wake    *)
(* pipe is still there when it reads it.                                    *)
CommInv ==
  /\ serverThread = CommThread
  /\ \A t \in AppThreads : pc[t] \in AppPCs /\ FrameKinds(stack[t]) \subseteq {"blocked"}
  /\ pc[CommThread] \notin {"join", "stuck"}
  /\ "poller" \notin FrameKinds(stack[CommThread])
  /\ ~hasThread => pc[CommThread] = "exited"
  /\ pc[CommThread] = "ready" /\ "wake" \in rd[CommThread] => pipe > 0

LEMMA FrameKindsStep ==
  ASSUME NEW s \in Seq(Frame), NEW f \in Frame
  PROVE  /\ FrameKinds(Pop(s)) \subseteq FrameKinds(s)
         /\ FrameKinds(Append(s, f)) \subseteq FrameKinds(s) \cup {f.kind}
         /\ FrameKinds(Append(Pop(s), f)) \subseteq FrameKinds(s) \cup {f.kind}
<1>1. ASSUME NEW r \in Seq(Frame)
      PROVE  FrameKinds(Append(r, f)) \subseteq FrameKinds(r) \cup {f.kind}
  <2>1. /\ DOMAIN r = 1 .. Len(r) /\ Len(r) \in Nat
        /\ DOMAIN Append(r, f) = 1 .. Len(r) + 1
        /\ \A i \in 1 .. Len(r) : Append(r, f)[i] = r[i]
        /\ Append(r, f)[Len(r) + 1] = f
    BY AppendProperties, LenProperties
  <2> QED BY <2>1 DEF FrameKinds
<1>2. FrameKinds(Pop(s)) \subseteq FrameKinds(s)
  <2>1. /\ DOMAIN s = 1 .. Len(s) /\ Len(s) \in Nat
        /\ DOMAIN Pop(s) = 1 .. Len(Pop(s)) /\ Len(Pop(s)) <= Len(s)
        /\ \A i \in 1 .. Len(Pop(s)) : Pop(s)[i] = s[i]
    BY PopProperties, LenProperties, EmptySeq
  <2> QED BY <2>1 DEF FrameKinds
<1> QED BY <1>1, <1>2, PopProperties

(* The kind of the innermost frame is one of the stack's.                   *)
LEMMA TopKind ==
  ASSUME TypeOK, NEW t \in Threads, stack[t] # <<>>
  PROVE  Top(t).kind \in FrameKinds(stack[t])
BY TopProperties DEF FrameKinds, Top

(* What an application thread is never doing.                               *)
LEMMA AppThreadIdle ==
  ASSUME TypeOK, CommInv, NEW t \in Threads,
         \/ pc[t] \notin AppPCs
         \/ OnTop(t, {"handler", "replied", "closing", "poller", "server", "forever"})
  PROVE  t = CommThread
BY TopKind DEF CommInv, OnTop, Threads

(* The steps of an application thread ...                                   *)
LEMMA AppStep ==
  ASSUME TypeOK, CommInv, ControlAssumption, NEW t \in AppThreads,
         pc'[t] \in AppPCs, FrameKinds(stack'[t]) \subseteq {"blocked"},
         \A u \in Threads \ {t} :
           /\ stack'[u] = stack[u]
           /\ pc'[u] = pc[u] \/ (pc[u] = "blocked" /\ pc'[u] = "resumed"),
         serverThread' = serverThread, hasThread' = hasThread \/ pc[CommThread] = "exited",
         rd' = rd, (pipe > 0 => pipe' > 0)
  PROVE  CommInv'
<1>1. CommThread # t /\ CommThread \in Threads /\ AppThreads \subseteq Threads
  BY DEF ControlAssumption, Threads
<1>2. ASSUME NEW u \in AppThreads
      PROVE  pc'[u] \in AppPCs /\ FrameKinds(stack'[u]) \subseteq {"blocked"}
  BY <1>1 DEF CommInv, AppPCs
<1>3. /\ stack'[CommThread] = stack[CommThread]
      /\ \/ pc'[CommThread] = pc[CommThread]
         \/ pc[CommThread] = "blocked" /\ pc'[CommThread] = "resumed"
  BY <1>1
<1>5. serverThread' = CommThread
  BY DEF CommInv
<1>6. pc'[CommThread] \notin {"join", "stuck"} /\ "poller" \notin FrameKinds(stack'[CommThread])
  BY <1>3 DEF CommInv
<1>7. ~hasThread' => pc'[CommThread] = "exited"
  BY <1>3 DEF CommInv
<1>8. pc'[CommThread] = "ready" /\ "wake" \in rd'[CommThread] => pipe' > 0
  BY <1>3 DEF CommInv
<1> QED BY <1>2, <1>5, <1>6, <1>7, <1>8 DEF CommInv

(* ... and those of the comm thread.                                        *)
LEMMA CommStep ==
  ASSUME TypeOK, CommInv, ControlAssumption,
         pc'[CommThread] \notin {"join", "stuck", "ready"},
         pc[CommThread] # "exited",
         "poller" \notin FrameKinds(stack'[CommThread]),
         \A u \in AppThreads :
           /\ stack'[u] = stack[u]
           /\ pc'[u] = pc[u] \/ (pc[u] = "blocked" /\ pc'[u] = "resumed"),
         serverThread' = CommThread, hasThread' = hasThread
  PROVE  CommInv'
<1>1. \A u \in AppThreads :
        pc'[u] \in AppPCs /\ FrameKinds(stack'[u]) \subseteq {"blocked"}
  BY DEF CommInv, AppPCs
<1>2. hasThread'
  BY DEF CommInv
<1> QED BY <1>1, <1>2 DEF CommInv

(* A step in which no thread goes on, though some are triggered.            *)
LEMMA PassiveStep ==
  ASSUME TypeOK, CommInv, UNCHANGED <<stack, rd, serverThread, hasThread>>,
         \A u \in Threads :
           pc'[u] = pc[u] \/ (pc[u] = "blocked" /\ pc'[u] = "resumed"),
         (pipe > 0 => pipe' > 0)
  PROVE  CommInv'
<1>1. CommThread \in Threads /\ AppThreads \subseteq Threads
  BY DEF Threads
<1>2. \A u \in AppThreads :
        pc'[u] \in AppPCs /\ FrameKinds(stack'[u]) \subseteq {"blocked"}
  BY <1>1 DEF CommInv, AppPCs
<1>3. \/ pc'[CommThread] = pc[CommThread]
      \/ pc[CommThread] = "blocked" /\ pc'[CommThread] = "resumed"
  BY <1>1
<1>4. /\ serverThread' = CommThread
      /\ pc'[CommThread] \notin {"join", "stuck"}
      /\ "poller" \notin FrameKinds(stack'[CommThread])
      /\ ~hasThread' => pc'[CommThread] = "exited"
      /\ pc'[CommThread] = "ready" /\ "wake" \in rd'[CommThread] => pipe' > 0
  BY <1>3 DEF CommInv
<1> QED BY <1>2, <1>4 DEF CommInv

LEMMA TriggerStep ==
  ASSUME TypeOK, NEW S
  PROVE  \A u \in Threads : \/ Trigger(S)[u] = pc[u]
                            \/ pc[u] = "blocked" /\ Trigger(S)[u] = "resumed"
BY DEF Trigger

LEMMA SignalStep ==
  ASSUME TypeOK, NEW c, SignalEffect(c)
  PROVE  /\ (pipe > 0 => pipe' > 0)
         /\ \A u \in Threads :
              pc'[u] = pc[u] \/ (pc[u] = "blocked" /\ pc'[u] = "resumed")
<1>1. (pipe > 0 => pipe' > 0)
  BY DEF SignalEffect, WakePoller, TypeOK
<1>2. pc' = Trigger({c}) \/ pc' = pc
  BY DEF SignalEffect
<1> QED BY <1>1, <1>2, TriggerStep

(* What the comm thread does when it reads from the network.                *)
LEMMA CommReads ==
  ASSUME TypeOK, CommInv, ControlAssumption, pc[CommThread] # "exited",
         NEW s \in {stack[CommThread], Pop(stack[CommThread])},
         \/ ReadNext(CommThread, s)
         \/ EndDispatch(CommThread) /\ stack' = [stack EXCEPT ![CommThread] = s],
         UNCHANGED <<serverThread, hasThread>>
  PROVE  CommInv'
<1> DEFINE t == CommThread
<1>1. /\ t \in Threads /\ t \notin AppThreads /\ AppThreads \subseteq Threads
      /\ stack[t] \in Seq(Frame) /\ s \in Seq(Frame)
  BY PopProperties DEF ControlAssumption, Threads, TypeOK
<1>2. FrameKinds(s) \subseteq FrameKinds(stack[t])
  BY <1>1, FrameKindsStep, FrameType
<1>3. \A c \in Conditions : LET f == [kind |-> "handler", arg |-> c] IN
        f \in Frame /\ f.kind # "poller"
  BY FrameType
<1>4. \A k \in Conns : LET f == [kind |-> "closing", arg |-> k] IN
        f \in Frame /\ f.kind # "poller"
  BY FrameType
<1>5. ASSUME NEW x \in {"user", "loop"}, NEW S, NEW q \in Seq(Frame),
             "poller" \notin FrameKinds(q), stack' = [stack EXCEPT ![t] = q],
             \/ pc' = [pc EXCEPT ![t] = x]
             \/ pc' = [Trigger(S) EXCEPT ![t] = x]
      PROVE  CommInv'
  <2>1. pc'[t] = x
    BY <1>1, <1>5 DEF TypeOK, Trigger
  <2>2. "poller" \notin FrameKinds(stack'[t])
    BY <1>1, <1>5 DEF TypeOK
  <2>3. \A u \in AppThreads : /\ stack'[u] = stack[u]
                              /\ pc'[u] = pc[u] \/ (pc[u] = "blocked" /\ pc'[u] = "resumed")
    BY <1>1, <1>5 DEF TypeOK, Trigger
  <2>4. serverThread' = CommThread
    BY DEF CommInv
  <2> QED BY <2>1, <2>2, <2>3, <2>4, CommStep
<1>6. "poller" \notin FrameKinds(s)
  BY <1>2 DEF CommInv
<1>7. ASSUME stack' = [stack EXCEPT ![t] = s], pc' = [pc EXCEPT ![t] = "loop"]
      PROVE  CommInv'
  BY <1>1, <1>5, <1>6, <1>7
<1>8. ASSUME NEW c \in Conditions, ReadResponse(t, s, c) PROVE CommInv'
  <2> DEFINE q == Append(s, [kind |-> "handler", arg |-> c])
  <2>1. q \in Seq(Frame) /\ "poller" \notin FrameKinds(q)
    BY <1>1, <1>3, <1>6, FrameKindsStep, AppendProperties
  <2>2. stack' = [stack EXCEPT ![t] = q] /\ pc' = [pc EXCEPT ![t] = "user"]
    BY <1>8 DEF ReadResponse
  <2> HIDE DEF q
  <2> QED BY <1>5, <2>1, <2>2
<1>9. ASSUME NEW k \in Conns, ReadEof(t, s, k) PROVE CommInv'
  <2> DEFINE q == Append(s, [kind |-> "closing", arg |-> k])
  <2>1. q \in Seq(Frame) /\ "poller" \notin FrameKinds(q)
    BY <1>1, <1>4, <1>6, FrameKindsStep, AppendProperties
  <2>2. \/ /\ stack' = [stack EXCEPT ![t] = q]
           /\ pc' = [Trigger(Dependents(k)) EXCEPT ![t] = "user"]
        \/ /\ stack' = [stack EXCEPT ![t] = s]
           /\ pc' = [Trigger(Dependents(k)) EXCEPT ![t] = "loop"]
    BY <1>9 DEF ReadEof
  <2> HIDE DEF q
  <2> QED BY <1>1, <1>5, <1>6, <2>1, <2>2
<1>10. CASE EndDispatch(t) /\ stack' = [stack EXCEPT ![t] = s]
  BY <1>7, <1>10 DEF EndDispatch
<1>11. CASE ReadNext(t, s) /\ net = <<>>
  BY <1>7, <1>11 DEF ReadNext, EndDispatch
<1>12. CASE ReadNext(t, s) /\ net # <<>>
  BY <1>7, <1>8, <1>9, <1>12 DEF ReadNext
<1> QED BY <1>10, <1>11, <1>12

LEMMA StepComm ==
  TypeOK /\ CommInv /\ CommThreadServes /\ [Next]_vars => CommInv'
<1> SUFFICES ASSUME TypeOK, CommInv, CommThreadServes, [Next]_vars PROVE CommInv'
  OBVIOUS
<1> USE ControlAssumption DEF InUser, MayCall, LockFree
<1>0. /\ CommThread \in Threads /\ AppThreads \subseteq Threads
      /\ CommThread \notin AppThreads /\ CommThread # NoThread
      /\ \A t \in Threads : t \in AppThreads \/ t = CommThread
      /\ \A t \in Threads : stack[t] \in Seq(Frame)
      /\ pc \in [Threads -> PCs] /\ stack \in [Threads -> Seq(Frame)] /\ pipe \in Nat
  BY DEF Threads, TypeOK, PCs
<1>1. ASSUME NEW t \in Threads, NEW k \in Conns \cup {NoConn}, ConditionGet(t, k) PROVE CommInv'
  BY <1>0, <1>1, PassiveStep DEF ConditionGet
<1>2. ASSUME NEW t \in Threads, NEW c \in Conditions, AppSignal(t, c) PROVE CommInv'
  BY <1>0, <1>2, SignalStep, PassiveStep DEF AppSignal
<1>3. ASSUME NEW t \in Threads, NEW c \in Conditions, ConditionFail(t, c) PROVE CommInv'
  <2>1. (pipe > 0 => pipe' > 0)
    BY <1>0, <1>3 DEF ConditionFail, WakePoller
  <2>2. pc' = Trigger({c}) \/ pc' = pc
    BY <1>0, <1>3 DEF ConditionFail
  <2> QED BY <1>0, <1>3, <2>1, <2>2, TriggerStep, PassiveStep DEF ConditionFail
<1>4. ASSUME NEW t \in Threads, ForkCommThread(t) PROVE CommInv'
  BY <1>0, <1>4 DEF ForkCommThread, CommInv
<1>5. ASSUME NEW t \in Threads, RunNetwork(t) PROVE CommInv'
  BY <1>0, <1>5 DEF RunNetwork, CommThreadServes
<1>6. ASSUME NEW t \in Threads, NEW k \in Conns, ConnectionClose(t, k) PROVE CommInv'
  BY <1>0, <1>6, PassiveStep DEF ConnectionClose
<1>7. ASSUME NEW t \in Threads, CManagerClose(t) PROVE CommInv'
  <2>1. CASE t \in AppThreads
    <3>1. pc'[t] \in {"join", "closeconns"} /\ (pipe > 0 => pipe' > 0)
          /\ \A u \in Threads \ {t} : pc'[u] = pc[u]
      BY <1>0, <1>7, <2>1 DEF CManagerClose, StopSelect
    <3>2. stack' = stack /\ rd' = rd /\ serverThread' = serverThread /\ hasThread' = hasThread
      BY <1>0, <1>7 DEF CManagerClose
    <3>3. FrameKinds(stack'[t]) \subseteq {"blocked"}
      BY <2>1, <3>2 DEF CommInv
    <3> QED BY <2>1, <3>1, <3>2, <3>3, AppStep DEF AppPCs
  <2>2. CASE t = CommThread
    <3>1. ~MustJoin(t) /\ pc[t] # "exited"
      BY <1>0, <1>7, <2>2 DEF MustJoin, CommInv, CManagerClose
    <3>2. /\ pc' = [pc EXCEPT ![t] = "closeconns"] /\ stack' = stack
          /\ serverThread' = CommThread /\ hasThread' = hasThread
      BY <1>0, <1>7, <3>1 DEF CManagerClose, CommInv
    <3> QED BY <1>0, <2>2, <3>1, <3>2, CommStep DEF CommInv
  <2> QED BY <1>0, <2>1, <2>2
<1>8. ASSUME NEW t \in Threads, NEW c \in Conditions, WaitAlreadyDone(t, c) PROVE CommInv'
  BY <1>0, <1>8, PassiveStep DEF WaitAlreadyDone
<1>9. ASSUME NEW t \in Threads, NEW c \in Conditions, WaitPolling(t, c) PROVE CommInv'
  <2>1. t = CommThread /\ pc[t] = "user" /\ hasThread
    BY <1>0, <1>9 DEF WaitPolling, MayWait, Polls, CommInv
  <2> DEFINE f == [kind |-> "server", arg |-> c]
  <2>2. f \in Frame /\ f.kind # "poller"
    BY FrameType DEF WaitKinds
  <2>3. /\ stack' = [stack EXCEPT ![t] = Append(stack[t], f)]
        /\ pc' = [pc EXCEPT ![t] = "loop"]
        /\ serverThread' = CommThread /\ hasThread' = hasThread
    BY <1>0, <1>9, <2>1 DEF WaitPolling, Push, CommInv
  <2> HIDE DEF f
  <2>4. "poller" \notin FrameKinds(stack'[CommThread])
    BY <1>0, <2>1, <2>2, <2>3, FrameKindsStep DEF CommInv
  <2> QED BY <1>0, <2>1, <2>3, <2>4, CommStep
<1>10. ASSUME NEW t \in Threads, NEW c \in Conditions, WaitBlocking(t, c) PROVE CommInv'
  <2>1. t \in AppThreads
    BY <1>0, <1>10 DEF WaitBlocking, MayWait, Polls, CommInv
  <2> DEFINE f == [kind |-> "blocked", arg |-> c]
  <2>2. f \in Frame /\ f.kind = "blocked"
    BY FrameType DEF WaitKinds
  <2>3. /\ stack' = [stack EXCEPT ![t] = Append(stack[t], f)]
        /\ pc' = [pc EXCEPT ![t] = "blocked"]
        /\ UNCHANGED <<serverThread, hasThread, rd, pipe>>
    BY <1>0, <1>10 DEF WaitBlocking, Push
  <2> HIDE DEF f
  <2>4. FrameKinds(stack'[t]) \subseteq {"blocked"}
    <3>1. FrameKinds(stack[t]) \subseteq {"blocked"}
      BY <2>1 DEF CommInv
    <3>2. FrameKinds(Append(stack[t], f)) \subseteq FrameKinds(stack[t]) \cup {f.kind}
      BY <1>0, <2>2, FrameKindsStep
    <3>3. stack'[t] = Append(stack[t], f)
      BY <1>0, <2>3
    <3> QED BY <2>2, <3>1, <3>2, <3>3
  <2> QED BY <1>0, <2>1, <2>3, <2>4, AppStep DEF AppPCs
<1>11. ASSUME NEW t \in Threads, SpuriousWakeup(t) PROVE CommInv'
  BY <1>0, <1>11, PassiveStep DEF SpuriousWakeup
<1>12. ASSUME NEW t \in Threads, ReturnFromBlocking(t) PROVE CommInv'
  <2>1. /\ stack' = [stack EXCEPT ![t] = Pop(stack[t])]
        /\ pc' = [pc EXCEPT ![t] = "user"] /\ pc[t] = "resumed"
        /\ UNCHANGED <<serverThread, hasThread, rd, pipe>>
    BY <1>0, <1>12 DEF ReturnFromBlocking
  <2>2. FrameKinds(stack'[t]) \subseteq FrameKinds(stack[t])
    BY <1>0, <2>1, FrameKindsStep, FrameType
  <2>3. CASE t \in AppThreads
    <3>1. FrameKinds(stack'[t]) \subseteq {"blocked"}
      BY <2>2, <2>3 DEF CommInv
    <3> QED BY <1>0, <2>1, <2>3, <3>1, AppStep DEF AppPCs
  <2>4. CASE t = CommThread
    BY <1>0, <2>1, <2>2, <2>4, CommStep DEF CommInv
  <2> QED BY <1>0, <2>3, <2>4
<1>13. ASSUME NEW t \in Threads, Start(t) PROVE CommInv'
  <2>1. t = CommThread /\ pc[t] # "exited"
    BY <1>0, <1>13, AppThreadIdle DEF Start, AppPCs
  <2>2. /\ stack' = stack /\ pc' = [pc EXCEPT ![t] = "loop"]
        /\ serverThread' = CommThread /\ hasThread' = hasThread
    BY <1>0, <1>13, <2>1 DEF Start, CommInv
  <2> QED BY <1>0, <2>1, <2>2, CommStep DEF CommInv
<1>14. ASSUME NEW t \in Threads, LoopSelect(t) PROVE CommInv'
  <2>1. t = CommThread /\ pc[t] # "exited"
    BY <1>0, <1>14, AppThreadIdle DEF LoopSelect, AppPCs
  <2>2. /\ stack' = stack /\ pc' = [pc EXCEPT ![t] = "select"]
        /\ serverThread' = CommThread /\ hasThread' = hasThread
    BY <1>0, <1>14, <2>1 DEF LoopSelect, CommInv
  <2> QED BY <1>0, <2>1, <2>2, CommStep DEF CommInv
<1>15. ASSUME NEW t \in Threads, LoopReturn(t) PROVE CommInv'
  <2>1. t = CommThread /\ pc[t] # "exited"
    BY <1>0, <1>15, AppThreadIdle DEF LoopReturn, AppPCs
  <2>2. /\ stack' = [stack EXCEPT ![t] = Pop(stack[t])]
        /\ pc' = [pc EXCEPT ![t] = "user"] /\ hasThread' = hasThread
    BY <1>0, <1>15 DEF LoopReturn
  <2>3. "poller" \notin FrameKinds(stack'[t])
    BY <1>0, <2>1, <2>2, FrameKindsStep, FrameType DEF CommInv
  <2>4. serverThread' = CommThread
    BY <1>0, <1>15, <2>1, TopKind DEF LoopReturn, CommInv, OnTop
  <2> QED BY <1>0, <2>1, <2>2, <2>3, <2>4, CommStep
<1>16. ASSUME NEW t \in Threads, LoopSpin(t) PROVE CommInv'
  <2>1. t = CommThread /\ pc[t] # "exited"
    BY <1>0, <1>16, AppThreadIdle DEF LoopSpin, AppPCs
  <2>2. /\ stack' = stack /\ pc' = [pc EXCEPT ![t] = "spin"]
        /\ serverThread' = CommThread /\ hasThread' = hasThread
    BY <1>0, <1>16, <2>1 DEF LoopSpin, CommInv
  <2> QED BY <1>0, <2>1, <2>2, CommStep DEF CommInv
<1>17. ASSUME NEW t \in Threads, LoopClosed(t) PROVE CommInv'
  <2>1. t = CommThread /\ pc[t] # "exited"
    BY <1>0, <1>17, AppThreadIdle DEF LoopClosed, AppPCs
  <2>2. /\ stack' = stack /\ pc' = [pc EXCEPT ![t] = "closing"]
        /\ serverThread' = CommThread /\ hasThread' = hasThread
    BY <1>0, <1>17, <2>1 DEF LoopClosed, CommInv
  <2> QED BY <1>0, <2>1, <2>2, CommStep DEF CommInv
<1>18. ASSUME NEW t \in Threads, SelectReturns(t) PROVE CommInv'
  <2>1. t = CommThread /\ pc[t] = "select"
    BY <1>0, <1>18, AppThreadIdle DEF SelectReturns, AppPCs
  <2>2. /\ "wake" \in rd'[t] => pipe > 0
        /\ pc' = [pc EXCEPT ![t] = "ready"] /\ UNCHANGED <<stack, pipe, serverThread, hasThread>>
    BY <1>0, <1>18 DEF SelectReturns, TypeOK
  <2> QED BY <1>0, <2>1, <2>2 DEF CommInv
<1>19. ASSUME NEW t \in Threads, AfterSelect(t) PROVE CommInv'
  <2>1. t = CommThread /\ pc[t] = "ready"
    BY <1>0, <1>19, AppThreadIdle DEF AfterSelect, AppPCs
  <2>2. pc'[t] \in {"loop", "dispatch"}
    BY <1>0, <1>19, <2>1 DEF AfterSelect, ReadsWake, CommInv
  <2>3. /\ \A u \in AppThreads : pc'[u] = pc[u]
        /\ UNCHANGED <<stack, serverThread, hasThread>>
    BY <1>0, <1>19, <2>1 DEF AfterSelect
  <2> QED BY <2>1, <2>2, <2>3, CommStep DEF CommInv
<1>20. ASSUME NEW t \in Threads, Dispatch(t) PROVE CommInv'
  <2>1. t = CommThread /\ pc[t] = "dispatch" /\ UNCHANGED <<serverThread, hasThread>>
    BY <1>0, <1>20, AppThreadIdle DEF Dispatch, AppPCs
  <2>2. \/ ReadNext(t, stack[t])
        \/ EndDispatch(t) /\ stack' = [stack EXCEPT ![t] = stack[t]]
    BY <1>0, <1>20 DEF Dispatch
  <2> QED BY <2>1, <2>2, CommReads
<1>21. ASSUME NEW t \in Threads, HandlerSignal(t) PROVE CommInv'
  <2>1. t = CommThread /\ pc[t] = "user" /\ stack[t] # <<>> /\ Top(t).kind = "handler"
    BY <1>0, <1>21, AppThreadIdle DEF HandlerSignal, OnTop
  <2> DEFINE f == [Top(t) EXCEPT !.kind = "replied"]
  <2>2. f \in Frame /\ f.kind # "poller"
    BY <2>1, <1>0, TopProperties DEF Frame, WaitKinds
  <2>3. /\ stack' = [stack EXCEPT ![t] = Append(Pop(stack[t]), f)]
        /\ SignalEffect(Top(t).arg) /\ UNCHANGED <<serverThread, hasThread>>
    BY <1>0, <1>21 DEF HandlerSignal
  <2> HIDE DEF f
  <2>4. "poller" \notin FrameKinds(stack'[t])
    BY <1>0, <2>1, <2>2, <2>3, FrameKindsStep DEF CommInv
  <2>5. pc'[t] = "user" /\ \A u \in AppThreads :
          pc'[u] = pc[u] \/ (pc[u] = "blocked" /\ pc'[u] = "resumed")
    BY <1>0, <2>1, <2>3, SignalStep
  <2> QED BY <1>0, <2>1, <2>3, <2>4, <2>5, CommStep DEF CommInv
<1>22. ASSUME NEW t \in Threads, HandlerReturn(t) PROVE CommInv'
  <2>1. t = CommThread /\ pc[t] = "user" /\ UNCHANGED <<serverThread, hasThread>>
    BY <1>0, <1>22, AppThreadIdle DEF HandlerReturn, OnTop
  <2>2. \/ ReadNext(t, Pop(stack[t]))
        \/ EndDispatch(t) /\ stack' = [stack EXCEPT ![t] = Pop(stack[t])]
    BY <1>0, <1>22 DEF HandlerReturn
  <2> QED BY <2>1, <2>2, CommReads
<1>23. ASSUME NEW t \in Threads, CloseHandlerReturn(t) PROVE CommInv'
  <2>1. t = CommThread /\ pc[t] # "exited"
    BY <1>0, <1>23, AppThreadIdle DEF CloseHandlerReturn, OnTop
  <2>2. /\ stack' = [stack EXCEPT ![t] = Pop(stack[t])]
        /\ pc' = [pc EXCEPT ![t] = "loop"] /\ hasThread' = hasThread
    BY <1>0, <1>23 DEF CloseHandlerReturn
  <2>3. "poller" \notin FrameKinds(stack'[t])
    BY <1>0, <2>1, <2>2, FrameKindsStep, FrameType DEF CommInv
  <2>4. serverThread' = CommThread
    BY <1>0, <1>23, <2>1, TopKind DEF CloseHandlerReturn, CommInv, OnTop
  <2> QED BY <1>0, <2>1, <2>2, <2>3, <2>4, CommStep
<1>24. ASSUME NEW t \in Threads, Join(t) PROVE CommInv'
  <2>1. t \in AppThreads
    BY <1>0, <1>24 DEF Join, CommInv
  <2>2. /\ pc'[t] \in {"crashed", "closeconns"} /\ \A u \in Threads \ {t} : pc'[u] = pc[u]
        /\ UNCHANGED <<stack, rd, pipe, serverThread>>
    BY <1>0, <1>24 DEF Join
  <2>3. hasThread' = hasThread \/ pc[CommThread] = "exited"
    BY <1>0, <1>24, <2>1 DEF Join, TypeOK
  <2>4. FrameKinds(stack'[t]) \subseteq {"blocked"}
    BY <2>1, <2>2 DEF CommInv
  <2> QED BY <1>0, <2>1, <2>2, <2>3, <2>4, AppStep DEF AppPCs
<1>25. ASSUME NEW t \in Threads, CloseConns(t) PROVE CommInv'
  <2>1. /\ pc'[t] \in {"spin", "exited", "user"} /\ pc[t] = "closeconns"
        /\ \A u \in Threads \ {t} : pc'[u] = pc[u] \/ (pc[u] = "blocked" /\ pc'[u] = "resumed")
        /\ UNCHANGED <<stack, rd, serverThread, hasThread>>
    <3>1. UNCHANGED <<stack, rd, serverThread, hasThread>> /\ pc[t] = "closeconns"
      BY <1>0, <1>25 DEF CloseConns
    <3>2. CASE \E k \in cmConns : connFailed[k]
      <4>1. pc' = [pc EXCEPT ![t] = "spin"]
        BY <1>25, <3>2 DEF CloseConns
      <4> QED BY <1>0, <3>1, <4>1
    <3>3. CASE ~\E k \in cmConns : connFailed[k]
      <4>1. \E S : pc' = [Trigger(S) EXCEPT ![t] = AfterClose(t)]
        BY <1>0, <1>25, <3>3 DEF CloseConns
      <4>2. PICK S : pc' = [Trigger(S) EXCEPT ![t] = AfterClose(t)]
        BY <4>1
      <4>3. AfterClose(t) \in {"exited", "user"}
        BY DEF AfterClose
      <4> QED BY <1>0, <3>1, <4>2, <4>3, TriggerType, TriggerStep
    <3> QED BY <3>2, <3>3
  <2>2. (pipe > 0 => pipe' > 0)
    <3>1. Cardinality(cmConns) \in Nat
      BY FS_Subset, FS_CardinalityType DEF TypeOK
    <3>2. \/ pipe' = pipe
          \/ pipe' = pipe + Cardinality(cmConns) * (IF condPolling THEN 2 ELSE 1)
      BY <1>0, <1>25 DEF CloseConns
    <3> QED BY <1>0, <3>1, <3>2
  <2>3. CASE t \in AppThreads
    <3>1. FrameKinds(stack'[t]) \subseteq {"blocked"}
      BY <2>1, <2>3 DEF CommInv
    <3> QED BY <1>0, <2>1, <2>2, <2>3, <3>1, AppStep DEF AppPCs
  <2>4. CASE t = CommThread
    BY <1>0, <2>1, <2>4, CommStep DEF CommInv
  <2> QED BY <1>0, <2>3, <2>4
<1>26. ASSUME Network PROVE CommInv'
  BY <1>0, <1>26, PassiveStep DEF Network, ResponseArrives, EofArrives
<1>27. ASSUME UNCHANGED vars PROVE CommInv'
  BY <1>0, <1>27, PassiveStep DEF vars
<1> QED
  BY <1>1, <1>2, <1>3, <1>4, <1>5, <1>6, <1>7, <1>8, <1>9, <1>10,
     <1>11, <1>12, <1>13, <1>14, <1>15, <1>16, <1>17, <1>18, <1>19,
     <1>20, <1>21, <1>22, <1>23, <1>24, <1>25, <1>26, <1>27
  DEF Next, AppCall, AppWait, Run

LEMMA InitComm == Init /\ CommThreadServes => CommInv
<1> SUFFICES ASSUME Init, CommThreadServes PROVE CommInv
  OBVIOUS
<1>1. /\ stack[CommThread] = <<[kind |-> "forever", arg |-> 0]>>
      /\ pc[CommThread] = "start" /\ serverThread = CommThread /\ hasThread
  BY DEF Init, CommThreadServes, Threads
<1>2. \A t \in AppThreads : pc[t] = "user" /\ stack[t] = <<>>
  BY ControlAssumption DEF Init, Threads
<1> QED BY <1>1, <1>2 DEF CommInv, FrameKinds, AppPCs

LEMMA CommInvariant == ASSUME CommThreadServes PROVE Spec => []CommInv
<1>1. Init => CommInv
  BY InitComm
<1>2. TypeOK /\ CommInv /\ [Next]_vars => CommInv'
  BY StepComm
<1> QED BY <1>1, <1>2, TypeCorrect, PTL DEF Spec

(* In an application that forks the comm thread first and never calls       *)
(* CMrun_network, at most one thread handles input for the CManager,        *)
(* however deep its waits nest and whenever it is closed.                   *)
THEOREM CommThreadPollsAlone == ASSUME CommThreadServes PROVE Spec => []OnePoller
<1>1. CommInv => OnePoller
  BY DEF CommInv, OnePoller, InPollLoop, AppPCs, Threads
<1> QED BY <1>1, CommInvariant, PTL

(* There, the read of the wake pipe never blocks: the byte the comm thread  *)
(* saw before it asked for the lock is still there when it has the lock.    *)
THEOREM CommThreadReadsWake == ASSUME CommThreadServes PROVE Spec => []WakeReadNeverBlocks
<1>1. CommInv => WakeReadNeverBlocks
  BY DEF CommInv, WakeReadNeverBlocks, AppPCs, Threads
<1> QED BY <1>1, CommInvariant, PTL
-----------------------------------------------------------------------------
(* What a wait returns, and the conditions of a dead connection.           *)

(* The pthread condition wait returns for no reason but a signal: the code  *)
(* takes its return for the condition's, without a test.                    *)
NoSpuriousWakeups == "spurious" \notin Usage

(* A connection is marked failed and closed in the same critical section:   *)
(* no close handler runs in between, and no application closes it itself.   *)
ConnsDieAtOnce == CloseHandled = {} /\ "close_conn" \notin Usage

(* The inductive invariants.  A thread on its way out of the pthread wait   *)
(* was triggered, so that its condition is signaled or failed ...           *)
ResumedDone ==
  \A u \in Threads : pc[u] = "resumed" => Done(Top(u).arg)

ResultInv == WaitResultSound /\ ResumedDone

(* ... and a new condition, which fails when its connection is closed, also *)
(* fails when its connection has failed.                                    *)
DeadInv ==
  /\ connClosed = connFailed
  /\ DependentConditionsFail
  /\ \A u \in Threads : "closing" \notin FrameKinds(stack[u])

(* A step that marks conditions, those of S for certain, and changes no     *)
(* other thing about any.                                                   *)
Marked(S) ==
  \A c \in Conditions :
    /\ conds'[c].state = conds[c].state /\ conds'[c].conn = conds[c].conn
    /\ conds'[c].result = conds[c].result
    /\ conds[c].signaled => conds'[c].signaled
    /\ conds[c].failed => conds'[c].failed
    /\ c \in S => Done(c)'

(* The threads that leave the pthread wait in a step were triggered because *)
(* of a condition of S.                                                     *)
ResumedFor(S) ==
  \A u \in Threads : pc'[u] = "resumed" =>
    /\ stack'[u] = stack[u] /\ pc[u] \in {"blocked", "resumed"}
    /\ pc[u] = "blocked" => Top(u).arg \in S

LEMMA ResultsKept ==
  ASSUME TypeOK, WaitInv, ResultInv, NEW S, Marked(S), ResumedFor(S)
  PROVE  ResultInv'
<1>1. WaitResultSound'
  BY DEF ResultInv, WaitResultSound, Marked
<1>2. ResumedDone'
  <2> SUFFICES ASSUME NEW u \in Threads, pc'[u] = "resumed" PROVE Done(Top(u).arg)'
    BY DEF ResumedDone
  <2>1. /\ pc[u] \in {"blocked", "resumed"} /\ Top(u)' = Top(u)
        /\ pc[u] = "blocked" => Top(u).arg \in S
    BY DEF ResumedFor, Top
  <2>2. Top(u).arg \in Conditions
    BY <2>1, BlockedFrame DEF WaitInv
  <2> QED BY <2>1, <2>2 DEF ResultInv, ResumedDone, Marked, Done
<1> QED BY <1>1, <1>2 DEF ResultInv

(* CMCondition_signal.                                                      *)
LEMMA SignalMarks ==
  ASSUME TypeOK, NEW c \in Conditions, SignalEffect(c)
  PROVE  Marked({c} \cap {d \in Conditions : Live(d)})
<1>1. conds \in [Conditions -> CondRecord]
  BY DEF TypeOK
<1>2. CASE conds' = [conds EXCEPT ![c].signaled = TRUE]
  <2>1. \A d \in Conditions \ {c} : conds'[d] = conds[d]
    BY <1>1, <1>2
  <2>2. conds'[c] = [conds[c] EXCEPT !.signaled = TRUE]
    BY <1>1, <1>2
  <2>3. /\ conds'[c].state = conds[c].state /\ conds'[c].conn = conds[c].conn
        /\ conds'[c].result = conds[c].result /\ conds'[c].failed = conds[c].failed
        /\ conds'[c].signaled
    BY <1>1, <2>2 DEF CondRecord
  <2> QED BY <2>1, <2>3 DEF Marked, Done
<1>3. CASE ~Live(c) /\ conds' = conds
  BY <1>3 DEF Marked
<1> QED BY <1>2, <1>3 DEF SignalEffect

LEMMA SignalResumes ==
  ASSUME TypeOK, WaitInv, NEW c \in Conditions, SignalEffect(c),
         \A u \in Threads : pc[u] \in {"blocked", "resumed"} => stack'[u] = stack[u]
  PROVE  ResumedFor({c} \cap {d \in Conditions : Live(d)})
<1> SUFFICES ASSUME NEW u \in Threads, pc'[u] = "resumed"
             PROVE  /\ stack'[u] = stack[u] /\ pc[u] \in {"blocked", "resumed"}
                    /\ pc[u] = "blocked" => Top(u).arg = c /\ Live(c)
  BY DEF ResumedFor
<1>1. \/ pc[u] = "resumed"
      \/ pc[u] = "blocked" /\ Top(u).arg = c /\ Live(c)
  BY DEF SignalEffect, Trigger, TypeOK
<1> QED BY <1>1

(* CMCondition_fail, CMconn_fail_conditions.                                *)
LEMMA FailMarks ==
  ASSUME TypeOK, NEW S,
         conds' = [c \in Conditions |-> [conds[c] EXCEPT !.failed = @ \/ c \in S]]
  PROVE  /\ Marked(S)
         /\ \A c \in Conditions \cap S : conds'[c].failed
<1> SUFFICES ASSUME NEW c \in Conditions
             PROVE  /\ conds'[c].state = conds[c].state /\ conds'[c].conn = conds[c].conn
                    /\ conds'[c].result = conds[c].result
                    /\ conds[c].signaled => conds'[c].signaled
                    /\ conds[c].failed => conds'[c].failed
                    /\ c \in S => conds'[c].failed
  BY DEF Marked, Done
<1>1. conds[c] \in CondRecord
  BY DEF TypeOK
<1>2. conds'[c] = [conds[c] EXCEPT !.failed = @ \/ c \in S]
  OBVIOUS
<1>3. /\ conds'[c].state = conds[c].state /\ conds'[c].conn = conds[c].conn
      /\ conds'[c].result = conds[c].result /\ conds'[c].signaled = conds[c].signaled
  BY <1>1, <1>2 DEF CondRecord
<1>4. conds'[c].failed = (conds[c].failed \/ c \in S)
  BY <1>1, <1>2 DEF CondRecord
<1> QED BY <1>3, <1>4

LEMMA TriggerResumes ==
  ASSUME TypeOK, NEW S, NEW t \in Threads, NEW x, x # "resumed",
         pc[t] \notin {"blocked", "resumed"},
         pc' = [Trigger(S) EXCEPT ![t] = x],
         \A u \in Threads \ {t} : stack'[u] = stack[u]
  PROVE  ResumedFor(S)
BY DEF ResumedFor, Trigger, TypeOK

(* A step in which no condition changes and nobody leaves the pthread wait. *)
LEMMA QuietResults ==
  ASSUME TypeOK, WaitInv, ResultInv, NEW t \in Threads,
         conds' = conds,
         pc[t] \notin {"blocked", "resumed"}, pc'[t] # "resumed",
         \A u \in Threads \ {t} : pc'[u] = pc[u] /\ stack'[u] = stack[u]
  PROVE  ResultInv'
<1>1. Marked({})
  BY DEF Marked
<1>2. ResumedFor({})
  BY DEF ResumedFor
<1> QED BY <1>1, <1>2, ResultsKept

(* What the return of a wait for c leaves in it.                            *)
LEMMA FinishResult ==
  ASSUME TypeOK, NEW c \in Conditions
  PROVE  /\ Finish(c)[c].signaled = conds[c].signaled
         /\ Finish(c)[c].failed = conds[c].failed
         /\ Finish(c)[c].result = IF conds[c].signaled THEN "signaled" ELSE "failed"
<1>1. conds \in [Conditions -> CondRecord]
  BY DEF TypeOK
<1>2. Finish(c)[c] = [conds[c] EXCEPT !.state = "freed",
                        !.result = IF conds[c].signaled THEN "signaled" ELSE "failed"]
  BY <1>1 DEF Finish
<1> QED BY <1>1, <1>2 DEF CondRecord

(* A wait for c returns and gives it a result.                              *)
LEMMA WaitResults ==
  ASSUME TypeOK, WaitInv, ResultInv, NEW t \in Threads, NEW c \in Conditions,
         NEW b \in BOOLEAN,
         Done(c) \/ b,
         \A d \in Conditions \ {c} : conds'[d] = conds[d],
         conds'[c].signaled = conds[c].signaled,
         conds'[c].failed = (conds[c].failed \/ b),
         conds'[c].result = (IF conds[c].signaled THEN "signaled" ELSE "failed"),
         pc'[t] # "resumed",
         \A u \in Threads \ {t} : pc'[u] = pc[u] /\ stack'[u] = stack[u]
  PROVE  ResultInv'
<1>1. WaitResultSound'
  <2>1. ASSUME NEW d \in Conditions \ {c}
        PROVE  /\ conds'[d].result = "signaled" => conds'[d].signaled
               /\ conds'[d].result = "failed" => conds'[d].failed
    BY DEF ResultInv, WaitResultSound
  <2>2. /\ conds'[c].result = "signaled" => conds'[c].signaled
        /\ conds'[c].result = "failed" => conds'[c].failed
    BY DEF Done
  <2> QED BY <2>1, <2>2 DEF WaitResultSound
<1>2. ResumedDone'
  <2> SUFFICES ASSUME NEW u \in Threads, pc'[u] = "resumed" PROVE Done(Top(u).arg)'
    BY DEF ResumedDone
  <2>1. pc[u] = "resumed" /\ Top(u)' = Top(u)
    BY DEF Top
  <2>2. Top(u).arg \in Conditions /\ Done(Top(u).arg)
    BY <2>1, BlockedFrame DEF WaitInv, ResultInv, ResumedDone
  <2> QED BY <2>1, <2>2, ZenonT(90) DEF Done
<1> QED BY <1>1, <1>2 DEF ResultInv

(* The steps of CMDataAvailable, on top of s.                               *)
LEMMA ReadResults ==
  ASSUME TypeOK, WaitInv, ResultInv, NEW t \in Threads,
         pc[t] \notin {"blocked", "resumed"},
         NEW s \in {stack[t], Pop(stack[t])},
         \/ ReadNext(t, s)
         \/ EndDispatch(t) /\ stack' = [stack EXCEPT ![t] = s]
  PROVE  ResultInv'
<1>1. ASSUME NEW x, x # "resumed", conds' = conds, pc' = [pc EXCEPT ![t] = x],
             \A u \in Threads \ {t} : stack'[u] = stack[u]
      PROVE  ResultInv'
  BY <1>1, QuietResults DEF TypeOK
<1>2. ASSUME EndDispatch(t), stack' = [stack EXCEPT ![t] = s] PROVE ResultInv'
  BY <1>1, <1>2 DEF EndDispatch, TypeOK
<1>3. ASSUME NEW c \in Conditions, ReadResponse(t, s, c) PROVE ResultInv'
  BY <1>1, <1>3 DEF ReadResponse, TypeOK
<1>4. ASSUME NEW k \in Conns, ReadEof(t, s, k) PROVE ResultInv'
  <2>1. Marked(Dependents(k))
    BY <1>4, FailMarks DEF ReadEof
  <2>2. \E x \in {"user", "loop"} : pc' = [Trigger(Dependents(k)) EXCEPT ![t] = x]
    BY <1>4 DEF ReadEof
  <2>3. \A u \in Threads \ {t} : stack'[u] = stack[u]
    BY <1>4 DEF ReadEof, TypeOK
  <2>4. ResumedFor(Dependents(k))
    BY <2>2, <2>3, TriggerResumes
  <2> QED BY <2>1, <2>4, ResultsKept
<1>5. ASSUME ReadNext(t, s), net = <<>> PROVE ResultInv'
  BY <1>2, <1>5 DEF ReadNext
<1>6. ASSUME ReadNext(t, s), net # <<>> PROVE ResultInv'
  <2>1. ASSUME stack' = [stack EXCEPT ![t] = s], pc' = [pc EXCEPT ![t] = "loop"],
               conds' = conds
        PROVE  ResultInv'
    BY <1>1, <2>1 DEF TypeOK
  <2> QED BY <1>3, <1>4, <1>6, <2>1 DEF ReadNext
<1> QED BY <1>2, <1>5, <1>6

LEMMA StepResults ==
  TypeOK /\ WaitInv /\ ResultInv /\ NoSpuriousWakeups /\ [Next]_vars => ResultInv'
<1> SUFFICES ASSUME TypeOK, WaitInv, ResultInv, NoSpuriousWakeups, [Next]_vars
             PROVE  ResultInv'
  OBVIOUS
<1> USE DEF InUser, MayCall, LockFree
<1>0. conds \in [Conditions -> CondRecord] /\ pc \in [Threads -> PCs]
      /\ stack \in [Threads -> Seq(Frame)]
  BY DEF TypeOK, PCs
<1>1. ASSUME NEW t \in Threads, NEW k \in Conns \cup {NoConn}, ConditionGet(t, k) PROVE ResultInv'
  <2> DEFINE r == [Unused EXCEPT !.state = "live", !.owner = t, !.conn = k,
                                 !.failed = (k # NoConn) /\ connClosed[k]]
  <2>1. nextNum \in Conditions /\ conds' = [conds EXCEPT ![nextNum] = r]
        /\ pc' = pc /\ stack' = stack
    BY <1>1 DEF ConditionGet
  <2>2. r.result = "pending"
    BY DEF Unused
  <2> HIDE DEF r
  <2>3. conds'[nextNum].result = "pending"
        /\ \A c \in Conditions \ {nextNum} : conds'[c] = conds[c]
    BY <1>0, <2>1, <2>2
  <2>4. WaitResultSound'
    BY <2>3 DEF ResultInv, WaitResultSound
  <2>5. ResumedDone'
    <3> SUFFICES ASSUME NEW u \in Threads, pc[u] = "resumed" PROVE Done(Top(u).arg)'
      BY <2>1 DEF ResumedDone
    <3>1. Top(u).arg \in Conditions /\ Live(Top(u).arg)
      BY BlockedFrame DEF WaitInv, WaitedConditionLive, Top, WaitKinds
    <3>2. ~Live(nextNum)
      BY <2>1, ControlAssumption DEF WaitInv, FreshUnused, Live, Conditions
    <3> QED BY <2>1, <2>3, <3>1, <3>2 DEF ResultInv, ResumedDone, Done, Top
  <2> QED BY <2>4, <2>5 DEF ResultInv
<1>2. ASSUME NEW t \in Threads, NEW c \in Conditions, AppSignal(t, c) PROVE ResultInv'
  BY <1>2, SignalMarks, SignalResumes, ResultsKept DEF AppSignal
<1>3. ASSUME NEW t \in Threads, NEW c \in Conditions, ConditionFail(t, c) PROVE ResultInv'
  <2>1. conds' = [conds EXCEPT ![c].failed = TRUE]
    BY <1>3 DEF ConditionFail
  <2>2. \A d \in Conditions \ {c} : conds'[d] = conds[d]
    BY <1>0, <2>1
  <2>3. conds'[c] = [conds[c] EXCEPT !.failed = TRUE]
    BY <1>0, <2>1
  <2>4. /\ conds'[c].state = conds[c].state /\ conds'[c].conn = conds[c].conn
        /\ conds'[c].result = conds[c].result /\ conds'[c].signaled = conds[c].signaled
        /\ conds'[c].failed
    BY <1>0, <2>3 DEF CondRecord
  <2>5. Marked({c})
    BY <2>2, <2>4 DEF Marked, Done
  <2>6. ResumedFor({c})
    BY <1>3 DEF ConditionFail, ResumedFor, Trigger, TypeOK
  <2> QED BY <2>5, <2>6, ResultsKept
<1>4. ASSUME NEW t \in Threads, ForkCommThread(t) PROVE ResultInv'
  <2>1. CommThread \in Threads
    BY DEF Threads
  <2> QED BY <1>0, <1>4, <2>1, QuietResults DEF ForkCommThread, Push
<1>5. ASSUME NEW t \in Threads, RunNetwork(t) PROVE ResultInv'
  BY <1>0, <1>5, QuietResults DEF RunNetwork, Push
<1>6. ASSUME NEW t \in Threads, NEW k \in Conns, ConnectionClose(t, k) PROVE ResultInv'
  BY <1>0, <1>6, QuietResults DEF ConnectionClose
<1>7. ASSUME NEW t \in Threads, CManagerClose(t) PROVE ResultInv'
  BY <1>0, <1>7, QuietResults DEF CManagerClose
<1>8. ASSUME NEW t \in Threads, NEW c \in Conditions, WaitAlreadyDone(t, c) PROVE ResultInv'
  <2>1. \A d \in Conditions \ {c} : conds'[d] = conds[d]
    BY <1>0, <1>8 DEF WaitAlreadyDone
  <2>2. conds'[c] = [conds[c] EXCEPT !.result = IF conds[c].signaled THEN "signaled"
                                                ELSE "failed"]
    BY <1>0, <1>8 DEF WaitAlreadyDone
  <2>3. /\ conds'[c].signaled = conds[c].signaled /\ conds'[c].failed = conds[c].failed
        /\ conds'[c].result = IF conds[c].signaled THEN "signaled" ELSE "failed"
    BY <1>0, <2>2 DEF CondRecord
  <2>4. conds'[c].failed = (conds[c].failed \/ FALSE)
    BY <1>0, <2>3 DEF CondRecord
  <2>5. pc'[t] # "resumed" /\ \A u \in Threads \ {t} : pc'[u] = pc[u] /\ stack'[u] = stack[u]
    BY <1>8 DEF WaitAlreadyDone, MayWait
  <2>6. Done(c)
    BY <1>8 DEF WaitAlreadyDone
  <2> QED BY <2>1, <2>3, <2>4, <2>5, <2>6, WaitResults
<1>9. ASSUME NEW t \in Threads, NEW c \in Conditions, WaitPolling(t, c) PROVE ResultInv'
  <2>1. Marked({})
    <3>1. \A d \in Conditions \ {c} : conds'[d] = conds[d]
      BY <1>0, <1>9 DEF WaitPolling
    <3>2. conds'[c] = [conds[c] EXCEPT !.waiting = TRUE]
      BY <1>0, <1>9 DEF WaitPolling
    <3>3. /\ conds'[c].state = conds[c].state /\ conds'[c].conn = conds[c].conn
          /\ conds'[c].result = conds[c].result /\ conds'[c].signaled = conds[c].signaled
          /\ conds'[c].failed = conds[c].failed
      BY <1>0, <3>2 DEF CondRecord
    <3> QED BY <3>1, <3>3 DEF Marked
  <2>2. ResumedFor({})
    BY <1>0, <1>9 DEF WaitPolling, MayWait, Push, ResumedFor
  <2> QED BY <2>1, <2>2, ResultsKept
<1>10. ASSUME NEW t \in Threads, NEW c \in Conditions, WaitBlocking(t, c) PROVE ResultInv'
  <2>1. Marked({})
    <3>1. \A d \in Conditions \ {c} : conds'[d] = conds[d]
      BY <1>0, <1>10 DEF WaitBlocking
    <3>2. conds'[c] = [conds[c] EXCEPT !.waiting = TRUE]
      BY <1>0, <1>10 DEF WaitBlocking
    <3>3. /\ conds'[c].state = conds[c].state /\ conds'[c].conn = conds[c].conn
          /\ conds'[c].result = conds[c].result /\ conds'[c].signaled = conds[c].signaled
          /\ conds'[c].failed = conds[c].failed
      BY <1>0, <3>2 DEF CondRecord
    <3> QED BY <3>1, <3>3 DEF Marked
  <2>2. ResumedFor({})
    BY <1>0, <1>10 DEF WaitBlocking, MayWait, Push, ResumedFor
  <2> QED BY <2>1, <2>2, ResultsKept
<1>11. ASSUME NEW t \in Threads, SpuriousWakeup(t) PROVE ResultInv'
  BY <1>11 DEF SpuriousWakeup, NoSpuriousWakeups
<1>12. ASSUME NEW t \in Threads, ReturnFromBlocking(t) PROVE ResultInv'
  <2> DEFINE c == Top(t).arg
  <2>1. c \in Conditions /\ Done(c)
    BY <1>12, BlockedFrame DEF ReturnFromBlocking, WaitInv, ResultInv, ResumedDone
  <2>2. conds' = Finish(c)
    BY <1>12 DEF ReturnFromBlocking
  <2> HIDE DEF c
  <2>3. \A d \in Conditions \ {c} : conds'[d] = conds[d]
    BY <1>0, <2>2 DEF Finish
  <2>4. /\ conds'[c].signaled = conds[c].signaled /\ conds'[c].failed = conds[c].failed
        /\ conds'[c].result = IF conds[c].signaled THEN "signaled" ELSE "failed"
    BY <2>1, <2>2, FinishResult
  <2>5. pc'[t] # "resumed" /\ \A u \in Threads \ {t} : pc'[u] = pc[u] /\ stack'[u] = stack[u]
    BY <1>0, <1>12 DEF ReturnFromBlocking
  <2>6. conds[c].failed \in BOOLEAN
    BY <1>0, <2>1 DEF CondRecord
  <2> QED BY <2>1, <2>3, <2>4, <2>5, <2>6, WaitResults
<1>13. ASSUME NEW t \in Threads, Start(t) PROVE ResultInv'
  BY <1>0, <1>13, QuietResults DEF Start
<1>14. ASSUME NEW t \in Threads, LoopSelect(t) PROVE ResultInv'
  BY <1>0, <1>14, QuietResults DEF LoopSelect
<1>15. ASSUME NEW t \in Threads, LoopReturn(t) PROVE ResultInv'
  <2> DEFINE c == Top(t).arg
             b == closed /\ Top(t).kind = "server"
             f == Finish(c)
  <2>1. c \in Conditions /\ (Done(c) \/ b) /\ b \in BOOLEAN
    BY <1>15, TopProperties DEF LoopReturn, OnTop, WaitKinds, TypeOK
  <2>2. conds' = [f EXCEPT ![c].failed = @ \/ b] /\ f \in [Conditions -> CondRecord]
    BY <1>15, CondType DEF LoopReturn
  <2>3. \A d \in Conditions \ {c} : f[d] = conds[d]
    BY <1>0, FinishFrees, <2>1
  <2>4. /\ f[c].signaled = conds[c].signaled /\ f[c].failed = conds[c].failed
        /\ f[c].result = IF conds[c].signaled THEN "signaled" ELSE "failed"
    BY <2>1, FinishResult
  <2>5. pc'[t] # "resumed" /\ \A u \in Threads \ {t} : pc'[u] = pc[u] /\ stack'[u] = stack[u]
    BY <1>0, <1>15 DEF LoopReturn
  <2> HIDE DEF b, c, f
  <2>6. \A d \in Conditions \ {c} : conds'[d] = conds[d]
    BY <2>2, <2>3
  <2>7. conds'[c] = [f[c] EXCEPT !.failed = @ \/ b]
    BY <2>1, <2>2
  <2>8. /\ conds'[c].signaled = f[c].signaled /\ conds'[c].failed = (f[c].failed \/ b)
        /\ conds'[c].result = f[c].result
    BY <2>1, <2>2, <2>7 DEF CondRecord
  <2> QED BY <2>1, <2>4, <2>5, <2>6, <2>8, WaitResults
<1>16. ASSUME NEW t \in Threads, LoopSpin(t) PROVE ResultInv'
  BY <1>0, <1>16, QuietResults DEF LoopSpin
<1>17. ASSUME NEW t \in Threads, LoopClosed(t) PROVE ResultInv'
  BY <1>0, <1>17, QuietResults DEF LoopClosed
<1>18. ASSUME NEW t \in Threads, SelectReturns(t) PROVE ResultInv'
  BY <1>0, <1>18, QuietResults DEF SelectReturns
<1>19. ASSUME NEW t \in Threads, AfterSelect(t) PROVE ResultInv'
  BY <1>0, <1>19, QuietResults DEF AfterSelect
<1>20. ASSUME NEW t \in Threads, Dispatch(t) PROVE ResultInv'
  <2>1. \/ ReadNext(t, stack[t])
        \/ EndDispatch(t) /\ stack' = [stack EXCEPT ![t] = stack[t]]
    BY <1>0, <1>20 DEF Dispatch
  <2> QED BY <1>20, <2>1, ReadResults DEF Dispatch
<1>21. ASSUME NEW t \in Threads, HandlerSignal(t) PROVE ResultInv'
  <2>1. Top(t).arg \in Conditions /\ SignalEffect(Top(t).arg)
    BY <1>21, TopProperties DEF HandlerSignal, OnTop
  <2>2. \A u \in Threads : pc[u] \in {"blocked", "resumed"} => stack'[u] = stack[u]
    BY <1>0, <1>21 DEF HandlerSignal
  <2> QED BY <2>1, <2>2, SignalMarks, SignalResumes, ResultsKept
<1>22. ASSUME NEW t \in Threads, HandlerReturn(t) PROVE ResultInv'
  BY <1>22, ReadResults DEF HandlerReturn
<1>23. ASSUME NEW t \in Threads, CloseHandlerReturn(t) PROVE ResultInv'
  BY <1>0, <1>23, QuietResults DEF CloseHandlerReturn
<1>24. ASSUME NEW t \in Threads, Join(t) PROVE ResultInv'
  BY <1>0, <1>24, QuietResults DEF Join
<1>25. ASSUME NEW t \in Threads, CloseConns(t) PROVE ResultInv'
  <2>1. CASE \E k \in cmConns : connFailed[k]
    BY <1>0, <1>25, <2>1, QuietResults DEF CloseConns
  <2>2. CASE ~\E k \in cmConns : connFailed[k]
    <3> DEFINE hit == UNION {Dependents(k) : k \in cmConns}
    <3>1. /\ conds' = [c \in Conditions |-> [conds[c] EXCEPT !.failed = @ \/ c \in hit]]
          /\ pc' = [Trigger(hit) EXCEPT ![t] = AfterClose(t)]
          /\ stack' = stack /\ pc[t] = "closeconns"
      BY <1>25, <2>2 DEF CloseConns
    <3> HIDE DEF hit
    <3>2. AfterClose(t) # "resumed"
      BY DEF AfterClose
    <3> QED BY <3>1, <3>2, FailMarks, TriggerResumes, ResultsKept
  <2> QED BY <2>1, <2>2
<1>26. ASSUME Network PROVE ResultInv'
  <2>1. Marked({}) /\ ResumedFor({})
    BY <1>26 DEF Network, ResponseArrives, EofArrives, Marked, ResumedFor
  <2> QED BY <2>1, ResultsKept
<1>27. ASSUME UNCHANGED vars PROVE ResultInv'
  <2>1. Marked({}) /\ ResumedFor({})
    BY <1>27 DEF vars, Marked, ResumedFor
  <2> QED BY <2>1, ResultsKept
<1> QED
  BY <1>1, <1>2, <1>3, <1>4, <1>5, <1>6, <1>7, <1>8, <1>9, <1>10,
     <1>11, <1>12, <1>13, <1>14, <1>15, <1>16, <1>17, <1>18, <1>19,
     <1>20, <1>21, <1>22, <1>23, <1>24, <1>25, <1>26, <1>27
  DEF Next, AppCall, AppWait, Run

LEMMA InitResults == Init => ResultInv
BY DEF Init, ResultInv, WaitResultSound, ResumedDone, Unused

(* Where no thread leaves the pthread condition wait without a signal,      *)
(* CMCondition_wait reports a signal only for a condition that was signaled *)
(* and a failure only for one that failed.                                  *)
THEOREM WaitResultsSound == ASSUME NoSpuriousWakeups PROVE Spec => []WaitResultSound
<1>1. Init => ResultInv
  BY InitResults
<1>2. TypeOK /\ WaitInv /\ ResultInv /\ [Next]_vars => ResultInv'
  BY StepResults
<1>3. ResultInv => WaitResultSound
  BY DEF ResultInv
<1> QED BY <1>1, <1>2, <1>3, TypeCorrect, WaitInvariant, PTL DEF Spec

(* No step puts the frame of a close handler on a stack.                    *)
LEMMA NoClosing ==
  ASSUME TypeOK, DeadInv, NEW t \in Threads, NEW s \in {stack[t], Pop(stack[t])},
         NEW f \in Frame, f.kind # "closing",
         stack' \in {stack, [stack EXCEPT ![t] = s], [stack EXCEPT ![t] = Append(s, f)]}
  PROVE  \A u \in Threads : "closing" \notin FrameKinds(stack'[u])
<1>1. stack \in [Threads -> Seq(Frame)] /\ stack[t] \in Seq(Frame)
  BY DEF TypeOK
<1>2. "closing" \notin FrameKinds(s) /\ "closing" \notin FrameKinds(Append(s, f))
  BY <1>1, FrameKindsStep DEF DeadInv
<1>3. stack'[t] \in {stack[t], s, Append(s, f)}
      /\ \A u \in Threads \ {t} : stack'[u] = stack[u]
  BY <1>1
<1> QED BY <1>2, <1>3 DEF DeadInv

(* A step that keeps the connections, and the conditions or marks on them.  *)
LEMMA DeadKept ==
  ASSUME TypeOK, DeadInv, UNCHANGED <<connFailed, connClosed>>,
         \A c \in Conditions :
           \/ conds'[c].state = "freed"
           \/ /\ conds'[c].state = conds[c].state /\ conds'[c].conn = conds[c].conn
              /\ conds[c].failed => conds'[c].failed,
         \A u \in Threads : "closing" \notin FrameKinds(stack'[u])
  PROVE  DeadInv'
<1>1. DependentConditionsFail'
  <2> SUFFICES ASSUME NEW c \in Conditions, conds'[c].state = "live",
                      conds'[c].conn \in Conns,
                      connFailed[conds'[c].conn] \/ connClosed[conds'[c].conn]
               PROVE  conds'[c].failed
    BY DEF DependentConditionsFail, Live
  <2>1. /\ conds'[c].state = conds[c].state /\ conds'[c].conn = conds[c].conn
        /\ conds[c].failed => conds'[c].failed
    OBVIOUS
  <2> QED BY <2>1 DEF DeadInv, DependentConditionsFail, Live
<1> QED BY <1>1 DEF DeadInv

LEMMA DeadMarked ==
  ASSUME TypeOK, DeadInv, NEW S, Marked(S), UNCHANGED <<connFailed, connClosed>>,
         \A u \in Threads : "closing" \notin FrameKinds(stack'[u])
  PROVE  DeadInv'
BY DeadKept DEF Marked

LEMMA DeadQuiet ==
  ASSUME TypeOK, DeadInv, UNCHANGED <<conds, connFailed, connClosed>>,
         \A u \in Threads : "closing" \notin FrameKinds(stack'[u])
  PROVE  DeadInv'
BY DeadKept

(* The connections of K fail and are closed, with all their conditions.     *)
LEMMA DeadMore ==
  ASSUME TypeOK, DeadInv, NEW K, NEW S,
         \A k \in K : Dependents(k) \subseteq S,
         connClosed' = connFailed',
         \A k \in Conns : connFailed'[k] => connFailed[k] \/ k \in K,
         conds' = [c \in Conditions |-> [conds[c] EXCEPT !.failed = @ \/ c \in S]],
         \A u \in Threads : "closing" \notin FrameKinds(stack'[u])
  PROVE  DeadInv'
<1>1. DependentConditionsFail'
  <2> SUFFICES ASSUME NEW c \in Conditions, conds'[c].state = "live",
                      conds'[c].conn \in Conns, connFailed'[conds'[c].conn]
               PROVE  conds'[c].failed
    BY DEF DependentConditionsFail, Live
  <2>1. /\ Live(c) /\ conds'[c].conn = conds[c].conn
        /\ conds[c].failed => conds'[c].failed
        /\ c \in S => conds'[c].failed
    BY FailMarks DEF Marked, Live
  <2>2. CASE connFailed[conds[c].conn]
    BY <2>1, <2>2 DEF DeadInv, DependentConditionsFail
  <2>3. CASE conds[c].conn \in K
    BY <2>1, <2>3 DEF Dependents
  <2> QED BY <2>1, <2>2, <2>3
<1> QED BY <1>1 DEF DeadInv

(* The steps of CMDataAvailable, on top of s.                               *)
LEMMA ReadDead ==
  ASSUME TypeOK, DeadInv, ConnsDieAtOnce, NEW t \in Threads,
         NEW s \in {stack[t], Pop(stack[t])},
         \/ ReadNext(t, s)
         \/ EndDispatch(t) /\ stack' = [stack EXCEPT ![t] = s]
  PROVE  DeadInv'
<1>1. ASSUME UNCHANGED <<conds, connFailed, connClosed>>, stack' = [stack EXCEPT ![t] = s]
      PROVE  DeadInv'
  BY <1>1, NoClosing, FrameType, DeadQuiet
<1>2. ASSUME EndDispatch(t), stack' = [stack EXCEPT ![t] = s] PROVE DeadInv'
  BY <1>1, <1>2 DEF EndDispatch
<1>3. ASSUME NEW c \in Conditions, ReadResponse(t, s, c) PROVE DeadInv'
  <2> DEFINE f == [kind |-> "handler", arg |-> c]
  <2>1. f \in Frame /\ f.kind # "closing"
    BY FrameType
  <2>2. /\ stack' = [stack EXCEPT ![t] = Append(s, f)]
        /\ UNCHANGED <<conds, connFailed, connClosed>>
    BY <1>3 DEF ReadResponse
  <2> HIDE DEF f
  <2> QED BY <2>1, <2>2, NoClosing, DeadQuiet
<1>4. ASSUME NEW k \in Conns, ReadEof(t, s, k) PROVE DeadInv'
  <2>1. /\ connFailed' = [connFailed EXCEPT ![k] = TRUE]
        /\ connClosed' = [connClosed EXCEPT ![k] = TRUE]
        /\ conds' = [c \in Conditions |->
                       [conds[c] EXCEPT !.failed = @ \/ c \in Dependents(k)]]
        /\ stack' = [stack EXCEPT ![t] = s]
    BY <1>4 DEF ReadEof, ConnsDieAtOnce
  <2>2. connClosed' = connFailed'
    BY <2>1 DEF DeadInv
  <2>3. \A j \in Conns : connFailed'[j] => connFailed[j] \/ j \in {k}
    BY <2>1 DEF TypeOK
  <2>4. \A u \in Threads : "closing" \notin FrameKinds(stack'[u])
    BY <2>1, NoClosing, FrameType
  <2> QED BY <2>1, <2>2, <2>3, <2>4, DeadMore
<1>5. ASSUME ReadNext(t, s), net = <<>> PROVE DeadInv'
  BY <1>2, <1>5 DEF ReadNext
<1>6. ASSUME ReadNext(t, s), net # <<>> PROVE DeadInv'
  BY <1>1, <1>3, <1>4, <1>6 DEF ReadNext
<1> QED BY <1>2, <1>5, <1>6

LEMMA StepDead ==
  TypeOK /\ WaitInv /\ DeadInv /\ ConnsDieAtOnce /\ [Next]_vars => DeadInv'
<1> SUFFICES ASSUME TypeOK, WaitInv, DeadInv, ConnsDieAtOnce, [Next]_vars PROVE DeadInv'
  OBVIOUS
<1> USE DEF InUser, MayCall, LockFree
<1>0. /\ conds \in [Conditions -> CondRecord] /\ stack \in [Threads -> Seq(Frame)]
      /\ \A u \in Threads : "closing" \notin FrameKinds(stack[u])
  BY DEF TypeOK, DeadInv
<1>1. ASSUME NEW t \in Threads, NEW k \in Conns \cup {NoConn}, ConditionGet(t, k) PROVE DeadInv'
  <2> DEFINE r == [Unused EXCEPT !.state = "live", !.owner = t, !.conn = k,
                                 !.failed = (k # NoConn) /\ connClosed[k]]
  <2>1. /\ nextNum \in Conditions /\ conds' = [conds EXCEPT ![nextNum] = r]
        /\ UNCHANGED <<connFailed, connClosed, stack>>
    BY <1>1 DEF ConditionGet
  <2>2. r.conn = k /\ (k \in Conns /\ connClosed[k] => r.failed)
    BY ControlAssumption DEF Unused
  <2> HIDE DEF r
  <2>3. conds'[nextNum] = r /\ \A c \in Conditions \ {nextNum} : conds'[c] = conds[c]
    BY <1>0, <2>1
  <2>4. DependentConditionsFail'
    <3> SUFFICES ASSUME NEW c \in Conditions, conds'[c].state = "live",
                        conds'[c].conn \in Conns,
                        connFailed[conds'[c].conn] \/ connClosed[conds'[c].conn]
                 PROVE  conds'[c].failed
      BY <2>1 DEF DependentConditionsFail, Live
    <3>1. connClosed[conds'[c].conn]
      BY DEF DeadInv
    <3>2. CASE c = nextNum
      BY <2>2, <2>3, <3>1, <3>2
    <3>3. CASE c # nextNum
      BY <2>3, <3>3 DEF DeadInv, DependentConditionsFail, Live
    <3> QED BY <3>2, <3>3
  <2> QED BY <2>1, <2>4 DEF DeadInv
<1>2. ASSUME NEW t \in Threads, NEW c \in Conditions, AppSignal(t, c) PROVE DeadInv'
  BY <1>0, <1>2, SignalMarks, DeadMarked DEF AppSignal
<1>3. ASSUME NEW t \in Threads, NEW c \in Conditions, ConditionFail(t, c) PROVE DeadInv'
  <2>1. \A d \in Conditions \ {c} : conds'[d] = conds[d]
    BY <1>0, <1>3 DEF ConditionFail
  <2>2. conds'[c] = [conds[c] EXCEPT !.failed = TRUE]
    BY <1>0, <1>3 DEF ConditionFail
  <2>3. /\ conds'[c].state = conds[c].state /\ conds'[c].conn = conds[c].conn
        /\ conds'[c].failed
    BY <1>0, <2>2 DEF CondRecord
  <2> QED BY <1>0, <1>3, <2>1, <2>3, DeadKept DEF ConditionFail
<1>4. ASSUME NEW t \in Threads, ForkCommThread(t) PROVE DeadInv'
  <2>1. CommThread \in Threads
    BY DEF Threads
  <2>2. \A u \in Threads : "closing" \notin FrameKinds(stack'[u])
    BY <1>4, <2>1, FrameType, NoClosing DEF ForkCommThread, Push
  <2> QED BY <1>4, <2>2, DeadQuiet DEF ForkCommThread
<1>5. ASSUME NEW t \in Threads, RunNetwork(t) PROVE DeadInv'
  <2>1. \A u \in Threads : "closing" \notin FrameKinds(stack'[u])
    BY <1>5, FrameType, NoClosing DEF RunNetwork, Push
  <2> QED BY <1>5, <2>1, DeadQuiet DEF RunNetwork
<1>6. ASSUME NEW t \in Threads, NEW k \in Conns, ConnectionClose(t, k) PROVE DeadInv'
  BY <1>6 DEF ConnectionClose, ConnsDieAtOnce
<1>7. ASSUME NEW t \in Threads, CManagerClose(t) PROVE DeadInv'
  BY <1>0, <1>7, DeadQuiet DEF CManagerClose
<1>8. ASSUME NEW t \in Threads, NEW c \in Conditions, WaitAlreadyDone(t, c) PROVE DeadInv'
  <2>1. \A d \in Conditions \ {c} : conds'[d] = conds[d]
    BY <1>0, <1>8 DEF WaitAlreadyDone
  <2>2. conds'[c] = [conds[c] EXCEPT !.result = IF conds[c].signaled THEN "signaled"
                                                ELSE "failed"]
    BY <1>0, <1>8 DEF WaitAlreadyDone
  <2>3. /\ conds'[c].state = conds[c].state /\ conds'[c].conn = conds[c].conn
        /\ conds'[c].failed = conds[c].failed
    BY <1>0, <2>2 DEF CondRecord
  <2> QED BY <1>0, <1>8, <2>1, <2>3, DeadKept DEF WaitAlreadyDone
<1>9. ASSUME NEW t \in Threads, NEW c \in Conditions, NEW f \in Frame, f.kind # "closing",
             conds' = [conds EXCEPT ![c].waiting = TRUE],
             UNCHANGED <<connFailed, connClosed>>,
             stack' = [stack EXCEPT ![t] = Append(stack[t], f)]
      PROVE  DeadInv'
  <2>1. \A d \in Conditions \ {c} : conds'[d] = conds[d]
    BY <1>0, <1>9
  <2>2. conds'[c] = [conds[c] EXCEPT !.waiting = TRUE]
    BY <1>0, <1>9
  <2>3. /\ conds'[c].state = conds[c].state /\ conds'[c].conn = conds[c].conn
        /\ conds'[c].failed = conds[c].failed
    BY <1>0, <2>2 DEF CondRecord
  <2>4. \A u \in Threads : "closing" \notin FrameKinds(stack'[u])
    BY <1>9, NoClosing
  <2> QED BY <1>9, <2>1, <2>3, <2>4, DeadKept
<1>10. ASSUME NEW t \in Threads, NEW c \in Conditions,
              WaitPolling(t, c) \/ WaitBlocking(t, c)
       PROVE  DeadInv'
  <2>1. PICK kind \in WaitKinds :
          stack' = [stack EXCEPT ![t] = Append(@, [kind |-> kind, arg |-> c])]
    BY <1>10 DEF WaitPolling, WaitBlocking, Push, WaitKinds
  <2> DEFINE f == [kind |-> kind, arg |-> c]
  <2>2. f \in Frame /\ f.kind # "closing"
    BY FrameType DEF WaitKinds
  <2>3. stack' = [stack EXCEPT ![t] = Append(stack[t], f)]
    BY <2>1
  <2> HIDE DEF f
  <2>4. /\ conds' = [conds EXCEPT ![c].waiting = TRUE]
        /\ UNCHANGED <<connFailed, connClosed>>
    BY <1>10 DEF WaitPolling, WaitBlocking
  <2> QED BY <1>9, <2>2, <2>3, <2>4
<1>11. ASSUME NEW t \in Threads, SpuriousWakeup(t) PROVE DeadInv'
  BY <1>0, <1>11, DeadQuiet DEF SpuriousWakeup
<1>12. ASSUME NEW t \in Threads, NEW c, conds'[c].state = "freed",
              \A d \in Conditions \ {c} : conds'[d] = conds[d],
              UNCHANGED <<connFailed, connClosed>>,
              stack' = [stack EXCEPT ![t] = Pop(stack[t])]
       PROVE  DeadInv'
  <2>1. \A u \in Threads : "closing" \notin FrameKinds(stack'[u])
    BY <1>12, FrameType, NoClosing
  <2> QED BY <1>12, <2>1, DeadKept
<1>13. ASSUME NEW t \in Threads, ReturnFromBlocking(t) PROVE DeadInv'
  <2> DEFINE c == Top(t).arg
  <2>1. c \in Conditions /\ conds' = Finish(c)
    BY <1>13, BlockedFrame DEF ReturnFromBlocking, WaitInv
  <2>2. UNCHANGED <<connFailed, connClosed>> /\ stack' = [stack EXCEPT ![t] = Pop(stack[t])]
    BY <1>13 DEF ReturnFromBlocking
  <2> HIDE DEF c
  <2> QED BY <1>12, <2>1, <2>2, FinishFrees
<1>14. ASSUME NEW t \in Threads, LoopReturn(t) PROVE DeadInv'
  <2> DEFINE c == Top(t).arg
             b == closed /\ Top(t).kind = "server"
             f == Finish(c)
  <2>1. c \in Conditions
    BY <1>14, TopProperties DEF LoopReturn, OnTop, WaitKinds
  <2>2. conds' = [f EXCEPT ![c].failed = @ \/ b] /\ f \in [Conditions -> CondRecord]
    BY <1>14, CondType DEF LoopReturn
  <2>3. f[c].state = "freed" /\ \A d \in Conditions \ {c} : f[d] = conds[d]
    BY <2>1, FinishFrees
  <2>4. UNCHANGED <<connFailed, connClosed>> /\ stack' = [stack EXCEPT ![t] = Pop(stack[t])]
    BY <1>14 DEF LoopReturn
  <2> HIDE DEF b, c, f
  <2>5. \A d \in Conditions \ {c} : conds'[d] = conds[d]
    BY <2>2, <2>3
  <2>6. conds'[c] = [f[c] EXCEPT !.failed = @ \/ b]
    BY <2>1, <2>2
  <2>7. conds'[c].state = "freed"
    BY <2>1, <2>2, <2>3, <2>6 DEF CondRecord
  <2> QED BY <1>12, <2>4, <2>5, <2>7
<1>15. ASSUME NEW t \in Threads,
              Start(t) \/ LoopSelect(t) \/ LoopSpin(t) \/ LoopClosed(t)
              \/ SelectReturns(t) \/ AfterSelect(t) \/ Join(t)
       PROVE  DeadInv'
  <2>1. UNCHANGED <<conds, connFailed, connClosed, stack>>
    BY <1>15 DEF Start, LoopSelect, LoopSpin, LoopClosed, SelectReturns, AfterSelect, Join
  <2> QED BY <1>0, <2>1, DeadQuiet
<1>16. ASSUME NEW t \in Threads, Dispatch(t) PROVE DeadInv'
  <2>1. \/ ReadNext(t, stack[t])
        \/ EndDispatch(t) /\ stack' = [stack EXCEPT ![t] = stack[t]]
    BY <1>0, <1>16 DEF Dispatch
  <2> QED BY <2>1, ReadDead
<1>17. ASSUME NEW t \in Threads, HandlerSignal(t) PROVE DeadInv'
  <2>1. Top(t).arg \in Conditions /\ stack[t] # <<>> /\ Top(t).kind = "handler"
    BY <1>17, TopProperties DEF HandlerSignal, OnTop
  <2> DEFINE f == [Top(t) EXCEPT !.kind = "replied"]
  <2>2. f \in Frame /\ f.kind # "closing"
    BY <2>1, TopProperties DEF Frame, WaitKinds
  <2>3. /\ SignalEffect(Top(t).arg) /\ UNCHANGED <<connFailed, connClosed>>
        /\ stack' = [stack EXCEPT ![t] = Append(Pop(stack[t]), f)]
    BY <1>17 DEF HandlerSignal
  <2> HIDE DEF f
  <2>4. \A u \in Threads : "closing" \notin FrameKinds(stack'[u])
    BY <2>2, <2>3, NoClosing
  <2> QED BY <2>1, <2>3, <2>4, SignalMarks, DeadMarked
<1>18. ASSUME NEW t \in Threads, HandlerReturn(t) PROVE DeadInv'
  BY <1>18, ReadDead DEF HandlerReturn
<1>19. ASSUME NEW t \in Threads, CloseHandlerReturn(t) PROVE DeadInv'
  BY <1>0, <1>19, TopKind DEF CloseHandlerReturn, OnTop
<1>20. ASSUME NEW t \in Threads, CloseConns(t) PROVE DeadInv'
  <2>1. CASE \E k \in cmConns : connFailed[k]
    BY <1>0, <1>20, <2>1, DeadQuiet DEF CloseConns
  <2>2. CASE ~\E k \in cmConns : connFailed[k]
    <3> DEFINE hit == UNION {Dependents(k) : k \in cmConns}
    <3>1. /\ conds' = [c \in Conditions |-> [conds[c] EXCEPT !.failed = @ \/ c \in hit]]
          /\ connFailed' = [k \in Conns |-> connFailed[k] \/ k \in cmConns]
          /\ connClosed' = [k \in Conns |-> connClosed[k] \/ k \in cmConns]
          /\ stack' = stack
      BY <1>20, <2>2 DEF CloseConns
    <3>2. \A k \in cmConns : Dependents(k) \subseteq hit
      OBVIOUS
    <3>3. connClosed' = connFailed'
      BY <3>1 DEF DeadInv
    <3> HIDE DEF hit
    <3> QED BY <1>0, <3>1, <3>2, <3>3, DeadMore
  <2> QED BY <2>1, <2>2
<1>21. ASSUME Network PROVE DeadInv'
  BY <1>0, <1>21, DeadQuiet DEF Network, ResponseArrives, EofArrives
<1>22. ASSUME UNCHANGED vars PROVE DeadInv'
  BY <1>0, <1>22, DeadQuiet DEF vars
<1> QED
  BY <1>1, <1>2, <1>3, <1>4, <1>5, <1>6, <1>7, <1>8, <1>10,
     <1>11, <1>13, <1>14, <1>15, <1>16, <1>17, <1>18, <1>19, <1>20, <1>21, <1>22
  DEF Next, AppCall, AppWait, Run

LEMMA InitDead == Init => DeadInv
<1> SUFFICES ASSUME Init PROVE DeadInv
  OBVIOUS
<1>1. connClosed = connFailed /\ DependentConditionsFail
  BY DEF Init, DependentConditionsFail, Unused, Live
<1>2. ASSUME NEW u \in Threads PROVE "closing" \notin FrameKinds(stack[u])
  <2>1. stack[u] \in {<<>>, <<[kind |-> "forever", arg |-> 0]>>}
    BY DEF Init
  <2> QED BY <2>1 DEF FrameKinds
<1> QED BY <1>1, <1>2 DEF DeadInv

(* Where besides every connection that fails is closed at once, a condition *)
(* that depends on a dead connection is marked as failed, whenever it was   *)
(* allocated (CMconn_fail_conditions, INT_CMCondition_get).                 *)
THEOREM ResultsAreSound ==
  ASSUME NoSpuriousWakeups, ConnsDieAtOnce PROVE Spec => []ResultsSound
<1>1. Init => DeadInv
  BY InitDead
<1>2. TypeOK /\ WaitInv /\ DeadInv /\ [Next]_vars => DeadInv'
  BY StepDead
<1>3. DeadInv => DependentConditionsFail
  BY DEF DeadInv
<1>4. Spec => []DependentConditionsFail
  BY <1>1, <1>2, <1>3, TypeCorrect, WaitInvariant, PTL DEF Spec
<1>5. DependentConditionsFail /\ WaitResultSound => ResultsSound
  BY DEF ResultsSound
<1> QED BY <1>4, <1>5, WaitResultsSound, PTL
-----------------------------------------------------------------------------
(* The close of a CManager that has a comm thread.                         *)

(* No connection is in the middle of its close handlers when the loop of    *)
(* INT_CManager_close comes to it.                                          *)
NoCloseHandlers == CloseHandled = {}

(* The inductive invariant: one thread closes the CManager, the handle it   *)
(* joins is there until it has joined, and a connection that failed is no   *)
(* longer in the CManager's list.                                           *)
CloseInv ==
  /\ CloseSafe
  /\ \A k \in cmConns : ~connFailed[k]
  /\ ~closed => serverHandle = CommThread
  /\ \A t \in Threads : pc[t] = "join" => closed /\ serverHandle = CommThread
  /\ \A t, u \in Threads : pc[t] = "join" /\ pc[u] = "join" => t = u

LEMMA CloseQuiet ==
  ASSUME TypeOK, CloseInv, UNCHANGED <<closed, serverHandle>>,
         \A u \in Threads : pc'[u] = pc[u] \/ pc'[u] \notin {"join", "spin", "crashed"},
         \A k \in cmConns' : k \in cmConns /\ ~connFailed'[k]
  PROVE  CloseInv'
BY DEF CloseInv, CloseSafe

LEMMA SignalClose ==
  ASSUME TypeOK, NEW c, SignalEffect(c)
  PROVE  \A u \in Threads : pc'[u] = pc[u] \/ pc'[u] \notin {"join", "spin", "crashed"}
BY SignalStep

(* The steps of CMDataAvailable, on top of s.                               *)
LEMMA ReadClose ==
  ASSUME TypeOK, CloseInv, NoCloseHandlers, NEW t \in Threads, NEW s,
         ReadNext(t, s) \/ EndDispatch(t), UNCHANGED <<closed, serverHandle>>
  PROVE  CloseInv'
<1>0. pc \in [Threads -> PCs] /\ connFailed \in [Conns -> BOOLEAN] /\ cmConns \subseteq Conns
  BY DEF TypeOK, PCs
<1>1. ASSUME UNCHANGED connVars, NEW x \in {"user", "loop"}, pc' = [pc EXCEPT ![t] = x]
      PROVE  CloseInv'
  BY <1>0, <1>1, CloseQuiet DEF CloseInv
<1>2. ASSUME EndDispatch(t) PROVE CloseInv'
  BY <1>1, <1>2 DEF EndDispatch
<1>3. ASSUME NEW c, ReadResponse(t, s, c) PROVE CloseInv'
  BY <1>1, <1>3 DEF ReadResponse
<1>4. ASSUME NEW k \in Conns, ReadEof(t, s, k) PROVE CloseInv'
  <2>1. /\ connFailed' = [connFailed EXCEPT ![k] = TRUE] /\ cmConns' = cmConns \ {k}
        /\ pc' = [Trigger(Dependents(k)) EXCEPT ![t] = "loop"]
    BY <1>4 DEF ReadEof, NoCloseHandlers
  <2>2. \A j \in cmConns' : j \in cmConns /\ ~connFailed'[j]
    BY <1>0, <2>1 DEF CloseInv
  <2>3. \A u \in Threads : pc'[u] = pc[u] \/ pc'[u] \notin {"join", "spin", "crashed"}
    BY <1>0, <2>1 DEF Trigger
  <2> QED BY <2>2, <2>3, CloseQuiet
<1> QED BY <1>1, <1>2, <1>3, <1>4 DEF ReadNext

LEMMA StepClose ==
  TypeOK /\ CommInv /\ CloseInv /\ CommThreadServes /\ NoCloseHandlers /\ [Next]_vars
    => CloseInv'
<1> SUFFICES ASSUME TypeOK, CommInv, CloseInv, CommThreadServes, NoCloseHandlers, [Next]_vars
             PROVE  CloseInv'
  OBVIOUS
<1> USE DEF InUser, MayCall, LockFree
<1>0. /\ pc \in [Threads -> PCs] /\ connFailed \in [Conns -> BOOLEAN]
      /\ CommThread \in Threads /\ \A k \in cmConns : ~connFailed[k]
  BY DEF TypeOK, PCs, CloseInv, Threads
<1>1. ASSUME NEW t \in Threads, NEW x, x \notin {"join", "spin", "crashed"},
             pc' = [pc EXCEPT ![t] = x] \/ pc' = pc,
             UNCHANGED <<closed, serverHandle, cmConns, connFailed>>
      PROVE  CloseInv'
  BY <1>0, <1>1, CloseQuiet
<1>2. ASSUME NEW t \in Threads,
             \/ \E k \in Conns \cup {NoConn} : ConditionGet(t, k)
             \/ \E c \in Conditions : WaitAlreadyDone(t, c)
             \/ \E k \in Conns : ConnectionClose(t, k)
             \/ \E c \in Conditions : WaitPolling(t, c) \/ WaitBlocking(t, c)
             \/ SpuriousWakeup(t) \/ ReturnFromBlocking(t) \/ Start(t)
             \/ LoopSelect(t) \/ LoopReturn(t) \/ LoopClosed(t) \/ SelectReturns(t)
      PROVE  CloseInv'
  <2>1. ASSUME NEW k, ConditionGet(t, k) \/ ConnectionClose(t, k) PROVE CloseInv'
    BY <1>1, <2>1 DEF ConditionGet, ConnectionClose
  <2>2. ASSUME NEW c, WaitAlreadyDone(t, c) \/ WaitPolling(t, c) \/ WaitBlocking(t, c)
        PROVE  CloseInv'
    BY <1>1, <2>2 DEF WaitAlreadyDone, WaitPolling, WaitBlocking
  <2>3. ASSUME SpuriousWakeup(t) \/ ReturnFromBlocking(t) \/ Start(t) PROVE CloseInv'
    BY <1>1, <2>3 DEF SpuriousWakeup, ReturnFromBlocking, Start
  <2>4. ASSUME LoopSelect(t) \/ LoopClosed(t) \/ SelectReturns(t) PROVE CloseInv'
    <3>1. ASSUME LoopSelect(t) PROVE CloseInv'
      BY <1>1, <3>1 DEF LoopSelect
    <3>2. ASSUME LoopClosed(t) PROVE CloseInv'
      BY <1>1, <3>2 DEF LoopClosed
    <3>3. ASSUME SelectReturns(t) PROVE CloseInv'
      <4>1. pc' = [pc EXCEPT ![t] = "ready"]
        BY <3>3 DEF SelectReturns
      <4>2. UNCHANGED <<closed, serverHandle, cmConns, connFailed>>
        BY <3>3 DEF SelectReturns, ctlVars, connVars
      <4> QED BY <1>1, <4>1, <4>2
    <3> QED BY <2>4, <3>1, <3>2, <3>3
  <2>5. ASSUME LoopReturn(t) PROVE CloseInv'
    <3>1. /\ pc' = [pc EXCEPT ![t] = "user"]
          /\ UNCHANGED <<closed, serverHandle, cmConns, connFailed>>
      BY <2>5, SMT DEF LoopReturn
    <3> QED BY <1>1, <3>1
  <2> QED BY <1>2, <2>1, <2>2, <2>3, <2>4, <2>5
<1>3. ASSUME NEW t \in Threads, NEW c \in Conditions, AppSignal(t, c) PROVE CloseInv'
  BY <1>0, <1>3, SignalClose, CloseQuiet DEF AppSignal
<1>4. ASSUME NEW t \in Threads, NEW c \in Conditions, ConditionFail(t, c) PROVE CloseInv'
  <2>1. \A u \in Threads : pc'[u] = pc[u] \/ pc'[u] \notin {"join", "spin", "crashed"}
    BY <1>4, TriggerStep DEF ConditionFail
  <2> QED BY <1>0, <1>4, <2>1, CloseQuiet DEF ConditionFail
<1>5. ASSUME NEW t \in Threads, ForkCommThread(t) PROVE CloseInv'
  BY <1>5 DEF ForkCommThread, CommInv
<1>6. ASSUME NEW t \in Threads, RunNetwork(t) PROVE CloseInv'
  BY <1>6 DEF RunNetwork, CommThreadServes
<1>7. ASSUME NEW t \in Threads, CManagerClose(t) PROVE CloseInv'
  <2>1. CASE MustJoin(t)
    <3>1. t # CommThread
      BY <2>1 DEF MustJoin, CommInv
    <3>2. ~closed
      <4>1. pc[t] # "closing"
        BY <3>1, AppThreadIdle DEF AppPCs
      <4> QED BY <1>7, <4>1 DEF CManagerClose
    <3>3. \A u \in Threads : pc[u] # "join"
      BY <3>2 DEF CloseInv
    <3>4. /\ pc' = [pc EXCEPT ![t] = "join"] /\ closed'
          /\ UNCHANGED <<serverHandle, cmConns, connFailed>>
      BY <1>7, <2>1 DEF CManagerClose
    <3> QED BY <1>0, <3>2, <3>3, <3>4 DEF CloseInv, CloseSafe
  <2>2. CASE ~MustJoin(t)
    <3>1. /\ pc' = [pc EXCEPT ![t] = "closeconns"] /\ closed'
          /\ UNCHANGED <<serverHandle, cmConns, connFailed>>
      BY <1>7, <2>2 DEF CManagerClose
    <3> QED BY <1>0, <3>1 DEF CloseInv, CloseSafe
  <2> QED BY <2>1, <2>2
<1>8. ASSUME NEW t \in Threads, LoopSpin(t) PROVE CloseInv'
  <2>1. t = CommThread
    BY <1>8, AppThreadIdle DEF LoopSpin, AppPCs
  <2> QED BY <1>8, <2>1, TopKind DEF LoopSpin, OnTop, CommInv
<1>9. ASSUME NEW t \in Threads, AfterSelect(t) PROVE CloseInv'
  <2>1. \E x \in {"loop", "stuck", "dispatch"} : pc' = [pc EXCEPT ![t] = x]
    BY <1>9 DEF AfterSelect
  <2> QED BY <1>1, <1>9, <2>1 DEF AfterSelect
<1>10. ASSUME NEW t \in Threads, Dispatch(t) PROVE CloseInv'
  BY <1>10, ReadClose DEF Dispatch
<1>11. ASSUME NEW t \in Threads, HandlerSignal(t) PROVE CloseInv'
  BY <1>0, <1>11, SignalClose, CloseQuiet DEF HandlerSignal
<1>12. ASSUME NEW t \in Threads, HandlerReturn(t) PROVE CloseInv'
  BY <1>12, ReadClose DEF HandlerReturn
<1>13. ASSUME NEW t \in Threads, CloseHandlerReturn(t) PROVE CloseInv'
  <2>1. /\ UNCHANGED <<connFailed, closed, serverHandle>> /\ cmConns' \subseteq cmConns
        /\ pc' = [pc EXCEPT ![t] = "loop"]
    BY <1>13 DEF CloseHandlerReturn
  <2> QED BY <1>0, <2>1, CloseQuiet
<1>14. ASSUME NEW t \in Threads, Join(t) PROVE CloseInv'
  <2>1. /\ pc[t] = "join" /\ closed /\ serverHandle # NoThread
        /\ \A u \in Threads \ {t} : pc[u] # "join"
    BY <1>14, ControlAssumption DEF Join, CloseInv, Threads
  <2>2. /\ pc' = [pc EXCEPT ![t] = "closeconns"]
        /\ UNCHANGED <<closed, cmConns, connFailed>>
    BY <1>14, <2>1 DEF Join
  <2> QED BY <1>0, <2>1, <2>2 DEF CloseInv, CloseSafe
<1>15. ASSUME NEW t \in Threads, CloseConns(t) PROVE CloseInv'
  <2>1. /\ cmConns' = {} /\ UNCHANGED <<closed, serverHandle>>
        /\ \E S : pc' = [Trigger(S) EXCEPT ![t] = AfterClose(t)]
    BY <1>0, <1>15 DEF CloseConns
  <2>2. AfterClose(t) \in {"exited", "user"}
    BY DEF AfterClose
  <2>3. \A u \in Threads : pc'[u] = pc[u] \/ pc'[u] \notin {"join", "spin", "crashed"}
    BY <1>0, <2>1, <2>2 DEF Trigger
  <2> QED BY <2>1, <2>3, CloseQuiet
<1>16. ASSUME Network PROVE CloseInv'
  BY <1>0, <1>16, CloseQuiet DEF Network, ResponseArrives, EofArrives
<1>17. ASSUME UNCHANGED vars PROVE CloseInv'
  BY <1>0, <1>17, CloseQuiet DEF vars
<1> QED
  BY <1>2, <1>3, <1>4, <1>5, <1>6, <1>7, <1>8, <1>9,
     <1>10, <1>11, <1>12, <1>13, <1>14, <1>15, <1>16, <1>17
  DEF Next, AppCall, AppWait, Run

LEMMA InitClose == Init /\ CommThreadServes => CloseInv
BY DEF Init, CommThreadServes, CloseInv, CloseSafe

(* In an application that forks the comm thread first, never calls          *)
(* CMrun_network and has no close handlers, the close of the CManager goes  *)
(* through its connections once and joins a thread that is there, whoever   *)
(* closes it, from wherever, while the comm thread is in whatever it does.  *)
THEOREM CloseIsSafe ==
  ASSUME CommThreadServes, NoCloseHandlers PROVE Spec => []CloseSafe
<1>1. Init => CloseInv
  BY InitClose
<1>2. TypeOK /\ CommInv /\ CloseInv /\ [Next]_vars => CloseInv'
  BY StepClose
<1>3. CloseInv => CloseSafe
  BY DEF CloseInv
<1> QED BY <1>1, <1>2, <1>3, TypeCorrect, CommInvariant, PTL DEF Spec
-----------------------------------------------------------------------------
(* The wake-up of a comm thread that waits.                                *)

(* No wait is made in an upcall that runs below another wait of the same    *)
(* thread: the return of the inner one would clear cond_polling while the   *)
(* outer one goes on.                                                       *)
WaitsDoNotNest == MaxDepth <= 1

OneWait(s) ==
  \A i, j \in DOMAIN s : s[i].kind \in WaitKinds /\ s[j].kind \in WaitKinds => i = j

(* The inductive invariant: cond_polling is set while the comm thread is in *)
(* a wait, so that whoever signals its condition writes to the wake pipe.   *)
WakeInv ==
  /\ OneWait(stack[CommThread])
  /\ FrameKinds(stack[CommThread]) \cap WaitKinds # {} => condPolling
  /\ pc[CommThread] = "select" /\ WaitsDone(CommThread) => pipe > 0

LEMMA WaitDepthZero ==
  ASSUME TypeOK, NEW t \in Threads
  PROVE  /\ WaitDepth(t) \in Nat
         /\ WaitDepth(t) < 1 => FrameKinds(stack[t]) \cap WaitKinds = {}
<1> DEFINE W == {i \in DOMAIN stack[t] : stack[t][i].kind \in WaitKinds}
<1>1. DOMAIN stack[t] = 1 .. Len(stack[t]) /\ Len(stack[t]) \in Nat
  BY LenProperties DEF TypeOK
<1>2. IsFiniteSet(W)
  <2>1. \A n \in Nat : IsFiniteSet(1 .. n)
    BY FS_Interval
  <2>2. IsFiniteSet(1 .. Len(stack[t])) /\ W \subseteq 1 .. Len(stack[t])
    BY <1>1, <2>1
  <2> QED BY <2>2, FS_Subset
<1>3. Cardinality(W) \in Nat /\ WaitDepth(t) = Cardinality(W)
  BY <1>2, FS_CardinalityType DEF WaitDepth
<1>4. Cardinality(W) < 1 => W = {}
  BY <1>2, <1>3, FS_EmptySet
<1> QED BY <1>3, <1>4 DEF FrameKinds

(* A step of the comm thread that begins no wait and is not asleep after it. *)
LEMMA WakeBusy ==
  ASSUME TypeOK, WakeInv, WaitsKept, pc'[CommThread] # "select",
         condPolling' = condPolling
  PROVE  WakeInv'
<1>1. CommThread \in Threads
  BY DEF Threads
<1>2. OneWait(stack'[CommThread])
  BY <1>1 DEF WakeInv, OneWait, WaitsKept
<1>3. FrameKinds(stack'[CommThread]) \cap WaitKinds # {} => condPolling'
  BY <1>1 DEF WakeInv, FrameKinds, WaitsKept
<1> QED BY <1>2, <1>3 DEF WakeInv

(* A step of somebody else: if the comm thread's condition is done by it,   *)
(* there is a byte in the wake pipe.                                        *)
LEMMA WakeAsleep ==
  ASSUME TypeOK, WakeInv, WaitInv,
         stack'[CommThread] = stack[CommThread], condPolling' = condPolling,
         pc'[CommThread] = "select" => pc[CommThread] = "select",
         pipe > 0 => pipe' > 0,
         \A c \in Conditions :
           Live(c) /\ Done(c)' => Done(c) \/ ~condPolling \/ pipe' > 0
  PROVE  WakeInv'
<1>1. CommThread \in Threads
  BY DEF Threads
<1>2. ASSUME pc'[CommThread] = "select", WaitsDone(CommThread)' PROVE pipe' > 0
  <2>1. /\ OnTop(CommThread, WaitKinds) /\ Top(CommThread)' = Top(CommThread)
        /\ stack[CommThread] # <<>> /\ Done(Top(CommThread).arg)'
    BY <1>2 DEF WaitsDone, OnTop, Top, Done
  <2>2. Top(CommThread).arg \in Conditions
    BY <1>1, <2>1, TopProperties DEF OnTop
  <2>3. Live(Top(CommThread).arg)
    BY <1>1, <2>1, TopProperties DEF WaitInv, WaitedConditionLive, OnTop, Top
  <2>4. condPolling
    BY <1>1, <2>1, TopKind DEF WakeInv, OnTop
  <2>5. CASE Done(Top(CommThread).arg)
    BY <1>2, <2>1, <2>5 DEF WakeInv, WaitsDone
  <2>6. CASE ~Done(Top(CommThread).arg)
    BY <2>1, <2>2, <2>3, <2>4, <2>6
  <2> QED BY <2>5, <2>6
<1> QED BY <1>2 DEF WakeInv

(* The steps of CMDataAvailable, on top of s.                               *)
LEMMA ReadWakes ==
  ASSUME TypeOK, WakeInv, condPolling' = condPolling,
         NEW s \in {stack[CommThread], Pop(stack[CommThread])},
         \/ ReadNext(CommThread, s)
         \/ EndDispatch(CommThread) /\ stack' = [stack EXCEPT ![CommThread] = s]
  PROVE  WakeInv'
<1>0. CommThread \in Threads /\ pc \in [Threads -> PCs]
  BY DEF Threads, TypeOK, PCs
<1>1. ASSUME NEW x \in {"user", "loop"}, NEW S,
             \/ pc' = [pc EXCEPT ![CommThread] = x]
             \/ pc' = [Trigger(S) EXCEPT ![CommThread] = x],
             NEW f \in Frame, f.kind \notin WaitKinds,
             stack' \in {[stack EXCEPT ![CommThread] = s],
                         [stack EXCEPT ![CommThread] = Append(s, f)]}
      PROVE  WakeInv'
  <2>1. pc'[CommThread] = x
    BY <1>0, <1>1 DEF Trigger
  <2> QED BY <1>0, <1>1, <2>1, StackStep, WakeBusy
<1>2. ASSUME stack' = [stack EXCEPT ![CommThread] = s], pc' = [pc EXCEPT ![CommThread] = "loop"]
      PROVE  WakeInv'
  BY <1>1, <1>2, FrameType DEF WaitKinds
<1>3. ASSUME NEW c \in Conditions, ReadResponse(CommThread, s, c) PROVE WakeInv'
  <2> DEFINE f == [kind |-> "handler", arg |-> c]
  <2>1. f \in Frame /\ f.kind \notin WaitKinds
    BY FrameType DEF WaitKinds
  <2>2. stack' = [stack EXCEPT ![CommThread] = Append(s, f)] /\ pc' = [pc EXCEPT ![CommThread] = "user"]
    BY <1>3 DEF ReadResponse
  <2> HIDE DEF f
  <2> QED BY <1>1, <2>1, <2>2
<1>4. ASSUME NEW k \in Conns, ReadEof(CommThread, s, k) PROVE WakeInv'
  <2> DEFINE f == [kind |-> "closing", arg |-> k]
  <2>1. f \in Frame /\ f.kind \notin WaitKinds
    BY FrameType DEF WaitKinds
  <2>2. \/ /\ stack' = [stack EXCEPT ![CommThread] = Append(s, f)]
           /\ pc' = [Trigger(Dependents(k)) EXCEPT ![CommThread] = "user"]
        \/ /\ stack' = [stack EXCEPT ![CommThread] = s]
           /\ pc' = [Trigger(Dependents(k)) EXCEPT ![CommThread] = "loop"]
    BY <1>4 DEF ReadEof
  <2> HIDE DEF f
  <2> QED BY <1>1, <2>1, <2>2
<1>5. CASE EndDispatch(CommThread) /\ stack' = [stack EXCEPT ![CommThread] = s]
  BY <1>2, <1>5 DEF EndDispatch
<1>6. CASE ReadNext(CommThread, s) /\ net = <<>>
  BY <1>2, <1>6 DEF ReadNext, EndDispatch
<1>7. CASE ReadNext(CommThread, s) /\ net # <<>>
  BY <1>2, <1>3, <1>4, <1>7 DEF ReadNext
<1> QED BY <1>5, <1>6, <1>7

(* CMCondition_signal wakes the poller.                                     *)
LEMMA SignalWakes ==
  ASSUME TypeOK, NEW c \in Conditions, SignalEffect(c), condPolling
  PROVE  \A d \in Conditions : Live(d) /\ Done(d)' => Done(d) \/ pipe' > 0
<1>1. conds \in [Conditions -> CondRecord] /\ pipe \in Nat
  BY DEF TypeOK
<1>2. CASE Live(c)
  BY <1>1, <1>2 DEF SignalEffect, WakePoller
<1>3. CASE ~Live(c)
  BY <1>3 DEF SignalEffect, Done
<1> QED BY <1>2, <1>3

LEMMA StepWake ==
  TypeOK /\ CommInv /\ WaitInv /\ WakeInv /\ CommThreadServes /\ WaitsDoNotNest
    /\ [Next]_vars => WakeInv'
<1> SUFFICES ASSUME TypeOK, CommInv, WaitInv, WakeInv, CommThreadServes, WaitsDoNotNest,
                    [Next]_vars
             PROVE  WakeInv'
  OBVIOUS
<1> USE DEF InUser, MayCall, LockFree
<1>0. /\ CommThread \in Threads /\ pc \in [Threads -> PCs] /\ pipe \in Nat
      /\ \A t \in Threads : t \in AppThreads \/ t = CommThread
      /\ stack \in [Threads -> Seq(Frame)] /\ conds \in [Conditions -> CondRecord]
      /\ stack[CommThread] \in Seq(Frame)
  BY DEF TypeOK, PCs, Threads
<1>1. ASSUME NEW t \in Threads, NEW k \in Conns \cup {NoConn}, ConditionGet(t, k) PROVE WakeInv'
  <2>1. \A c \in Conditions : Live(c) => conds'[c] = conds[c]
    <3>1. ~Live(nextNum)
      BY <1>1, ControlAssumption DEF ConditionGet, WaitInv, FreshUnused, Live, Conditions
    <3> QED BY <1>0, <1>1, <3>1 DEF ConditionGet
  <2> QED BY <1>1, <2>1, WakeAsleep DEF ConditionGet, Done
<1>2. ASSUME NEW t \in Threads, NEW c \in Conditions, AppSignal(t, c) PROVE WakeInv'
  <2>1. SignalEffect(c) /\ UNCHANGED <<stack, condPolling>>
    BY <1>2 DEF AppSignal
  <2>2. pc'[CommThread] = "select" => pc[CommThread] = "select"
    BY <1>0, <2>1, SignalStep
  <2> QED BY <2>1, <2>2, SignalStep, SignalWakes, WakeAsleep
<1>3. ASSUME NEW t \in Threads, NEW c \in Conditions, ConditionFail(t, c) PROVE WakeInv'
  <2>1. condPolling => pipe' > 0
    BY <1>0, <1>3 DEF ConditionFail, WakePoller
  <2>2. pipe > 0 => pipe' > 0
    BY <1>0, <1>3 DEF ConditionFail, WakePoller
  <2>3. pc'[CommThread] = "select" => pc[CommThread] = "select"
    BY <1>0, <1>3, TriggerStep DEF ConditionFail
  <2> QED BY <1>3, <2>1, <2>2, <2>3, WakeAsleep DEF ConditionFail
<1>4. ASSUME NEW t \in Threads, ForkCommThread(t) PROVE WakeInv'
  BY <1>4 DEF ForkCommThread, CommInv
<1>5. ASSUME NEW t \in Threads, RunNetwork(t) PROVE WakeInv'
  BY <1>5 DEF RunNetwork, CommThreadServes
<1>6. ASSUME NEW t \in Threads, NEW k \in Conns, ConnectionClose(t, k) PROVE WakeInv'
  BY <1>6, WakeAsleep DEF ConnectionClose, Done
<1>7. ASSUME NEW t \in Threads, CManagerClose(t) PROVE WakeInv'
  <2>1. UNCHANGED <<conds, stack, condPolling>> /\ (pipe > 0 => pipe' > 0)
    BY <1>0, <1>7 DEF CManagerClose, StopSelect
  <2>2. pc'[CommThread] = "select" => pc[CommThread] = "select"
    BY <1>0, <1>7 DEF CManagerClose
  <2> QED BY <2>1, <2>2, WakeAsleep DEF Done
<1>8. ASSUME NEW c \in Conditions, UNCHANGED <<condPolling, pipe>>,
             \A d \in Conditions : Done(d)' => Done(d),
             stack'[CommThread] = stack[CommThread],
             pc'[CommThread] = "select" => pc[CommThread] = "select"
      PROVE  WakeInv'
  BY <1>8, WakeAsleep
<1>9. ASSUME NEW t \in Threads, NEW c \in Conditions, WaitAlreadyDone(t, c) PROVE WakeInv'
  <2>1. \A d \in Conditions \ {c} : conds'[d] = conds[d]
    BY <1>0, <1>9 DEF WaitAlreadyDone
  <2>2. Done(c)
    BY <1>9 DEF WaitAlreadyDone
  <2>3. \A d \in Conditions : Done(d)' => Done(d)
    BY <2>1, <2>2 DEF Done
  <2> QED BY <1>8, <1>9, <2>3 DEF WaitAlreadyDone
<1>10. ASSUME NEW t \in Threads, NEW c \in Conditions, WaitPolling(t, c) PROVE WakeInv'
  <2>1. t = CommThread /\ condPolling' /\ pc'[CommThread] = "loop"
    BY <1>0, <1>10, ControlAssumption DEF WaitPolling, MayWait, Polls, CommInv, Threads
  <2>2. FrameKinds(stack[CommThread]) \cap WaitKinds = {}
    <3>1. WaitDepth(t) < MaxDepth
      BY <1>10 DEF WaitPolling
    <3>2. WaitDepth(t) < 1
      <4>1. WaitDepth(t) \in Nat
        BY <2>1, WaitDepthZero
      <4> QED BY <3>1, <4>1, ControlAssumption DEF WaitsDoNotNest
    <3> QED BY <1>0, <2>1, <3>2, WaitDepthZero
  <2>3. PICK f \in Frame : stack' = [stack EXCEPT ![t] = Append(stack[t], f)]
    <3> DEFINE f == [kind |-> IF hasThread THEN "server" ELSE "poller", arg |-> c]
    <3>1. f \in Frame
      BY FrameType DEF WaitKinds
    <3>2. stack' = [stack EXCEPT ![t] = Append(stack[t], f)]
      BY <1>10 DEF WaitPolling, Push
    <3> QED BY <3>1, <3>2
  <2>4. OneWait(stack'[CommThread])
    <3>1. /\ DOMAIN stack'[CommThread] = 1 .. Len(stack[CommThread]) + 1
          /\ \A i \in 1 .. Len(stack[CommThread]) :
               i \in DOMAIN stack[CommThread] /\ stack'[CommThread][i] = stack[CommThread][i]
          /\ Len(stack[CommThread]) \in Nat
      <4>1. stack'[CommThread] = Append(stack[CommThread], f)
        BY <1>0, <2>1, <2>3
      <4> QED BY <1>0, <4>1, AppendProperties, LenProperties
    <3>2. \A i \in 1 .. Len(stack[CommThread]) : stack'[CommThread][i].kind \notin WaitKinds
      BY <2>2, <3>1 DEF FrameKinds
    <3> QED BY <3>1, <3>2 DEF OneWait
  <2> QED BY <2>1, <2>4 DEF WakeInv
<1>11. ASSUME NEW t \in Threads, NEW c \in Conditions, WaitBlocking(t, c) PROVE WakeInv'
  <2>1. t # CommThread
    BY <1>0, <1>11 DEF WaitBlocking, MayWait, Polls, CommInv
  <2>2. \A d \in Conditions \ {c} : conds'[d] = conds[d]
    BY <1>0, <1>11 DEF WaitBlocking
  <2>3. conds'[c] = [conds[c] EXCEPT !.waiting = TRUE]
    BY <1>0, <1>11 DEF WaitBlocking
  <2>4. conds'[c].signaled = conds[c].signaled /\ conds'[c].failed = conds[c].failed
    BY <1>0, <2>3 DEF CondRecord
  <2>5. stack'[CommThread] = stack[CommThread] /\ pc'[CommThread] = pc[CommThread]
        /\ UNCHANGED <<condPolling, pipe>>
    BY <1>0, <1>11, <2>1 DEF WaitBlocking, Push
  <2> QED BY <1>8, <2>2, <2>4, <2>5 DEF Done
<1>12. ASSUME NEW t \in Threads, SpuriousWakeup(t) PROVE WakeInv'
  BY <1>0, <1>12, WakeAsleep DEF SpuriousWakeup, Done
<1>13. ASSUME NEW t \in Threads, ReturnFromBlocking(t) PROVE WakeInv'
  <2> DEFINE c == Top(t).arg
  <2>1. c \in Conditions /\ conds' = Finish(c)
    BY <1>13, BlockedFrame DEF ReturnFromBlocking, WaitInv
  <2> HIDE DEF c
  <2>2. \A d \in Conditions : Done(d)' => Done(d)
    BY <2>1, FinishFrees, FinishResult DEF Done
  <2>3. CASE t # CommThread
    BY <1>0, <1>8, <1>13, <2>1, <2>2, <2>3 DEF ReturnFromBlocking
  <2>4. CASE t = CommThread
    <3>1. WaitsKept
      BY <1>13, StackStep, FrameType DEF ReturnFromBlocking, WaitKinds
    <3> QED BY <1>0, <1>13, <2>4, <3>1, WakeBusy DEF ReturnFromBlocking
  <2> QED BY <2>3, <2>4
<1>14. ASSUME NEW t \in Threads, LoopSelect(t) PROVE WakeInv'
  <2>1. t = CommThread /\ ~WaitsDone(CommThread) /\ UNCHANGED <<conds, stack, condPolling>>
    BY <1>14, AppThreadIdle DEF LoopSelect, AppPCs
  <2>2. ~WaitsDone(CommThread)'
    BY <2>1 DEF WaitsDone, OnTop, Top, Done
  <2> QED BY <2>1, <2>2 DEF WakeInv
<1>15. ASSUME NEW t \in Threads, LoopReturn(t) PROVE WakeInv'
  <2>1. t = CommThread /\ stack[t] # <<>> /\ Top(t).kind \in WaitKinds
    BY <1>15, AppThreadIdle DEF LoopReturn, AppPCs, OnTop, WaitKinds
  <2>2. stack'[CommThread] = Pop(stack[CommThread]) /\ pc'[CommThread] = "user"
    BY <1>0, <1>15, <2>1 DEF LoopReturn
  <2>3. FrameKinds(stack'[CommThread]) \cap WaitKinds = {}
    <3>1. /\ stack[CommThread][Len(stack[CommThread])].kind \in WaitKinds
          /\ Len(stack[CommThread]) \in DOMAIN stack[CommThread]
      BY <1>0, <2>1, TopProperties DEF Top
    <3>2. /\ DOMAIN stack[CommThread] = 1 .. Len(stack[CommThread])
          /\ DOMAIN stack'[CommThread] = 1 .. Len(stack[CommThread]) - 1
          /\ \A i \in 1 .. Len(stack[CommThread]) - 1 :
               stack'[CommThread][i] = stack[CommThread][i]
          /\ Len(stack[CommThread]) \in Nat
      BY <1>0, <2>1, <2>2, PopProperties, LenProperties
    <3>3. ASSUME NEW i \in DOMAIN stack'[CommThread], stack'[CommThread][i].kind \in WaitKinds
          PROVE  FALSE
      <4>1. i \in DOMAIN stack[CommThread] /\ i # Len(stack[CommThread])
            /\ stack[CommThread][i].kind \in WaitKinds
        BY <3>2, <3>3
      <4> QED BY <3>1, <4>1 DEF WakeInv, OneWait
    <3> QED BY <3>3 DEF FrameKinds
  <2>4. OneWait(stack'[CommThread])
    BY <2>3 DEF OneWait, FrameKinds
  <2> QED BY <2>2, <2>3, <2>4 DEF WakeInv
<1>16. ASSUME NEW t \in Threads,
              \/ Start(t) \/ LoopSpin(t) \/ LoopClosed(t) \/ SelectReturns(t)
              \/ AfterSelect(t)
       PROVE  WakeInv'
  <2>1. /\ pc[t] \in {"start", "loop", "select", "ready"}
        /\ pc'[t] # "select" /\ UNCHANGED <<stack, condPolling>>
    BY <1>0, <1>16 DEF Start, LoopSpin, LoopClosed, SelectReturns, AfterSelect
  <2>2. t = CommThread
    BY <2>1, AppThreadIdle DEF AppPCs
  <2> QED BY <2>1, <2>2, WakeBusy DEF WaitsKept
<1>17. ASSUME NEW t \in Threads, Dispatch(t) PROVE WakeInv'
  <2>1. t = CommThread
    BY <1>17, AppThreadIdle DEF Dispatch, AppPCs
  <2>2. \/ ReadNext(t, stack[t])
        \/ EndDispatch(t) /\ stack' = [stack EXCEPT ![t] = stack[t]]
    BY <1>0, <1>17 DEF Dispatch
  <2> QED BY <1>17, <2>1, <2>2, ReadWakes DEF Dispatch
<1>18. ASSUME NEW t \in Threads, HandlerSignal(t) PROVE WakeInv'
  <2>1. t = CommThread /\ pc[t] = "user" /\ stack[t] # <<>> /\ Top(t).kind = "handler"
    BY <1>0, <1>18, AppThreadIdle DEF HandlerSignal, OnTop
  <2> DEFINE f == [Top(t) EXCEPT !.kind = "replied"]
  <2>2. f \in Frame /\ f.kind \notin WaitKinds
    BY <2>1, TopProperties DEF Frame, WaitKinds
  <2>3. /\ stack' = [stack EXCEPT ![t] = Append(Pop(stack[t]), f)]
        /\ SignalEffect(Top(t).arg) /\ condPolling' = condPolling
    BY <1>18 DEF HandlerSignal
  <2> HIDE DEF f
  <2>4. WaitsKept
    BY <2>2, <2>3, StackStep
  <2>5. pc'[t] # "select"
    BY <2>1, <2>3, SignalStep
  <2> QED BY <2>1, <2>3, <2>4, <2>5, WakeBusy
<1>19. ASSUME NEW t \in Threads, HandlerReturn(t) PROVE WakeInv'
  <2>1. t = CommThread
    BY <1>19, AppThreadIdle DEF HandlerReturn, OnTop
  <2>2. \/ ReadNext(t, Pop(stack[t]))
        \/ EndDispatch(t) /\ stack' = [stack EXCEPT ![t] = Pop(stack[t])]
    BY <1>19 DEF HandlerReturn
  <2> QED BY <1>19, <2>1, <2>2, ReadWakes DEF HandlerReturn
<1>20. ASSUME NEW t \in Threads, CloseHandlerReturn(t) PROVE WakeInv'
  <2>1. t = CommThread
    BY <1>20, AppThreadIdle DEF CloseHandlerReturn, OnTop
  <2>2. WaitsKept
    BY <1>20, StackStep, FrameType DEF CloseHandlerReturn, WaitKinds
  <2> QED BY <1>0, <1>20, <2>1, <2>2, WakeBusy DEF CloseHandlerReturn
<1>21. ASSUME NEW t \in Threads, Join(t) PROVE WakeInv'
  <2>1. UNCHANGED <<conds, stack, condPolling, pipe>>
        /\ (pc'[CommThread] = "select" => pc[CommThread] = "select")
    BY <1>0, <1>21 DEF Join
  <2> QED BY <2>1, WakeAsleep DEF Done
<1>22. ASSUME NEW t \in Threads, CloseConns(t) PROVE WakeInv'
  <2>1. CASE \E k \in cmConns : connFailed[k]
    <3>1. UNCHANGED <<conds, stack, condPolling, pipe>>
          /\ (pc'[CommThread] = "select" => pc[CommThread] = "select")
      BY <1>0, <1>22, <2>1 DEF CloseConns
    <3> QED BY <3>1, WakeAsleep DEF Done
  <2>2. CASE ~\E k \in cmConns : connFailed[k]
    <3> DEFINE hit == UNION {Dependents(k) : k \in cmConns}
    <3>1. /\ conds' = [c \in Conditions |-> [conds[c] EXCEPT !.failed = @ \/ c \in hit]]
          /\ pipe' = pipe + Cardinality(cmConns) * (IF condPolling THEN 2 ELSE 1)
          /\ pc' = [Trigger(hit) EXCEPT ![t] = AfterClose(t)]
          /\ UNCHANGED <<stack, condPolling>>
      BY <1>22, <2>2 DEF CloseConns
    <3>2. cmConns # {} => pipe' > 0
      <4>1. IsFiniteSet(cmConns) /\ Cardinality(cmConns) \in Nat
        BY ControlAssumption, FS_Subset, FS_CardinalityType DEF TypeOK
      <4>2. cmConns # {} => Cardinality(cmConns) > 0
        BY <4>1, FS_EmptySet
      <4> QED BY <1>0, <3>1, <4>1, <4>2
    <3>3. pipe > 0 => pipe' > 0
      <4>1. Cardinality(cmConns) \in Nat
        BY ControlAssumption, FS_Subset, FS_CardinalityType DEF TypeOK
      <4> QED BY <1>0, <3>1, <4>1
    <3>4. hit # {} => cmConns # {}
      OBVIOUS
    <3>5. AfterClose(t) # "select"
      BY DEF AfterClose
    <3> HIDE DEF hit
    <3>6. pc'[CommThread] = "select" => pc[CommThread] = "select"
      BY <1>0, <3>1, <3>5 DEF Trigger
    <3>7. \A c \in Conditions : Done(c)' => Done(c) \/ c \in hit
      BY <3>1, FailedOnly DEF OnlyDone
    <3> QED BY <3>1, <3>2, <3>3, <3>4, <3>6, <3>7, WakeAsleep
  <2> QED BY <2>1, <2>2
<1>23. ASSUME Network PROVE WakeInv'
  BY <1>23, WakeAsleep DEF Network, ResponseArrives, EofArrives, Done
<1>24. ASSUME UNCHANGED vars PROVE WakeInv'
  BY <1>24, WakeAsleep DEF vars, Done
<1> QED
  BY <1>1, <1>2, <1>3, <1>4, <1>5, <1>6, <1>7, <1>9, <1>10,
     <1>11, <1>12, <1>13, <1>14, <1>15, <1>16,
     <1>17, <1>18, <1>19, <1>20, <1>21, <1>22, <1>23, <1>24
  DEF Next, AppCall, AppWait, Run

LEMMA InitWake == Init /\ CommThreadServes => WakeInv
<1> SUFFICES ASSUME Init, CommThreadServes PROVE WakeInv
  OBVIOUS
<1>1. /\ stack[CommThread] = <<[kind |-> "forever", arg |-> 0]>>
      /\ pc[CommThread] = "start"
  BY DEF Init, CommThreadServes, Threads
<1> QED BY <1>1 DEF WakeInv, OneWait, FrameKinds, WaitKinds

(* A comm thread asleep in select() whose condition is signaled or failed   *)
(* finds a byte in the wake pipe, however the signal falls between its test *)
(* of the condition and the call of select(): cond_polling tells whoever    *)
(* signals or fails the condition, and who closes the connection, to write  *)
(* one (CMCondition_wait, CMwake_server_thread).                            *)
THEOREM NoWakeupLost ==
  ASSUME CommThreadServes, WaitsDoNotNest PROVE Spec => []NoLostWakeup
<1>1. Init => WakeInv
  BY InitWake
<1>2. TypeOK /\ CommInv /\ WaitInv /\ WakeInv /\ [Next]_vars => WakeInv'
  BY StepWake
<1>3. CommInv /\ WakeInv => NoLostWakeup
  BY DEF CommInv, WakeInv, NoLostWakeup, AppPCs, Threads
<1> QED BY <1>1, <1>2, <1>3, TypeCorrect, CommInvariant, WaitInvariant, PTL DEF Spec
-----------------------------------------------------------------------------
(* Reading ahead.                                                           *)

(* A thread in the middle of the select() loop, or with a lock-held step to *)
(* make, holds the lock.                                                    *)
LockKept == \A t \in Threads : pc[t] \in LockedPCs => lock = t

LEMMA LockStep ==
  ASSUME LockKept, NEW t \in Threads, lock \in {NoThread, t},
         pc'[t] \in LockedPCs => lock' = t,
         \A u \in Threads \ {t} : pc'[u] = pc[u] \/ pc'[u] = "resumed"
  PROVE  LockKept'
BY ControlAssumption DEF LockKept, LockedPCs

LEMMA LockPassive ==
  ASSUME LockKept, lock' = lock,
         \A u \in Threads : pc'[u] = pc[u] \/ pc'[u] \in FreePCs
  PROVE  LockKept'
BY DEF LockKept, LockedPCs, FreePCs

LEMMA ReadLocks ==
  ASSUME TypeOK, LockKept, NEW t \in Threads, lock \in {NoThread, t}, NEW s,
         ReadNext(t, s) \/ EndDispatch(t)
  PROVE  LockKept'
<1>0. pc \in [Threads -> PCs]
  BY DEF TypeOK, PCs
<1>1. ASSUME NEW S, \/ pc' = [pc EXCEPT ![t] = "user"]
                    \/ pc' = [Trigger(S) EXCEPT ![t] = "user"]
                    \/ lock' = t /\ pc' = [pc EXCEPT ![t] = "loop"]
                    \/ lock' = t /\ pc' = [Trigger(S) EXCEPT ![t] = "loop"]
      PROVE  LockKept'
  <2>1. pc'[t] \in LockedPCs => lock' = t
    BY <1>0, <1>1 DEF Trigger, LockedPCs
  <2>2. \A u \in Threads \ {t} : pc'[u] = pc[u] \/ pc'[u] = "resumed"
    BY <1>0, <1>1 DEF Trigger
  <2> QED BY <2>1, <2>2, LockStep
<1>2. CASE EndDispatch(t)
  BY <1>1, <1>2 DEF EndDispatch
<1>3. ASSUME NEW c, ReadResponse(t, s, c) PROVE LockKept'
  BY <1>1, <1>3 DEF ReadResponse
<1>4. ASSUME NEW k, ReadEof(t, s, k) PROVE LockKept'
  BY <1>1, <1>4 DEF ReadEof
<1>5. CASE ReadNext(t, s)
  BY <1>1, <1>2, <1>3, <1>4, <1>5 DEF ReadNext
<1> QED BY <1>2, <1>5

LEMMA StepLock == TypeOK /\ LockKept /\ [Next]_vars => LockKept'
<1> SUFFICES ASSUME TypeOK, LockKept, [Next]_vars PROVE LockKept'
  OBVIOUS
<1> USE DEF InUser, MayCall, LockFree
<1>0. /\ CommThread \in Threads /\ pc \in [Threads -> PCs]
      /\ \A t \in Threads : pc[t] \in LockedPCs => lock = t
  BY DEF TypeOK, PCs, Threads, LockKept
<1>1. ASSUME NEW t \in Threads, NEW c \in Conditions, AppSignal(t, c) PROVE LockKept'
  <2>1. SignalEffect(c) /\ lock' = lock
    BY <1>1 DEF AppSignal
  <2> QED BY <2>1, SignalStep, LockPassive DEF FreePCs
<1>2. ASSUME NEW t \in Threads, NEW c \in Conditions, ConditionFail(t, c) PROVE LockKept'
  BY <1>2, TriggerStep, LockPassive DEF ConditionFail, FreePCs
<1>3. ASSUME NEW t \in Threads,
             \/ \E k \in Conns \cup {NoConn} : ConditionGet(t, k)
             \/ \E k \in Conns : ConnectionClose(t, k)
             \/ \E c \in Conditions : WaitAlreadyDone(t, c)
      PROVE  LockKept'
  <2>1. ASSUME NEW k, ConditionGet(t, k) PROVE UNCHANGED <<pc, lock>>
    BY <2>1 DEF ConditionGet
  <2>2. ASSUME NEW k, ConnectionClose(t, k) PROVE UNCHANGED <<pc, lock>>
    BY <2>2 DEF ConnectionClose
  <2>3. ASSUME NEW c, WaitAlreadyDone(t, c) PROVE UNCHANGED <<pc, lock>>
    BY <2>3 DEF WaitAlreadyDone
  <2>4. UNCHANGED <<pc, lock>>
    BY <1>3, <2>1, <2>2, <2>3
  <2> QED BY <2>4, LockPassive
<1>4. ASSUME NEW t \in Threads, ForkCommThread(t) \/ RunNetwork(t) PROVE LockKept'
  BY <1>0, <1>4, LockPassive DEF ForkCommThread, RunNetwork, FreePCs
<1>5. ASSUME NEW t \in Threads, NEW c \in Conditions, WaitPolling(t, c) \/ WaitBlocking(t, c)
      PROVE  LockKept'
  BY <1>0, <1>5, LockStep DEF WaitPolling, WaitBlocking, MayWait, LockedPCs
<1>6. ASSUME NEW t \in Threads, SpuriousWakeup(t) \/ ReturnFromBlocking(t) PROVE LockKept'
  BY <1>0, <1>6, LockPassive DEF SpuriousWakeup, ReturnFromBlocking, FreePCs
<1>7. ASSUME NEW t \in Threads, Start(t) \/ LoopSelect(t) \/ LoopReturn(t) PROVE LockKept'
  BY <1>0, <1>7, LockStep DEF Start, LoopSelect, LoopReturn, LockedPCs
<1>8. ASSUME NEW t \in Threads, LoopSpin(t) \/ LoopClosed(t) PROVE LockKept'
  BY <1>0, <1>8, LockStep DEF LoopSpin, LoopClosed, LockedPCs
<1>9. ASSUME NEW t \in Threads, SelectReturns(t) PROVE LockKept'
  <2>1. pc' = [pc EXCEPT ![t] = "ready"] /\ lock' = lock
    BY <1>9 DEF SelectReturns
  <2> QED BY <1>0, <2>1, LockPassive DEF FreePCs
<1>10. ASSUME NEW t \in Threads, AfterSelect(t) PROVE LockKept'
  BY <1>0, <1>10, LockStep DEF AfterSelect
<1>11. ASSUME NEW t \in Threads, Dispatch(t) PROVE LockKept'
  BY <1>0, <1>11, ReadLocks DEF Dispatch, LockedPCs
<1>12. ASSUME NEW t \in Threads, HandlerSignal(t) PROVE LockKept'
  <2>1. SignalEffect(Top(t).arg) /\ lock' = lock
    BY <1>12 DEF HandlerSignal
  <2> QED BY <2>1, SignalStep, LockPassive DEF FreePCs
<1>13. ASSUME NEW t \in Threads, HandlerReturn(t) PROVE LockKept'
  BY <1>0, <1>13, ReadLocks DEF HandlerReturn
<1>14. ASSUME NEW t \in Threads, CloseHandlerReturn(t) PROVE LockKept'
  BY <1>0, <1>14, LockStep DEF CloseHandlerReturn
<1>15. ASSUME NEW t \in Threads, CManagerClose(t) \/ Join(t) PROVE LockKept'
  <2>1. pc'[t] \in LockedPCs => lock' = t
    BY <1>0, <1>15 DEF CManagerClose, Join, LockedPCs
  <2>2. \A u \in Threads \ {t} : pc'[u] = pc[u]
    BY <1>0, <1>15 DEF CManagerClose, Join
  <2>3. CASE LockFree
    BY <2>1, <2>2, <2>3, LockStep
  <2>4. CASE ~LockFree
    <3>1. lock' = lock /\ pc' = [pc EXCEPT ![t] = "crashed"]
      BY <1>15, <2>4 DEF CManagerClose, Join
    <3> QED BY <1>0, <3>1, LockPassive DEF FreePCs
  <2> QED BY <2>3, <2>4
<1>16. ASSUME NEW t \in Threads, CloseConns(t) PROVE LockKept'
  <2>1. lock = t /\ pc[t] = "closeconns"
    BY <1>0, <1>16 DEF CloseConns, LockedPCs
  <2>2. CASE \E k \in cmConns : connFailed[k]
    <3>1. pc' = [pc EXCEPT ![t] = "spin"] /\ lock' = lock
      BY <1>16, <2>2 DEF CloseConns
    <3> QED BY <1>0, <2>1, <3>1, LockStep
  <2>3. CASE ~\E k \in cmConns : connFailed[k]
    <3>1. \E S : pc' = [Trigger(S) EXCEPT ![t] = AfterClose(t)]
      BY <1>16, <2>3 DEF CloseConns
    <3>2. PICK S : pc' = [Trigger(S) EXCEPT ![t] = AfterClose(t)]
      BY <3>1
    <3>3. AfterClose(t) \in {"exited", "user"}
      BY DEF AfterClose
    <3>4. pc'[t] \notin LockedPCs
      BY <1>0, <3>2, <3>3 DEF Trigger, LockedPCs
    <3>5. \A u \in Threads \ {t} : pc'[u] = pc[u] \/ pc'[u] = "resumed"
      BY <1>0, <3>2, TriggerStep
    <3> QED BY <2>1, <3>4, <3>5, LockStep
  <2> QED BY <2>2, <2>3
<1>17. CASE Network \/ UNCHANGED vars
  BY <1>17 DEF Network, ResponseArrives, EofArrives, vars, LockKept
<1> QED
  BY <1>1, <1>2, <1>3, <1>4, <1>5, <1>6, <1>7, <1>8, <1>9, <1>10, <1>11, <1>12, <1>13,
     <1>14, <1>15, <1>16, <1>17
  DEF Next, AppCall, AppWait, Run

LEMMA LockInvariant == Spec => []LockKept
<1>1. Init => LockKept
  BY DEF Init, LockKept, LockedPCs
<1>2. TypeOK /\ LockKept /\ [Next]_vars => LockKept'
  BY StepLock
<1> QED BY <1>1, <1>2, TypeCorrect, PTL DEF Spec

(* The CManager never loses its network thread: it is not closed, or the    *)
(* thread was not forked and nobody can join it.  A handler that signals    *)
(* while there is a network thread does not ask the reader to stop; a close *)
(* that joins the thread before the handler returns does, if it still finds *)
(* a connection to fail.                                                    *)
ThreadStays == "close_cm" \in Usage => "fork" \notin Usage /\ ~CommAtStart

StaysInv ==
  IF "close_cm" \in Usage THEN serverHandle = NoThread
  ELSE ~closed /\ \A t \in Threads : pc[t] \notin {"closing", "join"}

Stays == StaysInv' /\ (hasThread => hasThread')

LEMMA StaysQuiet ==
  ASSUME StaysInv, UNCHANGED <<closed, serverHandle>>, hasThread => hasThread',
         \A t \in Threads : pc'[t] = pc[t] \/ pc'[t] \notin {"closing", "join"}
  PROVE  Stays
BY DEF StaysInv, Stays

LEMMA ReadStays ==
  ASSUME TypeOK, StaysInv, UNCHANGED <<closed, serverHandle, hasThread>>,
         NEW t \in Threads, NEW s, ReadNext(t, s) \/ EndDispatch(t)
  PROVE  Stays
<1>0. pc \in [Threads -> PCs]
  BY DEF TypeOK, PCs
<1>1. ASSUME NEW S, NEW x \in {"user", "loop"},
             pc' = [pc EXCEPT ![t] = x] \/ pc' = [Trigger(S) EXCEPT ![t] = x]
      PROVE  Stays
  BY <1>0, <1>1, StaysQuiet DEF Trigger
<1>2. CASE EndDispatch(t)
  BY <1>1, <1>2 DEF EndDispatch
<1>3. ASSUME NEW c, ReadResponse(t, s, c) PROVE Stays
  BY <1>1, <1>3 DEF ReadResponse
<1>4. ASSUME NEW k, ReadEof(t, s, k) PROVE Stays
  BY <1>1, <1>4 DEF ReadEof
<1>5. CASE ReadNext(t, s)
  BY <1>1, <1>2, <1>3, <1>4, <1>5 DEF ReadNext
<1> QED BY <1>2, <1>5

LEMMA StepStays == TypeOK /\ StaysInv /\ ThreadStays /\ [Next]_vars => Stays
<1> SUFFICES ASSUME TypeOK, StaysInv, ThreadStays, [Next]_vars PROVE Stays
  OBVIOUS
<1> USE DEF InUser, MayCall, LockFree
<1>0. pc \in [Threads -> PCs] /\ CommThread \in Threads
  BY DEF TypeOK, PCs, Threads
<1>1. ASSUME NEW t \in Threads, NEW x, x \notin {"closing", "join"},
             pc' = [pc EXCEPT ![t] = x] \/ pc' = pc,
             UNCHANGED <<closed, serverHandle>>, hasThread => hasThread'
      PROVE  Stays
  BY <1>0, <1>1, StaysQuiet
<1>2. ASSUME NEW t \in Threads, NEW c \in Conditions, AppSignal(t, c) PROVE Stays
  <2>1. SignalEffect(c) /\ UNCHANGED <<closed, serverHandle, hasThread>>
    BY <1>2 DEF AppSignal
  <2> QED BY <2>1, SignalStep, StaysQuiet
<1>3. ASSUME NEW t \in Threads, NEW c \in Conditions, ConditionFail(t, c) PROVE Stays
  <2>1. UNCHANGED <<closed, serverHandle, hasThread>> /\ (pc' = pc \/ pc' = Trigger({c}))
    BY <1>3 DEF ConditionFail
  <2> QED BY <2>1, TriggerStep, StaysQuiet
<1>4. ASSUME NEW t \in Threads, ForkCommThread(t) PROVE Stays
  <2>1. "fork" \in Usage /\ hasThread' /\ closed' = closed
        /\ pc' = [pc EXCEPT ![CommThread] = "start"]
    BY <1>4 DEF ForkCommThread
  <2> QED BY <1>0, <2>1 DEF StaysInv, ThreadStays, Stays
<1>5. ASSUME NEW t \in Threads, RunNetwork(t) PROVE Stays
  BY <1>1, <1>5 DEF RunNetwork
<1>6. ASSUME NEW t \in Threads, NEW k, ConditionGet(t, k) \/ ConnectionClose(t, k) PROVE Stays
  <2>1. UNCHANGED <<pc, closed, serverHandle, hasThread>>
    BY <1>6 DEF ConditionGet, ConnectionClose
  <2> QED BY <2>1, StaysQuiet
<1>7. ASSUME NEW t \in Threads, NEW c, WaitAlreadyDone(t, c) \/ WaitPolling(t, c) \/ WaitBlocking(t, c)
      PROVE  Stays
  BY <1>1, <1>7 DEF WaitAlreadyDone, WaitPolling, WaitBlocking
<1>8. ASSUME NEW t \in Threads, SpuriousWakeup(t) \/ ReturnFromBlocking(t) \/ Start(t) PROVE Stays
  BY <1>1, <1>8 DEF SpuriousWakeup, ReturnFromBlocking, Start
<1>9. ASSUME NEW t \in Threads, LoopSelect(t) \/ LoopSpin(t) PROVE Stays
  BY <1>1, <1>9 DEF LoopSelect, LoopSpin
<1>10. ASSUME NEW t \in Threads, LoopReturn(t) PROVE Stays
  <2>1. pc' = [pc EXCEPT ![t] = "user"] /\ UNCHANGED <<closed, serverHandle, hasThread>>
    BY <1>10 DEF LoopReturn
  <2> QED BY <1>1, <2>1
<1>11. ASSUME NEW t \in Threads, LoopClosed(t) PROVE Stays
  <2>1. closed /\ UNCHANGED <<closed, serverHandle, hasThread>>
    BY <1>11 DEF LoopClosed
  <2> QED BY <2>1 DEF StaysInv, Stays
<1>12. ASSUME NEW t \in Threads, SelectReturns(t) PROVE Stays
  <2>1. pc' = [pc EXCEPT ![t] = "ready"] /\ UNCHANGED <<closed, serverHandle, hasThread>>
    BY <1>12 DEF SelectReturns
  <2> QED BY <1>1, <2>1
<1>13. ASSUME NEW t \in Threads, AfterSelect(t) PROVE Stays
  <2>1. UNCHANGED <<closed, serverHandle, hasThread>>
    BY <1>13 DEF AfterSelect
  <2>2. \E x \in {"loop", "stuck", "dispatch"} : pc' = [pc EXCEPT ![t] = x]
    BY <1>13 DEF AfterSelect
  <2> QED BY <1>1, <2>1, <2>2
<1>14. ASSUME NEW t \in Threads, Dispatch(t) PROVE Stays
  BY <1>14, ReadStays DEF Dispatch
<1>15. ASSUME NEW t \in Threads, HandlerSignal(t) PROVE Stays
  <2>1. SignalEffect(Top(t).arg) /\ UNCHANGED <<closed, serverHandle, hasThread>>
    BY <1>15 DEF HandlerSignal
  <2> QED BY <2>1, SignalStep, StaysQuiet
<1>16. ASSUME NEW t \in Threads, HandlerReturn(t) PROVE Stays
  BY <1>16, ReadStays DEF HandlerReturn
<1>17. ASSUME NEW t \in Threads, CloseHandlerReturn(t) PROVE Stays
  BY <1>1, <1>17 DEF CloseHandlerReturn
<1>18. ASSUME NEW t \in Threads, CManagerClose(t) PROVE Stays
  <2>1. "close_cm" \in Usage \/ pc[t] = "closing"
    BY <1>18 DEF CManagerClose
  <2>2. UNCHANGED <<serverHandle, hasThread>>
    BY <1>18 DEF CManagerClose
  <2> QED BY <2>1, <2>2 DEF StaysInv, Stays
<1>19. ASSUME NEW t \in Threads, Join(t) PROVE Stays
  <2>1. pc[t] = "join" /\ "close_cm" \in Usage /\ serverHandle = NoThread
    BY <1>19 DEF Join, StaysInv
  <2>2. UNCHANGED <<serverHandle, hasThread>>
    BY <1>19, <2>1 DEF Join
  <2> QED BY <2>1, <2>2 DEF StaysInv, Stays
<1>20. ASSUME NEW t \in Threads, CloseConns(t) PROVE Stays
  <2>1. UNCHANGED <<closed, serverHandle, hasThread>>
    BY <1>20 DEF CloseConns
  <2>2. AfterClose(t) \notin {"closing", "join"}
    BY DEF AfterClose
  <2>3. \E S : pc' = [pc EXCEPT ![t] = "spin"] \/ pc' = [Trigger(S) EXCEPT ![t] = AfterClose(t)]
    BY <1>20 DEF CloseConns
  <2>4. \A u \in Threads : pc'[u] = pc[u] \/ pc'[u] \notin {"closing", "join"}
    BY <1>0, <2>2, <2>3 DEF Trigger
  <2> QED BY <2>1, <2>4, StaysQuiet
<1>21. CASE Network \/ UNCHANGED vars
  BY <1>21 DEF Network, ResponseArrives, EofArrives, vars, StaysInv, Stays
<1> QED
  BY <1>2, <1>3, <1>4, <1>5, <1>6, <1>7, <1>8, <1>9, <1>10, <1>11, <1>12, <1>13,
     <1>14, <1>15, <1>16, <1>17, <1>18, <1>19, <1>20, <1>21
  DEF Next, AppCall, AppWait, Run

(* Where a thread stands that polls the network for a condition while there *)
(* is no network thread: its wait is the first frame, and the only thing on *)
(* top of it is one handler.                                                *)
Looping == {"loop", "select", "ready", "dispatch", "stuck"}

PollsBelow(s) == s # <<>> /\ s[1].kind = "poller"

OnPoll(s) == Len(s) = 1 /\ PollsBelow(s)

InUpcall(s) ==
  /\ Len(s) = 2 /\ PollsBelow(s)
  /\ s[2].kind \in {"handler", "replied", "closing"}

AheadShape(s) ==
  s = <<>> \/ OnPoll(s) \/ InUpcall(s) \/ (Len(s) = 1 /\ s[1].kind = "blocked")

(* The thread is the server thread from its first select() on, and once its *)
(* condition is signaled the reader is asked to stop, unless it has and the *)
(* thread is back in the loop of CMCondition_wait.                          *)
AheadAt(t) ==
  /\ AheadShape(stack[t])
  /\ pc[t] \in Looping => OnPoll(stack[t])
  /\ pc[t] # "start"
  /\ PollsBelow(stack[t]) => serverThread = t \/ pc[t] = "loop"
  /\ PollsBelow(stack[t]) /\ conds[stack[t][1].arg].signaled
       /\ (InUpcall(stack[t]) \/ pc[t] \in Looping \ {"loop"})
     => abortRead

(* The inductive invariant.                                                 *)
AheadBody ==
  /\ \A t \in Threads : AheadAt(t)
  /\ \A t, u \in Threads : PollsBelow(stack[t]) /\ PollsBelow(stack[u]) => t = u

AheadInv == ~hasThread => AheadBody

LEMMA PollsFor ==
  ASSUME TypeOK, NEW t \in Threads, PollsBelow(stack[t])
  PROVE  stack[t][1] \in Frame /\ stack[t][1].arg \in Conditions
<1>1. stack[t] \in Seq(Frame) /\ stack[t] # <<>>
  BY DEF TypeOK, PollsBelow
<1>2. stack[t][1] \in Frame
  BY <1>1, EmptySeq, LenProperties, ElementOfSeq
<1> QED BY <1>2 DEF Frame, PollsBelow, WaitKinds

LEMMA ShapeTop ==
  ASSUME TypeOK, NEW t \in Threads, AheadShape(stack[t])
  PROVE  /\ stack[t] \in Seq(Frame)
         /\ Len(stack[t]) = 1 => Top(t) = stack[t][1] /\ Pop(stack[t]) = <<>>
         /\ InUpcall(stack[t]) => /\ Top(t) = stack[t][2] /\ OnPoll(Pop(stack[t]))
                                  /\ Pop(stack[t])[1] = stack[t][1]
                                  /\ Pop(stack[t]) \in Seq(Frame)
         /\ OnTop(t, {"handler", "replied", "closing"}) => InUpcall(stack[t])
         /\ OnTop(t, {"poller"}) => OnPoll(stack[t])
         /\ OnTop(t, {"blocked"}) => Len(stack[t]) = 1
         /\ ~OnTop(t, {"server", "forever"})
<1>1. stack[t] \in Seq(Frame) /\ Len(stack[t]) \in Nat
  BY LenProperties DEF TypeOK
<1>2. /\ Pop(stack[t]) \in Seq(Frame)
      /\ Len(Pop(stack[t])) = IF stack[t] = <<>> THEN 0 ELSE Len(stack[t]) - 1
      /\ \A i \in 1 .. Len(Pop(stack[t])) : Pop(stack[t])[i] = stack[t][i]
  BY <1>1, PopProperties
<1>3. Len(stack[t]) = 1 => Top(t) = stack[t][1] /\ Pop(stack[t]) = <<>>
  BY <1>1, <1>2, EmptySeq DEF Top
<1>4. InUpcall(stack[t]) => /\ Top(t) = stack[t][2] /\ OnPoll(Pop(stack[t]))
                            /\ Pop(stack[t])[1] = stack[t][1]
  <2>1. ASSUME InUpcall(stack[t])
        PROVE  /\ Top(t) = stack[t][2] /\ Len(Pop(stack[t])) = 1
               /\ Pop(stack[t])[1] = stack[t][1] /\ Pop(stack[t]) # <<>>
    BY <1>1, <1>2, <2>1, EmptySeq DEF Top, InUpcall, PollsBelow
  <2> QED BY <2>1 DEF OnPoll, InUpcall, PollsBelow
<1>5. CASE stack[t] = <<>>
  BY <1>1, <1>3, <1>4, <1>5, EmptySeq DEF OnTop, InUpcall, PollsBelow
<1>6. CASE OnPoll(stack[t])
  <2>1. Top(t).kind = "poller" /\ Len(stack[t]) = 1
    BY <1>3, <1>6 DEF OnPoll, PollsBelow
  <2> QED BY <1>1, <1>2, <1>3, <1>4, <1>6, <2>1 DEF OnTop
<1>7. CASE InUpcall(stack[t])
  <2>1. Top(t).kind \in {"handler", "replied", "closing"}
    BY <1>4, <1>7 DEF InUpcall
  <2> QED BY <1>1, <1>2, <1>3, <1>4, <1>7, <2>1 DEF OnTop
<1>8. CASE Len(stack[t]) = 1 /\ stack[t][1].kind = "blocked"
  <2>1. Top(t).kind = "blocked"
    BY <1>3, <1>8
  <2> QED BY <1>1, <1>2, <1>3, <1>4, <1>8, <2>1 DEF OnTop
<1> QED BY <1>5, <1>6, <1>7, <1>8 DEF AheadShape

(* A frame is put on top.                                                   *)
LEMMA ShapePush ==
  ASSUME NEW s \in Seq(Frame), NEW f \in Frame
  PROVE  /\ s = <<>> => Len(Append(s, f)) = 1 /\ Append(s, f)[1] = f
         /\ OnPoll(s) => /\ Len(Append(s, f)) = 2 /\ PollsBelow(Append(s, f))
                         /\ Append(s, f)[1] = s[1] /\ Append(s, f)[2] = f
<1>1. /\ Append(s, f) \in Seq(Frame) /\ Len(Append(s, f)) = Len(s) + 1
      /\ \A i \in 1 .. Len(s) : Append(s, f)[i] = s[i]
      /\ Append(s, f)[Len(s) + 1] = f /\ Len(s) \in Nat
  BY AppendProperties, LenProperties
<1>2. s = <<>> => Len(s) = 0
  OBVIOUS
<1>3. OnPoll(s) => /\ Len(Append(s, f)) = 2 /\ Append(s, f)[1] = s[1] /\ Append(s, f)[2] = f
  BY <1>1 DEF OnPoll
<1>4. Append(s, f) # <<>>
  BY <1>1, EmptySeq
<1> QED BY <1>1, <1>2, <1>3, <1>4 DEF OnPoll, PollsBelow

(* The other threads, while t takes a step.                                 *)
LEMMA AheadStep ==
  ASSUME TypeOK, AheadBody, NEW t \in Threads,
         \A u \in Threads \ {t} :
           /\ stack'[u] = stack[u]
           /\ pc'[u] = pc[u] \/ (pc[u] = "blocked" /\ pc'[u] = "resumed"),
         \A u \in Threads \ {t} : PollsBelow(stack[u]) => serverThread' \in {u, serverThread},
         \A c \in Conditions : conds'[c].signaled => conds[c].signaled \/ abortRead',
         (abortRead => abortRead') \/ \A u \in Threads \ {t} : ~PollsBelow(stack[u]),
         AheadAt(t)',
         PollsBelow(stack'[t]) => PollsBelow(stack[t])
                                  \/ \A u \in Threads \ {t} : ~PollsBelow(stack[u])
  PROVE  AheadBody'
<1>1. ASSUME NEW u \in Threads \ {t} PROVE AheadAt(u)'
  <2>1. AheadAt(u) /\ stack'[u] = stack[u]
    BY <1>1 DEF AheadBody
  <2>2. pc'[u] = pc[u] \/ (pc[u] = "blocked" /\ pc'[u] = "resumed")
    BY <1>1
  <2>3. pc'[u] # "start" /\ (pc'[u] \in Looping => pc'[u] = pc[u])
    BY <2>1, <2>2 DEF AheadAt, Looping
  <2>4. AheadShape(stack'[u]) /\ (pc'[u] \in Looping => OnPoll(stack'[u]))
    BY <2>1, <2>3 DEF AheadAt
  <2>5. PollsBelow(stack[u]) => serverThread' = u \/ pc'[u] = "loop"
    BY <1>1, <2>1, <2>2 DEF AheadAt
  <2>6. ASSUME PollsBelow(stack[u]), conds'[stack[u][1].arg].signaled,
               InUpcall(stack[u]) \/ pc'[u] \in Looping \ {"loop"}
        PROVE  abortRead'
    <3>1. abortRead => abortRead'
      BY <1>1, <2>6
    <3>2. stack[u][1].arg \in Conditions
      BY <1>1, <2>6, PollsFor
    <3>3. conds[stack[u][1].arg].signaled \/ abortRead'
      BY <2>6, <3>2
    <3>4. InUpcall(stack[u]) \/ pc[u] \in Looping \ {"loop"}
      BY <2>3, <2>6
    <3>5. PollsBelow(stack[u]) /\ conds[stack[u][1].arg].signaled
            /\ (InUpcall(stack[u]) \/ pc[u] \in Looping \ {"loop"})
          => abortRead
      BY <2>1 DEF AheadAt
    <3> QED BY <2>6, <3>1, <3>3, <3>4, <3>5
  <2> QED BY <2>1, <2>3, <2>4, <2>5, <2>6 DEF AheadAt
<1>2. \A u \in Threads : AheadAt(u)'
  BY <1>1
<1>3. \A u, v \in Threads : PollsBelow(stack'[u]) /\ PollsBelow(stack'[v]) => u = v
  BY DEF AheadBody
<1> QED BY <1>2, <1>3 DEF AheadBody

(* A step in which no thread goes on.                                       *)
LEMMA AheadPassive ==
  ASSUME TypeOK, AheadBody, UNCHANGED <<stack, serverThread>>,
         \A u \in Threads : pc'[u] = pc[u] \/ (pc[u] = "blocked" /\ pc'[u] = "resumed"),
         \A c \in Conditions : conds'[c].signaled => conds[c].signaled \/ abortRead',
         abortRead => abortRead'
  PROVE  AheadBody'
<1>1. ASSUME NEW u \in Threads PROVE AheadAt(u)'
  <2>1. AheadAt(u) /\ stack'[u] = stack[u]
    BY <1>1 DEF AheadBody
  <2>2. pc'[u] = pc[u] \/ (pc[u] = "blocked" /\ pc'[u] = "resumed")
    BY <1>1
  <2>3. pc'[u] # "start" /\ (pc'[u] \in Looping => pc'[u] = pc[u])
    BY <2>1, <2>2 DEF AheadAt, Looping
  <2>4. ASSUME PollsBelow(stack[u]), conds'[stack[u][1].arg].signaled PROVE
               conds[stack[u][1].arg].signaled \/ abortRead'
    BY <2>4, PollsFor
  <2> QED BY <2>1, <2>2, <2>3, <2>4 DEF AheadAt
<1> QED BY <1>1 DEF AheadBody

(* A thread that polls is the only one that does.                           *)
LEMMA PollsAlone ==
  ASSUME AheadBody, NEW t \in Threads, PollsBelow(stack[t])
  PROVE  \A u \in Threads \ {t} : ~PollsBelow(stack[u])
BY DEF AheadBody

(* The steps of CMDataAvailable, on top of s: the reader was asked to stop  *)
(* if the condition that t polls for is signaled, or it stops now.          *)
LEMMA ReadAheadKept ==
  ASSUME TypeOK, AheadBody, NEW t \in Threads, NEW s \in Seq(Frame), OnPoll(s),
         PollsBelow(stack[t]), s[1] = stack[t][1], pc[t] # "loop",
         serverThread' = serverThread,
         \/ /\ ReadNext(t, s)
            /\ conds[s[1].arg].signaled => abortRead
         \/ EndDispatch(t) /\ stack' = [stack EXCEPT ![t] = s]
  PROVE  AheadBody'
<1>0. /\ pc \in [Threads -> PCs] /\ stack \in [Threads -> Seq(Frame)]
      /\ conds \in [Conditions -> CondRecord] /\ s[1].arg \in Conditions
  BY PollsFor DEF TypeOK, PCs
<1>1. \A u \in Threads \ {t} : ~PollsBelow(stack[u])
  BY PollsAlone
<1>2. serverThread' = t
  BY DEF AheadBody, AheadAt
<1>3. ASSUME stack' = [stack EXCEPT ![t] = s],
             \E S : pc' \in {[pc EXCEPT ![t] = "loop"], [Trigger(S) EXCEPT ![t] = "loop"]},
             \A c \in Conditions : conds'[c].signaled = conds[c].signaled
      PROVE  AheadBody'
  <2>1. pc'[t] = "loop" /\ stack'[t] = s
    BY <1>0, <1>3 DEF Trigger
  <2>2. AheadAt(t)'
    BY <1>2, <2>1 DEF AheadAt, AheadShape, OnPoll, InUpcall, Looping
  <2>3. \A u \in Threads \ {t} :
           /\ stack'[u] = stack[u]
           /\ pc'[u] = pc[u] \/ (pc[u] = "blocked" /\ pc'[u] = "resumed")
    BY <1>0, <1>3 DEF Trigger
  <2> QED BY <1>1, <1>3, <2>2, <2>3, AheadStep
<1>4. ASSUME NEW f \in Frame, f.kind \in {"handler", "closing"},
             stack' = [stack EXCEPT ![t] = Append(s, f)],
             \E S : pc' \in {[pc EXCEPT ![t] = "user"], [Trigger(S) EXCEPT ![t] = "user"]},
             \A c \in Conditions : conds'[c].signaled = conds[c].signaled,
             abortRead' = abortRead, conds[s[1].arg].signaled => abortRead
      PROVE  AheadBody'
  <2>1. pc'[t] = "user" /\ stack'[t] = Append(s, f)
    BY <1>0, <1>4 DEF Trigger
  <2>2. InUpcall(stack'[t]) /\ stack'[t][1] = s[1]
    <3>1. /\ Len(Append(s, f)) = 2 /\ PollsBelow(Append(s, f))
          /\ Append(s, f)[1] = s[1] /\ Append(s, f)[2] = f
      BY ShapePush
    <3> QED BY <1>4, <2>1, <3>1 DEF InUpcall
  <2>3. AheadAt(t)'
    BY <1>0, <1>2, <1>4, <2>1, <2>2 DEF AheadAt, AheadShape, Looping
  <2>4. \A u \in Threads \ {t} :
           /\ stack'[u] = stack[u]
           /\ pc'[u] = pc[u] \/ (pc[u] = "blocked" /\ pc'[u] = "resumed")
    BY <1>0, <1>4 DEF Trigger
  <2> QED BY <1>1, <1>4, <2>3, <2>4, AheadStep
<1>5. ASSUME NEW c \in Conditions, ReadResponse(t, s, c), conds[s[1].arg].signaled => abortRead
      PROVE  AheadBody'
  <2> DEFINE f == [kind |-> "handler", arg |-> c]
  <2>1. f \in Frame /\ f.kind = "handler"
    BY FrameType DEF WaitKinds
  <2>2. stack' = [stack EXCEPT ![t] = Append(s, f)] /\ pc' = [pc EXCEPT ![t] = "user"]
        /\ UNCHANGED <<conds, abortRead>>
    BY <1>5 DEF ReadResponse
  <2> HIDE DEF f
  <2> QED BY <1>4, <1>5, <2>1, <2>2
<1>6. ASSUME NEW k \in Conns, ReadEof(t, s, k), conds[s[1].arg].signaled => abortRead
      PROVE  AheadBody'
  <2> DEFINE f == [kind |-> "closing", arg |-> k]
  <2>1. f \in Frame /\ f.kind = "closing"
    BY FrameType DEF WaitKinds
  <2>2. conds' = [c \in Conditions |-> [conds[c] EXCEPT !.failed = @ \/ c \in Dependents(k)]]
    BY <1>6 DEF ReadEof
  <2>3. \A c \in Conditions : conds'[c].signaled = conds[c].signaled
    BY <1>0, <2>2 DEF CondRecord
  <2>4. \/ /\ stack' = [stack EXCEPT ![t] = Append(s, f)] /\ abortRead' = abortRead
           /\ pc' = [Trigger(Dependents(k)) EXCEPT ![t] = "user"]
        \/ /\ stack' = [stack EXCEPT ![t] = s]
           /\ pc' = [Trigger(Dependents(k)) EXCEPT ![t] = "loop"]
    BY <1>6 DEF ReadEof
  <2> HIDE DEF f
  <2> QED BY <1>3, <1>4, <1>6, <2>1, <2>3, <2>4
<1>7. CASE EndDispatch(t) /\ stack' = [stack EXCEPT ![t] = s]
  BY <1>3, <1>7 DEF EndDispatch
<1>8. CASE ReadNext(t, s) /\ (conds[s[1].arg].signaled => abortRead)
  <2>1. CASE net = <<>>
    BY <1>7, <1>8, <2>1 DEF ReadNext
  <2>2. CASE net # <<>> /\ UNCHANGED conds /\ stack' = [stack EXCEPT ![t] = s]
             /\ pc' = [pc EXCEPT ![t] = "loop"]
    BY <1>3, <2>2
  <2> QED BY <1>5, <1>6, <1>8, <2>1, <2>2 DEF ReadNext
<1> QED BY <1>7, <1>8

(* A thread that begins a wait has an empty stack.                          *)
LEMMA WaitsFirst ==
  ASSUME TypeOK, AheadBody, WaitsDoNotNest, NEW t \in Threads, WaitDepth(t) < MaxDepth
  PROVE  stack[t] = <<>>
<1>1. FrameKinds(stack[t]) \cap WaitKinds = {}
  <2>1. WaitDepth(t) \in Nat
    BY WaitDepthZero
  <2>2. WaitDepth(t) < 1
    BY <2>1, ControlAssumption DEF WaitsDoNotNest
  <2> QED BY <2>2, WaitDepthZero
<1>2. AheadShape(stack[t]) /\ stack[t] \in Seq(Frame)
  BY DEF AheadBody, AheadAt, TypeOK
<1>3. ASSUME stack[t] # <<>> PROVE FALSE
  <2>1. 1 \in DOMAIN stack[t]
    BY <1>2, <1>3, EmptySeq, LenProperties
  <2>2. stack[t][1].kind \in WaitKinds
    BY <1>2, <1>3 DEF AheadShape, OnPoll, InUpcall, PollsBelow, WaitKinds
  <2> QED BY <1>1, <2>1, <2>2 DEF FrameKinds
<1> QED BY <1>3

LEMMA StepAhead ==
  TypeOK /\ WaitInv /\ LockKept /\ AheadBody /\ WaitsDoNotNest /\ ~hasThread /\ ~hasThread'
    /\ [Next]_vars => AheadBody'
<1> SUFFICES ASSUME TypeOK, WaitInv, LockKept, AheadBody, WaitsDoNotNest, ~hasThread,
                    ~hasThread', [Next]_vars
             PROVE  AheadBody'
  OBVIOUS
<1> USE DEF InUser, MayCall, LockFree
<1>0. /\ pc \in [Threads -> PCs] /\ stack \in [Threads -> Seq(Frame)]
      /\ conds \in [Conditions -> CondRecord] /\ abortRead \in BOOLEAN
      /\ NoThread \notin Threads
      /\ \A t \in Threads : AheadAt(t) /\ AheadShape(stack[t]) /\ stack[t] \in Seq(Frame)
  BY ControlAssumption DEF TypeOK, PCs, AheadBody, AheadAt
(* What a step of t leaves alone in the other threads.                      *)
<1>1. ASSUME NEW t \in Threads, NEW x, NEW s,
             pc' = [pc EXCEPT ![t] = x], stack' \in {stack, [stack EXCEPT ![t] = s]}
      PROVE  \A u \in Threads \ {t} :
               /\ stack'[u] = stack[u]
               /\ pc'[u] = pc[u] \/ (pc[u] = "blocked" /\ pc'[u] = "resumed")
  BY <1>0, <1>1
<1>3. ASSUME NEW t \in Threads, NEW c \in Conditions, AppSignal(t, c) PROVE AheadBody'
  <2>1. SignalEffect(c) /\ UNCHANGED <<stack, serverThread>>
    BY <1>3 DEF AppSignal
  <2>2. /\ \A d \in Conditions : conds'[d].signaled => conds[d].signaled \/ abortRead'
        /\ abortRead => abortRead'
    BY <1>0, <2>1 DEF SignalEffect
  <2> QED BY <2>1, <2>2, SignalStep, AheadPassive
<1>4. ASSUME NEW t \in Threads, NEW c \in Conditions, ConditionFail(t, c) PROVE AheadBody'
  <2>1. UNCHANGED <<stack, serverThread, abortRead>> /\ (pc' = pc \/ pc' = Trigger({c}))
        /\ conds' = [conds EXCEPT ![c].failed = TRUE]
    BY <1>4 DEF ConditionFail
  <2>2. \A d \in Conditions : conds'[d].signaled = conds[d].signaled
    BY <1>0, <2>1 DEF CondRecord
  <2> QED BY <2>1, <2>2, TriggerStep, AheadPassive
<1>5. ASSUME NEW t \in Threads, NEW k, ConditionGet(t, k) PROVE AheadBody'
  <2>1. UNCHANGED <<stack, serverThread, abortRead, pc>>
    BY <1>5 DEF ConditionGet
  <2>2. \A d \in Conditions : conds'[d].signaled => conds[d].signaled
    BY <1>0, <1>5 DEF ConditionGet, Unused
  <2> QED BY <2>1, <2>2, AheadPassive
<1>6. ASSUME NEW t \in Threads, NEW k, ConnectionClose(t, k) PROVE AheadBody'
  BY <1>6, AheadPassive DEF ConnectionClose
<1>7. ASSUME NEW t \in Threads, NEW c \in Conditions, WaitAlreadyDone(t, c) PROVE AheadBody'
  <2>1. UNCHANGED <<stack, serverThread, abortRead, pc>>
    BY <1>7 DEF WaitAlreadyDone
  <2>2. conds' = [conds EXCEPT ![c].result = IF conds[c].signaled THEN "signaled" ELSE "failed"]
    BY <1>7 DEF WaitAlreadyDone
  <2>3. \A d \in Conditions : conds'[d].signaled => conds[d].signaled
    BY <1>0, <2>2 DEF CondRecord
  <2> QED BY <2>1, <2>3, AheadPassive
<1>8. ASSUME NEW t \in Threads, ForkCommThread(t) \/ RunNetwork(t) PROVE AheadBody'
  BY <1>8 DEF ForkCommThread, RunNetwork
<1>9. ASSUME NEW t \in Threads, CManagerClose(t) PROVE AheadBody'
  <2>1. UNCHANGED <<stack, serverThread, abortRead, conds>>
    BY <1>9 DEF CManagerClose
  <2>2. PICK x \in {"join", "closeconns"} : pc' = [pc EXCEPT ![t] = x]
    BY <1>9 DEF CManagerClose
  <2>3. pc'[t] = x
    BY <1>0, <2>2
  <2>4. AheadAt(t)'
    <3>1. pc[t] # "loop"
      BY <1>9 DEF CManagerClose
    <3> QED BY <1>0, <2>1, <2>2, <2>3, <3>1 DEF AheadAt, Looping
  <2> QED BY <1>1, <2>1, <2>2, <2>4, AheadStep
<1>10. ASSUME NEW t \in Threads, NEW c \in Conditions, WaitPolling(t, c) PROVE AheadBody'
  <2>1. stack[t] = <<>> /\ lock = NoThread
    BY <1>10, WaitsFirst DEF WaitPolling, MayWait
  <2> DEFINE f == [kind |-> "poller", arg |-> c]
  <2>2. f \in Frame /\ f.kind = "poller"
    BY FrameType DEF WaitKinds
  <2>3. stack' = [stack EXCEPT ![t] = Append(stack[t], f)] /\ pc' = [pc EXCEPT ![t] = "loop"]
        /\ UNCHANGED <<serverThread, abortRead>>
        /\ conds' = [conds EXCEPT ![c].waiting = TRUE] /\ serverThread \in {NoThread, t}
    BY <1>10 DEF WaitPolling, Push, Polls
  <2> HIDE DEF f
  <2>4. \A u \in Threads \ {t} : ~PollsBelow(stack[u])
    BY <1>0, <2>1, <2>3 DEF AheadAt, LockKept, LockedPCs
  <2>5. \A d \in Conditions : conds'[d].signaled = conds[d].signaled
    BY <1>0, <2>3 DEF CondRecord
  <2>6. AheadAt(t)'
    <3>1. pc'[t] = "loop" /\ stack'[t] = Append(stack[t], f)
      BY <1>0, <2>3
    <3>2. Len(stack'[t]) = 1 /\ stack'[t][1] = f
      BY <1>0, <2>1, <2>2, <3>1, ShapePush
    <3>3. OnPoll(stack'[t])
      BY <2>2, <3>2 DEF OnPoll, PollsBelow
    <3> QED BY <3>1, <3>3 DEF AheadAt, AheadShape, InUpcall, OnPoll, Looping
  <2> QED BY <1>1, <2>3, <2>4, <2>5, <2>6, AheadStep
<1>11. ASSUME NEW t \in Threads, NEW c \in Conditions, WaitBlocking(t, c) PROVE AheadBody'
  <2>1. stack[t] = <<>>
    BY <1>11, WaitsFirst DEF WaitBlocking
  <2> DEFINE f == [kind |-> "blocked", arg |-> c]
  <2>2. f \in Frame /\ f.kind = "blocked"
    BY FrameType DEF WaitKinds
  <2>3. stack' = [stack EXCEPT ![t] = Append(stack[t], f)] /\ pc' = [pc EXCEPT ![t] = "blocked"]
        /\ UNCHANGED <<serverThread, abortRead>>
        /\ conds' = [conds EXCEPT ![c].waiting = TRUE]
    BY <1>11 DEF WaitBlocking, Push
  <2> HIDE DEF f
  <2>4. \A d \in Conditions : conds'[d].signaled = conds[d].signaled
    BY <1>0, <2>3 DEF CondRecord
  <2>5. AheadAt(t)' /\ ~PollsBelow(stack'[t])
    <3>1. pc'[t] = "blocked" /\ stack'[t] = Append(stack[t], f)
      BY <1>0, <2>3
    <3>2. Len(stack'[t]) = 1 /\ stack'[t][1] = f
      BY <1>0, <2>1, <2>2, <3>1, ShapePush
    <3> QED BY <2>2, <3>1, <3>2 DEF AheadAt, AheadShape, PollsBelow, InUpcall, Looping
  <2> QED BY <1>1, <2>3, <2>4, <2>5, AheadStep
<1>12. ASSUME NEW t \in Threads, SpuriousWakeup(t) PROVE AheadBody'
  BY <1>0, <1>12, AheadPassive DEF SpuriousWakeup
<1>13. ASSUME NEW t \in Threads, ReturnFromBlocking(t) PROVE AheadBody'
  <2> DEFINE c == Top(t).arg
  <2>1. c \in Conditions /\ conds' = Finish(c) /\ OnTop(t, {"blocked"})
    BY <1>13, BlockedFrame DEF ReturnFromBlocking, WaitInv, OnTop
  <2> HIDE DEF c
  <2>2. \A d \in Conditions : conds'[d].signaled = conds[d].signaled
    BY <2>1, FinishFrees, FinishResult
  <2>3. stack' = [stack EXCEPT ![t] = Pop(stack[t])] /\ pc' = [pc EXCEPT ![t] = "user"]
        /\ UNCHANGED <<serverThread, abortRead>>
    BY <1>13 DEF ReturnFromBlocking
  <2>4. stack'[t] = <<>> /\ pc'[t] = "user"
    BY <1>0, <2>1, <2>3, ShapeTop
  <2>5. AheadAt(t)' /\ ~PollsBelow(stack'[t])
    BY <2>4 DEF AheadAt, AheadShape, PollsBelow, Looping
  <2> QED BY <1>1, <2>2, <2>3, <2>5, AheadStep
<1>14. ASSUME NEW t \in Threads, Start(t) PROVE AheadBody'
  BY <1>0, <1>14 DEF Start, AheadAt
(* The steps of the loop of CMCondition_wait and of socket_select.          *)
<1>15. ASSUME NEW t \in Threads, OnPoll(stack[t]), stack' = stack, abortRead' = abortRead,
              NEW x \in {"loop", "select", "ready", "dispatch", "stuck", "spin"},
              pc' = [pc EXCEPT ![t] = x], serverThread' = t,
              x \notin {"loop", "spin"} =>
                (conds[stack[t][1].arg].signaled => abortRead), conds' = conds
       PROVE  AheadBody'
  <2>1. PollsBelow(stack[t]) /\ pc'[t] = x
    BY <1>0, <1>15 DEF OnPoll
  <2>2. AheadAt(t)'
    BY <1>15, <2>1 DEF AheadAt, AheadShape, OnPoll, InUpcall, Looping
  <2> QED BY <1>1, <1>15, <2>1, <2>2, PollsAlone, AheadStep
<1>16. ASSUME NEW t \in Threads, pc[t] \in Looping
       PROVE  /\ OnPoll(stack[t]) /\ PollsBelow(stack[t]) /\ Top(t) = stack[t][1]
              /\ OnTop(t, WaitKinds) /\ Top(t).kind = "poller"
              /\ pc[t] # "loop" => serverThread = t
              /\ pc[t] # "loop" => (conds[stack[t][1].arg].signaled => abortRead)
  <2>1. OnPoll(stack[t]) /\ PollsBelow(stack[t]) /\ Top(t) = stack[t][1]
    BY <1>0, <1>16, ShapeTop DEF AheadAt, OnPoll
  <2> QED BY <1>0, <1>16, <2>1 DEF AheadAt, OnTop, PollsBelow, WaitKinds
<1>17. ASSUME NEW t \in Threads, LoopSelect(t) PROVE AheadBody'
  <2>1. pc[t] = "loop" /\ ~WaitsDone(t) /\ serverThread' = t /\ pc' = [pc EXCEPT ![t] = "select"]
        /\ UNCHANGED <<stack, conds, abortRead>>
    BY <1>17 DEF LoopSelect
  <2>2. ~conds[stack[t][1].arg].signaled
    BY <1>16, <2>1 DEF WaitsDone, Done, Looping
  <2> QED BY <1>15, <1>16, <2>1, <2>2 DEF Looping
<1>18. ASSUME NEW t \in Threads, LoopSpin(t) PROVE AheadBody'
  <2>1. pc[t] = "loop" /\ serverThread' = t /\ pc' = [pc EXCEPT ![t] = "spin"]
        /\ UNCHANGED <<stack, conds, abortRead>>
    BY <1>18 DEF LoopSpin
  <2> QED BY <1>15, <1>16, <2>1 DEF Looping
<1>19. ASSUME NEW t \in Threads, LoopClosed(t) PROVE AheadBody'
  <2>1. pc[t] = "loop" /\ Top(t).kind = "forever"
    BY <1>19 DEF LoopClosed, OnTop
  <2> QED BY <1>16, <2>1 DEF Looping
<1>20. ASSUME NEW t \in Threads, SelectReturns(t) PROVE AheadBody'
  <2>1. pc[t] = "select" /\ pc' = [pc EXCEPT ![t] = "ready"]
        /\ UNCHANGED <<stack, conds, abortRead, serverThread>>
    BY <1>20 DEF SelectReturns
  <2>2. serverThread' = t
    BY <1>16, <2>1 DEF Looping
  <2> QED BY <1>15, <1>16, <2>1, <2>2 DEF Looping
<1>21. ASSUME NEW t \in Threads, AfterSelect(t) PROVE AheadBody'
  <2>1. pc[t] = "ready" /\ UNCHANGED <<stack, conds, abortRead, serverThread>>
    BY <1>21 DEF AfterSelect
  <2>2. PICK x \in {"loop", "stuck", "dispatch"} : pc' = [pc EXCEPT ![t] = x]
    BY <1>21 DEF AfterSelect
  <2>3. serverThread' = t
    BY <1>16, <2>1 DEF Looping
  <2> QED BY <1>15, <1>16, <2>1, <2>2, <2>3 DEF Looping
<1>22. ASSUME NEW t \in Threads, LoopReturn(t) PROVE AheadBody'
  <2> DEFINE c == Top(t).arg
  <2>1. pc[t] = "loop" /\ pc' = [pc EXCEPT ![t] = "user"] /\ abortRead' = abortRead
        /\ stack' = [stack EXCEPT ![t] = Pop(stack[t])]
    BY <1>22 DEF LoopReturn
  <2>2. OnPoll(stack[t]) /\ PollsBelow(stack[t]) /\ c \in Conditions
    BY <1>16, <2>1, PollsFor DEF Looping
  <2>3. \A d \in Conditions : conds'[d].signaled = conds[d].signaled
    <3>1. conds' = [Finish(c) EXCEPT ![c].failed = @ \/ (closed /\ Top(t).kind = "server")]
      BY <1>22 DEF LoopReturn
    <3> HIDE DEF c
    <3>2. PICK r : r = [Finish(c)[c] EXCEPT !.failed = @ \/ (closed /\ Top(t).kind = "server")]
      OBVIOUS
    <3>3. conds' = [Finish(c) EXCEPT ![c] = r]
      BY <3>1, <3>2
    <3>4. r.signaled = Finish(c)[c].signaled
      BY <3>2
    <3>5. \A d \in Conditions : conds'[d] = IF d = c THEN r ELSE conds[d]
      BY <2>2, <3>3, FinishFrees
    <3> QED BY <2>2, <3>4, <3>5, FinishResult
  <2>4. stack'[t] = <<>> /\ pc'[t] = "user"
    BY <1>0, <2>1, <2>2, ShapeTop DEF OnPoll
  <2>5. AheadAt(t)' /\ ~PollsBelow(stack'[t])
    BY <2>4 DEF AheadAt, AheadShape, PollsBelow, Looping
  <2> QED BY <1>1, <2>1, <2>2, <2>3, <2>5, PollsAlone, AheadStep
<1>23. ASSUME NEW t \in Threads, Dispatch(t) PROVE AheadBody'
  <2>1. pc[t] = "dispatch"
    BY <1>23 DEF Dispatch
  <2>2. /\ OnPoll(stack[t]) /\ PollsBelow(stack[t])
        /\ conds[stack[t][1].arg].signaled => abortRead
    BY <1>16, <2>1 DEF Looping
  <2>3. \/ ReadNext(t, stack[t])
        \/ EndDispatch(t) /\ stack' = [stack EXCEPT ![t] = stack[t]]
    BY <1>0, <1>23 DEF Dispatch
  <2>4. serverThread' = serverThread
    BY <1>23 DEF Dispatch
  <2> QED BY <1>0, <2>1, <2>2, <2>3, <2>4, ReadAheadKept
<1>24. ASSUME NEW t \in Threads, HandlerSignal(t) PROVE AheadBody'
  <2>1. pc[t] = "user" /\ OnTop(t, {"handler"})
    BY <1>24 DEF HandlerSignal
  <2>2. InUpcall(stack[t]) /\ PollsBelow(stack[t]) /\ Top(t) \in Frame
    BY <1>0, <2>1, ShapeTop, TopProperties DEF InUpcall, OnTop
  <2> DEFINE f == [Top(t) EXCEPT !.kind = "replied"]
             s == Pop(stack[t])
  <2>3. f \in Frame /\ f.kind = "replied"
    BY <2>1, <2>2 DEF Frame, OnTop, WaitKinds
  <2>4. /\ stack' = [stack EXCEPT ![t] = Append(s, f)]
        /\ SignalEffect(Top(t).arg) /\ serverThread' = serverThread
    BY <1>24 DEF HandlerSignal
  <2>5. OnPoll(s) /\ s \in Seq(Frame) /\ s[1] = stack[t][1]
    BY <1>0, <2>2, ShapeTop
  <2> HIDE DEF f, s
  <2>6. /\ \A d \in Conditions : conds'[d].signaled => conds[d].signaled \/ abortRead'
        /\ abortRead => abortRead'
    BY <1>0, <2>4 DEF SignalEffect
  <2>7. stack'[t] = Append(s, f) /\ pc'[t] = "user"
    BY <1>0, <2>1, <2>4, SignalStep
  <2>8. InUpcall(stack'[t]) /\ stack'[t][1] = stack[t][1]
    <3>1. /\ Len(Append(s, f)) = 2 /\ PollsBelow(Append(s, f))
          /\ Append(s, f)[1] = s[1] /\ Append(s, f)[2] = f
      BY <2>3, <2>5, ShapePush
    <3> QED BY <2>3, <2>5, <2>7, <3>1 DEF InUpcall
  <2>9. AheadAt(t)'
    <3>1. serverThread' = t
      BY <1>0, <2>1, <2>2, <2>4 DEF AheadAt
    <3>2. conds'[stack[t][1].arg].signaled => abortRead'
      BY <1>0, <2>2, <2>6, PollsFor DEF AheadAt
    <3> QED BY <2>7, <2>8, <3>1, <3>2 DEF AheadAt, AheadShape, Looping
  <2>10. \A u \in Threads \ {t} :
           /\ stack'[u] = stack[u]
           /\ pc'[u] = pc[u] \/ (pc[u] = "blocked" /\ pc'[u] = "resumed")
    BY <1>0, <2>4, SignalStep
  <2> QED BY <2>2, <2>4, <2>6, <2>9, <2>10, AheadStep
<1>25. ASSUME NEW t \in Threads, HandlerReturn(t) PROVE AheadBody'
  <2>1. pc[t] = "user" /\ OnTop(t, {"replied"})
    BY <1>25 DEF HandlerReturn
  <2>2. InUpcall(stack[t]) /\ PollsBelow(stack[t])
    BY <1>0, <2>1, ShapeTop DEF InUpcall, OnTop
  <2> DEFINE s == Pop(stack[t])
  <2>3. OnPoll(s) /\ s \in Seq(Frame) /\ s[1] = stack[t][1]
    BY <1>0, <2>2, ShapeTop
  <2>4. \/ ReadNext(t, s)
        \/ EndDispatch(t) /\ stack' = [stack EXCEPT ![t] = s]
    BY <1>25 DEF HandlerReturn
  <2>5. conds[stack[t][1].arg].signaled => abortRead
    BY <1>0, <2>2 DEF AheadAt
  <2>6. serverThread' = serverThread
    BY <1>25 DEF HandlerReturn
  <2> HIDE DEF s
  <2> QED BY <2>1, <2>2, <2>3, <2>4, <2>5, <2>6, ReadAheadKept
<1>26. ASSUME NEW t \in Threads, CloseHandlerReturn(t) PROVE AheadBody'
  <2>1. pc[t] = "user" /\ OnTop(t, {"closing"}) /\ abortRead'
        /\ pc' = [pc EXCEPT ![t] = "loop"]
        /\ UNCHANGED <<conds, serverThread>>
    BY <1>26 DEF CloseHandlerReturn
  <2> DEFINE s == Pop(stack[t])
  <2>2. InUpcall(stack[t]) /\ PollsBelow(stack[t]) /\ OnPoll(s)
    BY <1>0, <2>1, ShapeTop DEF InUpcall, OnTop
  <2>3. stack' = [stack EXCEPT ![t] = s]
    BY <1>26 DEF CloseHandlerReturn
  <2> HIDE DEF s
  <2>4. stack'[t] = s /\ pc'[t] = "loop"
    BY <1>0, <2>1, <2>3
  <2>5. AheadAt(t)'
    BY <2>1, <2>2, <2>4 DEF AheadAt, AheadShape, Looping
  <2> QED BY <1>1, <2>1, <2>2, <2>3, <2>5, AheadStep
<1>27. ASSUME NEW t \in Threads, Join(t) PROVE AheadBody'
  <2>1. pc[t] = "join" /\ UNCHANGED <<conds, serverThread, stack, abortRead>>
    BY <1>27 DEF Join
  <2>2. PICK x \in {"crashed", "closeconns"} : pc' = [pc EXCEPT ![t] = x]
    BY <1>27 DEF Join
  <2>3. AheadAt(t)'
    BY <1>0, <2>1, <2>2 DEF AheadAt, Looping
  <2> QED BY <1>1, <2>1, <2>2, <2>3, AheadStep
<1>28. ASSUME NEW t \in Threads, CloseConns(t) PROVE AheadBody'
  <2>1. pc[t] = "closeconns" /\ UNCHANGED <<serverThread, stack>>
    BY <1>28 DEF CloseConns
  <2>2. (abortRead => abortRead') /\ \A c \in Conditions : conds'[c].signaled = conds[c].signaled
    <3>1. CASE \E k \in cmConns : connFailed[k]
      BY <1>28, <3>1 DEF CloseConns
    <3>2. CASE ~\E k \in cmConns : connFailed[k]
      <4> DEFINE hit == UNION {Dependents(k) : k \in cmConns}
      <4>1. conds' = [c \in Conditions |-> [conds[c] EXCEPT !.failed = @ \/ c \in hit]]
            /\ abortRead' = (abortRead \/ cmConns # {})
        BY <1>28, <3>2 DEF CloseConns
      <4> HIDE DEF hit
      <4> QED BY <1>0, <4>1 DEF CondRecord
    <3> QED BY <3>1, <3>2
  <2>3. AfterClose(t) \in {"exited", "user"}
    BY DEF AfterClose
  <2>4. \E S : pc' = [pc EXCEPT ![t] = "spin"] \/ pc' = [Trigger(S) EXCEPT ![t] = AfterClose(t)]
    BY <1>28 DEF CloseConns
  <2>5. \A u \in Threads \ {t} : pc'[u] = pc[u] \/ (pc[u] = "blocked" /\ pc'[u] = "resumed")
    BY <1>0, <2>4 DEF Trigger
  <2>6. pc'[t] \in {"spin", "exited", "user"}
    BY <1>0, <2>3, <2>4 DEF Trigger
  <2>7. AheadAt(t)'
    <3>1. PollsBelow(stack[t]) => stack[t][1].arg \in Conditions
      BY PollsFor
    <3> QED BY <1>0, <2>1, <2>2, <2>6, <3>1 DEF AheadAt, Looping
  <2> QED BY <2>1, <2>2, <2>5, <2>7, AheadStep
<1>29. CASE Network \/ UNCHANGED vars
  <2>1. UNCHANGED <<stack, serverThread, pc, conds, abortRead>>
    BY <1>29 DEF Network, ResponseArrives, EofArrives, vars
  <2> QED BY <2>1, AheadPassive
<1> QED
  BY <1>3, <1>4, <1>5, <1>6, <1>7, <1>8, <1>9, <1>10, <1>11, <1>12, <1>13, <1>14, <1>17,
     <1>18, <1>19, <1>20, <1>21, <1>22, <1>23, <1>24, <1>25, <1>26, <1>27, <1>28, <1>29
  DEF Next, AppCall, AppWait, Run

LEMMA InitAhead == Init => AheadInv /\ (ThreadStays => StaysInv)
<1> SUFFICES ASSUME Init PROVE AheadInv /\ (ThreadStays => StaysInv)
  OBVIOUS
<1>1. ASSUME ~hasThread PROVE AheadBody
  <2>1. /\ \A t \in Threads : stack[t] = <<>> /\ pc[t] \in {"user", "unborn"}
    BY <1>1 DEF Init
  <2> QED BY <2>1 DEF AheadBody, AheadAt, AheadShape, PollsBelow, Looping
<1>2. ThreadStays => StaysInv
  BY DEF Init, ThreadStays, StaysInv
<1> QED BY <1>1, <1>2 DEF AheadInv

(* The handlers of a thread that polls for a condition that is signaled     *)
(* return to its wait and not to another message: the steps of              *)
(* ReadAheadStops.                                                          *)
StopsReading ==
  \A t \in Threads :
    OnTop(t, {"replied"}) /\ Len(stack[t]) > 1
    /\ ~hasThread /\ stack[t][Len(stack[t]) - 1].kind = "poller"
    /\ conds[stack[t][Len(stack[t]) - 1].arg].signaled
      => stack'[t] = stack[t] \/ Len(stack'[t]) # Len(stack[t])

LEMMA StepStops == TypeOK /\ AheadInv /\ [Next]_vars => StopsReading
<1> SUFFICES ASSUME TypeOK, AheadInv, [Next]_vars, NEW t \in Threads,
                    OnTop(t, {"replied"}), Len(stack[t]) > 1, ~hasThread,
                    conds[stack[t][Len(stack[t]) - 1].arg].signaled
             PROVE  stack'[t] = stack[t] \/ Len(stack'[t]) # Len(stack[t])
  BY DEF StopsReading
<1>1. AheadAt(t) /\ stack \in [Threads -> Seq(Frame)] /\ CommThread \in Threads
  BY DEF AheadInv, AheadBody, TypeOK, Threads
<1>2. InUpcall(stack[t]) /\ stack[t] \in Seq(Frame) /\ Top(t).kind = "replied"
      /\ OnPoll(Pop(stack[t]))
  BY <1>1, ShapeTop DEF AheadAt, OnTop
<1>3. Len(stack[t]) = 2 /\ stack[t] # <<>> /\ PollsBelow(stack[t])
  BY <1>2 DEF InUpcall, PollsBelow
<1>4. abortRead /\ pc[t] \notin Looping
  BY <1>1, <1>2, <1>3 DEF AheadAt, InUpcall, OnPoll
<1>5. Len(Pop(stack[t])) = 1
  BY <1>2 DEF OnPoll
<1> DEFINE Goal == stack'[t] = stack[t] \/ Len(stack'[t]) # 2
<1>6. ASSUME NEW u \in Threads, NEW X, stack' = [stack EXCEPT ![u] = X], u # t PROVE Goal
  BY <1>1, <1>6
<1>7. ASSUME NEW u \in Threads, stack' = [stack EXCEPT ![u] = Pop(stack[u])] PROVE Goal
  <2>1. CASE u = t
    <3>1. stack'[t] = Pop(stack[t])
      BY <1>1, <1>7, <2>1
    <3>2. Len(stack'[t]) = 1
      BY <1>5, <3>1, Zenon
    <3> QED BY <3>2
  <2> QED BY <1>6, <1>7, <2>1
<1>8. ASSUME NEW u \in Threads, NEW f,
             stack' = [stack EXCEPT ![u] = Append(stack[u], f)] PROVE Goal
  <2>1. CASE u = t
    <3>1. stack[t] \in Seq(Frame \cup {f}) /\ f \in Frame \cup {f}
      BY <1>2
    <3>2. Len(Append(stack[t], f)) = Len(stack[t]) + 1
      BY <3>1, AppendProperties
    <3>3. stack'[t] = Append(stack[t], f)
      BY <1>1, <1>8, <2>1
    <3> QED BY <1>3, <3>2, <3>3
  <2> QED BY <1>6, <1>8, <2>1
<1>9. ASSUME stack' = stack PROVE Goal
  BY <1>9
<1> HIDE DEF Goal
<1>10. ASSUME NEW u \in Threads, AppCall(u) PROVE Goal
  <2>1. ASSUME NEW k, ConditionGet(u, k) \/ ConnectionClose(u, k) PROVE Goal
    BY <1>9, <2>1 DEF ConditionGet, ConnectionClose
  <2>2. ASSUME NEW c, AppSignal(u, c) \/ ConditionFail(u, c) PROVE Goal
    BY <1>9, <2>2 DEF AppSignal, ConditionFail
  <2>3. CASE ForkCommThread(u) \/ RunNetwork(u)
    <3>1. \E v \in Threads : \E f : stack' = [stack EXCEPT ![v] = Append(stack[v], f)]
      BY <1>1, <2>3 DEF ForkCommThread, RunNetwork, Push
    <3> QED BY <1>8, <3>1
  <2>4. CASE CManagerClose(u)
    BY <1>9, <2>4 DEF CManagerClose
  <2> QED BY <1>10, <2>1, <2>2, <2>3, <2>4 DEF AppCall
<1>11. ASSUME NEW u \in Threads, AppWait(u) PROVE Goal
  <2>1. ASSUME NEW c, WaitAlreadyDone(u, c) PROVE Goal
    BY <1>9, <2>1 DEF WaitAlreadyDone
  <2>2. ASSUME NEW c, WaitPolling(u, c) \/ WaitBlocking(u, c) PROVE Goal
    <3>1. \E f : stack' = [stack EXCEPT ![u] = Append(stack[u], f)]
      BY <2>2 DEF WaitPolling, WaitBlocking, Push
    <3> QED BY <1>8, <3>1
  <2> QED BY <1>11, <2>1, <2>2 DEF AppWait
<1>12. ASSUME NEW u \in Threads, Run(u) PROVE Goal
  <2>1. CASE \/ Start(u) \/ LoopSelect(u) \/ LoopSpin(u) \/ LoopClosed(u)
             \/ SelectReturns(u) \/ AfterSelect(u)
    BY <1>9, <2>1 DEF Start, LoopSelect, LoopSpin, LoopClosed, SelectReturns, AfterSelect
  <2>2. CASE Join(u) \/ CloseConns(u) \/ CManagerClose(u)
    BY <1>9, <2>2 DEF Join, CloseConns, CManagerClose
  <2>3. CASE LoopReturn(u) \/ ReturnFromBlocking(u)
    BY <1>7, <2>3 DEF LoopReturn, ReturnFromBlocking
  <2>4. CASE CloseHandlerReturn(u)
    BY <1>7, <2>4 DEF CloseHandlerReturn
  <2>5. CASE Dispatch(u)
    <3>1. u # t
      BY <1>4, <2>5 DEF Dispatch, Looping
    <3>2. \E X : stack' = [stack EXCEPT ![u] = X]
      <4>1. stack' = stack \/ ReadNext(u, stack[u])
        BY <2>5 DEF Dispatch
      <4>2. ReadNext(u, stack[u]) => \E X : stack' = [stack EXCEPT ![u] = X]
        BY DEF ReadNext, ReadResponse, ReadEof
      <4>3. stack = [stack EXCEPT ![u] = stack[u]]
        BY <1>1
      <4> QED BY <4>1, <4>2, <4>3
    <3> QED BY <1>6, <3>1, <3>2
  <2>6. CASE HandlerSignal(u)
    <3>1. u # t
      BY <1>2, <2>6 DEF HandlerSignal, OnTop
    <3>2. \E X : stack' = [stack EXCEPT ![u] = X]
      BY <2>6 DEF HandlerSignal
    <3> QED BY <1>6, <3>1, <3>2
  <2>7. CASE HandlerReturn(u)
    <3>1. stack' = [stack EXCEPT ![u] = Pop(stack[u])]
      BY <1>4, <2>7 DEF HandlerReturn
    <3> QED BY <1>7, <3>1
  <2> QED BY <1>12, <2>1, <2>2, <2>3, <2>4, <2>5, <2>6, <2>7 DEF Run
<1>13. ASSUME Network \/ UNCHANGED vars PROVE Goal
  BY <1>9, <1>13 DEF Network, ResponseArrives, EofArrives, vars
<1>14. ASSUME NEW u \in Threads, SpuriousWakeup(u) PROVE Goal
  BY <1>9, <1>14 DEF SpuriousWakeup
<1>15. Goal
  <2>1. CASE Next
    BY <1>10, <1>11, <1>12, <1>13, <1>14, <2>1 DEF Next
  <2> QED BY <1>13, <2>1
<1> QED BY <1>3, <1>15 DEF Goal

(* Once the signal of the condition a thread polls for asked the reader to  *)
(* stop, the handler that gave it returns to the wait: CMDataAvailable does *)
(* not go on to the next message (cm->abort_read_ahead in                   *)
(* INT_CMCondition_signal and CMDataAvailable), so a wait is not held up by *)
(* the messages behind its answer.  Waits are taken to be one deep: a wait  *)
(* inside an upcall takes the request of the outer one.  And a CManager     *)
(* that has a network thread is not closed: a signal given while there is   *)
(* such a thread asks nobody to stop, and the close that joins the thread   *)
(* does so only if it still finds a connection to fail.                     *)
THEOREM ReadingAheadStops ==
  ASSUME WaitsDoNotNest, ThreadStays PROVE Spec => ReadAheadStops
<1>1. Init => AheadInv /\ StaysInv
  BY InitAhead
<1>2. TypeOK /\ StaysInv /\ [Next]_vars => Stays
  BY StepStays
<1>3. TypeOK /\ WaitInv /\ LockKept /\ StaysInv /\ AheadInv /\ [Next]_vars => AheadInv'
  BY <1>2, StepAhead DEF AheadInv, Stays
<1>4. TypeOK /\ AheadInv /\ [Next]_vars => [StopsReading]_vars
  BY StepStops
<1>5. TypeOK /\ StaysInv /\ [Next]_vars => StaysInv'
  BY <1>2 DEF Stays
<1>6. Spec => [][StopsReading]_vars
  BY <1>1, <1>3, <1>4, <1>5, TypeCorrect, WaitInvariant, LockInvariant, PTL DEF Spec
<1> QED BY <1>6 DEF ReadAheadStops, StopsReading
===============================================================================
