--------------------------- MODULE XmlStream_proofs ---------------------------
(****************************************************************************)
(* Proofs about XmlStream, for every set of buffers, timers and peer        *)
(* objects and every bound.                                                 *)
(****************************************************************************)
EXTENDS XmlStream, TLAPS

(* A new stream is well typed.                                              *)
LEMMA InitTypes == Init => TypeOK
<1> SUFFICES ASSUME Init PROVE TypeOK
  OBVIOUS
<1>1. ThreadTypes
  BY StreamAssumption DEF Init, ThreadTypes
<1>2. QueueTypes
  BY DEF Init, QueueTypes
<1>3. CallbackTypes
  BY DEF Init, CallbackTypes, Idle, TimerIdle
<1> QED BY <1>1, <1>2, <1>3 DEF TypeOK, Init

(* A connection has the callback of the stream, or none.                    *)
LEMMA CallbackType == Callback \in {"stream", "none"}
BY DEF Callback

(* What Deliver leaves in rx_queue.                                         *)
LEMMA DeliverType ==
    ASSUME NEW kind \in ObjKind, NEW id \in PeerObj \cup TimerId \cup {"none"},
           run \in Nat, rx_queue \in Seq(Obj), Deliver(kind, id)
    PROVE  rx_queue' \in Seq(Obj)
<1>1. [kind |-> kind, id |-> id, run |-> run] \in Obj
  BY DEF Obj
<1>2. rx_queue' = Append(rx_queue, [kind |-> kind, id |-> id, run |-> run]) \/ rx_queue' = rx_queue
  BY DEF Deliver
<1> QED BY <1>1, <1>2

(* What QueueWrite leaves in the transmit queue.                            *)
LEMMA QueueWriteType ==
    ASSUME tx_buffers \subseteq Buf, tx_op \in Seq(TxOp), QueueWrite
    PROVE  tx_buffers' \subseteq Buf /\ tx_op' \in Seq(TxOp)
<1>1. PICK b \in Buf \ tx_buffers :
          /\ tx_buffers' = tx_buffers \cup {b}
          /\ tx_op' = Append(tx_op, [buf |-> b, cb |-> Callback])
  BY DEF QueueWrite
<1>2. [buf |-> b, cb |-> Callback] \in TxOp
  BY CallbackType DEF TxOp
<1> QED BY <1>1, <1>2

(* Stopping the stream leaves the operation queues alone or empties both.   *)
LEMMA StopStreamQueues ==
    ASSUME StopStream
    PROVE  (tx_op' = tx_op /\ rx_op' = rx_op) \/ (tx_op' = <<>> /\ rx_op' = <<>>)
BY DEF StopStream, CancelIo

(* The flags and the positions of the threads keep their types.             *)
LEMMA ThreadTypesStep == ASSUME TypeOK, [Next]_vars PROVE ThreadTypes'
<1> USE DEF TypeOK, ThreadTypes, runVars, ioVars, timerVars
<1>1. CASE RunThread
  <2>1. CASE RunStart BY <2>1 DEF RunStart
  <2>2. CASE RunSetCb BY <2>2 DEF RunSetCb
  <2>3. CASE RunWrite BY <2>3 DEF RunWrite, QueueWrite, Callback
  <2>4. CASE RunRead BY <2>4 DEF RunRead, Callback
  <2>5. CASE RunJoin BY <2>5 DEF RunJoin
  <2>6. CASE RunDrained BY <2>6 DEF RunDrained
  <2>7. CASE RunClear BY <2>7 DEF RunClear
  <2> QED BY <1>1, <2>1, <2>2, <2>3, <2>4, <2>5, <2>6, <2>7 DEF RunThread
<1>2. CASE ResetCall
  <2>1. CASE ResetClear BY <2>1 DEF ResetClear, CancelIo
  <2>2. CASE ResetCheck BY <2>2 DEF ResetCheck, ResetReturn
  <2>3. CASE ResetRead BY <2>3 DEF ResetRead, ResetReturn, Callback
  <2> QED BY <1>2, <2>1, <2>2, <2>3 DEF ResetCall
<1>3. CASE RxThread
  <2>1. CASE RxTake BY <2>1 DEF RxTake
  <2>2. CASE RxReturn BY <2>2 DEF RxReturn
  <2>3. CASE RxExit BY <2>3 DEF RxExit
  <2>4. CASE CancelConnection BY <2>4 DEF CancelConnection, CancelIo
  <2> QED BY <1>3, <2>1, <2>2, <2>3, <2>4 DEF RxThread
<1>4. CASE Worker
  <2>1. CASE TxResult BY <2>1 DEF TxResult
  <2>2. CASE TxResultNoCb BY <2>2 DEF TxResultNoCb
  <2>3. CASE TxCallback BY <2>3 DEF TxCallback
  <2>4. CASE TxCheck BY <2>4 DEF TxCheck, Deliver, StopStream, CancelIo
  <2>5. CASE TxEnd BY <2>5 DEF TxEnd
  <2>6. CASE RxResult BY <2>6 DEF RxResult
  <2>7. CASE RxResultNoCb BY <2>7 DEF RxResultNoCb
  <2>8. CASE RxCallback BY <2>8 DEF RxCallback, Deliver, StopStream, CancelIo, Callback
  <2>9. CASE RxParse BY <2>9 DEF RxParse, Deliver
  <2>10. CASE RxEnd BY <2>10 DEF RxEnd
  <2> QED BY <1>4, <2>1, <2>2, <2>3, <2>4, <2>5, <2>6, <2>7, <2>8, <2>9, <2>10 DEF Worker
<1>5. CASE TimerThread
  <2>1. CASE TimerExpire BY <2>1 DEF TimerExpire
  <2>2. CASE TimerLookup BY <2>2 DEF TimerLookup
  <2>3. CASE TimerPush BY <2>3 DEF TimerPush, Deliver
  <2> QED BY <1>5, <2>1, <2>2, <2>3 DEF TimerThread
<1>6. CASE Client
  <2>1. CASE Write BY <2>1 DEF Write, QueueWrite, Callback
  <2>2. CASE Stop BY <2>2 DEF Stop, StopStream, CancelIo
  <2>3. ASSUME NEW id \in TimerId, SetTimeout(id) PROVE ThreadTypes' BY <2>3 DEF SetTimeout
  <2>4. ASSUME NEW id \in TimerId, CancelTimeout(id) PROVE ThreadTypes' BY <2>4 DEF CancelTimeout
  <2> QED BY <1>6, <2>1, <2>2, <2>3, <2>4 DEF Client
<1>7. CASE UNCHANGED vars BY <1>7 DEF vars
<1> QED BY <1>1, <1>2, <1>3, <1>4, <1>5, <1>6, <1>7 DEF Next

(* The queues keep their types.                                             *)
LEMMA QueueTypesStep == ASSUME TypeOK, [Next]_vars PROVE QueueTypes'
<1> USE DEF TypeOK, QueueTypes, runVars, ioVars, timerVars
<1>1. CASE RunThread
  <2>1. CASE RunStart BY <2>1 DEF RunStart
  <2>2. CASE RunSetCb BY <2>2 DEF RunSetCb
  <2>3. CASE RunWrite
    <3>1. tx_buffers' \subseteq Buf /\ tx_op' \in Seq(TxOp)
      BY <2>3, QueueWriteType DEF RunWrite
    <3> QED BY <2>3, <3>1 DEF RunWrite, QueueWrite
  <2>4. CASE RunRead BY <2>4 DEF RunRead, Callback
  <2>5. CASE RunJoin BY <2>5 DEF RunJoin
  <2>6. CASE RunDrained BY <2>6 DEF RunDrained
  <2>7. CASE RunClear BY <2>7 DEF RunClear
  <2> QED BY <1>1, <2>1, <2>2, <2>3, <2>4, <2>5, <2>6, <2>7 DEF RunThread
<1>2. CASE ResetCall
  <2>1. CASE ResetClear BY <2>1 DEF ResetClear, CancelIo
  <2>2. CASE ResetCheck BY <2>2 DEF ResetCheck, ResetReturn
  <2>3. CASE ResetRead BY <2>3 DEF ResetRead, ResetReturn, Callback
  <2> QED BY <1>2, <2>1, <2>2, <2>3 DEF ResetCall
<1>3. CASE RxThread
  <2>1. CASE RxTake BY <2>1 DEF RxTake
  <2>2. CASE RxReturn BY <2>2 DEF RxReturn
  <2>3. CASE RxExit BY <2>3 DEF RxExit
  <2>4. CASE CancelConnection BY <2>4 DEF CancelConnection, CancelIo
  <2> QED BY <1>3, <2>1, <2>2, <2>3, <2>4 DEF RxThread
<1>4. CASE Worker
  <2>1. CASE TxResult BY <2>1 DEF TxResult
  <2>2. CASE TxResultNoCb BY <2>2 DEF TxResultNoCb
  <2>3. CASE TxCallback BY <2>3 DEF TxCallback
  <2>4. CASE TxCheck
    <3>1. rx_queue' = rx_queue \/ Deliver("tx-error", "none")
      BY <2>4 DEF TxCheck
    <3>2. rx_queue' \in Seq(Obj)
      BY <3>1, DeliverType DEF ObjKind
    <3>3. tx_op' \in Seq(TxOp) /\ rx_op' \in Seq({"stream", "none"})
      <4>1. (tx_op' = tx_op /\ rx_op' = rx_op) \/ (tx_op' = <<>> /\ rx_op' = <<>>)
        BY <2>4, StopStreamQueues DEF TxCheck
      <4>2. tx_op \in Seq(TxOp) /\ rx_op \in Seq({"stream", "none"})
        OBVIOUS
      <4>3. <<>> \in Seq(TxOp) /\ <<>> \in Seq({"stream", "none"})
        OBVIOUS
      <4> QED BY ONLY <4>1, <4>2, <4>3
    <3> QED BY <2>4, <3>2, <3>3 DEF TxCheck
  <2>5. CASE TxEnd BY <2>5 DEF TxEnd
  <2>6. CASE RxResult BY <2>6 DEF RxResult
  <2>7. CASE RxResultNoCb BY <2>7 DEF RxResultNoCb
  <2>8. CASE RxCallback
    <3>1. rx_queue' = rx_queue \/ Deliver("rx-error", "none")
      BY <2>8 DEF RxCallback
    <3>2. rx_queue' \in Seq(Obj)
      BY <3>1, DeliverType DEF ObjKind
    <3>3. tx_op' \in Seq(TxOp) /\ rx_op' \in Seq({"stream", "none"})
      <4>1. \/ tx_op' = tx_op /\ rx_op' = rx_op
            \/ tx_op' = <<>> /\ rx_op' = <<>>
            \/ rx_op' = Append(rx_op, Callback) /\ tx_op' = tx_op
        BY <2>8, StopStreamQueues DEF RxCallback
      <4>2. tx_op \in Seq(TxOp) /\ rx_op \in Seq({"stream", "none"})
        OBVIOUS
      <4>3. /\ <<>> \in Seq(TxOp) /\ <<>> \in Seq({"stream", "none"})
            /\ Append(rx_op, Callback) \in Seq({"stream", "none"})
        BY CallbackType
      <4> QED BY ONLY <4>1, <4>2, <4>3
    <3> QED BY <2>8, <3>2, <3>3 DEF RxCallback
  <2>9. CASE RxParse
    <3>1. \/ rx_queue' = rx_queue
          \/ Deliver("parse-error", "none")
          \/ \E o \in PeerObj : Deliver("xml", o)
      BY <2>9 DEF RxParse
    <3>2. rx_queue' \in Seq(Obj)
      BY <3>1, DeliverType DEF ObjKind
    <3> QED BY <2>9, <3>2 DEF RxParse
  <2>10. CASE RxEnd BY <2>10 DEF RxEnd
  <2> QED BY <1>4, <2>1, <2>2, <2>3, <2>4, <2>5, <2>6, <2>7, <2>8, <2>9, <2>10 DEF Worker
<1>5. CASE TimerThread
  <2>1. CASE TimerExpire BY <2>1 DEF TimerExpire
  <2>2. CASE TimerLookup BY <2>2 DEF TimerLookup
  <2>3. CASE TimerPush
    <3>1. timer.id \in TimerId \cup {"none"}
      BY DEF CallbackTypes
    <3>2. rx_queue' \in Seq(Obj)
      BY <2>3, <3>1, DeliverType DEF TimerPush, ObjKind
    <3> QED BY <2>3, <3>2 DEF TimerPush
  <2> QED BY <1>5, <2>1, <2>2, <2>3 DEF TimerThread
<1>6. CASE Client
  <2>1. CASE Write
    <3>1. tx_buffers' \subseteq Buf /\ tx_op' \in Seq(TxOp)
      BY <2>1, QueueWriteType DEF Write
    <3> QED BY <2>1, <3>1 DEF Write, QueueWrite
  <2>2. CASE Stop BY <2>2 DEF Stop, StopStream, CancelIo
  <2>3. ASSUME NEW id \in TimerId, SetTimeout(id) PROVE QueueTypes' BY <2>3 DEF SetTimeout
  <2>4. ASSUME NEW id \in TimerId, CancelTimeout(id) PROVE QueueTypes' BY <2>4 DEF CancelTimeout
  <2> QED BY <1>6, <2>1, <2>2, <2>3, <2>4 DEF Client
<1>7. CASE UNCHANGED vars BY <1>7 DEF vars
<1> QED BY <1>1, <1>2, <1>3, <1>4, <1>5, <1>6, <1>7 DEF Next

(* The callbacks being executed keep their types.                           *)
LEMMA CallbackTypesStep == ASSUME TypeOK, [Next]_vars PROVE CallbackTypes'
<1> USE DEF TypeOK, CallbackTypes, runVars, ioVars, timerVars
<1>1. CASE RunThread
  <2>1. CASE RunStart BY <2>1 DEF RunStart
  <2>2. CASE RunSetCb BY <2>2 DEF RunSetCb
  <2>3. CASE RunWrite BY <2>3 DEF RunWrite, QueueWrite, Callback
  <2>4. CASE RunRead BY <2>4 DEF RunRead, Callback
  <2>5. CASE RunJoin BY <2>5 DEF RunJoin
  <2>6. CASE RunDrained BY <2>6 DEF RunDrained
  <2>7. CASE RunClear BY <2>7 DEF RunClear
  <2> QED BY <1>1, <2>1, <2>2, <2>3, <2>4, <2>5, <2>6, <2>7 DEF RunThread
<1>2. CASE ResetCall
  <2>1. CASE ResetClear BY <2>1 DEF ResetClear, CancelIo
  <2>2. CASE ResetCheck BY <2>2 DEF ResetCheck, ResetReturn
  <2>3. CASE ResetRead BY <2>3 DEF ResetRead, ResetReturn, Callback
  <2> QED BY <1>2, <2>1, <2>2, <2>3 DEF ResetCall
<1>3. CASE RxThread
  <2>1. CASE RxTake BY <2>1 DEF RxTake
  <2>2. CASE RxReturn BY <2>2 DEF RxReturn
  <2>3. CASE RxExit BY <2>3 DEF RxExit
  <2>4. CASE CancelConnection BY <2>4 DEF CancelConnection, CancelIo
  <2> QED BY <1>3, <2>1, <2>2, <2>3, <2>4 DEF RxThread
<1>4. CASE Worker
  <2>1. CASE TxResult
    <3>1. tx_op[1] \in TxOp
      BY <2>1 DEF TxResult, QueueTypes
    <3>2. tx_op[1].buf \in Buf \cup {NoBuf}
      BY <3>1 DEF TxOp
    <3> QED BY <2>1, <3>2 DEF TxResult, TxPc
  <2>2. CASE TxResultNoCb BY <2>2 DEF TxResultNoCb
  <2>3. CASE TxCallback BY <2>3 DEF TxCallback, TxPc
  <2>4. CASE TxCheck BY <2>4 DEF TxCheck, Deliver, StopStream, CancelIo, TxPc
  <2>5. CASE TxEnd BY <2>5 DEF TxEnd, Idle
  <2>6. CASE RxResult BY <2>6 DEF RxResult, RxPc
  <2>7. CASE RxResultNoCb BY <2>7 DEF RxResultNoCb
  <2>8. CASE RxCallback BY <2>8 DEF RxCallback, Deliver, StopStream, CancelIo, Callback, RxPc
  <2>9. CASE RxParse BY <2>9 DEF RxParse, Deliver, RxPc
  <2>10. CASE RxEnd BY <2>10 DEF RxEnd, Idle
  <2> QED BY <1>4, <2>1, <2>2, <2>3, <2>4, <2>5, <2>6, <2>7, <2>8, <2>9, <2>10 DEF Worker
<1>5. CASE TimerThread
  <2>1. CASE TimerExpire BY <2>1 DEF TimerExpire
  <2>2. CASE TimerLookup BY <2>2 DEF TimerLookup, TimerIdle
  <2>3. CASE TimerPush BY <2>3 DEF TimerPush, Deliver, TimerIdle
  <2> QED BY <1>5, <2>1, <2>2, <2>3 DEF TimerThread
<1>6. CASE Client
  <2>1. CASE Write BY <2>1 DEF Write, QueueWrite, Callback
  <2>2. CASE Stop BY <2>2 DEF Stop, StopStream, CancelIo
  <2>3. ASSUME NEW id \in TimerId, SetTimeout(id) PROVE CallbackTypes' BY <2>3 DEF SetTimeout
  <2>4. ASSUME NEW id \in TimerId, CancelTimeout(id) PROVE CallbackTypes' BY <2>4 DEF CancelTimeout
  <2> QED BY <1>6, <2>1, <2>2, <2>3, <2>4 DEF Client
<1>7. CASE UNCHANGED vars BY <1>7 DEF vars
<1> QED BY <1>1, <1>2, <1>3, <1>4, <1>5, <1>6, <1>7 DEF Next

(* Runs are counted.                                                        *)
LEMMA RunStep == ASSUME TypeOK, [Next]_vars PROVE run' \in Nat
<1>1. CASE RunStart
  BY <1>1 DEF RunStart, TypeOK
<1>2. CASE run' = run
  BY <1>2 DEF TypeOK
<1>3. [Next]_vars /\ ~RunStart => run' = run
  <2>1. CASE RunThread /\ ~RunStart
    BY <2>1 DEF RunThread, RunSetCb, RunWrite, RunRead, RunJoin, RunDrained, RunClear
  <2>2. CASE ResetCall
    BY <2>2 DEF ResetCall, ResetClear, ResetCheck, ResetRead, runVars
  <2>3. CASE RxThread
    BY <2>3 DEF RxThread, RxTake, RxReturn, RxExit, CancelConnection, runVars
  <2>4. CASE Client
    BY <2>4 DEF Client, Write, Stop, SetTimeout, CancelTimeout, runVars
  <2>5. CASE Worker
    BY <2>5 DEF Worker, TxResult, TxResultNoCb, TxCallback, TxCheck, TxEnd, RxResult,
                RxResultNoCb, RxCallback, RxParse, RxEnd, runVars
  <2>6. CASE TimerThread
    BY <2>6 DEF TimerThread, TimerExpire, TimerLookup, TimerPush, runVars
  <2>7. CASE UNCHANGED vars
    BY <2>7 DEF vars
  <2> QED BY <2>1, <2>2, <2>3, <2>4, <2>5, <2>6, <2>7 DEF Next
<1> QED BY <1>1, <1>2, <1>3

(* Every variable keeps its type in every step of every thread.             *)
THEOREM TypeCorrect == Spec => []TypeOK
<1>1. TypeOK /\ [Next]_vars => TypeOK'
  BY ThreadTypesStep, QueueTypesStep, CallbackTypesStep, RunStep DEF TypeOK
<1> QED BY InitTypes, <1>1, PTL DEF Spec

-----------------------------------------------------------------------------
(* Threads. ThreadLifetime is inductive given the types: each stage of run() *)
(* records what the stages before it established.                            *)

(* A non-empty receive queue stays non-empty when an object is delivered.   *)
LEMMA DeliverKeeps ==
    ASSUME NEW kind, NEW id, Deliver(kind, id), rx_queue # <<>>
    PROVE  rx_queue' # <<>>
<1>1. rx_queue' = Append(rx_queue, [kind |-> kind, id |-> id, run |-> run]) \/ rx_queue' = rx_queue
  BY DEF Deliver
<1> QED BY <1>1

(* ThreadLifetime is inductive.                                             *)
LEMMA ThreadLifetimeStep == ASSUME TypeOK, ThreadLifetime, [Next]_vars PROVE ThreadLifetime'
<1> USE DEF TypeOK, ThreadTypes, ThreadLifetime, runVars, ioVars, timerVars
<1>1. CASE RunThread
  <2>1. CASE RunStart BY <2>1 DEF RunStart, MutexFree
  <2>2. CASE RunSetCb BY <2>2 DEF RunSetCb
  <2>3. CASE RunWrite BY <2>3 DEF RunWrite, QueueWrite, Callback
  <2>4. CASE RunRead BY <2>4 DEF RunRead, Callback
  <2>5. CASE RunJoin BY <2>5 DEF RunJoin, MutexFree
  <2>6. CASE RunDrained BY <2>6 DEF RunDrained, MutexFree
  <2>7. CASE RunClear BY <2>7 DEF RunClear, MutexFree
  <2> QED BY <1>1, <2>1, <2>2, <2>3, <2>4, <2>5, <2>6, <2>7 DEF RunThread
<1>2. CASE ResetCall
  <2>1. CASE ResetClear BY <2>1 DEF ResetClear, CancelIo, MutexFree
  <2>2. CASE ResetCheck BY <2>2 DEF ResetCheck, ResetReturn
  <2>3. CASE ResetRead BY <2>3 DEF ResetRead, ResetReturn, Callback
  <2> QED BY <1>2, <2>1, <2>2, <2>3 DEF ResetCall
<1>3. CASE RxThread
  <2>1. CASE RxTake BY <2>1 DEF RxTake
  <2>2. CASE RxReturn BY <2>2 DEF RxReturn
  <2>3. CASE RxExit BY <2>3 DEF RxExit
  <2>4. CASE CancelConnection BY <2>4 DEF CancelConnection, CancelIo
  <2> QED BY <1>3, <2>1, <2>2, <2>3, <2>4 DEF RxThread
<1>4. CASE Worker
  <2>1. CASE TxResult BY <2>1 DEF TxResult
  <2>2. CASE TxResultNoCb BY <2>2 DEF TxResultNoCb
  <2>3. CASE TxCallback BY <2>3 DEF TxCallback
  <2>4. CASE TxCheck BY <2>4 DEF TxCheck, Deliver, StopStream, CancelIo
  <2>5. CASE TxEnd BY <2>5 DEF TxEnd
  <2>6. CASE RxResult BY <2>6 DEF RxResult
  <2>7. CASE RxResultNoCb BY <2>7 DEF RxResultNoCb
  <2>8. CASE RxCallback BY <2>8 DEF RxCallback, Deliver, StopStream, CancelIo, Callback
  <2>9. CASE RxParse
    <3>1. rx_queue # <<>> => rx_queue' # <<>>
      BY <2>9, DeliverKeeps DEF RxParse
    <3> QED BY <2>9, <3>1 DEF RxParse
  <2>10. CASE RxEnd BY <2>10 DEF RxEnd
  <2> QED BY <1>4, <2>1, <2>2, <2>3, <2>4, <2>5, <2>6, <2>7, <2>8, <2>9, <2>10 DEF Worker
<1>5. CASE TimerThread
  <2>1. CASE TimerExpire BY <2>1 DEF TimerExpire
  <2>2. CASE TimerLookup BY <2>2 DEF TimerLookup
  <2>3. CASE TimerPush BY <2>3 DEF TimerPush, Deliver
  <2> QED BY <1>5, <2>1, <2>2, <2>3 DEF TimerThread
<1>6. CASE Client
  <2>1. CASE Write BY <2>1 DEF Write, QueueWrite, Callback
  <2>2. CASE Stop BY <2>2 DEF Stop, StopStream, CancelIo
  <2>3. ASSUME NEW id \in TimerId, SetTimeout(id) PROVE ThreadLifetime' BY <2>3 DEF SetTimeout
  <2>4. ASSUME NEW id \in TimerId, CancelTimeout(id) PROVE ThreadLifetime' BY <2>4 DEF CancelTimeout
  <2> QED BY <1>6, <2>1, <2>2, <2>3, <2>4 DEF Client
<1>7. CASE UNCHANGED vars BY <1>7 DEF vars
<1> QED BY <1>1, <1>2, <1>3, <1>4, <1>5, <1>6, <1>7 DEF Next

(* The rx thread, the client's callback and reset() live only in the stages  *)
(* of run() that wait for them, for every interleaving.                      *)
THEOREM LifetimeCorrect == Spec => []ThreadLifetime
<1>1. Init => ThreadLifetime
  BY DEF Init, ThreadLifetime
<1> QED BY <1>1, TypeCorrect, ThreadLifetimeStep, PTL DEF Spec

-----------------------------------------------------------------------------
(* Buffers. BuffersAlive and QuietWhenStopped are inductive together, given  *)
(* the types and ThreadLifetime (which makes run()'s final clear() of        *)
(* tx_buffers harmless).                                                     *)

(* Executing the head operation leaves sound operations that do not share    *)
(* its buffer.                                                               *)
LEMMA OwnTail ==
    ASSUME NEW q \in Seq(TxOp), q # <<>>, NEW bufs, OwnBuffers(q, bufs)
    PROVE  /\ OwnBuffers(Tail(q), bufs \ {q[1].buf})
           /\ \A i \in DOMAIN Tail(q) : Tail(q)[i].buf # q[1].buf
<1>1. Len(q) \in Nat /\ Len(q) > 0 /\ DOMAIN q = 1..Len(q)
  OBVIOUS
<1>2. DOMAIN Tail(q) = 1..(Len(q) - 1) /\ \A i \in 1..(Len(q) - 1) : Tail(q)[i] = q[i + 1]
  BY <1>1
<1>3. \A i \in DOMAIN Tail(q) : Tail(q)[i] = q[i + 1] /\ i + 1 \in DOMAIN q /\ i + 1 # 1 /\ i \in Nat
  BY <1>1, <1>2
<1>4. 1 \in DOMAIN q
  BY <1>1
<1>5. \A i \in DOMAIN Tail(q) : Tail(q)[i].buf # q[1].buf
  BY <1>3, <1>4 DEF OwnBuffers
<1>6. \A i, j \in DOMAIN Tail(q) : Tail(q)[i].buf = Tail(q)[j].buf => i = j
  BY <1>3 DEF OwnBuffers
<1> QED BY <1>3, <1>5, <1>6 DEF OwnBuffers

(* An operation with a new buffer joins a queue whose buffers are its own.  *)
LEMMA OwnAppend ==
    ASSUME NEW q \in Seq(TxOp), NEW bufs, OwnBuffers(q, bufs), NEW op, op.buf \notin bufs
    PROVE  OwnBuffers(Append(q, op), bufs \cup {op.buf})
<1>1. Len(q) \in Nat /\ DOMAIN q = 1..Len(q) /\ DOMAIN Append(q, op) = 1..(Len(q) + 1)
  OBVIOUS
<1>2. \A i \in DOMAIN Append(q, op) :
          \/ i \in DOMAIN q /\ Append(q, op)[i] = q[i]
          \/ i = Len(q) + 1 /\ Append(q, op)[i] = op
  BY <1>1
<1> QED BY <1>2 DEF OwnBuffers

(* An empty queue owns its buffers.                                         *)
LEMMA OwnEmpty == ASSUME NEW bufs PROVE OwnBuffers(<<>>, bufs)
BY DEF OwnBuffers

(* A step that leaves the write operations and their buffers alone.         *)
LEMMA TxUntouched ==
    ASSUME BuffersAlive, QuietWhenStopped,
           UNCHANGED <<running, tx_buffers, tx_op, cancelled, worker>>
    PROVE  BuffersAlive' /\ QuietWhenStopped'
BY DEF BuffersAlive, QuietWhenStopped, OwnBuffers, PendingTx

(* A step that queues one write operation.                                  *)
LEMMA TxWritten ==
    ASSUME QueueTypes, BuffersAlive, QuietWhenStopped, QueueWrite, UNCHANGED <<running, worker>>
    PROVE  BuffersAlive' /\ QuietWhenStopped'
<1>1. PICK b \in Buf \ tx_buffers :
          /\ tx_buffers' = tx_buffers \cup {b}
          /\ tx_op' = Append(tx_op, [buf |-> b, cb |-> Callback])
  BY DEF QueueWrite
<1> DEFINE op == [buf |-> b, cb |-> Callback]
<1>2. PendingTx \in Seq(TxOp)
  BY DEF PendingTx, QueueTypes, BuffersAlive
<1>3. PendingTx' = Append(PendingTx, op)
  <2>1. CASE worker.pc \in TxPc /\ ~cancelled
    <3>1. tx_op # <<>> /\ tx_op \in Seq(TxOp)
      BY <2>1 DEF BuffersAlive, QueueTypes
    <3>2. Tail(Append(tx_op, op)) = Append(Tail(tx_op), op)
      BY <3>1
    <3>3. cancelled' = cancelled /\ worker' = worker
      BY DEF QueueWrite
    <3> QED BY <1>1, <2>1, <3>2, <3>3 DEF PendingTx
  <2>2. CASE ~(worker.pc \in TxPc /\ ~cancelled)
    BY <1>1, <2>2 DEF PendingTx, QueueWrite
  <2> QED BY <2>1, <2>2
<1>4. OwnBuffers(PendingTx, tx_buffers)'
  BY <1>1, <1>2, <1>3, OwnAppend DEF BuffersAlive
<1>5. ASSUME worker'.pc = "tx_callback"
      PROVE  /\ worker'.buf \in tx_buffers'
             /\ \A i \in DOMAIN PendingTx' : PendingTx'[i].buf # worker'.buf
  <2>1. worker.buf \in tx_buffers /\ \A i \in DOMAIN PendingTx : PendingTx[i].buf # worker.buf
    BY <1>5 DEF BuffersAlive
  <2>2. \A i \in DOMAIN Append(PendingTx, op) :
           (i \in DOMAIN PendingTx /\ Append(PendingTx, op)[i] = PendingTx[i]) \/ Append(PendingTx, op)[i] = op
    BY <1>2
  <2> QED BY <1>1, <1>3, <2>1, <2>2
<1>6. tx_op' # <<>>
  BY <1>1 DEF QueueTypes
<1> QED BY <1>4, <1>5, <1>6 DEF BuffersAlive, QuietWhenStopped, QueueWrite

(* A step that cancels the operations.                                      *)
LEMMA TxCancelled ==
    ASSUME BuffersAlive, CancelIo, UNCHANGED <<tx_buffers, worker>>
    PROVE  BuffersAlive' /\ QuietWhenStopped'
<1>1. PendingTx' = <<>>
  BY DEF PendingTx, CancelIo
<1> QED BY <1>1, OwnEmpty DEF BuffersAlive, QuietWhenStopped, CancelIo

(* Buffers and operations stay together in every step.                      *)
LEMMA BuffersStep ==
    ASSUME TypeOK, ThreadLifetime, BuffersAlive, QuietWhenStopped, [Next]_vars
    PROVE  BuffersAlive' /\ QuietWhenStopped'
<1> USE DEF TypeOK, runVars, ioVars, timerVars
<1>1. CASE RunThread
  <2>1. CASE RunStart
    <3>1. UNCHANGED <<tx_buffers, tx_op, cancelled, worker>> /\ running'
      BY <2>1 DEF RunStart
    <3> QED BY <3>1 DEF BuffersAlive, QuietWhenStopped, OwnBuffers, PendingTx
  <2>2. CASE RunSetCb BY <2>2, TxUntouched DEF RunSetCb
  <2>3. CASE RunWrite
    <3>1. CASE running
      BY <2>3, <3>1, TxWritten DEF RunWrite
    <3>2. CASE ~running
      BY <2>3, <3>2, TxUntouched DEF RunWrite
    <3> QED BY <3>1, <3>2
  <2>4. CASE RunRead BY <2>4, TxUntouched DEF RunRead
  <2>5. CASE RunJoin BY <2>5, TxUntouched DEF RunJoin
  <2>6. CASE RunDrained BY <2>6, TxUntouched DEF RunDrained
  <2>7. CASE RunClear
    <3>1. tx_buffers' = tx_buffers
      BY <2>7 DEF RunClear, ThreadLifetime
    <3> QED BY <2>7, <3>1, TxUntouched DEF RunClear
  <2> QED BY <1>1, <2>1, <2>2, <2>3, <2>4, <2>5, <2>6, <2>7 DEF RunThread
<1>2. CASE ResetCall
  <2>1. CASE ResetClear
    <3> QED BY <2>1, TxCancelled DEF ResetClear
  <2>2. CASE ResetCheck BY <2>2, TxUntouched DEF ResetCheck
  <2>3. CASE ResetRead BY <2>3, TxUntouched DEF ResetRead
  <2> QED BY <1>2, <2>1, <2>2, <2>3 DEF ResetCall
<1>3. CASE RxThread
  <2>1. CASE RxTake BY <2>1, TxUntouched DEF RxTake
  <2>2. CASE RxReturn BY <2>2, TxUntouched DEF RxReturn
  <2>3. CASE RxExit BY <2>3, TxUntouched DEF RxExit
  <2>4. CASE CancelConnection BY <2>4, TxCancelled DEF CancelConnection
  <2> QED BY <1>3, <2>1, <2>2, <2>3, <2>4 DEF RxThread
<1>4. CASE Worker
  <2>1. CASE TxResult
    <3>1. tx_op \in Seq(TxOp) /\ tx_op # <<>> /\ PendingTx = tx_op
      BY <2>1 DEF TxResult, QueueTypes, PendingTx, TxPc
    <3>2. /\ worker'.pc = "tx_callback" /\ worker'.buf = tx_op[1].buf /\ cancelled' = FALSE
          /\ tx_op' = tx_op /\ tx_buffers' = tx_buffers /\ running' = running
      BY <2>1 DEF TxResult
    <3>3. PendingTx' = Tail(tx_op)
      BY <3>2 DEF PendingTx, TxPc
    <3>4. /\ OwnBuffers(Tail(tx_op), tx_buffers \ {tx_op[1].buf})
          /\ \A i \in DOMAIN Tail(tx_op) : Tail(tx_op)[i].buf # tx_op[1].buf
      BY <3>1, OwnTail DEF BuffersAlive
    <3>5. tx_op[1].buf \in tx_buffers
      <4>1. 1 \in DOMAIN tx_op
        BY <3>1
      <4> QED BY <3>1, <4>1 DEF BuffersAlive, OwnBuffers
    <3>6. running
      BY <3>1 DEF QuietWhenStopped
    <3>7. OwnBuffers(PendingTx', tx_buffers')
      BY <3>2, <3>3, <3>4 DEF OwnBuffers
    <3> QED BY <3>1, <3>2, <3>3, <3>4, <3>5, <3>6, <3>7 DEF BuffersAlive, QuietWhenStopped, OwnBuffers
  <2>2. CASE TxResultNoCb
    <3>1. tx_op \in Seq(TxOp) /\ tx_op # <<>> /\ PendingTx = tx_op
      BY <2>2 DEF TxResultNoCb, QueueTypes, PendingTx, TxPc
    <3>2. UNCHANGED <<tx_buffers, worker, cancelled, running>> /\ worker.pc = "idle"
      BY <2>2 DEF TxResultNoCb
    <3>3. PendingTx' = tx_op'
      BY <3>2 DEF PendingTx, TxPc
    <3>4. CASE tx_op' = tx_op
      BY <3>2, <3>4, TxUntouched
    <3>5. CASE tx_op' = Tail(tx_op)
      <4>1. OwnBuffers(Tail(tx_op), tx_buffers \ {tx_op[1].buf})
        BY <3>1, OwnTail DEF BuffersAlive
      <4>2. OwnBuffers(PendingTx', tx_buffers')
        BY <3>2, <3>3, <3>5, <4>1 DEF OwnBuffers
      <4>3. running
        BY <3>1 DEF QuietWhenStopped
      <4> QED BY <3>2, <4>2, <4>3 DEF BuffersAlive, QuietWhenStopped, TxPc
    <3> QED BY <2>2, <3>4, <3>5 DEF TxResultNoCb
  <2>3. CASE TxCallback
    <3>1. /\ worker'.pc = "tx_check" /\ worker.pc = "tx_callback"
          /\ tx_buffers' = tx_buffers \ {worker.buf}
          /\ UNCHANGED <<tx_op, cancelled, running>>
      BY <2>3 DEF TxCallback, CallbackTypes
    <3>2. PendingTx' = PendingTx
      BY <3>1 DEF PendingTx, TxPc
    <3>3. OwnBuffers(PendingTx', tx_buffers')
      BY <3>1, <3>2 DEF BuffersAlive, OwnBuffers
    <3> QED BY <3>1, <3>2, <3>3 DEF BuffersAlive, QuietWhenStopped, TxPc
  <2>4. CASE TxCheck
    <3>1. worker.pc = "tx_check" /\ worker'.pc = "tx_end" /\ tx_buffers' = tx_buffers
      BY <2>4 DEF TxCheck, CallbackTypes
    <3>2. CASE UNCHANGED <<running, ioVars>>
      <4>1. PendingTx' = PendingTx
        BY <3>1, <3>2 DEF PendingTx, TxPc
      <4> QED BY <3>1, <3>2, <4>1 DEF BuffersAlive, QuietWhenStopped, TxPc
    <3>3. CASE CancelIo
      <4>1. PendingTx' = <<>>
        BY <3>3 DEF PendingTx, CancelIo
      <4> QED BY <3>1, <3>3, <4>1, OwnEmpty DEF BuffersAlive, QuietWhenStopped, CancelIo
    <3> QED BY <2>4, <3>2, <3>3 DEF TxCheck, StopStream
  <2>5. CASE TxEnd
    <3>1. /\ worker'.pc = "idle" /\ worker.pc = "tx_end"
          /\ UNCHANGED <<tx_buffers, cancelled, running>>
      BY <2>5 DEF TxEnd, Idle
    <3>2. PendingTx' = tx_op'
      BY <3>1 DEF PendingTx, TxPc
    <3>3. PendingTx' = PendingTx
      BY <2>5, <3>1, <3>2 DEF TxEnd, PendingTx, TxPc, BuffersAlive
    <3> QED BY <3>1, <3>3 DEF BuffersAlive, QuietWhenStopped, TxPc
  <2>6. CASE RxResult
    <3>1. /\ worker.pc \notin TxPc /\ worker'.pc \notin TxPc
          /\ UNCHANGED <<tx_buffers, tx_op, running>>
      BY <2>6 DEF RxResult, TxPc
    <3>2. PendingTx' = PendingTx
      BY <3>1 DEF PendingTx
    <3> QED BY <3>1, <3>2 DEF BuffersAlive, QuietWhenStopped, TxPc
  <2>7. CASE RxResultNoCb BY <2>7, TxUntouched DEF RxResultNoCb
  <2>8. CASE RxCallback
    <3>1. /\ worker.pc \notin TxPc /\ worker'.pc \notin TxPc
          /\ tx_buffers' = tx_buffers
      BY <2>8 DEF RxCallback, TxPc, CallbackTypes
    <3>2. CASE UNCHANGED <<tx_op, running>>
      <4>1. PendingTx' = PendingTx
        BY <3>1, <3>2 DEF PendingTx
      <4> QED BY <3>1, <3>2, <4>1 DEF BuffersAlive, QuietWhenStopped, TxPc
    <3>3. CASE CancelIo
      <4>1. PendingTx' = <<>>
        BY <3>3 DEF PendingTx, CancelIo
      <4> QED BY <3>1, <4>1, OwnEmpty DEF BuffersAlive, QuietWhenStopped, TxPc
    <3> QED BY <2>8, <3>2, <3>3 DEF RxCallback, StopStream
  <2>9. CASE RxParse
    <3>1. /\ worker.pc \notin TxPc /\ worker'.pc \notin TxPc
          /\ UNCHANGED <<tx_buffers, tx_op, running>>
      BY <2>9 DEF RxParse, TxPc, CallbackTypes
    <3>2. PendingTx' = PendingTx
      BY <3>1 DEF PendingTx
    <3> QED BY <3>1, <3>2 DEF BuffersAlive, QuietWhenStopped, TxPc
  <2>10. CASE RxEnd
    <3>1. /\ worker.pc \notin TxPc /\ worker'.pc \notin TxPc
          /\ UNCHANGED <<tx_buffers, tx_op, running>>
      BY <2>10 DEF RxEnd, TxPc, Idle
    <3>2. PendingTx' = PendingTx
      BY <3>1 DEF PendingTx
    <3> QED BY <3>1, <3>2 DEF BuffersAlive, QuietWhenStopped, TxPc
  <2> QED BY <1>4, <2>1, <2>2, <2>3, <2>4, <2>5, <2>6, <2>7, <2>8, <2>9, <2>10 DEF Worker
<1>5. CASE TimerThread
  <2>1. CASE TimerExpire BY <2>1, TxUntouched DEF TimerExpire
  <2>2. CASE TimerLookup BY <2>2, TxUntouched DEF TimerLookup
  <2>3. CASE TimerPush BY <2>3, TxUntouched DEF TimerPush
  <2> QED BY <1>5, <2>1, <2>2, <2>3 DEF TimerThread
<1>6. CASE Client
  <2>1. CASE Write BY <2>1, TxWritten DEF Write
  <2>2. CASE Stop BY <2>2, TxCancelled DEF Stop, StopStream
  <2>3. ASSUME NEW id \in TimerId, SetTimeout(id) PROVE BuffersAlive' /\ QuietWhenStopped' BY <2>3, TxUntouched DEF SetTimeout
  <2>4. ASSUME NEW id \in TimerId, CancelTimeout(id) PROVE BuffersAlive' /\ QuietWhenStopped' BY <2>4, TxUntouched DEF CancelTimeout
  <2> QED BY <1>6, <2>1, <2>2, <2>3, <2>4 DEF Client
<1>7. CASE UNCHANGED vars BY <1>7, TxUntouched DEF vars
<1> QED BY <1>1, <1>2, <1>3, <1>4, <1>5, <1>6, <1>7 DEF Next

(* Every pointer the connection still holds is into a live buffer that no    *)
(* other operation uses, and nothing is left to write once stop() returned,  *)
(* for any number of buffers, runs, resets and queued operations.            *)
THEOREM BuffersCorrect == Spec => [](BuffersAlive /\ QuietWhenStopped)
<1>1. Init => BuffersAlive /\ QuietWhenStopped
  BY OwnEmpty DEF Init, BuffersAlive, QuietWhenStopped, PendingTx, Idle, TxPc
<1> QED BY <1>1, TypeCorrect, LifetimeCorrect, BuffersStep, PTL DEF Spec

(* Whatever was queued when stop() was called, nothing waits to be sent while *)
(* the stream is not running: a run never begins with the objects of the one  *)
(* before it.                                                                *)
THEOREM SilentWhenStopped == Spec => []QuietWhenStopped
BY BuffersCorrect, PTL

-----------------------------------------------------------------------------
(* Refinement                                                               *)

(* A step that does not concern the lifecycle.                              *)
LEMMA LifecycleStutter ==
    ASSUME UNCHANGED <<running, tx_buffers, rx_queue>>,
           run_pc' = "idle" <=> run_pc = "idle",
           rx_pc' = "callback" <=> rx_pc = "callback"
    PROVE  UNCHANGED Lifecycle!vars
BY DEF Lifecycle!vars

(* A write accepts an object.                                               *)
LEMMA LifecycleAccept ==
    ASSUME QueueWrite, UNCHANGED <<running, rx_pc, rx_queue>>
    PROVE  Lifecycle!Accept
BY DEF QueueWrite, Lifecycle!Accept

(* stop() ends the run, unless it ended before.                             *)
LEMMA LifecycleEnd ==
    ASSUME ThreadLifetime, running, running' = FALSE,
           UNCHANGED <<run_pc, rx_pc, tx_buffers, rx_queue>>
    PROVE  Lifecycle!End
BY DEF ThreadLifetime, Lifecycle!End

(* What is delivered is received at the end of the queue of a run that is     *)
(* open, and dropped otherwise.                                              *)
LEMMA LifecycleReceive ==
    ASSUME NEW kind, NEW id, TypeOK, Deliver(kind, id),
           UNCHANGED <<running, run_pc, rx_pc, tx_buffers>>
    PROVE  Lifecycle!Receive \/ UNCHANGED Lifecycle!vars
<1>1. CASE running
  <2> DEFINE o == [kind |-> kind, id |-> id, run |-> run]
  <2>1. rx_queue \in Seq(Obj) /\ rx_queue' = Append(rx_queue, o)
    BY <1>1 DEF Deliver, TypeOK, QueueTypes
  <2>2. Len(rx_queue') = Len(rx_queue) + 1 /\ SubSeq(rx_queue', 1, Len(rx_queue)) = rx_queue
    BY <2>1
  <2> QED BY <1>1, <2>2 DEF Lifecycle!Receive
<1>2. CASE ~running
  BY <1>2, LifecycleStutter DEF Deliver
<1> QED BY <1>1, <1>2

(* A step of the stream is one of the lifecycle, or does not concern it.    *)
LEMMA LifecycleStep ==
    ASSUME TypeOK, ThreadLifetime, [Next]_vars
    PROVE  [Lifecycle!Next]_(Lifecycle!vars)
<1> USE DEF Lifecycle!Next, Lifecycle!vars, runVars, ioVars, timerVars
<1>1. CASE RunThread
  <2>1. CASE RunStart
    BY <2>1 DEF RunStart, ThreadLifetime, Lifecycle!Open
  <2>2. CASE RunSetCb BY <2>2, LifecycleStutter DEF RunSetCb
  <2>3. CASE RunWrite
    BY <2>3, LifecycleAccept, LifecycleStutter DEF RunWrite
  <2>4. CASE RunRead BY <2>4, LifecycleStutter DEF RunRead
  <2>5. CASE RunJoin BY <2>5, LifecycleStutter DEF RunJoin
  <2>6. CASE RunDrained BY <2>6, LifecycleStutter DEF RunDrained
  <2>7. CASE RunClear
    BY <2>7 DEF RunClear, ThreadLifetime, Lifecycle!Close
  <2> QED BY <1>1, <2>1, <2>2, <2>3, <2>4, <2>5, <2>6, <2>7 DEF RunThread
<1>2. CASE ResetCall
  <2>1. CASE ResetClear BY <2>1, LifecycleStutter DEF ResetClear
  <2>2. CASE ResetCheck BY <2>2, LifecycleStutter DEF ResetCheck, ResetReturn
  <2>3. CASE ResetRead BY <2>3, LifecycleStutter DEF ResetRead, ResetReturn
  <2> QED BY <1>2, <2>1, <2>2, <2>3 DEF ResetCall
<1>3. CASE RxThread
  <2>1. CASE RxTake BY <2>1 DEF RxTake, Lifecycle!Handle
  <2>2. CASE RxReturn BY <2>2 DEF RxReturn, Lifecycle!Handled
  <2>3. CASE RxExit BY <2>3, LifecycleStutter DEF RxExit
  <2>4. CASE CancelConnection BY <2>4, LifecycleStutter DEF CancelConnection
  <2> QED BY <1>3, <2>1, <2>2, <2>3, <2>4 DEF RxThread
<1>4. CASE Worker
  <2>1. CASE TxResult BY <2>1, LifecycleStutter DEF TxResult
  <2>2. CASE TxResultNoCb BY <2>2, LifecycleStutter DEF TxResultNoCb
  <2>3. CASE TxCallback
    <3>1. CASE worker.buf \in tx_buffers
      BY <2>3, <3>1 DEF TxCallback, Lifecycle!Release
    <3>2. CASE worker.buf \notin tx_buffers
      <4>1. tx_buffers' = tx_buffers
        BY <2>3, <3>2 DEF TxCallback
      <4> QED BY <2>3, <4>1, LifecycleStutter DEF TxCallback
    <3> QED BY <3>1, <3>2
  <2>4. CASE TxCheck
    <3>1. UNCHANGED <<run_pc, rx_pc, tx_buffers>>
      BY <2>4 DEF TxCheck
    <3>2. CASE Deliver("tx-error", "none") /\ running' = running
      BY <3>1, <3>2, LifecycleReceive
    <3>3. CASE StopStream /\ rx_queue' = rx_queue
      BY <3>1, <3>3, LifecycleEnd, LifecycleStutter DEF StopStream
    <3>4. CASE UNCHANGED <<running, rx_queue>>
      BY <3>1, <3>4, LifecycleStutter
    <3> QED BY <2>4, <3>2, <3>3, <3>4 DEF TxCheck
  <2>5. CASE TxEnd BY <2>5, LifecycleStutter DEF TxEnd
  <2>6. CASE RxResult BY <2>6, LifecycleStutter DEF RxResult
  <2>7. CASE RxResultNoCb BY <2>7, LifecycleStutter DEF RxResultNoCb
  <2>8. CASE RxCallback
    <3>1. UNCHANGED <<run_pc, rx_pc, tx_buffers>>
      BY <2>8 DEF RxCallback
    <3>2. CASE Deliver("rx-error", "none") /\ running' = running
      BY <3>1, <3>2, LifecycleReceive
    <3>3. CASE StopStream /\ rx_queue' = rx_queue
      BY <3>1, <3>3, LifecycleEnd, LifecycleStutter DEF StopStream
    <3>4. CASE UNCHANGED <<running, rx_queue>>
      BY <3>1, <3>4, LifecycleStutter
    <3> QED BY <2>8, <3>2, <3>3, <3>4 DEF RxCallback
  <2>9. CASE RxParse
    <3>1. UNCHANGED <<running, run_pc, rx_pc, tx_buffers>>
      BY <2>9 DEF RxParse
    <3>2. CASE Deliver("parse-error", "none") \/ \E o \in PeerObj : Deliver("xml", o)
      BY <3>1, <3>2, LifecycleReceive
    <3>3. CASE rx_queue' = rx_queue
      BY <3>1, <3>3, LifecycleStutter
    <3> QED BY <2>9, <3>2, <3>3 DEF RxParse
  <2>10. CASE RxEnd BY <2>10, LifecycleStutter DEF RxEnd
  <2> QED BY <1>4, <2>1, <2>2, <2>3, <2>4, <2>5, <2>6, <2>7, <2>8, <2>9, <2>10 DEF Worker
<1>5. CASE TimerThread
  <2>1. CASE TimerExpire BY <2>1, LifecycleStutter DEF TimerExpire
  <2>2. CASE TimerLookup BY <2>2, LifecycleStutter DEF TimerLookup
  <2>3. CASE TimerPush BY <2>3, LifecycleReceive DEF TimerPush
  <2> QED BY <1>5, <2>1, <2>2, <2>3 DEF TimerThread
<1>6. CASE Client
  <2>1. CASE Write BY <2>1, LifecycleAccept DEF Write
  <2>2. CASE Stop BY <2>2, LifecycleEnd DEF Stop, StopStream
  <2>3. ASSUME NEW id \in TimerId, SetTimeout(id) PROVE [Lifecycle!Next]_(Lifecycle!vars) BY <2>3, LifecycleStutter DEF SetTimeout
  <2>4. ASSUME NEW id \in TimerId, CancelTimeout(id) PROVE [Lifecycle!Next]_(Lifecycle!vars) BY <2>4, LifecycleStutter DEF CancelTimeout
  <2> QED BY <1>6, <2>1, <2>2, <2>3, <2>4 DEF Client
<1>7. CASE UNCHANGED vars BY <1>7, LifecycleStutter DEF vars
<1> QED BY <1>1, <1>2, <1>3, <1>4, <1>5, <1>6, <1>7 DEF Next

(* XmlStream implements StreamLifecycle: run() returns only with no client   *)
(* callback executing and no accepted object still held, objects are         *)
(* accepted and received only while the stream runs, and every object that    *)
(* is received is given to one callback, in order, one at a time. After a stop *)
(* only the callback in progress is followed by others, for what is queued     *)
(* behind its object (the inner loop of rx_queue_thread_func).                *)
THEOREM ImplementsLifecycle == Spec => LifecycleSpec
<1>1. Init => Lifecycle!Init
  BY DEF Init, Lifecycle!Init
<1>2. TypeOK /\ ThreadLifetime /\ [Next]_vars => [Lifecycle!Next]_(Lifecycle!vars)
  BY LifecycleStep
<1> QED BY <1>1, <1>2, TypeCorrect, LifetimeCorrect, PTL DEF Spec, LifecycleSpec, Lifecycle!Spec
-----------------------------------------------------------------------------
(* Reads. Whoever is about to queue a read counts as one: run() until it has *)
(* read, reset(), and the worker that is called with data. The total is at   *)
(* most two, and at most one between two runs.                               *)

Callers == (IF run_pc \in {"set_cb", "write", "read"} THEN 1 ELSE 0)
           + (IF reset_pc # "none" THEN 1 ELSE 0)

Readers == Callers + (IF worker.pc = "rx_callback" THEN 1 ELSE 0)

Room == IF run_pc \in {"clear", "idle"} THEN 1 ELSE 2

ReadBudget ==
    /\ worker.pc \in RxPc /\ ~cancelled => rx_op # <<>>
    /\ Len(PendingRx) + Readers <= Room

(* What waits is a sequence of reads.                                        *)
LEMMA PendingType ==
    ASSUME TypeOK, ReadBudget
    PROVE  PendingRx \in Seq({"stream", "none"}) /\ Len(PendingRx) \in Nat
<1>1. rx_op \in Seq({"stream", "none"})
  BY DEF TypeOK, QueueTypes
<1>2. PendingRx \in Seq({"stream", "none"})
  BY <1>1 DEF PendingRx, ReadBudget
<1> QED BY <1>2

(* A step that neither queues nor removes a read.                            *)
LEMMA BudgetKept ==
    ASSUME TypeOK, ReadBudget, PendingRx' = PendingRx,
           worker'.pc = "rx_callback" => worker.pc = "rx_callback",
           worker'.pc \in RxPc /\ ~cancelled' => rx_op' # <<>>,
           Callers' + Room <= Callers + Room'
    PROVE  ReadBudget'
<1>1. Len(PendingRx) \in Nat /\ Len(PendingRx') = Len(PendingRx)
  BY PendingType
<1>2. Readers' + Room <= Readers + Room'
  BY DEF Readers, Callers, Room
<1>3. Len(PendingRx') + Readers' <= Room'
  BY <1>1, <1>2 DEF ReadBudget, Readers, Callers, Room
<1> QED BY <1>3 DEF ReadBudget

(* A step that does not touch the reads, and in which run() and reset() do   *)
(* not begin.                                                                *)
LEMMA BudgetSame ==
    ASSUME TypeOK, ReadBudget, UNCHANGED <<rx_op, cancelled, worker, run_pc, reset_pc>>
    PROVE  ReadBudget'
<1>1. PendingRx' = PendingRx
  BY DEF PendingRx
<1>2. Callers' + Room <= Callers + Room'
  BY DEF Callers, Room
<1> QED BY <1>1, <1>2, BudgetKept DEF ReadBudget

(* A step of run() or reset() that does not touch the reads.                 *)
LEMMA BudgetCaller ==
    ASSUME TypeOK, ReadBudget, UNCHANGED <<rx_op, cancelled, worker>>,
           Callers' + Room <= Callers + Room'
    PROVE  ReadBudget'
<1>1. PendingRx' = PendingRx
  BY DEF PendingRx
<1> QED BY <1>1, BudgetKept DEF ReadBudget

(* A step of the worker in a write callback or into one.                     *)
LEMMA BudgetTx ==
    ASSUME TypeOK, ReadBudget, UNCHANGED <<rx_op, run_pc, reset_pc>>,
           worker.pc \notin RxPc, worker'.pc \notin RxPc
    PROVE  ReadBudget'
<1>1. PendingRx' = PendingRx
  BY DEF PendingRx
<1>2. Callers' + Room <= Callers + Room'
  BY DEF Callers, Room
<1> QED BY <1>1, <1>2, BudgetKept DEF RxPc

(* Cancelling removes every read.                                            *)
LEMMA BudgetCancelled ==
    ASSUME TypeOK, ReadBudget, CancelIo, UNCHANGED <<run_pc, reset_pc>>,
           worker'.pc = "rx_callback" => worker.pc = "rx_callback"
    PROVE  ReadBudget'
<1>1. PendingRx' = <<>> /\ cancelled'
  BY DEF CancelIo, PendingRx
<1>2. Len(PendingRx) \in Nat
  BY PendingType
<1>3. Readers <= Room
  BY <1>2 DEF ReadBudget, Readers, Callers, Room
<1>4. Readers' <= Room'
  BY <1>3 DEF Readers, Callers, Room
<1> QED BY <1>1, <1>4 DEF ReadBudget, Readers, Callers, Room

(* Queueing a read adds one, whatever the worker is doing.                   *)
LEMMA ReadQueued ==
    ASSUME TypeOK, ReadBudget, rx_op' = Append(rx_op, Callback), cancelled' = cancelled,
           worker'.pc \in RxPc <=> worker.pc \in RxPc
    PROVE  rx_op' # <<>> /\ Len(PendingRx') = Len(PendingRx) + 1
<1>1. rx_op \in Seq({"stream", "none"}) /\ Callback \in {"stream", "none"}
  BY CallbackType DEF TypeOK, QueueTypes
<1>2. rx_op' # <<>> /\ Len(rx_op') = Len(rx_op) + 1
  BY <1>1
<1>3. CASE worker.pc \in RxPc /\ ~cancelled
  <2>1. rx_op # <<>>
    BY <1>3 DEF ReadBudget
  <2>2. PendingRx = Tail(rx_op) /\ PendingRx' = Tail(Append(rx_op, Callback))
    BY <1>3 DEF PendingRx
  <2>3. Len(Tail(rx_op)) = Len(rx_op) - 1 /\ Len(Tail(Append(rx_op, Callback))) = Len(rx_op)
    BY <1>1, <2>1
  <2>4. Len(rx_op) \in Nat
    BY <1>1
  <2> QED BY <1>2, <2>2, <2>3, <2>4
<1>4. CASE ~(worker.pc \in RxPc /\ ~cancelled)
  <2>1. PendingRx = rx_op /\ PendingRx' = rx_op'
    BY <1>4 DEF PendingRx
  <2> QED BY <1>2, <2>1
<1> QED BY <1>3, <1>4

(* ReadBudget is inductive.                                                  *)
LEMMA ReadBudgetStep ==
    ASSUME TypeOK, ThreadLifetime, ReadBudget, [Next]_vars
    PROVE  ReadBudget'
<1> USE DEF runVars, ioVars, timerVars
<1>1. CASE RunThread
  <2>1. CASE RunStart
    <3>1. Callers' + Room <= Callers + Room'
      BY <2>1 DEF RunStart, Callers, Room
    <3> QED BY <2>1, <3>1, BudgetCaller DEF RunStart
  <2>2. CASE RunSetCb
    <3>1. Callers' + Room <= Callers + Room'
      BY <2>2 DEF RunSetCb, Callers, Room
    <3> QED BY <2>2, <3>1, BudgetCaller DEF RunSetCb
  <2>3. CASE RunWrite
    <3>1. Callers' + Room <= Callers + Room'
      BY <2>3 DEF RunWrite, Callers, Room
    <3> QED BY <2>3, <3>1, BudgetCaller DEF RunWrite, QueueWrite
  <2>4. CASE RunRead
    <3>1. rx_op' # <<>> /\ Len(PendingRx') = Len(PendingRx) + 1
      BY <2>4, ReadQueued DEF RunRead
    <3>2. Readers' + 1 = Readers /\ Room' = Room
      BY <2>4 DEF RunRead, Readers, Callers, Room
    <3>3. Len(PendingRx) \in Nat
      BY PendingType
    <3> QED BY <3>1, <3>2, <3>3 DEF ReadBudget, Readers, Callers, Room
  <2>5. CASE RunJoin
    <3>1. Callers' + Room <= Callers + Room'
      BY <2>5 DEF RunJoin, Callers, Room
    <3> QED BY <2>5, <3>1, BudgetCaller DEF RunJoin
  <2>6. CASE RunDrained
    <3>1. Callers' + Room <= Callers + Room'
      BY <2>6 DEF RunDrained, Callers, Room
    <3> QED BY <2>6, <3>1, BudgetCaller DEF RunDrained
  <2>7. CASE RunClear
    <3>1. Callers' + Room <= Callers + Room'
      BY <2>7 DEF RunClear, Callers, Room
    <3> QED BY <2>7, <3>1, BudgetCaller DEF RunClear
  <2> QED BY <1>1, <2>1, <2>2, <2>3, <2>4, <2>5, <2>6, <2>7 DEF RunThread
<1>2. CASE ResetCall
  <2>1. CASE ResetClear
    <3>1. PendingRx' = <<>> /\ cancelled'
      BY <2>1 DEF ResetClear, CancelIo, PendingRx
    <3>2. run_pc \in {"join", "reset"}
      BY <2>1 DEF ResetClear, MutexFree, ThreadLifetime, TypeOK, ThreadTypes
    <3>3. Readers' <= 2 /\ Room' = 2
      BY <2>1, <3>2 DEF ResetClear, Readers, Callers, Room
    <3> QED BY <3>1, <3>3 DEF ReadBudget, Readers, Callers, Room
  <2>2. CASE ResetCheck
    <3>1. Callers' + Room <= Callers + Room'
      BY <2>2 DEF ResetCheck, ResetReturn, Callers, Room, TypeOK, ThreadTypes
    <3> QED BY <2>2, <3>1, BudgetCaller DEF ResetCheck
  <2>3. CASE ResetRead
    <3>1. rx_op' # <<>> /\ Len(PendingRx') = Len(PendingRx) + 1
      BY <2>3, ReadQueued DEF ResetRead
    <3>2. run_pc = "join" /\ run_pc' = "join"
      BY <2>3 DEF ResetRead, ResetReturn, ThreadLifetime
    <3>3. Readers' + 1 = Readers /\ Room' = Room
      BY <2>3, <3>2 DEF ResetRead, ResetReturn, Readers, Callers, Room
    <3>4. Len(PendingRx) \in Nat
      BY PendingType
    <3> QED BY <3>1, <3>3, <3>4 DEF ReadBudget, Readers, Callers, Room
  <2> QED BY <1>2, <2>1, <2>2, <2>3 DEF ResetCall
<1>3. CASE RxThread
  <2>1. CASE RxTake BY <2>1, BudgetSame DEF RxTake
  <2>2. CASE RxReturn BY <2>2, BudgetSame DEF RxReturn
  <2>3. CASE RxExit BY <2>3, BudgetSame DEF RxExit
  <2>4. CASE CancelConnection BY <2>4, BudgetCancelled DEF CancelConnection
  <2> QED BY <1>3, <2>1, <2>2, <2>3, <2>4 DEF RxThread
<1>4. CASE Worker
  <2>1. CASE TxResult BY <2>1, BudgetTx DEF TxResult, RxPc
  <2>2. CASE TxResultNoCb BY <2>2, BudgetSame DEF TxResultNoCb
  <2>3. CASE TxCallback BY <2>3, BudgetTx DEF TxCallback, RxPc, TypeOK, CallbackTypes
  <2>4. CASE TxCheck
    <3>1. worker.pc = "tx_check" /\ worker'.pc = "tx_end" /\ UNCHANGED <<run_pc, reset_pc>>
      BY <2>4 DEF TxCheck, TypeOK, CallbackTypes
    <3>2. CASE UNCHANGED ioVars
      BY <3>1, <3>2, BudgetTx DEF RxPc
    <3>3. CASE CancelIo
      BY <3>1, <3>3, BudgetCancelled
    <3> QED BY <2>4, <3>2, <3>3 DEF TxCheck, StopStream
  <2>5. CASE TxEnd BY <2>5, BudgetTx DEF TxEnd, RxPc, Idle
  <2>6. CASE RxResult
    <3>1. rx_op \in Seq({"stream", "none"}) /\ rx_op # <<>>
      BY <2>6 DEF RxResult, TypeOK, QueueTypes
    <3>2. PendingRx = rx_op /\ PendingRx' = Tail(rx_op)
      BY <2>6 DEF RxResult, PendingRx, RxPc
    <3>3. Len(PendingRx') = Len(PendingRx) - 1 /\ Len(PendingRx) \in Nat
      BY <3>1, <3>2
    <3>4. Readers' = Readers + 1 /\ Room' = Room
      BY <2>6 DEF RxResult, Readers, Callers, Room
    <3>5. rx_op' # <<>>
      BY <2>6 DEF RxResult
    <3> QED BY <3>3, <3>4, <3>5 DEF ReadBudget, Readers, Callers, Room
  <2>7. CASE RxResultNoCb
    <3>1. rx_op \in Seq({"stream", "none"}) /\ rx_op # <<>>
      BY <2>7 DEF RxResultNoCb, TypeOK, QueueTypes
    <3>2. PendingRx = rx_op /\ PendingRx' = rx_op' /\ worker' = worker /\ worker.pc = "idle"
      BY <2>7 DEF RxResultNoCb, PendingRx, RxPc
    <3>3. Len(rx_op') <= Len(rx_op) /\ Len(rx_op') \in Nat /\ Len(rx_op) \in Nat
      <4>1. CASE rx_op' = rx_op
        BY <3>1, <4>1
      <4>2. CASE rx_op' = Tail(rx_op)
        BY <3>1, <4>2
      <4> QED BY <2>7, <4>1, <4>2 DEF RxResultNoCb
    <3>4. Readers' = Readers /\ Room' = Room
      BY <2>7 DEF RxResultNoCb, Readers, Callers, Room
    <3> QED BY <3>2, <3>3, <3>4 DEF ReadBudget, Readers, Callers, Room, RxPc
  <2>8. CASE RxCallback
    <3>1. worker.pc = "rx_callback" /\ UNCHANGED <<run_pc, reset_pc>>
      BY <2>8 DEF RxCallback
    <3>2. worker'.pc \in {"rx_parse", "rx_end"}
      BY <2>8 DEF RxCallback, TypeOK, CallbackTypes
    <3>3. CASE rx_op' = Append(rx_op, Callback) /\ cancelled' = cancelled
      <4>1. rx_op' # <<>> /\ Len(PendingRx') = Len(PendingRx) + 1
        BY <3>1, <3>2, <3>3, ReadQueued DEF RxPc
      <4>2. Readers' + 1 = Readers /\ Room' = Room
        BY <3>1, <3>2 DEF Readers, Callers, Room
      <4>3. Len(PendingRx) \in Nat
        BY PendingType
      <4> QED BY <4>1, <4>2, <4>3 DEF ReadBudget, Readers, Callers, Room
    <3>4. CASE UNCHANGED ioVars
      <4>1. PendingRx' = PendingRx
        BY <3>1, <3>2, <3>4 DEF PendingRx, RxPc
      <4>2. Callers' + Room <= Callers + Room'
        BY <3>1 DEF Callers, Room
      <4> QED BY <3>1, <3>2, <3>4, <4>1, <4>2, BudgetKept DEF ReadBudget, RxPc
    <3>5. CASE CancelIo
      BY <3>1, <3>2, <3>5, BudgetCancelled
    <3> QED BY <2>8, <3>3, <3>4, <3>5 DEF RxCallback, StopStream
  <2>9. CASE RxParse
    <3>1. worker.pc = "rx_parse" /\ worker'.pc \in {"rx_parse", "rx_end"}
      BY <2>9 DEF RxParse, TypeOK, CallbackTypes
    <3>2. UNCHANGED <<run_pc, reset_pc, rx_op, cancelled>>
      BY <2>9 DEF RxParse
    <3>3. PendingRx' = PendingRx
      BY <3>1, <3>2 DEF PendingRx, RxPc
    <3>4. Callers' + Room <= Callers + Room'
      BY <3>2 DEF Callers, Room
    <3> QED BY <3>1, <3>2, <3>3, <3>4, BudgetKept DEF ReadBudget, RxPc
  <2>10. CASE RxEnd
    <3>1. worker.pc = "rx_end" /\ worker'.pc = "idle" /\ UNCHANGED <<run_pc, reset_pc>>
      BY <2>10 DEF RxEnd, Idle
    <3>2. PendingRx' = PendingRx
      BY <2>10, <3>1 DEF RxEnd, PendingRx, RxPc, ReadBudget
    <3>3. Callers' + Room <= Callers + Room'
      BY <3>1 DEF Callers, Room
    <3> QED BY <3>1, <3>2, <3>3, BudgetKept DEF RxPc
  <2> QED BY <1>4, <2>1, <2>2, <2>3, <2>4, <2>5, <2>6, <2>7, <2>8, <2>9, <2>10 DEF Worker
<1>5. CASE TimerThread
  <2>1. CASE TimerExpire BY <2>1, BudgetSame DEF TimerExpire
  <2>2. CASE TimerLookup BY <2>2, BudgetSame DEF TimerLookup
  <2>3. CASE TimerPush BY <2>3, BudgetSame DEF TimerPush
  <2> QED BY <1>5, <2>1, <2>2, <2>3 DEF TimerThread
<1>6. CASE Client
  <2>1. CASE Write BY <2>1, BudgetSame DEF Write, QueueWrite
  <2>2. CASE Stop BY <2>2, BudgetCancelled DEF Stop, StopStream
  <2>3. ASSUME NEW id \in TimerId, SetTimeout(id) PROVE ReadBudget' BY <2>3, BudgetSame DEF SetTimeout
  <2>4. ASSUME NEW id \in TimerId, CancelTimeout(id) PROVE ReadBudget' BY <2>4, BudgetSame DEF CancelTimeout
  <2> QED BY <1>6, <2>1, <2>2, <2>3, <2>4 DEF Client
<1>7. CASE UNCHANGED vars BY <1>7, BudgetSame DEF vars
<1> QED BY <1>1, <1>2, <1>3, <1>4, <1>5, <1>6, <1>7 DEF Next

(* However many resets, cancels and runs there are, at most two reads into    *)
(* the one rx_buf wait behind the one being executed.                         *)
THEOREM ReadsBounded == Spec => []BoundedReads
<1>1. Init => ReadBudget
  BY DEF Init, ReadBudget, PendingRx, Readers, Callers, Room, Idle, RxPc
<1>2. TypeOK /\ ReadBudget => BoundedReads
  <2>1. TypeOK /\ ReadBudget => Len(PendingRx) \in Nat
    BY PendingType
  <2> QED BY <2>1 DEF ReadBudget, BoundedReads, Readers, Callers, Room
<1> QED BY <1>1, <1>2, TypeCorrect, LifetimeCorrect, ReadBudgetStep, PTL DEF Spec
-----------------------------------------------------------------------------
(* The last read. What takes it from the queue is a callback that queues the   *)
(* next one, reports an error, or stops the stream; or reset().                *)

(* What waits, and the callback the worker is in, are as before.              *)
LEMMA ReadKept ==
    ASSUME HasRead, PendingRx' = PendingRx,
           worker.pc = "rx_callback" => worker'.pc = "rx_callback"
    PROVE  HasRead'
BY DEF HasRead

(* A read was queued while run() waits for the rx thread.                     *)
LEMMA ReadWaits ==
    ASSUME TypeOK, ReadBudget, run_pc = "join",
           rx_op' = Append(rx_op, Callback), cancelled' = cancelled,
           worker'.pc \in RxPc <=> worker.pc \in RxPc
    PROVE  HasRead'
<1>1. rx_op \in Seq({"stream", "none"}) /\ Callback = "stream"
  BY DEF TypeOK, QueueTypes, Callback
<1> DEFINE n == Len(rx_op)
<1>2. /\ n \in Nat /\ rx_op' \in Seq({"stream", "none"})
      /\ Len(rx_op') = n + 1 /\ rx_op'[n + 1] = "stream"
  BY <1>1
<1>3. CASE worker.pc \in RxPc /\ ~cancelled
  <2>1. rx_op # <<>>
    BY <1>3 DEF ReadBudget
  <2>2. n >= 1
    BY <1>1, <2>1
  <2>3. PendingRx' = Tail(rx_op')
    BY <1>3 DEF PendingRx
  <2>4. n \in DOMAIN Tail(rx_op') /\ Tail(rx_op')[n] = rx_op'[n + 1]
    BY <1>2, <2>2
  <2> QED BY <1>2, <2>3, <2>4 DEF HasRead
<1>4. CASE ~(worker.pc \in RxPc /\ ~cancelled)
  <2>1. PendingRx' = rx_op'
    BY <1>4 DEF PendingRx
  <2>2. n + 1 \in DOMAIN rx_op'
    BY <1>2
  <2> QED BY <1>2, <2>1, <2>2 DEF HasRead
<1> QED BY <1>3, <1>4

(* The worker takes the first operation when it has no callback: not a read.  *)
LEMMA ReadBehind ==
    ASSUME TypeOK, HasRead, worker.pc = "idle", rx_op # <<>>, rx_op[1] = "none",
           rx_op' = Tail(rx_op), worker' = worker
    PROVE  HasRead'
<1>1. rx_op \in Seq({"stream", "none"})
  BY DEF TypeOK, QueueTypes
<1>2. PendingRx = rx_op /\ PendingRx' = Tail(rx_op)
  BY DEF PendingRx, RxPc
<1>3. PICK i \in 1..Len(rx_op) : rx_op[i] = "stream"
  BY <1>1, <1>2 DEF HasRead
<1>4. i - 1 \in DOMAIN Tail(rx_op) /\ Tail(rx_op)[i - 1] = rx_op[i]
  BY <1>1, <1>3
<1> QED BY <1>2, <1>3, <1>4 DEF HasRead

Told ==
    \/ ~running'
    \/ reset_pc' = "check"
    \/ CancelConnection
    \/ worker.res = "error" /\ rx_queue' # <<>> /\ rx_queue'[Len(rx_queue')].kind = "rx-error"

LEMMA DeafStep ==
    ASSUME TypeOK, ThreadLifetime, ReadBudget, [Next]_vars,
           run_pc = "join", running, HasRead
    PROVE  HasRead' \/ Told
<1>1. CASE RunThread
  <2>1. ~RunJoin
    BY DEF RunJoin, ThreadLifetime
  <2>2. CASE RunStart \/ RunSetCb \/ RunWrite \/ RunRead \/ RunDrained \/ RunClear
    BY <2>2 DEF RunStart, RunSetCb, RunWrite, RunRead, RunDrained, RunClear
  <2> QED BY <1>1, <2>1, <2>2 DEF RunThread
<1>2. CASE ResetCall
  <2>1. CASE ResetClear BY <2>1 DEF ResetClear, Told
  <2>2. CASE ResetCheck
    BY <2>2, ReadKept DEF ResetCheck, PendingRx, ioVars
  <2>3. CASE ResetRead BY <2>3, ReadWaits DEF ResetRead
  <2> QED BY <1>2, <2>1, <2>2, <2>3 DEF ResetCall
<1>3. CASE RxThread
  <2>1. CASE CancelConnection BY <2>1 DEF Told
  <2>2. CASE RxTake \/ RxReturn \/ RxExit
    <3>1. UNCHANGED <<worker, rx_op, cancelled>>
      BY <2>2 DEF RxTake, RxReturn, RxExit, ioVars
    <3> QED BY <3>1, ReadKept DEF PendingRx
  <2> QED BY <1>3, <2>1, <2>2 DEF RxThread
<1>4. CASE Client
  <2>1. CASE Write
    BY <2>1, ReadKept DEF Write, QueueWrite, PendingRx
  <2>2. CASE Stop BY <2>2 DEF Stop, StopStream, Told
  <2>3. ASSUME NEW id \in TimerId, SetTimeout(id) PROVE HasRead'
    BY <2>3, ReadKept DEF SetTimeout, PendingRx, ioVars
  <2>4. ASSUME NEW id \in TimerId, CancelTimeout(id) PROVE HasRead'
    BY <2>4, ReadKept DEF CancelTimeout, PendingRx, ioVars
  <2> QED BY <1>4, <2>1, <2>2, <2>3, <2>4 DEF Client
<1>5. CASE Worker
  <2>1. CASE TxResult
    <3>1. worker.pc \notin RxPc /\ worker'.pc \notin RxPc /\ rx_op' = rx_op
      BY <2>1 DEF TxResult, RxPc
    <3> QED BY <3>1, ReadKept DEF PendingRx, RxPc
  <2>2. CASE TxResultNoCb
    BY <2>2, ReadKept DEF TxResultNoCb, PendingRx
  <2>3. CASE TxCallback
    <3>1. worker.pc \notin RxPc /\ worker'.pc \notin RxPc /\ rx_op' = rx_op
      BY <2>3 DEF TxCallback, RxPc, ioVars, TypeOK, CallbackTypes
    <3> QED BY <3>1, ReadKept DEF PendingRx, RxPc
  <2>4. CASE TxCheck
    <3>1. worker.pc \notin RxPc /\ worker'.pc \notin RxPc
      BY <2>4 DEF TxCheck, RxPc, TypeOK, CallbackTypes
    <3>2. rx_op' = rx_op \/ ~running'
      BY <2>4 DEF TxCheck, StopStream, ioVars
    <3> QED BY <3>1, <3>2, ReadKept DEF PendingRx, RxPc, Told
  <2>5. CASE TxEnd
    <3>1. worker.pc \notin RxPc /\ worker'.pc \notin RxPc /\ rx_op' = rx_op
      BY <2>5 DEF TxEnd, Idle, RxPc
    <3> QED BY <3>1, ReadKept DEF PendingRx, RxPc
  <2>6. CASE RxResult
    BY <2>6 DEF RxResult, HasRead
  <2>7. CASE RxResultNoCb
    <3>1. CASE cancelled
      BY <2>7, <3>1, ReadKept DEF RxResultNoCb, PendingRx
    <3>2. CASE ~cancelled
      BY <2>7, <3>2, ReadBehind DEF RxResultNoCb
    <3> QED BY <3>1, <3>2
  <2>8. CASE RxCallback
    <3>1. CASE worker.res = "ok" /\ rx_op' = Append(rx_op, Callback)
               /\ worker' = [worker EXCEPT !.pc = "rx_parse"] /\ cancelled' = cancelled
      <4>1. worker.pc \in RxPc /\ worker'.pc \in RxPc
        BY <2>8, <3>1 DEF RxCallback, RxPc, TypeOK, CallbackTypes
      <4> QED BY <3>1, <4>1, ReadWaits
    <3>2. CASE worker.res = "error" /\ Deliver("rx-error", "none")
      <4>1. rx_queue \in Seq(Obj) /\ rx_queue' = Append(rx_queue, [kind |-> "rx-error", id |-> "none", run |-> run])
        BY <3>2 DEF Deliver, TypeOK, QueueTypes
      <4>2. rx_queue' # <<>> /\ rx_queue'[Len(rx_queue')].kind = "rx-error"
        BY <4>1
      <4> QED BY <3>2, <4>2 DEF Told
    <3>3. CASE StopStream
      BY <3>3 DEF StopStream, Told
    <3> QED BY <2>8, <3>1, <3>2, <3>3 DEF RxCallback
  <2>9. CASE RxParse
    <3>1. worker.pc = "rx_parse" /\ worker'.pc \in {"rx_parse", "rx_end"}
      BY <2>9 DEF RxParse, TypeOK, CallbackTypes
    <3>2. UNCHANGED <<rx_op, cancelled>>
      BY <2>9 DEF RxParse, ioVars
    <3> QED BY <3>1, <3>2, ReadKept DEF PendingRx, RxPc
  <2>10. CASE RxEnd
    <3>1. worker.pc = "rx_end" /\ worker'.pc = "idle"
      BY <2>10 DEF RxEnd, Idle
    <3>2. cancelled \/ rx_op # <<>>
      BY <3>1 DEF ReadBudget, RxPc
    <3>3. PendingRx' = PendingRx
      BY <2>10, <3>1, <3>2 DEF RxEnd, PendingRx, RxPc
    <3> QED BY <3>1, <3>3, ReadKept
  <2> QED BY <1>5, <2>1, <2>2, <2>3, <2>4, <2>5, <2>6, <2>7, <2>8, <2>9, <2>10 DEF Worker
<1>6. CASE TimerThread
  <2>1. UNCHANGED <<worker, rx_op, cancelled>>
    BY <1>6 DEF TimerThread, TimerExpire, TimerLookup, TimerPush, ioVars
  <2> QED BY <2>1, ReadKept DEF PendingRx
<1>7. CASE UNCHANGED vars
  BY <1>7, ReadKept DEF vars, PendingRx, ioVars
<1> QED BY <1>1, <1>2, <1>3, <1>4, <1>5, <1>6, <1>7 DEF Next

(* A stream that runs loses its last read only to an error it reports, to a   *)
(* stop, to a reset, or to the client's own cancel of the connection           *)
(* (TlsModule.cpp:96), however writes, timeouts, resets and the worker's        *)
(* callbacks interleave (rx_callback, handle_poll_io, reset and stop). A cancel *)
(* while the worker completes a read leaves the read queued after it alone.     *)
THEOREM ReadsGoOn == Spec => NeverDeafSilently
<1>1. Init => ReadBudget
  BY DEF Init, ReadBudget, PendingRx, Readers, Callers, Room, Idle, RxPc
<1> DEFINE Step == run_pc = "join" /\ running /\ HasRead /\ ~HasRead' => Told
<1>2. TypeOK /\ ThreadLifetime /\ ReadBudget /\ [Next]_vars => [Step]_vars
  BY DeafStep
<1>3. Step <=> (run_pc = "join" /\ running /\ HasRead /\ ~HasRead' =>
          \/ ~running'
          \/ reset_pc' = "check"
          \/ CancelConnection
          \/ worker.res = "error" /\ rx_queue' # <<>> /\ rx_queue'[Len(rx_queue')].kind = "rx-error")
  BY DEF Told
<1> QED BY <1>1, <1>2, <1>3, TypeCorrect, LifetimeCorrect, ReadBudgetStep, PTL DEF Spec, NeverDeafSilently
=============================================================================
