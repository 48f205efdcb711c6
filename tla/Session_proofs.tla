--------------------------- MODULE Session_proofs ---------------------------
(****************************************************************************)
(* Proofs about Session, for every choice of its constants. The lemmas      *)
(* *TypesStep give type correctness, one group of variables each; the       *)
(* invariant ConnectedStates is inductive together with Arguments, which    *)
(* says what each thread can pass to change_state.                          *)
(****************************************************************************)
EXTENDS Session, TLAPS

(* What each thread asks change_state for: the run thread connects and       *)
(* closes, the modules negotiate, bind and close, the application closes.    *)
Arguments ==
    /\ at["run"] \in {"chg", "set"} => new["run"] \in {"connecting", "closed"}
    /\ at["rx"]  \in {"chg", "set"} => new["rx"] \in {"negotiating", "bound", "closing"}
    /\ at["app"] \in {"chg", "set"} => new["app"] = "closing"

IConnected == TypeOK /\ Arguments /\ ConnectedStates

-----------------------------------------------------------------------------
(* Types                                                                    *)

(* write() appends an object or does nothing.                               *)
LEMMA WriteObjType ==
    ASSUME out \in Seq({"start", "end", "other"}), NEW obj \in {"start", "end", "other"}, WriteObj(obj)
    PROVE  out' \in Seq({"start", "end", "other"})
<1>1. out' = Append(out, obj) \/ out' = out
  BY DEF WriteObj
<1> QED BY <1>1

(* stop() empties the queue of objects to send or leaves it.                *)
LEMMA StopStreamType ==
    ASSUME out \in Seq({"start", "end", "other"}), StopStream
    PROVE  out' \in Seq({"start", "end", "other"})
<1>1. out' = <<>> \/ out' = out
  BY DEF StopStream
<1>2. <<>> \in Seq({"start", "end", "other"})
  OBVIOUS
<1> QED BY <1>1, <1>2

(* The session members keep their types.                                    *)
LEMMA StateTypesStep ==
    ASSUME TypeOK, [Next]_vars
    PROVE  StateTypes'
<1> USE DEF TypeOK, StateTypes, CallTypes, State, Goto, CallStop, FastStop, Change, Done, WriteObj, StopStream, Handling, streamVars, callVars
<1>1. CASE Run BY <1>1 DEF Run
<1>2. CASE RunStep
  <2>1. CASE RunInit BY <2>1 DEF RunInit
  <2>2. CASE Connect BY <2>2 DEF Connect
  <2>3. CASE ConnectFailed BY <2>3 DEF ConnectFailed
  <2>4. CASE RunStream BY <2>4 DEF RunStream
  <2>5. CASE RunHeader BY <2>5 DEF RunHeader
  <2>6. CASE StreamEnded BY <2>6 DEF StreamEnded
  <2>7. CASE CancelStopTimeout BY <2>7 DEF CancelStopTimeout
  <2>8. CASE RunReturn BY <2>8 DEF RunReturn
  <2> QED BY <1>2, <2>1, <2>2, <2>3, <2>4, <2>5, <2>6, <2>7, <2>8 DEF RunStep
<1>3. CASE RxStep
  <2>1. CASE RxTake BY <2>1 DEF RxTake
  <2>2. CASE RxReturn BY <2>2 DEF RxReturn
  <2>3. CASE OnStream BY <2>3 DEF OnStream
  <2>4. CASE OnBound BY <2>4 DEF OnBound
  <2>5. CASE OnFeatures BY <2>5 DEF OnFeatures
  <2>6. CASE OnIq BY <2>6 DEF OnIq
  <2>7. CASE RequestBind BY <2>7 DEF RequestBind
  <2>8. CASE OnError BY <2>8 DEF OnError
  <2>9. CASE OnEnd BY <2>9 DEF OnEnd
  <2>10. CASE OnStopTimeout BY <2>10 DEF OnStopTimeout
  <2>11. CASE OnSuccess BY <2>11 DEF OnSuccess
  <2>12. CASE ResetStream BY <2>12 DEF ResetStream
  <2>13. CASE SetStartPart BY <2>13 DEF SetStartPart
  <2>14. CASE WriteHeader BY <2>14 DEF WriteHeader
  <2> QED BY <1>3, <2>1, <2>2, <2>3, <2>4, <2>5, <2>6, <2>7, <2>8, <2>9, <2>10, <2>11, <2>12, <2>13, <2>14 DEF RxStep
<1>4. CASE Outside
  <2>1. CASE AppStop BY <2>1 DEF AppStop
  <2>2. CASE Receive BY <2>2 DEF Receive
  <2>3. CASE Disconnect BY <2>3 DEF Disconnect
  <2>4. CASE Transmit BY <2>4 DEF Transmit
  <2>5. CASE StopTimeout BY <2>5 DEF StopTimeout
  <2> QED BY <1>4, <2>1, <2>2, <2>3, <2>4, <2>5 DEF Outside
<1>5. ASSUME NEW t \in Thread, ChangeCall(t) PROVE StateTypes'
  <2>1. CASE CheckState(t) BY <1>5, <2>1 DEF CheckState, Thread
  <2>2. CASE SetState(t) BY <1>5, <2>2 DEF SetState, Thread
  <2> QED BY <1>5, <2>1, <2>2 DEF ChangeCall
<1>6. ASSUME NEW t \in {"rx", "app"}, StopCall(t) PROVE StateTypes'
  <2>1. CASE Stop(t) BY <1>6, <2>1 DEF Stop, Thread
  <2>2. CASE StopAgain(t) BY <1>6, <2>2 DEF StopAgain, Thread
  <2>3. CASE IsRunning(t) BY <1>6, <2>3 DEF IsRunning, Thread
  <2>4. CASE SetEndPart(t) BY <1>6, <2>4 DEF SetEndPart, Thread
  <2>5. CASE SetStopTimeout(t) BY <1>6, <2>5 DEF SetStopTimeout, Thread
  <2>6. CASE WriteEnd(t) BY <1>6, <2>6 DEF WriteEnd, Thread
  <2>7. CASE StopTheStream(t) BY <1>6, <2>7 DEF StopTheStream, Thread
  <2> QED BY <1>6, <2>1, <2>2, <2>3, <2>4, <2>5, <2>6, <2>7 DEF StopCall
<1>7. CASE UNCHANGED vars BY <1>7 DEF vars
<1> QED BY <1>1, <1>2, <1>3, <1>4, <1>5, <1>6, <1>7 DEF Next

(* The threads' positions and arguments keep their types.                   *)
LEMMA CallTypesStep ==
    ASSUME TypeOK, [Next]_vars
    PROVE  CallTypes'
<1> USE DEF TypeOK, CallTypes, Thread, Pc, State, Goto, CallStop, FastStop, Change, Done, WriteObj, StopStream, Handling, streamVars, callVars
<1>1. CASE Run BY <1>1 DEF Run
<1>2. CASE RunStep
  <2>1. CASE RunInit BY <2>1 DEF RunInit
  <2>2. CASE Connect BY <2>2 DEF Connect
  <2>3. CASE ConnectFailed BY <2>3 DEF ConnectFailed
  <2>4. CASE RunStream BY <2>4 DEF RunStream
  <2>5. CASE RunHeader BY <2>5 DEF RunHeader
  <2>6. CASE StreamEnded BY <2>6 DEF StreamEnded
  <2>7. CASE CancelStopTimeout BY <2>7 DEF CancelStopTimeout
  <2>8. CASE RunReturn BY <2>8 DEF RunReturn
  <2> QED BY <1>2, <2>1, <2>2, <2>3, <2>4, <2>5, <2>6, <2>7, <2>8 DEF RunStep
<1>3. CASE RxStep
  <2>1. CASE RxTake BY <2>1 DEF RxTake
  <2>2. CASE RxReturn BY <2>2 DEF RxReturn
  <2>3. CASE OnStream BY <2>3 DEF OnStream
  <2>4. CASE OnBound BY <2>4 DEF OnBound
  <2>5. CASE OnFeatures BY <2>5 DEF OnFeatures
  <2>6. CASE OnIq BY <2>6 DEF OnIq
  <2>7. CASE RequestBind BY <2>7 DEF RequestBind
  <2>8. CASE OnError BY <2>8 DEF OnError
  <2>9. CASE OnEnd BY <2>9 DEF OnEnd
  <2>10. CASE OnStopTimeout BY <2>10 DEF OnStopTimeout
  <2>11. CASE OnSuccess BY <2>11 DEF OnSuccess
  <2>12. CASE ResetStream BY <2>12 DEF ResetStream
  <2>13. CASE SetStartPart BY <2>13 DEF SetStartPart
  <2>14. CASE WriteHeader BY <2>14 DEF WriteHeader
  <2> QED BY <1>3, <2>1, <2>2, <2>3, <2>4, <2>5, <2>6, <2>7, <2>8, <2>9, <2>10, <2>11, <2>12, <2>13, <2>14 DEF RxStep
<1>4. CASE Outside
  <2>1. CASE AppStop 
    <3>1. fast' \in [Thread -> BOOLEAN]
      BY <2>1, SessionAssumption DEF AppStop
    <3> QED BY <2>1, <3>1 DEF AppStop
  <2>2. CASE Receive BY <2>2 DEF Receive
  <2>3. CASE Disconnect BY <2>3 DEF Disconnect
  <2>4. CASE Transmit BY <2>4 DEF Transmit
  <2>5. CASE StopTimeout BY <2>5 DEF StopTimeout
  <2> QED BY <1>4, <2>1, <2>2, <2>3, <2>4, <2>5 DEF Outside
<1>5. ASSUME NEW t \in Thread, ChangeCall(t) PROVE CallTypes'
  <2>1. CASE CheckState(t) BY <1>5, <2>1 DEF CheckState, Thread
  <2>2. CASE SetState(t) BY <1>5, <2>2 DEF SetState, Thread
  <2> QED BY <1>5, <2>1, <2>2 DEF ChangeCall
<1>6. ASSUME NEW t \in {"rx", "app"}, StopCall(t) PROVE CallTypes'
  <2>1. CASE Stop(t) BY <1>6, <2>1 DEF Stop, Thread
  <2>2. CASE StopAgain(t) BY <1>6, <2>2 DEF StopAgain, Thread
  <2>3. CASE IsRunning(t) BY <1>6, <2>3 DEF IsRunning, Thread
  <2>4. CASE SetEndPart(t) BY <1>6, <2>4 DEF SetEndPart, Thread
  <2>5. CASE SetStopTimeout(t) BY <1>6, <2>5 DEF SetStopTimeout, Thread
  <2>6. CASE WriteEnd(t) BY <1>6, <2>6 DEF WriteEnd, Thread
  <2>7. CASE StopTheStream(t) BY <1>6, <2>7 DEF StopTheStream, Thread
  <2> QED BY <1>6, <2>1, <2>2, <2>3, <2>4, <2>5, <2>6, <2>7 DEF StopCall
<1>7. CASE UNCHANGED vars BY <1>7 DEF vars
<1> QED BY <1>1, <1>2, <1>3, <1>4, <1>5, <1>6, <1>7 DEF Next

(* What the session uses of the stream keeps its type.                      *)
LEMMA StreamTypesStep ==
    ASSUME TypeOK, [Next]_vars
    PROVE  StreamTypes'
<1> USE DEF TypeOK, StreamTypes, Goto, CallStop, FastStop, Change, Done, WriteObj, StopStream, Handling, streamVars, callVars
<1>1. CASE Run BY <1>1 DEF Run
<1>2. CASE RunStep
  <2>1. CASE RunInit BY <2>1 DEF RunInit
  <2>2. CASE Connect BY <2>2 DEF Connect
  <2>3. CASE ConnectFailed BY <2>3 DEF ConnectFailed
  <2>4. CASE RunStream BY <2>4 DEF RunStream
  <2>5. CASE RunHeader 
    <3>1. out' \in Seq({"start", "end", "other"})
      BY <2>5, WriteObjType DEF RunHeader, StateTypes
    <3> QED BY <2>5, <3>1 DEF RunHeader, StateTypes
  <2>6. CASE StreamEnded 
    <3>1. out' \in Seq({"start", "end", "other"})
      <4>1. out' = <<>>
        BY <2>6 DEF StreamEnded
      <4> QED BY ONLY <4>1
    <3> QED BY <2>6, <3>1 DEF StreamEnded
  <2>7. CASE CancelStopTimeout BY <2>7 DEF CancelStopTimeout
  <2>8. CASE RunReturn BY <2>8 DEF RunReturn
  <2> QED BY <1>2, <2>1, <2>2, <2>3, <2>4, <2>5, <2>6, <2>7, <2>8 DEF RunStep
<1>3. CASE RxStep
  <2>1. CASE RxTake BY <2>1 DEF RxTake
  <2>2. CASE RxReturn 
    <3>1. rx_queue' \in Seq(Kind \cup {"timeout"})
      <4>1. rx_queue' = Tail(rx_queue) /\ rx_queue # <<>>
        BY <2>2 DEF RxReturn
      <4> QED BY <4>1
    <3> QED BY <2>2, <3>1 DEF RxReturn
  <2>3. CASE OnStream BY <2>3 DEF OnStream
  <2>4. CASE OnBound BY <2>4 DEF OnBound
  <2>5. CASE OnFeatures 
    <3>1. out' \in Seq({"start", "end", "other"})
      BY <2>5, WriteObjType DEF OnFeatures
    <3> QED BY <2>5, <3>1 DEF OnFeatures
  <2>6. CASE OnIq BY <2>6 DEF OnIq
  <2>7. CASE RequestBind BY <2>7 DEF RequestBind
  <2>8. CASE OnError BY <2>8 DEF OnError
  <2>9. CASE OnEnd BY <2>9 DEF OnEnd
  <2>10. CASE OnStopTimeout BY <2>10 DEF OnStopTimeout
  <2>11. CASE OnSuccess BY <2>11 DEF OnSuccess
  <2>12. CASE ResetStream 
    <3>1. out' \in Seq({"start", "end", "other"})
      <4>1. out' = <<>>
        BY <2>12 DEF ResetStream
      <4> QED BY ONLY <4>1
    <3> QED BY <2>12, <3>1 DEF ResetStream
  <2>13. CASE SetStartPart BY <2>13 DEF SetStartPart
  <2>14. CASE WriteHeader 
    <3>1. out' \in Seq({"start", "end", "other"})
      BY <2>14, WriteObjType DEF WriteHeader, StateTypes
    <3> QED BY <2>14, <3>1 DEF WriteHeader, StateTypes
  <2> QED BY <1>3, <2>1, <2>2, <2>3, <2>4, <2>5, <2>6, <2>7, <2>8, <2>9, <2>10, <2>11, <2>12, <2>13, <2>14 DEF RxStep
<1>4. CASE Outside
  <2>1. CASE AppStop BY <2>1 DEF AppStop
  <2>2. CASE Receive 
    <3>1. PICK kind \in PeerKinds : rx_queue' = Append(rx_queue, kind)
      BY <2>2 DEF Receive
    <3>2. kind \in Kind \cup {"timeout"}
      BY <3>1, SessionAssumption
    <3>3. rx_queue' \in Seq(Kind \cup {"timeout"})
      BY <3>1, <3>2
    <3> QED BY <2>2, <3>3 DEF Receive
  <2>3. CASE Disconnect BY <2>3 DEF Disconnect
  <2>4. CASE Transmit BY <2>4 DEF Transmit
  <2>5. CASE StopTimeout 
    <3>1. rx_queue' = Append(rx_queue, "timeout") \/ rx_queue' = rx_queue
      BY <2>5 DEF StopTimeout
    <3>2. rx_queue' \in Seq(Kind \cup {"timeout"})
      BY <3>1
    <3> QED BY <2>5, <3>2 DEF StopTimeout
  <2> QED BY <1>4, <2>1, <2>2, <2>3, <2>4, <2>5 DEF Outside
<1>5. ASSUME NEW t \in Thread, ChangeCall(t) PROVE StreamTypes'
  <2>1. CASE CheckState(t) BY <1>5, <2>1 DEF CheckState, Thread
  <2>2. CASE SetState(t) BY <1>5, <2>2 DEF SetState, Thread
  <2> QED BY <1>5, <2>1, <2>2 DEF ChangeCall
<1>6. ASSUME NEW t \in {"rx", "app"}, StopCall(t) PROVE StreamTypes'
  <2>1. CASE Stop(t) BY <1>6, <2>1 DEF Stop, Thread
  <2>2. CASE StopAgain(t) BY <1>6, <2>2 DEF StopAgain, Thread
  <2>3. CASE IsRunning(t) BY <1>6, <2>3 DEF IsRunning, Thread
  <2>4. CASE SetEndPart(t) BY <1>6, <2>4 DEF SetEndPart, Thread
  <2>5. CASE SetStopTimeout(t) BY <1>6, <2>5 DEF SetStopTimeout, Thread
  <2>6. CASE WriteEnd(t) 
    <3>1. out' \in Seq({"start", "end", "other"})
      BY <1>6, <2>6, WriteObjType DEF WriteEnd, StateTypes
    <3> QED BY <1>6, <2>6, <3>1 DEF WriteEnd, StateTypes
  <2>7. CASE StopTheStream(t) 
    <3>1. out' \in Seq({"start", "end", "other"})
      BY <1>6, <2>7, StopStreamType DEF StopTheStream
    <3> QED BY <1>6, <2>7, <3>1 DEF StopTheStream
  <2> QED BY <1>6, <2>1, <2>2, <2>3, <2>4, <2>5, <2>6, <2>7 DEF StopCall
<1>7. CASE UNCHANGED vars BY <1>7 DEF vars
<1> QED BY <1>1, <1>2, <1>3, <1>4, <1>5, <1>6, <1>7 DEF Next

(* The counters keep their types.                                           *)
LEMMA CountTypesStep ==
    ASSUME TypeOK, [Next]_vars
    PROVE  CountTypes'
<1> USE DEF TypeOK, CountTypes, Goto, CallStop, FastStop, Change, Done, WriteObj, StopStream, Handling, streamVars, callVars
<1>1. CASE Run BY <1>1 DEF Run
<1>2. CASE RunStep
  <2>1. CASE RunInit BY <2>1 DEF RunInit
  <2>2. CASE Connect BY <2>2 DEF Connect
  <2>3. CASE ConnectFailed BY <2>3 DEF ConnectFailed
  <2>4. CASE RunStream BY <2>4 DEF RunStream
  <2>5. CASE RunHeader BY <2>5 DEF RunHeader
  <2>6. CASE StreamEnded BY <2>6 DEF StreamEnded
  <2>7. CASE CancelStopTimeout BY <2>7 DEF CancelStopTimeout
  <2>8. CASE RunReturn BY <2>8 DEF RunReturn
  <2> QED BY <1>2, <2>1, <2>2, <2>3, <2>4, <2>5, <2>6, <2>7, <2>8 DEF RunStep
<1>3. CASE RxStep
  <2>1. CASE RxTake BY <2>1 DEF RxTake
  <2>2. CASE RxReturn BY <2>2 DEF RxReturn
  <2>3. CASE OnStream BY <2>3 DEF OnStream
  <2>4. CASE OnBound BY <2>4 DEF OnBound
  <2>5. CASE OnFeatures BY <2>5 DEF OnFeatures
  <2>6. CASE OnIq BY <2>6 DEF OnIq
  <2>7. CASE RequestBind BY <2>7 DEF RequestBind
  <2>8. CASE OnError BY <2>8 DEF OnError
  <2>9. CASE OnEnd BY <2>9 DEF OnEnd
  <2>10. CASE OnStopTimeout BY <2>10 DEF OnStopTimeout
  <2>11. CASE OnSuccess BY <2>11 DEF OnSuccess
  <2>12. CASE ResetStream BY <2>12 DEF ResetStream
  <2>13. CASE SetStartPart BY <2>13 DEF SetStartPart
  <2>14. CASE WriteHeader BY <2>14 DEF WriteHeader
  <2> QED BY <1>3, <2>1, <2>2, <2>3, <2>4, <2>5, <2>6, <2>7, <2>8, <2>9, <2>10, <2>11, <2>12, <2>13, <2>14 DEF RxStep
<1>4. CASE Outside
  <2>1. CASE AppStop BY <2>1 DEF AppStop
  <2>2. CASE Receive BY <2>2 DEF Receive
  <2>3. CASE Disconnect BY <2>3 DEF Disconnect
  <2>4. CASE Transmit BY <2>4 DEF Transmit
  <2>5. CASE StopTimeout BY <2>5 DEF StopTimeout
  <2> QED BY <1>4, <2>1, <2>2, <2>3, <2>4, <2>5 DEF Outside
<1>5. ASSUME NEW t \in Thread, ChangeCall(t) PROVE CountTypes'
  <2>1. CASE CheckState(t) BY <1>5, <2>1 DEF CheckState, Thread
  <2>2. CASE SetState(t) BY <1>5, <2>2 DEF SetState, Thread
  <2> QED BY <1>5, <2>1, <2>2 DEF ChangeCall
<1>6. ASSUME NEW t \in {"rx", "app"}, StopCall(t) PROVE CountTypes'
  <2>1. CASE Stop(t) BY <1>6, <2>1 DEF Stop, Thread
  <2>2. CASE StopAgain(t) BY <1>6, <2>2 DEF StopAgain, Thread
  <2>3. CASE IsRunning(t) BY <1>6, <2>3 DEF IsRunning, Thread
  <2>4. CASE SetEndPart(t) BY <1>6, <2>4 DEF SetEndPart, Thread
  <2>5. CASE SetStopTimeout(t) BY <1>6, <2>5 DEF SetStopTimeout, Thread
  <2>6. CASE WriteEnd(t) BY <1>6, <2>6 DEF WriteEnd, Thread
  <2>7. CASE StopTheStream(t) BY <1>6, <2>7 DEF StopTheStream, Thread
  <2> QED BY <1>6, <2>1, <2>2, <2>3, <2>4, <2>5, <2>6, <2>7 DEF StopCall
<1>7. CASE UNCHANGED vars BY <1>7 DEF vars
<1> QED BY <1>1, <1>2, <1>3, <1>4, <1>5, <1>6, <1>7 DEF Next

(* A new Session is well typed.                                             *)
LEMMA InitTypes == Init => TypeOK
<1> SUFFICES ASSUME Init PROVE TypeOK
  OBVIOUS
<1>1. StateTypes
  BY DEF Init, StateTypes, State
<1>2. CallTypes
  BY DEF Init, CallTypes, Thread, Pc, State
<1>3. StreamTypes
  <2>1. rx_queue = <<>> /\ out = <<>>
    BY DEF Init
  <2>2. rx_queue \in Seq(Kind \cup {"timeout"}) /\ out \in Seq({"start", "end", "other"})
    BY ONLY <2>1
  <2> QED BY <2>2 DEF Init, StreamTypes
<1>4. CountTypes
  BY DEF Init, CountTypes
<1> QED BY <1>1, <1>2, <1>3, <1>4 DEF TypeOK

(* Every step keeps the types.                                              *)
LEMMA TypesStep == TypeOK /\ [Next]_vars => TypeOK'
BY StateTypesStep, CallTypesStep, StreamTypesStep, CountTypesStep DEF TypeOK

(* Every variable of a session keeps its type, in every interleaving of its  *)
(* threads.                                                                  *)
THEOREM TypeCorrect == Spec => []TypeOK
BY InitTypes, TypesStep, PTL DEF Spec

-----------------------------------------------------------------------------
(* A session is connected only while run() has its stream                   *)

(* No step gives change_state another argument than its thread uses.        *)
LEMMA ArgumentsStep ==
    ASSUME TypeOK, Arguments, [Next]_vars
    PROVE  Arguments'
<1> USE DEF TypeOK, CallTypes, Arguments, Thread, Goto, CallStop, FastStop, Change, Done, Handling, streamVars, callVars
<1>1. CASE Run BY <1>1 DEF Run
<1>2. CASE RunStep
  <2>1. CASE RunInit BY <2>1 DEF RunInit
  <2>2. CASE Connect BY <2>2 DEF Connect
  <2>3. CASE ConnectFailed BY <2>3 DEF ConnectFailed
  <2>4. CASE RunStream BY <2>4 DEF RunStream
  <2>5. CASE RunHeader BY <2>5 DEF RunHeader
  <2>6. CASE StreamEnded BY <2>6 DEF StreamEnded
  <2>7. CASE CancelStopTimeout BY <2>7 DEF CancelStopTimeout
  <2>8. CASE RunReturn BY <2>8 DEF RunReturn
  <2> QED BY <1>2, <2>1, <2>2, <2>3, <2>4, <2>5, <2>6, <2>7, <2>8 DEF RunStep
<1>3. CASE RxStep
  <2>1. CASE RxTake BY <2>1 DEF RxTake
  <2>2. CASE RxReturn BY <2>2 DEF RxReturn
  <2>3. CASE OnStream BY <2>3 DEF OnStream
  <2>4. CASE OnBound BY <2>4 DEF OnBound
  <2>5. CASE OnFeatures BY <2>5 DEF OnFeatures
  <2>6. CASE OnIq BY <2>6 DEF OnIq
  <2>7. CASE RequestBind BY <2>7 DEF RequestBind
  <2>8. CASE OnError BY <2>8 DEF OnError
  <2>9. CASE OnEnd BY <2>9 DEF OnEnd
  <2>10. CASE OnStopTimeout BY <2>10 DEF OnStopTimeout
  <2>11. CASE OnSuccess BY <2>11 DEF OnSuccess
  <2>12. CASE ResetStream BY <2>12 DEF ResetStream
  <2>13. CASE SetStartPart BY <2>13 DEF SetStartPart
  <2>14. CASE WriteHeader BY <2>14 DEF WriteHeader
  <2> QED BY <1>3, <2>1, <2>2, <2>3, <2>4, <2>5, <2>6, <2>7, <2>8, <2>9, <2>10, <2>11, <2>12, <2>13, <2>14 DEF RxStep
<1>4. CASE Outside
  <2>1. CASE AppStop BY <2>1 DEF AppStop
  <2>2. CASE Receive BY <2>2 DEF Receive
  <2>3. CASE Disconnect BY <2>3 DEF Disconnect
  <2>4. CASE Transmit BY <2>4 DEF Transmit
  <2>5. CASE StopTimeout BY <2>5 DEF StopTimeout
  <2> QED BY <1>4, <2>1, <2>2, <2>3, <2>4, <2>5 DEF Outside
<1>5. ASSUME NEW t \in Thread, ChangeCall(t) PROVE Arguments'
  <2>1. CASE CheckState(t) BY <1>5, <2>1 DEF CheckState, Thread
  <2>2. CASE SetState(t) BY <1>5, <2>2 DEF SetState, Thread
  <2> QED BY <1>5, <2>1, <2>2 DEF ChangeCall
<1>6. ASSUME NEW t \in {"rx", "app"}, StopCall(t) PROVE Arguments'
  <2>1. CASE Stop(t) BY <1>6, <2>1 DEF Stop, Thread
  <2>2. CASE StopAgain(t) BY <1>6, <2>2 DEF StopAgain, Thread
  <2>3. CASE IsRunning(t) BY <1>6, <2>3 DEF IsRunning, Thread
  <2>4. CASE SetEndPart(t) BY <1>6, <2>4 DEF SetEndPart, Thread
  <2>5. CASE SetStopTimeout(t) BY <1>6, <2>5 DEF SetStopTimeout, Thread
  <2>6. CASE WriteEnd(t) BY <1>6, <2>6 DEF WriteEnd, Thread
  <2>7. CASE StopTheStream(t) BY <1>6, <2>7 DEF StopTheStream, Thread
  <2> QED BY <1>6, <2>1, <2>2, <2>3, <2>4, <2>5, <2>6, <2>7 DEF StopCall
<1>7. CASE UNCHANGED vars BY <1>7 DEF vars
<1> QED BY <1>1, <1>2, <1>3, <1>4, <1>5, <1>6, <1>7 DEF Next

(* No step leaves the session connected without its stream.                 *)
LEMMA ConnectedStep ==
    ASSUME IConnected, [Next]_vars
    PROVE  ConnectedStates'
<1> USE DEF IConnected, TypeOK, CallTypes, StateTypes, Arguments, ConnectedStates, Thread, State, Goto, CallStop, FastStop, Change, Done, Handling, WriteObj, StopStream, streamVars, callVars
<1>1. CASE Run BY <1>1 DEF Run
<1>2. CASE RunStep
  <2>1. CASE RunInit BY <2>1 DEF RunInit
  <2>2. CASE Connect BY <2>2 DEF Connect
  <2>3. CASE ConnectFailed BY <2>3 DEF ConnectFailed
  <2>4. CASE RunStream BY <2>4 DEF RunStream
  <2>5. CASE RunHeader BY <2>5 DEF RunHeader
  <2>6. CASE StreamEnded BY <2>6 DEF StreamEnded
  <2>7. CASE CancelStopTimeout BY <2>7 DEF CancelStopTimeout
  <2>8. CASE RunReturn BY <2>8 DEF RunReturn
  <2> QED BY <1>2, <2>1, <2>2, <2>3, <2>4, <2>5, <2>6, <2>7, <2>8 DEF RunStep
<1>3. CASE RxStep
  <2>1. CASE RxTake BY <2>1 DEF RxTake
  <2>2. CASE RxReturn BY <2>2 DEF RxReturn
  <2>3. CASE OnStream BY <2>3 DEF OnStream
  <2>4. CASE OnBound BY <2>4 DEF OnBound
  <2>5. CASE OnFeatures BY <2>5 DEF OnFeatures
  <2>6. CASE OnIq BY <2>6 DEF OnIq
  <2>7. CASE RequestBind BY <2>7 DEF RequestBind
  <2>8. CASE OnError BY <2>8 DEF OnError
  <2>9. CASE OnEnd BY <2>9 DEF OnEnd
  <2>10. CASE OnStopTimeout BY <2>10 DEF OnStopTimeout
  <2>11. CASE OnSuccess BY <2>11 DEF OnSuccess
  <2>12. CASE ResetStream BY <2>12 DEF ResetStream
  <2>13. CASE SetStartPart BY <2>13 DEF SetStartPart
  <2>14. CASE WriteHeader BY <2>14 DEF WriteHeader
  <2> QED BY <1>3, <2>1, <2>2, <2>3, <2>4, <2>5, <2>6, <2>7, <2>8, <2>9, <2>10, <2>11, <2>12, <2>13, <2>14 DEF RxStep
<1>4. CASE Outside
  <2>1. CASE AppStop BY <2>1 DEF AppStop
  <2>2. CASE Receive BY <2>2 DEF Receive
  <2>3. CASE Disconnect BY <2>3 DEF Disconnect
  <2>4. CASE Transmit BY <2>4 DEF Transmit
  <2>5. CASE StopTimeout BY <2>5 DEF StopTimeout
  <2> QED BY <1>4, <2>1, <2>2, <2>3, <2>4, <2>5 DEF Outside
<1>5. ASSUME NEW t \in Thread, ChangeCall(t) PROVE ConnectedStates'
  <2>1. CASE CheckState(t)
    <3>1. CASE t = "run"
      <4>1. state \in {"negotiating", "bound"} => Accepted(state, new["run"])
        BY <2>1, <3>1 DEF CheckState, Accepted
      <4> QED BY <2>1, <3>1, <4>1 DEF CheckState
    <3>2. CASE t # "run"
      BY <1>5, <2>1, <3>2 DEF CheckState
    <3> QED BY <3>1, <3>2
  <2>2. CASE SetState(t) BY <1>5, <2>2 DEF SetState, Thread
  <2> QED BY <1>5, <2>1, <2>2 DEF ChangeCall
<1>6. ASSUME NEW t \in {"rx", "app"}, StopCall(t) PROVE ConnectedStates'
  <2>1. CASE Stop(t) BY <1>6, <2>1 DEF Stop, Thread
  <2>2. CASE StopAgain(t) BY <1>6, <2>2 DEF StopAgain, Thread
  <2>3. CASE IsRunning(t) BY <1>6, <2>3 DEF IsRunning, Thread
  <2>4. CASE SetEndPart(t) BY <1>6, <2>4 DEF SetEndPart, Thread
  <2>5. CASE SetStopTimeout(t) BY <1>6, <2>5 DEF SetStopTimeout, Thread
  <2>6. CASE WriteEnd(t) BY <1>6, <2>6 DEF WriteEnd, Thread
  <2>7. CASE StopTheStream(t) BY <1>6, <2>7 DEF StopTheStream, Thread
  <2> QED BY <1>6, <2>1, <2>2, <2>3, <2>4, <2>5, <2>6, <2>7 DEF StopCall
<1>7. CASE UNCHANGED vars BY <1>7 DEF vars
<1> QED BY <1>1, <1>2, <1>3, <1>4, <1>5, <1>6, <1>7 DEF Next

(* A new session is closed and every thread is idle.                        *)
LEMMA InitConnected == Init => Arguments /\ ConnectedStates
BY DEF Init, Arguments, ConnectedStates, Thread

(* The invariant is inductive.                                              *)
LEMMA IConnectedStep == IConnected /\ [Next]_vars => IConnected'
BY TypesStep, ArgumentsStep, ConnectedStep DEF IConnected

(* The invariant holds in every reachable state.                            *)
LEMMA IConnectedInvariant == Spec => []IConnected
<1>1. Init => IConnected
  BY InitTypes, InitConnected DEF IConnected
<1> QED BY <1>1, IConnectedStep, PTL DEF Spec

(* Whatever the application and the peer do, no module executes and no stream *)
(* is open outside the run() that started them, and the session never claims  *)
(* to be negotiating or bound while it has no stream.                         *)
THEOREM ConnectedCorrect == Spec => []ConnectedStates
<1>1. IConnected => ConnectedStates
  BY DEF IConnected
<1> QED BY <1>1, IConnectedInvariant, PTL

-----------------------------------------------------------------------------
(* A session that only its run() and its modules close. The application's    *)
(* stop() races change_state and breaks both properties: the runs            *)
(* SessionAfter and SessionRace show how.                                    *)

(* The application calls nothing; a thread that has checked a state finds it  *)
(* when it assigns the next one, since the modules execute only while run()   *)
(* waits for the stream; run() makes no call of stop(); and before and after  *)
(* its stream the session is closed and no timeout is armed.                 *)
Alone ==
    /\ at["app"] = "idle"
    /\ nested["run"] = 0

CheckedHolds == \A t \in Thread : at[t] = "set" => Accepted(state, new[t])

Before == \/ at["run"] = "idle"
          \/ at["run"] \in {"chg", "set"} /\ new["run"] = "connecting"

ClosedOutside ==
    /\ Before \/ at["run"] \in {"cancel", "close"} => state = "closed"
    /\ Before \/ at["run"] = "close" => ~stop_timer

IAlone == IConnected /\ Alone /\ CheckedHolds /\ ClosedOutside

(* The application stays idle, and run() is never in stop().                  *)
LEMMA AloneStep ==
    ASSUME StopWhen = {}, IConnected, Alone, [Next]_vars
    PROVE  Alone'
<1> USE DEF Alone, IConnected, TypeOK, StateTypes, CallTypes, StreamTypes, Arguments, ConnectedStates, Thread, Goto, CallStop, FastStop, Change, Done, Handling, WriteObj, StopStream, streamVars, callVars
<1>1. CASE Run BY <1>1 DEF Run
<1>2. CASE RunStep
  <2>1. CASE RunInit BY <1>2, <2>1 DEF RunInit
  <2>2. CASE Connect BY <1>2, <2>2 DEF Connect
  <2>3. CASE ConnectFailed BY <1>2, <2>3 DEF ConnectFailed
  <2>4. CASE RunStream BY <1>2, <2>4 DEF RunStream
  <2>5. CASE RunHeader BY <1>2, <2>5 DEF RunHeader
  <2>6. CASE StreamEnded BY <1>2, <2>6 DEF StreamEnded
  <2>7. CASE CancelStopTimeout BY <1>2, <2>7 DEF CancelStopTimeout
  <2>8. CASE RunReturn BY <1>2, <2>8 DEF RunReturn
  <2> QED BY <1>2, <2>1, <2>2, <2>3, <2>4, <2>5, <2>6, <2>7, <2>8 DEF RunStep
<1>3. CASE RxStep
  <2>1. CASE RxTake BY <1>3, <2>1 DEF RxTake
  <2>2. CASE RxReturn BY <1>3, <2>2 DEF RxReturn
  <2>3. CASE OnStream BY <1>3, <2>3 DEF OnStream
  <2>4. CASE OnBound BY <1>3, <2>4 DEF OnBound
  <2>5. CASE OnFeatures BY <1>3, <2>5 DEF OnFeatures
  <2>6. CASE OnIq BY <1>3, <2>6 DEF OnIq
  <2>7. CASE RequestBind BY <1>3, <2>7 DEF RequestBind
  <2>8. CASE OnError BY <1>3, <2>8 DEF OnError
  <2>9. CASE OnEnd BY <1>3, <2>9 DEF OnEnd
  <2>10. CASE OnStopTimeout BY <1>3, <2>10 DEF OnStopTimeout
  <2>11. CASE OnSuccess BY <1>3, <2>11 DEF OnSuccess
  <2>12. CASE ResetStream BY <1>3, <2>12 DEF ResetStream
  <2>13. CASE SetStartPart BY <1>3, <2>13 DEF SetStartPart
  <2>14. CASE WriteHeader BY <1>3, <2>14 DEF WriteHeader
  <2> QED BY <1>3, <2>1, <2>2, <2>3, <2>4, <2>5, <2>6, <2>7, <2>8, <2>9, <2>10, <2>11, <2>12, <2>13, <2>14 DEF RxStep
<1>4. CASE Outside
  <2>1. CASE AppStop BY <1>4, <2>1 DEF AppStop
  <2>2. CASE Receive BY <1>4, <2>2 DEF Receive
  <2>3. CASE Disconnect BY <1>4, <2>3 DEF Disconnect
  <2>4. CASE Transmit BY <1>4, <2>4 DEF Transmit
  <2>5. CASE StopTimeout BY <1>4, <2>5 DEF StopTimeout
  <2> QED BY <1>4, <2>1, <2>2, <2>3, <2>4, <2>5 DEF Outside
<1>5. ASSUME NEW t \in Thread, ChangeCall(t) PROVE Alone'
  <2>1. CASE CheckState(t) BY <1>5, <2>1 DEF CheckState
  <2>2. CASE SetState(t) BY <1>5, <2>2 DEF SetState
  <2> QED BY <1>5, <2>1, <2>2 DEF ChangeCall
<1>6. ASSUME NEW t \in {"rx", "app"}, StopCall(t) PROVE Alone'
  <2>1. CASE Stop(t) BY <1>6, <2>1 DEF Stop
  <2>2. CASE StopAgain(t) BY <1>6, <2>2 DEF StopAgain
  <2>3. CASE IsRunning(t) BY <1>6, <2>3 DEF IsRunning
  <2>4. CASE SetEndPart(t) BY <1>6, <2>4 DEF SetEndPart
  <2>5. CASE SetStopTimeout(t) BY <1>6, <2>5 DEF SetStopTimeout
  <2>6. CASE WriteEnd(t) BY <1>6, <2>6 DEF WriteEnd
  <2>7. CASE StopTheStream(t) BY <1>6, <2>7 DEF StopTheStream
  <2> QED BY <1>6, <2>1, <2>2, <2>3, <2>4, <2>5, <2>6, <2>7 DEF StopCall
<1>7. CASE UNCHANGED vars BY <1>7 DEF vars
<1> QED BY <1>1, <1>2, <1>3, <1>4, <1>5, <1>6, <1>7 DEF Next

(* A closed session may always be closed, and is what run() connects.         *)
LEMMA AcceptedStates ==
    /\ \A s \in State : Accepted(s, "closed")
    /\ Accepted("closed", "connecting")
BY DEF Accepted, State

(* No thread changes the state between another's check and assignment.        *)
LEMMA CheckedStep ==
    ASSUME StopWhen = {}, IConnected, Alone, CheckedHolds, [Next]_vars
    PROVE  CheckedHolds'
<1> USE DEF Alone, CheckedHolds, IConnected, TypeOK, StateTypes, CallTypes, StreamTypes, Arguments, ConnectedStates, Thread, Goto, CallStop, FastStop, Change, Done, Handling, WriteObj, StopStream, streamVars, callVars
<1>1. CASE Run BY <1>1 DEF Run
<1>2. CASE RunStep
  <2>1. CASE RunInit BY <1>2, <2>1 DEF RunInit
  <2>2. CASE Connect BY <1>2, <2>2 DEF Connect
  <2>3. CASE ConnectFailed BY <1>2, <2>3 DEF ConnectFailed
  <2>4. CASE RunStream BY <1>2, <2>4 DEF RunStream
  <2>5. CASE RunHeader BY <1>2, <2>5 DEF RunHeader
  <2>6. CASE StreamEnded BY <1>2, <2>6 DEF StreamEnded
  <2>7. CASE CancelStopTimeout BY <1>2, <2>7 DEF CancelStopTimeout
  <2>8. CASE RunReturn BY <1>2, <2>8 DEF RunReturn
  <2> QED BY <1>2, <2>1, <2>2, <2>3, <2>4, <2>5, <2>6, <2>7, <2>8 DEF RunStep
<1>3. CASE RxStep
  <2>1. CASE RxTake BY <1>3, <2>1 DEF RxTake
  <2>2. CASE RxReturn BY <1>3, <2>2 DEF RxReturn
  <2>3. CASE OnStream BY <1>3, <2>3 DEF OnStream
  <2>4. CASE OnBound BY <1>3, <2>4 DEF OnBound
  <2>5. CASE OnFeatures BY <1>3, <2>5 DEF OnFeatures
  <2>6. CASE OnIq BY <1>3, <2>6 DEF OnIq
  <2>7. CASE RequestBind BY <1>3, <2>7 DEF RequestBind
  <2>8. CASE OnError BY <1>3, <2>8 DEF OnError
  <2>9. CASE OnEnd BY <1>3, <2>9 DEF OnEnd
  <2>10. CASE OnStopTimeout BY <1>3, <2>10 DEF OnStopTimeout
  <2>11. CASE OnSuccess BY <1>3, <2>11 DEF OnSuccess
  <2>12. CASE ResetStream BY <1>3, <2>12 DEF ResetStream
  <2>13. CASE SetStartPart BY <1>3, <2>13 DEF SetStartPart
  <2>14. CASE WriteHeader BY <1>3, <2>14 DEF WriteHeader
  <2> QED BY <1>3, <2>1, <2>2, <2>3, <2>4, <2>5, <2>6, <2>7, <2>8, <2>9, <2>10, <2>11, <2>12, <2>13, <2>14 DEF RxStep
<1>4. CASE Outside
  <2>1. CASE AppStop BY <1>4, <2>1 DEF AppStop
  <2>2. CASE Receive BY <1>4, <2>2 DEF Receive
  <2>3. CASE Disconnect BY <1>4, <2>3 DEF Disconnect
  <2>4. CASE Transmit BY <1>4, <2>4 DEF Transmit
  <2>5. CASE StopTimeout BY <1>4, <2>5 DEF StopTimeout
  <2> QED BY <1>4, <2>1, <2>2, <2>3, <2>4, <2>5 DEF Outside
<1>5. ASSUME NEW t \in Thread, ChangeCall(t) PROVE CheckedHolds'
  <2>1. CASE CheckState(t) BY <1>5, <2>1 DEF CheckState
  <2>2. CASE SetState(t) BY <1>5, <2>2 DEF SetState
  <2> QED BY <1>5, <2>1, <2>2 DEF ChangeCall
<1>6. ASSUME NEW t \in {"rx", "app"}, StopCall(t) PROVE CheckedHolds'
  <2>1. CASE Stop(t) BY <1>6, <2>1 DEF Stop
  <2>2. CASE StopAgain(t) BY <1>6, <2>2 DEF StopAgain
  <2>3. CASE IsRunning(t) BY <1>6, <2>3 DEF IsRunning
  <2>4. CASE SetEndPart(t) BY <1>6, <2>4 DEF SetEndPart
  <2>5. CASE SetStopTimeout(t) BY <1>6, <2>5 DEF SetStopTimeout
  <2>6. CASE WriteEnd(t) BY <1>6, <2>6 DEF WriteEnd
  <2>7. CASE StopTheStream(t) BY <1>6, <2>7 DEF StopTheStream
  <2> QED BY <1>6, <2>1, <2>2, <2>3, <2>4, <2>5, <2>6, <2>7 DEF StopCall
<1>7. CASE UNCHANGED vars BY <1>7 DEF vars
<1> QED BY <1>1, <1>2, <1>3, <1>4, <1>5, <1>6, <1>7 DEF Next

(* Only run() opens the session, and it closes it before it returns.          *)
LEMMA ClosedStep ==
    ASSUME StopWhen = {}, IConnected, Alone, ClosedOutside, [Next]_vars
    PROVE  ClosedOutside'
<1> USE DEF Alone, ClosedOutside, Before, IConnected, TypeOK, StateTypes, CallTypes, StreamTypes, Arguments, ConnectedStates, Thread, Goto, CallStop, FastStop, Change, Done, Handling, WriteObj, StopStream, streamVars, callVars
<1>1. CASE Run BY <1>1 DEF Run
<1>2. CASE RunStep
  <2>1. CASE RunInit BY <1>2, <2>1 DEF RunInit
  <2>2. CASE Connect BY <1>2, <2>2 DEF Connect
  <2>3. CASE ConnectFailed BY <1>2, <2>3 DEF ConnectFailed
  <2>4. CASE RunStream BY <1>2, <2>4 DEF RunStream
  <2>5. CASE RunHeader BY <1>2, <2>5 DEF RunHeader
  <2>6. CASE StreamEnded BY <1>2, <2>6 DEF StreamEnded
  <2>7. CASE CancelStopTimeout BY <1>2, <2>7 DEF CancelStopTimeout
  <2>8. CASE RunReturn BY <1>2, <2>8 DEF RunReturn
  <2> QED BY <1>2, <2>1, <2>2, <2>3, <2>4, <2>5, <2>6, <2>7, <2>8 DEF RunStep
<1>3. CASE RxStep
  <2>1. CASE RxTake BY <1>3, <2>1 DEF RxTake
  <2>2. CASE RxReturn BY <1>3, <2>2 DEF RxReturn
  <2>3. CASE OnStream BY <1>3, <2>3 DEF OnStream
  <2>4. CASE OnBound BY <1>3, <2>4 DEF OnBound
  <2>5. CASE OnFeatures BY <1>3, <2>5 DEF OnFeatures
  <2>6. CASE OnIq BY <1>3, <2>6 DEF OnIq
  <2>7. CASE RequestBind BY <1>3, <2>7 DEF RequestBind
  <2>8. CASE OnError BY <1>3, <2>8 DEF OnError
  <2>9. CASE OnEnd BY <1>3, <2>9 DEF OnEnd
  <2>10. CASE OnStopTimeout BY <1>3, <2>10 DEF OnStopTimeout
  <2>11. CASE OnSuccess BY <1>3, <2>11 DEF OnSuccess
  <2>12. CASE ResetStream BY <1>3, <2>12 DEF ResetStream
  <2>13. CASE SetStartPart BY <1>3, <2>13 DEF SetStartPart
  <2>14. CASE WriteHeader BY <1>3, <2>14 DEF WriteHeader
  <2> QED BY <1>3, <2>1, <2>2, <2>3, <2>4, <2>5, <2>6, <2>7, <2>8, <2>9, <2>10, <2>11, <2>12, <2>13, <2>14 DEF RxStep
<1>4. CASE Outside
  <2>1. CASE AppStop BY <1>4, <2>1 DEF AppStop
  <2>2. CASE Receive BY <1>4, <2>2 DEF Receive
  <2>3. CASE Disconnect BY <1>4, <2>3 DEF Disconnect
  <2>4. CASE Transmit BY <1>4, <2>4 DEF Transmit
  <2>5. CASE StopTimeout BY <1>4, <2>5 DEF StopTimeout
  <2> QED BY <1>4, <2>1, <2>2, <2>3, <2>4, <2>5 DEF Outside
<1>5. ASSUME NEW t \in Thread, ChangeCall(t) PROVE ClosedOutside'
  <2>1. CASE CheckState(t)
    <3>1. CASE t = "run"
      <4>1. new["run"] = "closed" => Accepted(state, new["run"])
        BY AcceptedStates
      <4>2. at["run"] = "chg" /\ new["run"] = "connecting" => Accepted(state, new["run"])
        BY AcceptedStates
      <4>3. at["run"] = "chg" /\ Accepted(state, new["run"])
        BY <2>1, <3>1, <4>1, <4>2 DEF CheckState
      <4> QED BY <2>1, <3>1, <4>3 DEF CheckState
    <3>2. CASE t # "run" BY <1>5, <2>1, <3>2 DEF CheckState
    <3> QED BY <3>1, <3>2
  <2>2. CASE SetState(t) BY <1>5, <2>2 DEF SetState
  <2> QED BY <1>5, <2>1, <2>2 DEF ChangeCall
<1>6. ASSUME NEW t \in {"rx", "app"}, StopCall(t) PROVE ClosedOutside'
  <2>1. CASE Stop(t) BY <1>6, <2>1 DEF Stop
  <2>2. CASE StopAgain(t) BY <1>6, <2>2 DEF StopAgain
  <2>3. CASE IsRunning(t) BY <1>6, <2>3 DEF IsRunning
  <2>4. CASE SetEndPart(t) BY <1>6, <2>4 DEF SetEndPart
  <2>5. CASE SetStopTimeout(t) BY <1>6, <2>5 DEF SetStopTimeout
  <2>6. CASE WriteEnd(t) BY <1>6, <2>6 DEF WriteEnd
  <2>7. CASE StopTheStream(t) BY <1>6, <2>7 DEF StopTheStream
  <2> QED BY <1>6, <2>1, <2>2, <2>3, <2>4, <2>5, <2>6, <2>7 DEF StopCall
<1>7. CASE UNCHANGED vars BY <1>7 DEF vars
<1> QED BY <1>1, <1>2, <1>3, <1>4, <1>5, <1>6, <1>7 DEF Next

(* The invariant holds in every reachable state.                              *)
LEMMA IAloneInvariant == ASSUME StopWhen = {} PROVE Spec => []IAlone
<1>1. Init => IAlone
  BY InitTypes, InitConnected DEF IAlone, IConnected, Init, Alone, CheckedHolds, ClosedOutside, Before, Thread
<1>2. IAlone /\ [Next]_vars => IAlone'
  BY IConnectedStep, AloneStep, CheckedStep, ClosedStep DEF IAlone
<1> QED BY <1>1, <1>2, PTL DEF Spec

(* If only run() and the modules close the session, run() returns with the    *)
(* session closed and no "stop_session" timeout armed, whatever the peer      *)
(* sends and however often run() is called.                                   *)
THEOREM ReturnsClosed ==
    ASSUME StopWhen = {}
    PROVE  Spec => []ClosedAfterRun
<1>1. IAlone => ClosedAfterRun
  BY DEF IAlone, ClosedOutside, Before, ClosedAfterRun
<1> QED BY <1>1, IAloneInvariant, PTL

(* If only run() and the modules close the session, a state follows another   *)
(* as valid_session_state_matrix allows: the lock that change_state lacks is   *)
(* not missed.                                                               *)
THEOREM MatrixCorrect ==
    ASSUME StopWhen = {}
    PROVE  Spec => MatrixKept
<1>1. ASSUME IAlone, Next, state' # state PROVE Accepted(state, state')
  <2> USE DEF IAlone, CheckedHolds, Thread, Goto, Change, Handling, streamVars, callVars
  <2>1. CASE Run BY <1>1, <2>1 DEF Run
  <2>2. CASE RunStep
    <3>1. CASE RunInit BY <1>1, <2>2, <3>1 DEF RunInit
    <3>2. CASE Connect BY <1>1, <2>2, <3>2 DEF Connect
    <3>3. CASE ConnectFailed BY <1>1, <2>2, <3>3 DEF ConnectFailed
    <3>4. CASE RunStream BY <1>1, <2>2, <3>4 DEF RunStream
    <3>5. CASE RunHeader BY <1>1, <2>2, <3>5 DEF RunHeader
    <3>6. CASE StreamEnded BY <1>1, <2>2, <3>6 DEF StreamEnded
    <3>7. CASE CancelStopTimeout BY <1>1, <2>2, <3>7 DEF CancelStopTimeout
    <3>8. CASE RunReturn BY <1>1, <2>2, <3>8 DEF RunReturn
    <3> QED BY <1>1, <2>2, <3>1, <3>2, <3>3, <3>4, <3>5, <3>6, <3>7, <3>8 DEF RunStep
  <2>3. CASE RxStep
    <3>1. CASE RxTake BY <1>1, <2>3, <3>1 DEF RxTake
    <3>2. CASE RxReturn BY <1>1, <2>3, <3>2 DEF RxReturn
    <3>3. CASE OnStream BY <1>1, <2>3, <3>3 DEF OnStream
    <3>4. CASE OnBound BY <1>1, <2>3, <3>4 DEF OnBound
    <3>5. CASE OnFeatures BY <1>1, <2>3, <3>5 DEF OnFeatures
    <3>6. CASE OnIq BY <1>1, <2>3, <3>6 DEF OnIq
    <3>7. CASE RequestBind BY <1>1, <2>3, <3>7 DEF RequestBind
    <3>8. CASE OnError BY <1>1, <2>3, <3>8 DEF OnError
    <3>9. CASE OnEnd BY <1>1, <2>3, <3>9 DEF OnEnd
    <3>10. CASE OnStopTimeout BY <1>1, <2>3, <3>10 DEF OnStopTimeout
    <3>11. CASE OnSuccess BY <1>1, <2>3, <3>11 DEF OnSuccess
    <3>12. CASE ResetStream BY <1>1, <2>3, <3>12 DEF ResetStream
    <3>13. CASE SetStartPart BY <1>1, <2>3, <3>13 DEF SetStartPart
    <3>14. CASE WriteHeader BY <1>1, <2>3, <3>14 DEF WriteHeader
    <3> QED BY <1>1, <2>3, <3>1, <3>2, <3>3, <3>4, <3>5, <3>6, <3>7, <3>8, <3>9, <3>10, <3>11, <3>12, <3>13, <3>14 DEF RxStep
  <2>4. CASE Outside
    <3>1. CASE AppStop BY <1>1, <2>4, <3>1 DEF AppStop
    <3>2. CASE Receive BY <1>1, <2>4, <3>2 DEF Receive
    <3>3. CASE Disconnect BY <1>1, <2>4, <3>3 DEF Disconnect
    <3>4. CASE Transmit BY <1>1, <2>4, <3>4 DEF Transmit
    <3>5. CASE StopTimeout BY <1>1, <2>4, <3>5 DEF StopTimeout
    <3> QED BY <1>1, <2>4, <3>1, <3>2, <3>3, <3>4, <3>5 DEF Outside
  <2>5. ASSUME NEW t \in Thread, ChangeCall(t) PROVE Accepted(state, state')
    <3>1. CASE CheckState(t) BY <1>1, <2>5, <3>1 DEF CheckState
    <3>2. CASE SetState(t) BY <1>1, <2>5, <3>2 DEF SetState
    <3> QED BY <1>1, <2>5, <3>1, <3>2 DEF ChangeCall
  <2>6. ASSUME NEW t \in {"rx", "app"}, StopCall(t) PROVE Accepted(state, state')
    <3>1. CASE Stop(t) BY <1>1, <2>6, <3>1 DEF Stop
    <3>2. CASE StopAgain(t) BY <1>1, <2>6, <3>2 DEF StopAgain
    <3>3. CASE IsRunning(t) BY <1>1, <2>6, <3>3 DEF IsRunning
    <3>4. CASE SetEndPart(t) BY <1>1, <2>6, <3>4 DEF SetEndPart
    <3>5. CASE SetStopTimeout(t) BY <1>1, <2>6, <3>5 DEF SetStopTimeout
    <3>6. CASE WriteEnd(t) BY <1>1, <2>6, <3>6 DEF WriteEnd
    <3>7. CASE StopTheStream(t) BY <1>1, <2>6, <3>7 DEF StopTheStream
    <3> QED BY <1>1, <2>6, <3>1, <3>2, <3>3, <3>4, <3>5, <3>6, <3>7 DEF StopCall
  <2> QED BY <1>1, <2>1, <2>2, <2>3, <2>4, <2>5, <2>6 DEF Next
<1>2. IAlone /\ [Next]_vars => [state' # state => Accepted(state, state')]_vars
  BY <1>1
<1> QED BY <1>2, IAloneInvariant, PTL DEF Spec, MatrixKept
=============================================================================
