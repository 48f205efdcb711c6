--------------------------- MODULE Modules_proofs ---------------------------
(****************************************************************************)
(* Proofs about Modules, the XMPP modules of a session.                      *)
(****************************************************************************)
EXTENDS Modules, SequenceTheorems, FiniteSetTheorems, WellFoundedInduction, TLAPS

-----------------------------------------------------------------------------
(* Sequences                                                                *)

LEMMA HeadAndTail ==
    ASSUME NEW S, NEW s \in Seq(S), s # <<>>
    PROVE  /\ Head(s) \in S /\ Tail(s) \in Seq(S)
           /\ Range(s) = {Head(s)} \cup Range(Tail(s))
<1>1. /\ Head(s) \in S /\ Tail(s) \in Seq(S) /\ Len(Tail(s)) = Len(s) - 1
      /\ \A i \in 1..Len(Tail(s)) : Tail(s)[i] = s[i + 1]
  BY HeadTailProperties
<1>2. Len(s) \in Nat \ {0} /\ Head(s) = s[1] /\ DOMAIN s = 1..Len(s)
      /\ DOMAIN Tail(s) = 1..(Len(s) - 1)
  BY <1>1, EmptySeq, LenProperties
<1>3. \A i \in 2..Len(s) : i - 1 \in DOMAIN Tail(s) /\ Tail(s)[i - 1] = s[i]
  BY <1>1, <1>2
<1>4. \A i \in DOMAIN Tail(s) : i + 1 \in DOMAIN s /\ Tail(s)[i] = s[i + 1]
  BY <1>1, <1>2
<1>5. 1 \in DOMAIN s /\ \A i \in DOMAIN s : i = 1 \/ i \in 2..Len(s)
  BY <1>2
<1>6. Range(s) \subseteq {Head(s)} \cup Range(Tail(s))
  <2>1. SUFFICES ASSUME NEW i \in DOMAIN s PROVE s[i] \in {Head(s)} \cup Range(Tail(s))
    BY DEF Range
  <2>2. CASE i = 1
    BY <1>2, <2>2
  <2>3. CASE i \in 2..Len(s)
    BY <1>3, <2>3 DEF Range
  <2>4. QED
    BY <1>5, <2>2, <2>3
<1>7. {Head(s)} \cup Range(Tail(s)) \subseteq Range(s)
  BY <1>2, <1>4, <1>5 DEF Range
<1>8. QED
  BY <1>1, <1>6, <1>7

LEMMA OneElement == ASSUME NEW x PROVE Range(<<x>>) = {x} /\ Range(<<>>) = {}
  BY DEF Range

(* The first element with a property, in the words of SelectInSeq.           *)
LEMMA LeastIndex ==
    ASSUME NEW n \in Nat, NEW I \in SUBSET (1..n), I # {}
    PROVE  Min(I) \in I /\ \A i \in I : Min(I) <= i
<1> DEFINE Below == {p \in Nat \X Nat : p[1] < p[2]}
<1>1. \A i, j \in Nat : j < i => <<j, i>> \in Below
  OBVIOUS
<1>2. IsWellFoundedOn(Below, Nat)
  BY NatLessThanWellFounded DEF OpToRel
<1>3. I \subseteq Nat
  OBVIOUS
<1> HIDE DEF Below
<1>4. PICK i \in I : \A j \in I : ~(<<j, i>> \in Below)
  BY <1>2, <1>3, WFMin
<1>5. i \in Nat /\ \A j \in I : j \in Nat /\ ~(j < i)
  BY <1>1, <1>3, <1>4
<1>6. \A j \in I : i <= j
  BY <1>5
<1>7. QED
  BY <1>6 DEF Min

LEMMA RemovedAt ==
    ASSUME NEW S, NEW s \in Seq(S), NEW n \in 1..Len(s)
    PROVE  RemoveAt(s, n) \in Seq(S) /\ Range(RemoveAt(s, n)) \subseteq Range(s)
<1>1. Len(s) \in Nat /\ DOMAIN s = 1..Len(s) /\ \A i \in 1..Len(s) : s[i] \in S
  BY LenProperties, ElementOfSeq
<1>2. s \in Seq(Range(s))
  BY SeqOfRange
<1>3. \A i \in 1..Len(s) : s[i] \in Range(s)
  BY <1>2, ElementOfSeq
<1>4. SubSeq(s, 1, n - 1) \in Seq(Range(s)) /\ SubSeq(s, n + 1, Len(s)) \in Seq(Range(s))
  BY <1>1, <1>3, SubSeqProperties
<1>5. RemoveAt(s, n) \in Seq(Range(s))
  BY <1>4, ConcatProperties DEF RemoveAt
<1>6. Range(s) \subseteq S
  BY RangeOfSeq
<1>7. QED
  BY <1>5, <1>6, RangeOfSeq, SeqMonotonic
-----------------------------------------------------------------------------
(* The kinds of requests                                                    *)

LEMMA KindsOf ==
    /\ Kinds("core") = {"bind"} /\ Kinds("session") = {"session"}
    /\ Kinds("disco") = {"disco", "query_info"}
    /\ Kinds("register") = {"info", "register", "unregister", "password"}
    /\ Kinds("search") = {"fields"} /\ Kinds("vcard") = {"vcard", "set_vcard"}
    /\ Kinds("private") = {"private_set", "private_get"}
    /\ Kinds("version") = {"version"} /\ Kinds("ping") = {"ping"}
    /\ Kinds("roster") = {"roster", "roster_set"}
    /\ Kinds("presence") = {"announce", "probe", "subscription"}
    /\ Kinds("keepalive") = {} /\ Kinds("message") = {}
  BY DEF Kinds

LEMMA AKind == \A mod \in Module : Kinds(mod) \subseteq Kind
  BY DEF Kind

LEMMA KindNames ==
    {"bind", "session", "disco", "query_info", "info", "register", "unregister",
     "password", "fields", "vcard", "set_vcard", "private_set", "private_get",
     "version", "ping", "roster", "roster_set", "announce", "probe",
     "subscription"} \subseteq Kind
<1>1. \A mod \in Module : Kinds(mod) \subseteq Kind
  BY AKind
<1>2. {"core", "session", "disco", "register", "search", "vcard", "private",
       "version", "ping", "roster", "presence"} \subseteq Module
  BY DEF Module
<1>3. /\ {"bind"} \subseteq Kind /\ {"session"} \subseteq Kind
      /\ {"disco", "query_info"} \subseteq Kind
      /\ {"info", "register", "unregister", "password"} \subseteq Kind
  BY <1>1, <1>2, KindsOf
<1>4. /\ {"fields"} \subseteq Kind /\ {"vcard", "set_vcard"} \subseteq Kind
      /\ {"private_set", "private_get"} \subseteq Kind /\ {"version"} \subseteq Kind
  BY <1>1, <1>2, KindsOf
<1>5. /\ {"ping"} \subseteq Kind /\ {"roster", "roster_set"} \subseteq Kind
      /\ {"announce", "probe", "subscription"} \subseteq Kind
  BY <1>1, <1>2, KindsOf
<1>6. QED
  BY <1>3, <1>4, <1>5

LEMMA SingleKinds == Single \subseteq Kind
  BY KindNames DEF Single

-----------------------------------------------------------------------------
(* Which steps change what.                                                  *)

Effects ==
    /\ session' = session \/ Run
    /\ running' = running \/ Run \/ StopStream
    /\ state' = state \/ Run \/ \E t \in Thread : ChangeState(t)
    /\ modules' = modules \/ SessionResult
    /\ ids' = ids \/ Forget \/ \E t \in Thread : Store(t)
    /\ interval' = interval \/ \E t \in Thread : SetInterval(t)
    /\ timer' = timer \/ Expire \/ End \/ \E t \in Thread : SetTimeout(t)
    /\ roster' = roster \/ Roster
    /\ kept' = kept \/ \E t \in Thread : Keep(t) \/ Correct(t) \/ ResetCorrection(t)
    /\ said' = said \/ \E t \in Thread : WriteMessage(t)
    /\ texts' = texts \/ RespondText \/ CallText
    /\ rx_queue' = rx_queue \/ Pop \/ Expire \/ Run \/ Answer \/ Change \/ PeerAsks
    /\ did' = did \/ Pop \/ Respond \/ RespondText
    /\ wire' = wire \/ StopStream \/ Answer \/ \E t \in Thread : Send(t)
    /\ server' = server \/ Answer \/ Change
    /\ interested' = interested \/ StopStream \/ Answer
    /\ fresh' = fresh \/ Run \/ Roster
    /\ asks' = asks \/ \E t \in Thread : Check(t)
    /\ calls' = calls \/ OtherCall
    /\ changes' = changes \/ Change
    /\ peers' = peers \/ PeerAsks

LEMMA Changes == ASSUME [Next]_vars PROVE Effects
<1> USE DEF Effects, Others, sessVars, modVars, peerVars, counters, textVars
<1>1. ASSUME NEW t \in Thread, Check(t) PROVE Effects
  BY <1>1 DEF Check
<1>2. ASSUME NEW t \in Thread, Store(t) PROVE Effects
  BY <1>2 DEF Store
<1>3. ASSUME NEW t \in Thread, Send(t) PROVE Effects
  BY <1>3 DEF Send
<1>4. ASSUME NEW t \in Thread, ReadInterval(t) PROVE Effects
  BY <1>4 DEF ReadInterval
<1>5. ASSUME NEW t \in Thread, SetTimeout(t) PROVE Effects
  BY <1>5 DEF SetTimeout
<1>6. ASSUME NEW t \in Thread, SetInterval(t) PROVE Effects
  BY <1>6 DEF SetInterval
<1>7. ASSUME NEW t \in Thread, IfBound(t) PROVE Effects
  BY <1>7 DEF IfBound
<1>8. ASSUME NEW t \in Thread, Keep(t) PROVE Effects
  BY <1>8 DEF Keep
<1>9. ASSUME NEW t \in Thread, Correct(t) PROVE Effects
  BY <1>9 DEF Correct
<1>10. ASSUME NEW t \in Thread, ResetCorrection(t) PROVE Effects
  BY <1>10 DEF ResetCorrection
<1>11. ASSUME NEW t \in Thread, WriteMessage(t) PROVE Effects
  BY <1>11 DEF WriteMessage
<1>12. ASSUME NEW t \in Thread, ChangeState(t) PROVE Effects
  BY <1>12 DEF ChangeState
<1>13. ASSUME NEW t \in Thread, TellListener(t) PROVE Effects
  BY <1>13 DEF TellListener
<1>14. CASE Rx
  BY <1>14 DEF Rx
<1>15. CASE Pop
  BY <1>15 DEF Pop
<1>16. CASE Respond
  BY <1>16 DEF Respond
<1>17. CASE RespondText
  BY <1>17 DEF RespondText
<1>18. CASE Forget
  BY <1>18 DEF Forget
<1>19. CASE Unhandled
  BY <1>19 DEF Unhandled
<1>20. CASE Core
  BY <1>20 DEF Core
<1>21. CASE KeepAlive
  BY <1>21 DEF KeepAlive
<1>22. CASE Register
  BY <1>22 DEF Register
<1>23. CASE Search
  BY <1>23 DEF Search
<1>24. CASE Vcard
  BY <1>24 DEF Vcard
<1>25. CASE Private
  BY <1>25 DEF Private
<1>26. CASE Version
  BY <1>26 DEF Version
<1>27. CASE Ping
  BY <1>27 DEF Ping
<1>28. CASE Disco
  BY <1>28 DEF Disco
<1>29. CASE SessionResult
  BY <1>29 DEF SessionResult
<1>30. CASE Message
  BY <1>30 DEF Message
<1>31. CASE Presence
  BY <1>31 DEF Presence
<1>32. CASE Roster
  BY <1>32 DEF Roster
<1>33. CASE CallText
  BY <1>33 DEF CallText
<1>34. CASE OtherCall
  BY <1>34 DEF OtherCall
<1>35. CASE Run
  BY <1>35 DEF Run
<1>36. CASE StopStream
  BY <1>36 DEF StopStream
<1>37. CASE End
  BY <1>37 DEF End
<1>38. CASE Expire
  BY <1>38 DEF Expire
<1>39. CASE Answer
  BY <1>39 DEF Answer
<1>40. CASE Change
  BY <1>40 DEF Change
<1>41. CASE PeerAsks
  BY <1>41 DEF PeerAsks
<1>42. ASSUME NEW k \in AppKinds, Call(k) PROVE Effects
  BY <1>42 DEF Call
<1>43. CASE UNCHANGED vars
  BY <1>43 DEF vars, sessVars, modVars, peerVars, counters, textVars
<1>44. QED
  BY <1>1, <1>2, <1>3, <1>4, <1>5, <1>6, <1>7, <1>8, <1>9, <1>10, <1>11, <1>12, <1>13, <1>14, <1>15, <1>16, <1>17, <1>18, <1>19, <1>20, <1>21, <1>22, <1>23, <1>24, <1>25, <1>26, <1>27, <1>28, <1>29, <1>30, <1>31, <1>32, <1>33, <1>34, <1>35, <1>36, <1>37, <1>38, <1>39, <1>40, <1>41, <1>42, <1>43 DEF Next

-----------------------------------------------------------------------------
(* The steps a thread has left                                              *)

Process(n) == Step("process", "none", n)

(* The steps a thread takes besides those that end the call of a module.     *)
StepFor(t) == {step \in StepOK :
    /\ t = "rx" =>
        /\ step.op \notin {"process", "pop", "cancel", "interval", "ifbound"}
        /\ step.op = "state" => step.what \in {"negotiating", "bound"}
        /\ step.op = "told" => \/ step.what = "bound"
                               \/ step.what = "negotiating" /\ step.arg # "bound"
    /\ t = "app" =>
        /\ step.op \notin {"process", "pop", "arm", "reply", "forget", "callback"}
        /\ step.op \in {"state", "told"} => step.what = "closing"
    /\ t = "run" =>
        /\ step.op \in {"state", "told", "cancel"}
        /\ step.op # "cancel" => step.what = "closed"}

(* A module has handled the first object of the queue.                       *)
Handling == \E s \in Seq(StepFor("rx")) : todo["rx"] = Append(s, Popping)

(* The rx thread handles an object, the first of the queue, and its last step *)
(* goes on to the next module or to the next object.                         *)
Shape ==
    /\ todo \in [Thread -> Seq(StepOK)]
    /\ todo["app"] \in Seq(StepFor("app")) /\ todo["run"] \in Seq(StepFor("run"))
    /\ \/ todo["rx"] = <<>>
       \/ rx_queue # <<>> /\ \E n \in Nat \ {0} : todo["rx"] = <<Process(n)>>
       \/ rx_queue # <<>> /\ Handling

LEMMA NoItemIsItem == NoItem \in Item
<1>1. (CHOOSE j \in Jids : TRUE) \in Jids
  BY ModulesAssumption
<1>2. QED
  BY <1>1 DEF NoItem, Item, Sub

LEMMA EndsAreSteps == Popping \in StepOK /\ \A n \in Nat : Process(n) \in StepOK
  BY DEF Popping, Process, Step, StepOK

LEMMA StepsOfThread == \A t \in Thread : StepFor(t) \subseteq StepOK
  BY DEF StepFor

LEMMA FirstStep ==
    ASSUME Shape, NEW t \in Thread, NEW op, Now(t, op), op \notin {"process", "pop"}
    PROVE  /\ This(t) \in StepFor(t) /\ This(t).op = op
           /\ t = "rx" => rx_queue # <<>> /\
                 \E s \in Seq(StepFor("rx")) :
                     s # <<>> /\ todo["rx"] = Append(s, Popping) /\ Head(s) = This("rx")
<1>1. CASE t \in {"app", "run"}
  BY <1>1, HeadTailProperties DEF Shape, Handling, Now, This
<1>2. CASE t = "rx"
  <2>1. todo["rx"] # <<>> /\ Head(todo["rx"]).op = op
    BY <1>2 DEF Now
  <2>2. ~ \E n \in Nat \ {0} : todo["rx"] = <<Process(n)>>
    <3>1. \A n : Head(<<Process(n)>>) = Process(n) /\ Process(n).op = "process"
      BY DEF Process, Step
    <3>2. QED
      BY <2>1, <3>1
  <2>3. PICK s \in Seq(StepFor("rx")) : todo["rx"] = Append(s, Popping)
    BY <2>1, <2>2 DEF Shape, Handling
  <2>4. s # <<>>
    BY <2>1, <2>3, HeadTailAppend DEF Popping, Step
  <2>5. Head(s) = Head(todo["rx"])
    BY <2>3, <2>4, HeadTailAppend
  <2>6. Head(s) \in StepFor("rx")
    BY <2>4, HeadTailProperties
  <2>7. rx_queue # <<>>
    BY <2>1, <2>2 DEF Shape, Handling
  <2>8. QED
    BY <1>2, <2>1, <2>3, <2>4, <2>5, <2>6, <2>7 DEF This
<1>3. QED
  BY <1>1, <1>2 DEF Thread

(* A thread that does its first step and has these to do before the others.  *)
LEMMA ThenShape ==
    ASSUME Shape, NEW t \in Thread, NEW op, Now(t, op), op \notin {"process", "pop"},
           NEW steps \in Seq(StepFor(t)), Then(t, steps), rx_queue' = rx_queue
    PROVE  Shape' /\ (t = "rx" => Handling')
<1> DEFINE rest == Tail(todo[t])
<1>1. todo' = [todo EXCEPT ![t] = steps \o rest]
  BY DEF Then
<1>2. todo \in [Thread -> Seq(StepOK)] /\ todo[t] \in Seq(StepOK) /\ todo[t] # <<>>
  BY DEF Shape, Handling, Now
<1>3. steps \in Seq(StepOK)
  BY StepsOfThread, SeqMonotonic
<1>4. rest \in Seq(StepOK)
  BY <1>2, HeadTailProperties
<1>5. steps \o rest \in Seq(StepOK)
  BY <1>3, <1>4, ConcatProperties
<1>6. todo' \in [Thread -> Seq(StepOK)]
  BY <1>1, <1>2, <1>5
<1>7. CASE t \in {"app", "run"}
  <2>1. rest \in Seq(StepFor(t))
    BY <1>2, <1>7, HeadTailProperties DEF Shape, Handling
  <2>2. steps \o rest \in Seq(StepFor(t))
    BY <2>1, ConcatProperties
  <2>3. todo'[t] \in Seq(StepFor(t)) /\ \A u \in Thread \ {t} : todo'[u] = todo[u]
    BY <1>1, <1>2, <2>2
  <2>4. Handling' <=> Handling
    BY <1>7, <2>3 DEF Handling, Thread
  <2>5. QED
    BY <1>6, <1>7, <2>3, <2>4 DEF Shape, Thread
<1>8. CASE t = "rx"
  <2>1. PICK s \in Seq(StepFor("rx")) : s # <<>> /\ todo["rx"] = Append(s, Popping)
    BY <1>8, FirstStep
  <2>2. rx_queue # <<>>
    BY <1>8, FirstStep
  <2>3. s \in Seq(StepOK) /\ Popping \in StepOK
    BY StepsOfThread, SeqMonotonic, EndsAreSteps DEF Thread
  <2>4. Tail(s) \in Seq(StepFor("rx")) /\ Tail(s) \in Seq(StepOK)
    BY <2>1, <2>3, HeadTailProperties
  <2>5. rest = Tail(s) \o <<Popping>>
    BY <1>8, <2>1, <2>3, <2>4, HeadTailAppend, AppendIsConcat
  <2>6. steps \o rest = (steps \o Tail(s)) \o <<Popping>>
    <3>1. <<Popping>> \in Seq(StepOK)
      BY <2>3
    <3>2. (steps \o Tail(s)) \o <<Popping>> = steps \o (Tail(s) \o <<Popping>>)
      BY <1>3, <2>4, <3>1, ConcatAssociative
    <3>3. QED
      BY <2>5, <3>2
  <2>7. steps \o Tail(s) \in Seq(StepFor("rx")) /\ steps \o Tail(s) \in Seq(StepOK)
    BY <1>3, <1>8, <2>4, ConcatProperties
  <2>8. steps \o rest = Append(steps \o Tail(s), Popping)
    BY <2>3, <2>6, <2>7, AppendIsConcat
  <2>9. todo'["rx"] = Append(steps \o Tail(s), Popping) /\ \A u \in {"app", "run"} : todo'[u] = todo[u]
    BY <1>1, <1>2, <1>8, <2>8 DEF Thread
  <2>10. QED
    BY <1>6, <2>2, <2>7, <2>9 DEF Shape, Handling
<1>9. QED
  BY <1>7, <1>8 DEF Thread

(* The module that is called: nothing else is left to do.                    *)
LEMMA CalledAlone ==
    ASSUME Shape, Now("rx", "process")
    PROVE  /\ todo["rx"] = <<This("rx")>> /\ This("rx").n \in Nat \ {0}
           /\ This("rx") = Process(This("rx").n) /\ Tail(todo["rx"]) = <<>>
           /\ rx_queue # <<>>
<1>1. PICK t \in {todo["rx"]} : t # <<>> /\ Head(t).op = "process"
  BY DEF Now
<1>2. ~ \E s \in Seq(StepFor("rx")) : t = Append(s, Popping)
  <2>1. SUFFICES ASSUME NEW s \in Seq(StepFor("rx")), t = Append(s, Popping) PROVE FALSE
    OBVIOUS
  <2>2. CASE s = <<>>
    BY <1>1, <2>1, <2>2, HeadTailAppend DEF Popping, Step
  <2>3. CASE s # <<>>
    BY <1>1, <2>1, <2>3, HeadTailAppend, HeadTailProperties DEF StepFor
  <2>4. QED
    BY <2>2, <2>3
<1>3. PICK n \in Nat \ {0} : t = <<Process(n)>>
  BY <1>1, <1>2 DEF Shape, Handling
<1>4. Head(t) = Process(n) /\ Tail(t) = <<>> /\ Process(n).n = n
  BY <1>3 DEF Process, Step
<1>5. rx_queue # <<>>
  BY <1>1, <1>2 DEF Shape, Handling
<1>6. QED
  BY <1>1, <1>3, <1>4, <1>5 DEF This

(* The object is handled: these steps are left, and it is taken away.        *)
LEMMA HandlesShape ==
    ASSUME Shape, Now("rx", "process"), NEW steps \in Seq(StepFor("rx")),
           Handles(steps), rx_queue' = rx_queue
    PROVE  Shape' /\ Handling' /\ todo' = [todo EXCEPT !["rx"] = Append(steps, Popping)]
<1>1. todo' = [todo EXCEPT !["rx"] = Append(steps, Popping) \o Tail(todo["rx"])]
  BY DEF Handles, Then
<1>2. Tail(todo["rx"]) = <<>> /\ rx_queue # <<>>
  BY CalledAlone
<1>3. steps \in Seq(StepOK) /\ Popping \in StepOK
  BY StepsOfThread, SeqMonotonic, EndsAreSteps DEF Thread
<1>4. Append(steps, Popping) \in Seq(StepOK)
  BY <1>3, AppendProperties
<1>5. todo' = [todo EXCEPT !["rx"] = Append(steps, Popping)]
  BY <1>1, <1>2, <1>4, ConcatEmptySeq
<1>6. todo \in [Thread -> Seq(StepOK)]
  BY DEF Shape, Handling
<1>7. todo' \in [Thread -> Seq(StepOK)] /\ todo'["rx"] = Append(steps, Popping)
      /\ todo'["app"] = todo["app"] /\ todo'["run"] = todo["run"]
  BY <1>4, <1>5, <1>6 DEF Thread
<1>8. QED
  BY <1>2, <1>5, <1>7 DEF Shape, Handling

LEMMA PassesShape ==
    ASSUME Shape, Now("rx", "process"), Passes, rx_queue' = rx_queue
    PROVE  Shape' /\ todo' = [todo EXCEPT !["rx"] = <<Process(This("rx").n + 1)>>]
<1> DEFINE n == This("rx").n + 1
<1>1. todo' = [todo EXCEPT !["rx"] = <<Process(n)>> \o Tail(todo["rx"])]
  BY DEF Passes, Then, Process
<1>2. Tail(todo["rx"]) = <<>> /\ rx_queue # <<>> /\ n \in Nat \ {0}
  BY CalledAlone
<1>3. <<Process(n)>> \in Seq(StepOK)
  BY <1>2, EndsAreSteps
<1>4. todo' = [todo EXCEPT !["rx"] = <<Process(n)>>]
  BY <1>1, <1>2, <1>3, ConcatEmptySeq
<1>5. todo \in [Thread -> Seq(StepOK)]
  BY DEF Shape, Handling
<1>6. todo' \in [Thread -> Seq(StepOK)] /\ todo'["rx"] = <<Process(n)>>
      /\ todo'["app"] = todo["app"] /\ todo'["run"] = todo["run"]
  BY <1>3, <1>4, <1>5 DEF Thread
<1>7. QED
  BY <1>2, <1>4, <1>6 DEF Shape, Handling

LEMMA PopShape ==
    ASSUME TypeOK, Shape, Pop
    PROVE  /\ Shape'
           /\ todo["rx"] = <<Popping>>
           /\ todo' = [todo EXCEPT !["rx"] = IF rx_queue' = <<>> THEN <<>> ELSE <<Process(1)>>]
<1>1. todo["rx"] # <<>> /\ Head(todo["rx"]).op = "pop"
  BY DEF Pop, Now
<1>2. \A n : Head(<<Process(n)>>) = Process(n) /\ Process(n).op = "process"
  BY DEF Process, Step
<1>3. PICK s \in Seq(StepFor("rx")) : todo["rx"] = Append(s, Popping)
  BY <1>1, <1>2 DEF Shape, Handling
<1>4. s = <<>>
  BY <1>1, <1>3, HeadTailAppend, HeadTailProperties DEF StepFor
<1>5. todo["rx"] = <<Popping>> /\ Tail(todo["rx"]) = <<>>
  BY <1>3, <1>4
<1> DEFINE next == IF rx_queue' = <<>> THEN <<>> ELSE <<Process(1)>>
<1>6. todo' = [todo EXCEPT !["rx"] = next \o <<>>]
  BY <1>5 DEF Pop, Then, Process
<1>7. next \in Seq(StepOK)
  BY EndsAreSteps
<1>8. todo' = [todo EXCEPT !["rx"] = next]
  BY <1>6, <1>7, ConcatEmptySeq
<1>9. todo \in [Thread -> Seq(StepOK)]
  BY DEF Shape, Handling
<1>10. todo' \in [Thread -> Seq(StepOK)] /\ todo'["rx"] = next
       /\ todo'["app"] = todo["app"] /\ todo'["run"] = todo["run"]
  BY <1>7, <1>8, <1>9 DEF Thread
<1>11. QED
  BY <1>5, <1>8, <1>10 DEF Shape, Handling

LEMMA RxShape ==
    ASSUME Shape, Rx
    PROVE  Shape' /\ todo["rx"] = <<>> /\ todo' = [todo EXCEPT !["rx"] = <<Process(1)>>]
<1>1. todo["rx"] = <<>> /\ todo' = [todo EXCEPT !["rx"] = <<Process(1)>>]
  BY DEF Rx, Starts, Process
<1>2. rx_queue # <<>> /\ rx_queue' = rx_queue
  BY DEF Rx
<1>3. todo \in [Thread -> Seq(StepOK)] /\ <<Process(1)>> \in Seq(StepOK)
  BY EndsAreSteps DEF Shape, Handling
<1>4. todo' \in [Thread -> Seq(StepOK)] /\ todo'["rx"] = <<Process(1)>>
      /\ todo'["app"] = todo["app"] /\ todo'["run"] = todo["run"]
  BY <1>1, <1>3 DEF Thread
<1>5. QED
  BY <1>1, <1>2, <1>4 DEF Shape, Handling

(* A call of the application, or what Session::run does.                     *)
LEMMA StartsShape ==
    ASSUME Shape, NEW t \in {"app", "run"}, NEW steps \in Seq(StepFor(t)), Starts(t, steps),
           rx_queue # <<>> => rx_queue' # <<>>
    PROVE  Shape'
<1>1. steps \in Seq(StepOK)
  BY StepsOfThread, SeqMonotonic DEF Thread
<1>2. todo' = [todo EXCEPT ![t] = steps] /\ todo \in [Thread -> Seq(StepOK)]
  BY DEF Starts, Shape
<1>3. todo' \in [Thread -> Seq(StepOK)] /\ todo'[t] = steps
      /\ \A u \in Thread \ {t} : todo'[u] = todo[u]
  BY <1>1, <1>2 DEF Thread
<1>4. todo'["rx"] = todo["rx"]
  BY <1>3 DEF Thread
<1>5. todo'["app"] \in Seq(StepFor("app")) /\ todo'["run"] \in Seq(StepFor("run"))
  BY <1>3 DEF Shape, Handling, Thread
<1>6. QED
  BY <1>3, <1>4, <1>5 DEF Shape, Handling

-----------------------------------------------------------------------------
(* Every step of a thread leaves it with steps of the same kinds.            *)

Request == [op : {"check", "store", "send"}, what : Kind, n : Nat, arg : Item]
Text    == [op : {"keep", "correct", "reset", "write"}, what : Addresses, n : Nat, arg : Nat]

LEMMA StepKinds ==
    ASSUME NEW step \in StepOK
    PROVE  /\ step.n \in Nat
           /\ step.op \in {"check", "store", "send"} => step \in Request
           /\ step.op \in {"keep", "correct", "reset", "write"} => step \in Text
           /\ step.op = "forget" => step.what \in Kind /\ step.arg = NoItem
           /\ step.op = "callback" => step.what \in Kind \cup {"message", "receipt", "presence"}
           /\ step.op \in {"state", "told"} => step.what \in State
           /\ step.op = "told" =>
                 step \in [op : {"told"}, what : State, n : Nat, arg : State]
  BY DEF StepOK, Request, Text

LEMMA RequestsAndTexts ==
    ASSUME NEW t \in {"rx", "app"}
    PROVE  Request \subseteq StepFor(t) /\ Text \subseteq StepFor(t)
  BY DEF Request, Text, StepFor, StepOK

LEMMA NotOfRun ==
    ASSUME NEW t \in Thread, NEW step \in StepFor(t), step \in Request \cup Text
    PROVE  t \in {"rx", "app"}
  BY DEF Request, Text, StepFor, Thread

LEMMA AskIsRequest == \A k \in Kind : Ask(k) \in Request
  BY NoItemIsItem DEF Ask, Step, Request

LEMMA CheckShape == ASSUME TypeOK, Shape, NEW t \in Thread, Check(t)
    PROVE Shape' /\ (t = "rx" => Handling')
<1>1. Now(t, "check") /\ rx_queue' = rx_queue /\ asks \in Nat
  BY DEF Check, TypeOK
<1>2. This(t) \in StepFor(t) /\ This(t).op = "check"
  BY <1>1, FirstStep
<1>3. This(t) \in Request
  BY <1>2, StepKinds DEF StepFor
<1>4. t \in {"rx", "app"}
  BY <1>2, <1>3, NotOfRun
<1>5. /\ [This(t) EXCEPT !.op = "store"] \in Request
      /\ [This(t) EXCEPT !.op = "store", !.n = asks + 1] \in Request
  <2>1. [This(t) EXCEPT !.op = "store"] \in Request
    BY <1>3 DEF Request
  <2>2. [This(t) EXCEPT !.op = "store", !.n = asks + 1] \in Request
    <3>1. PICK n \in Nat : n = asks + 1
      BY <1>1
    <3>2. [This(t) EXCEPT !.op = "store", !.n = n] \in Request
      BY <1>3 DEF Request
    <3>3. QED
      BY <3>1, <3>2
  <2>3. QED
    BY <2>1, <2>2
<1>6. PICK steps \in Seq(StepFor(t)) : Then(t, steps)
  <2>1. /\ <<[This(t) EXCEPT !.op = "store"]>> \in Seq(StepFor(t))
        /\ <<[This(t) EXCEPT !.op = "store", !.n = asks + 1]>> \in Seq(StepFor(t))
        /\ <<>> \in Seq(StepFor(t))
    BY <1>4, <1>5, RequestsAndTexts
  <2>2. \/ Then(t, <<[This(t) EXCEPT !.op = "store"]>>)
        \/ Then(t, <<[This(t) EXCEPT !.op = "store", !.n = asks + 1]>>)
        \/ Then(t, <<>>)
    BY DEF Check
  <2>3. QED
    BY <2>1, <2>2
<1>7. QED
  BY <1>1, <1>6, ThenShape

(* The ids that are not made by make_id come after those that are.           *)
LEMMA FixedIds ==
    /\ MaxAsk \in Nat /\ FixedId \in Nat /\ PushId \in Nat
    /\ PushId > FixedId /\ FixedId > MaxAsk /\ FixedId > 0
    /\ \A n \in Nat : RosterId(n) \in Nat /\ RosterId(n) >= MaxAsk
  BY ModulesAssumption DEF FixedId, PushId, RosterId

(* The id a request gets is a number.                                        *)
LEMMA IdsAreNumbers ==
    ASSUME TypeOK, NEW k \in Kind, NEW n \in Nat PROVE IdsFor(k, n) \subseteq Nat
<1>1. session \in Nat /\ RosterId(session) \in Nat /\ FixedId \in Nat
  BY FixedIds DEF TypeOK
<1>2. k \in Kinds("private") => Given[k] \subseteq Nat
  BY ModulesAssumption
<1>3. QED
  BY <1>1, <1>2 DEF IdsFor

LEMMA StoreShape == ASSUME TypeOK, Shape, NEW t \in Thread, Store(t)
    PROVE Shape' /\ (t = "rx" => Handling')
<1>1. Now(t, "store") /\ rx_queue' = rx_queue
  BY DEF Store
<1>2. This(t) \in StepFor(t) /\ This(t).op = "store"
  BY <1>1, FirstStep
<1>3. This(t) \in Request
  BY <1>2, StepKinds DEF StepFor
<1>4. t \in {"rx", "app"}
  BY <1>2, <1>3, NotOfRun
<1>5. PICK id \in IdsFor(This(t).what, This(t).n) :
         Then(t, <<>>) \/ Then(t, <<[This(t) EXCEPT !.op = "send", !.n = id]>>)
  BY DEF Store
<1>6. id \in Nat
  BY <1>3, IdsAreNumbers DEF Request
<1>7. [This(t) EXCEPT !.op = "send", !.n = id] \in Request
  BY <1>3, <1>6 DEF Request
<1>8. /\ <<[This(t) EXCEPT !.op = "send", !.n = id]>> \in Seq(StepFor(t))
      /\ <<>> \in Seq(StepFor(t))
  BY <1>4, <1>7, RequestsAndTexts
<1>9. QED
  BY <1>1, <1>5, <1>8, ThenShape

LEMMA TextShape ==
    ASSUME TypeOK, Shape, NEW t \in Thread, Keep(t) \/ Correct(t)
    PROVE Shape' /\ (t = "rx" => Handling')
<1>1. PICK op \in {"keep", "correct"} : Now(t, op) /\ rx_queue' = rx_queue
  BY DEF Keep, Correct
<1>2. This(t) \in StepFor(t) /\ This(t).op = op
  BY <1>1, FirstStep
<1>3. This(t) \in Text
  BY <1>1, <1>2, StepKinds DEF StepFor
<1>4. t \in {"rx", "app"}
  BY <1>2, <1>3, NotOfRun
<1>5. PICK steps \in Seq(StepFor(t)) : Then(t, steps)
  <2>1. Text \subseteq StepFor(t)
    BY <1>4, RequestsAndTexts
  <2>2. CASE Keep(t)
    <3>1. Then(t, <<[This(t) EXCEPT !.op = "write"]>>)
      BY <2>2 DEF Keep
    <3>2. [This(t) EXCEPT !.op = "write"] \in Text
      BY <1>3 DEF Text
    <3>3. <<[This(t) EXCEPT !.op = "write"]>> \in Seq(StepFor(t))
      BY <2>1, <3>2
    <3>4. QED
      BY <3>1, <3>3
  <2>3. CASE Correct(t)
    <3> DEFINE key == to_string(Jid(This(t).what))
    <3>1. \/ Then(t, <<>>)
          \/ key \in DOMAIN kept /\ Then(t, <<[This(t) EXCEPT !.op = "write", !.arg = kept[key]]>>)
      BY <2>3 DEF Correct
    <3>2. key \in DOMAIN kept => kept[key] \in Nat
      BY DEF TypeOK
    <3>3. key \in DOMAIN kept => [This(t) EXCEPT !.op = "write", !.arg = kept[key]] \in Text
      BY <1>3, <3>2 DEF Text
    <3>4. /\ <<>> \in Seq(StepFor(t))
          /\ key \in DOMAIN kept =>
                <<[This(t) EXCEPT !.op = "write", !.arg = kept[key]]>> \in Seq(StepFor(t))
      BY <2>1, <3>3
    <3>5. QED
      BY <3>1, <3>4
  <2>4. QED
    BY <2>2, <2>3
<1>6. QED
  BY <1>1, <1>5, ThenShape

(* These steps leave nothing behind.                                         *)
LEMMA DoneShape ==
    ASSUME TypeOK, Shape, NEW t \in Thread,
           Send(t) \/ SetTimeout(t) \/ ResetCorrection(t) \/ WriteMessage(t)
    PROVE  Shape' /\ (t = "rx" => Handling')
<1>1. Then(t, <<>>) /\ rx_queue' = rx_queue
  BY DEF Send, SetTimeout, ResetCorrection, WriteMessage
<1>2. PICK op \in {"send", "timeout", "cancel", "reset", "write"} : Now(t, op)
  BY DEF Send, SetTimeout, ResetCorrection, WriteMessage
<1>3. <<>> \in Seq(StepFor(t))
  OBVIOUS
<1>4. QED
  BY <1>1, <1>2, <1>3, ThenShape

LEMMA KeepAliveShape ==
    ASSUME TypeOK, Shape, NEW t \in Thread, ReadInterval(t) \/ SetInterval(t) \/ IfBound(t)
    PROVE  Shape' /\ (t = "rx" => Handling')
<1>1. PICK op \in {"arm", "interval", "ifbound"} : Now(t, op) /\ rx_queue' = rx_queue
  BY DEF ReadInterval, SetInterval, IfBound
<1>2. This(t) \in StepFor(t) /\ This(t).op = op
  BY <1>1, FirstStep
<1>3. t # "run" /\ (op = "interval" => t = "app")
  BY <1>1, <1>2 DEF StepFor, Thread
<1>4. Step("timeout", "none", 0) \in StepFor(t)
  BY <1>3 DEF Step, StepFor, StepOK
<1>5. op = "interval" =>
         /\ Step("cancel", "none", 0) \in StepFor(t)
         /\ Step("ifbound", "none", 0) \in StepFor(t)
  BY <1>3 DEF Step, StepFor, StepOK
<1>6. PICK steps \in Seq(StepFor(t)) : Then(t, steps)
  <2>1. CASE SetInterval(t)
    <3>1. op = "interval"
      BY <1>1, <2>1 DEF SetInterval, Now
    <3>2. \/ Then(t, <<Step("cancel", "none", 0)>>)
          \/ Then(t, <<Step("ifbound", "none", 0)>>)
      BY <2>1 DEF SetInterval
    <3>3. /\ <<Step("cancel", "none", 0)>> \in Seq(StepFor(t))
          /\ <<Step("ifbound", "none", 0)>> \in Seq(StepFor(t))
      BY <1>5, <3>1
    <3>4. QED
      BY <3>2, <3>3
  <2>2. CASE ReadInterval(t) \/ IfBound(t)
    <3>1. Then(t, <<>>) \/ Then(t, <<Step("timeout", "none", 0)>>)
      BY <2>2 DEF ReadInterval, IfBound
    <3>2. <<>> \in Seq(StepFor(t)) /\ <<Step("timeout", "none", 0)>> \in Seq(StepFor(t))
      BY <1>4
    <3>3. QED
      BY <3>1, <3>2
  <2>3. QED
    BY <2>1, <2>2
<1>7. QED
  BY <1>1, <1>6, ThenShape

LEMMA ChangeStateShape == ASSUME TypeOK, Shape, NEW t \in Thread, ChangeState(t)
    PROVE Shape' /\ (t = "rx" => Handling')
<1> DEFINE new == This(t).what
           told == [Step("told", new, 1) EXCEPT !.arg = state]
<1>1. Now(t, "state") /\ rx_queue' = rx_queue /\ state \in State
  BY DEF ChangeState, TypeOK
<1>2. This(t) \in StepFor(t) /\ This(t).op = "state"
  BY <1>1, FirstStep
<1>3. new \in State
  BY <1>2, StepKinds DEF StepFor
<1>4. /\ t = "rx" => new \in {"negotiating", "bound"}
      /\ t = "app" => new = "closing"
      /\ t = "run" => new = "closed"
  BY <1>2 DEF StepFor
<1>5. Accepted(state, new) /\ new = "negotiating" => state # "bound"
  BY DEF Accepted
<1>6. told = [op |-> "told", what |-> new, n |-> 1, arg |-> state]
  BY DEF Step
<1>7. Accepted(state, new) => told \in StepFor(t)
  BY <1>1, <1>3, <1>4, <1>5, <1>6 DEF StepFor, StepOK, Thread
<1>8. Then(t, <<>>) \/ (Accepted(state, new) /\ Then(t, <<told>>))
  BY DEF ChangeState
<1> HIDE DEF told
<1>9. <<>> \in Seq(StepFor(t)) /\ (Accepted(state, new) => <<told>> \in Seq(StepFor(t)))
  BY <1>7
<1>10. QED
  BY <1>1, <1>8, <1>9, ThenShape

(* What a listener does of a change of state.                                *)
LEMMA ListenerSteps ==
    ASSUME NEW mod \in Module, NEW t \in Thread, NEW step \in StepFor(t), step.op = "told"
    PROVE  \/ OnStateChange(mod, step.what, step.arg) = <<>>
           \/ \E new \in StepFor(t) :
                 /\ OnStateChange(mod, step.what, step.arg) = <<new>>
                 /\ \/ step.what = "bound" /\ mod = "keepalive" /\ new = Arm
                    \/ step.what = "bound" /\ mod \in {"session", "disco"} /\ new = Ask(mod)
                    \/ step.what # "bound" /\ new = Step("cancel", "none", 0)
<1>1. step \in [op : {"told"}, what : State, n : Nat, arg : State]
  BY StepKinds DEF StepFor
<1>2. /\ t = "rx" => step.what = "bound" \/ (step.what = "negotiating" /\ step.arg # "bound")
      /\ t = "app" => step.what = "closing"
      /\ t = "run" => step.what = "closed"
  BY DEF StepFor
<1>3. CASE mod = "keepalive" /\ step.what = "bound"
  <2>1. OnStateChange(mod, step.what, step.arg) = <<Arm>>
    BY <1>3 DEF OnStateChange
  <2>2. t = "rx"
    BY <1>2, <1>3 DEF Thread
  <2>3. Arm \in StepFor(t)
    BY <2>2 DEF Arm, Step, StepFor, StepOK
  <2>4. QED
    BY <1>3, <2>1, <2>3
<1>4. CASE mod = "keepalive" /\ step.what # "bound" /\ step.arg = "bound"
  <2>1. OnStateChange(mod, step.what, step.arg) = <<Step("cancel", "none", 0)>>
    BY <1>4 DEF OnStateChange
  <2>2. t \in {"app", "run"}
    BY <1>2, <1>4 DEF Thread
  <2>3. Step("cancel", "none", 0) \in StepFor(t)
    BY <2>2 DEF Step, StepFor, StepOK
  <2>4. QED
    BY <1>4, <2>1, <2>3
<1>5. CASE mod \in {"session", "disco"} /\ step.what = "bound"
  <2>1. OnStateChange(mod, step.what, step.arg) = <<Ask(mod)>>
    BY <1>5 DEF OnStateChange
  <2>2. t = "rx" /\ mod \in Kind
    BY <1>2, <1>5, KindNames DEF Thread
  <2>3. Ask(mod) \in StepFor(t)
    BY <2>2, AskIsRequest, RequestsAndTexts
  <2>4. QED
    BY <1>5, <2>1, <2>3
<1>6. CASE /\ ~(mod = "keepalive" /\ (step.what = "bound" \/ step.arg = "bound"))
           /\ ~(mod \in {"session", "disco"} /\ step.what = "bound")
  BY <1>6 DEF OnStateChange
<1>7. QED
  BY <1>3, <1>4, <1>5, <1>6

LEMMA TellListenerShape ==
    ASSUME TypeOK, Shape, NEW t \in Thread, TellListener(t)
    PROVE Shape' /\ (t = "rx" => Handling')
<1>1. Now(t, "told") /\ rx_queue' = rx_queue
  BY DEF TellListener
<1>2. This(t) \in StepFor(t) /\ This(t).op = "told"
  BY <1>1, FirstStep
<1>3. This(t) \in [op : {"told"}, what : State, n : Nat, arg : State]
  BY <1>2, StepKinds DEF StepFor
<1> DEFINE does(i) == OnStateChange(modules[i], This(t).what, This(t).arg)
<1>4. \/ Then(t, <<>>)
      \/ \E i \in DOMAIN modules :
            does(i) # <<>> /\ Then(t, does(i) \o <<[This(t) EXCEPT !.n = i + 1]>>)
  BY DEF TellListener
<1>5. CASE Then(t, <<>>)
  <2>1. <<>> \in Seq(StepFor(t))
    OBVIOUS
  <2>2. QED
    BY <1>1, <1>5, <2>1, ThenShape
<1>6. CASE \E i \in DOMAIN modules :
             does(i) # <<>> /\ Then(t, does(i) \o <<[This(t) EXCEPT !.n = i + 1]>>)
  <2>1. PICK i \in DOMAIN modules :
           does(i) # <<>> /\ Then(t, does(i) \o <<[This(t) EXCEPT !.n = i + 1]>>)
    BY <1>6
  <2>2. modules[i] \in Module /\ i \in Nat
    BY ElementOfSeq, LenProperties DEF TypeOK
  <2>3. PICK new \in StepFor(t) : does(i) = <<new>>
    BY <1>2, <2>1, <2>2, ListenerSteps
  <2>4. PICK next : next = [This(t) EXCEPT !.n = i + 1]
    OBVIOUS
  <2>5. next = [op |-> "told", what |-> This(t).what, n |-> i + 1, arg |-> This(t).arg]
    BY <1>3, <2>4
  <2>6. next \in StepFor(t)
    BY <1>2, <1>3, <2>2, <2>5 DEF StepFor, StepOK
  <2>7. does(i) \in Seq(StepFor(t)) /\ <<next>> \in Seq(StepFor(t))
    BY <2>3, <2>6
  <2>8. does(i) \o <<next>> \in Seq(StepFor(t))
    BY <2>7, ConcatProperties
  <2>9. Then(t, does(i) \o <<next>>)
    BY <2>1, <2>4
  <2>10. QED
    BY <1>1, <2>8, <2>9, ThenShape
<1>7. QED
  BY <1>4, <1>5, <1>6

LEMMA RespondShape ==
    ASSUME TypeOK, Shape, Respond \/ RespondText \/ Forget PROVE Shape' /\ Handling'
<1>1. PICK op \in {"reply", "callback", "forget"} : Now("rx", op) /\ rx_queue' = rx_queue
  BY DEF Respond, RespondText, Forget
<1>2. PICK steps \in Seq(StepFor("rx")) : Then("rx", steps)
  <2>1. <<>> \in Seq(StepFor("rx"))
    OBVIOUS
  <2>2. \A k \in CallbackKinds : <<Ask(k)>> \in Seq(StepFor("rx"))
    BY AskIsRequest, RequestsAndTexts, ModulesAssumption
  <2>3. Texts \subseteq Text
    BY DEF Texts, Text, TypeOK
  <2>4. \A step \in Texts : <<step>> \in Seq(StepFor("rx"))
    BY <2>3, RequestsAndTexts
  <2>5. \/ Then("rx", <<>>)
        \/ \E k \in CallbackKinds : Then("rx", <<Ask(k)>>)
        \/ \E step \in Texts : Then("rx", <<step>>)
    BY DEF Respond, RespondText, Forget
  <2>6. QED
    BY <2>1, <2>2, <2>4, <2>5
<1>3. QED
  BY <1>1, <1>2, ThenShape DEF Thread

(* What a module has left to do when it has handled an object.               *)
LEMMA TakesShape ==
    ASSUME TypeOK, Shape, Now("rx", "process"), NEW k \in Kind, Takes(k), rx_queue' = rx_queue
    PROVE  Shape' /\ Handling'
<1>1. rx_queue \in Seq(Object) /\ rx_queue # <<>>
  BY CalledAlone DEF TypeOK
<1>2. Object0.id \in Nat
  <2>1. Head(rx_queue) \in Object
    BY <1>1, HeadTailProperties
  <2>2. QED
    BY <2>1 DEF Object0, Object
<1>3. Forgetting(k) \in StepFor("rx") /\ Callback(k) \in StepFor("rx")
  BY <1>2 DEF Forgetting, Callback, Step, StepFor, StepOK
<1>4. <<Forgetting(k), Callback(k)>> \in Seq(StepFor("rx"))
  BY <1>3
<1>5. QED
  BY <1>4, HandlesShape DEF Takes

LEMMA CallbackIsStep ==
    \A what \in Kind \cup {"message", "receipt", "presence"} : Callback(what) \in StepFor("rx")
  BY DEF Callback, Step, StepFor, StepOK

LEMMA ReplyIsStep == Reply \in StepFor("rx")
  BY DEF Reply, Step, StepFor, StepOK

LEMMA OneHandled ==
    ASSUME Shape, Now("rx", "process"), NEW step \in StepFor("rx"),
           Handles(<<step>>), rx_queue' = rx_queue
    PROVE  Shape' /\ Handling'
<1>1. <<step>> \in Seq(StepFor("rx"))
  OBVIOUS
<1>2. QED
  BY <1>1, HandlesShape

(* The modules that wait for answers                                        *)
LEMMA RequesterShape ==
    ASSUME TypeOK, Shape,
           Search \/ Vcard \/ Private \/ Version \/ Ping \/ Disco
    PROVE Shape' /\ (Passes \/ Handling')
<1>1. Now("rx", "process") /\ rx_queue' = rx_queue
  BY DEF Search, Vcard, Private, Version, Ping, Disco, Calls, Others
<1>2. \/ Passes \/ Handles(<<Reply>>)
      \/ \E k \in {"fields", "vcard", "set_vcard", "private_set", "private_get", "version",
                   "ping", "disco", "query_info"} : Takes(k)
  BY DEF Search, Vcard, Private, Version, Ping, Disco
<1>3. CASE Passes
  BY <1>1, <1>3, PassesShape
<1>4. CASE Handles(<<Reply>>)
  BY <1>1, <1>4, ReplyIsStep, OneHandled
<1>5. CASE \E k \in {"fields", "vcard", "set_vcard", "private_set", "private_get", "version",
                     "ping", "disco", "query_info"} : Takes(k)
  BY <1>1, <1>5, KindNames, TakesShape
<1>6. QED
  BY <1>2, <1>3, <1>4, <1>5

LEMMA RegisterShape == ASSUME TypeOK, Shape, Register PROVE Shape' /\ (Passes \/ Handling')
<1>1. Now("rx", "process") /\ rx_queue' = rx_queue
  BY DEF Register, Calls, Others
<1>2. Kinds("register") \subseteq Kind
  BY AKind DEF Module
<1>3. \/ Passes \/ Takes("info")
      \/ /\ \E k \in Kinds("register") : Waits(k)
         /\ Handles(<<Callback(CHOOSE k \in Kinds("register") : Waits(k))>>)
  BY DEF Register
<1>4. (\E k \in Kinds("register") : Waits(k))
         => (CHOOSE k \in Kinds("register") : Waits(k)) \in Kinds("register")
  OBVIOUS
<1>5. \/ Passes \/ Takes("info")
      \/ \E k \in Kinds("register") : Handles(<<Callback(k)>>)
  BY <1>3, <1>4
<1>6. CASE Passes
  BY <1>1, <1>6, PassesShape
<1>7. CASE Takes("info")
  BY <1>1, <1>7, KindNames, TakesShape
<1>8. CASE \E k \in Kinds("register") : Handles(<<Callback(k)>>)
  BY <1>1, <1>2, <1>8, CallbackIsStep, OneHandled
<1>9. QED
  BY <1>5, <1>6, <1>7, <1>8

LEMMA SessionResultShape == ASSUME TypeOK, Shape, SessionResult PROVE Shape' /\ (Passes \/ Handling')
<1>1. Now("rx", "process") /\ rx_queue' = rx_queue
  BY DEF SessionResult, Calls
<1>2. Passes \/ Takes("session") \/ Handles(<<Callback("session")>>)
  BY DEF SessionResult
<1>3. CASE Passes
  BY <1>1, <1>3, PassesShape
<1>4. CASE Takes("session")
  BY <1>1, <1>4, KindNames, TakesShape
<1>5. CASE Handles(<<Callback("session")>>)
  BY <1>1, <1>5, KindNames, CallbackIsStep, OneHandled
<1>6. QED
  BY <1>2, <1>3, <1>4, <1>5

LEMMA CoreShape == ASSUME TypeOK, Shape, Core \/ KeepAlive \/ Presence PROVE Shape' /\ (Passes \/ Handling')
<1>1. Now("rx", "process") /\ rx_queue' = rx_queue
  BY DEF Core, KeepAlive, Presence, Calls, Others
<1>2. /\ Step("state", "negotiating", 0) \in StepFor("rx")
      /\ Step("state", "bound", 0) \in StepFor("rx") /\ Arm \in StepFor("rx")
  BY DEF Arm, Step, StepFor, StepOK, State
<1>3. \/ Passes
      \/ \E step \in {Step("state", "negotiating", 0), Step("state", "bound", 0),
                      Arm, Callback("presence")} : Handles(<<step>>)
  BY DEF Core, KeepAlive, Presence
<1>4. CASE Passes
  BY <1>1, <1>4, PassesShape
<1>5. CASE \E step \in {Step("state", "negotiating", 0), Step("state", "bound", 0),
                        Arm, Callback("presence")} : Handles(<<step>>)
  BY <1>1, <1>2, <1>5, CallbackIsStep, OneHandled
<1>6. QED
  BY <1>3, <1>4, <1>5

LEMMA MessageShape == ASSUME TypeOK, Shape, Message PROVE Shape' /\ (Passes \/ Handling')
<1>1. Now("rx", "process") /\ rx_queue' = rx_queue
  BY DEF Message, Calls, Others
<1>2. \/ Passes
      \/ \E what \in {"message", "receipt"} :
            Handles(<<Callback(what)>> \o <<Reply>>) \/ Handles(<<Callback(what)>> \o <<>>)
  BY DEF Message
<1>3. \A what \in {"message", "receipt"} :
         /\ <<Callback(what)>> \in Seq(StepFor("rx")) /\ <<Reply>> \in Seq(StepFor("rx"))
         /\ <<>> \in Seq(StepFor("rx"))
  BY CallbackIsStep, ReplyIsStep
<1>4. \A what \in {"message", "receipt"} :
         /\ <<Callback(what)>> \o <<Reply>> \in Seq(StepFor("rx"))
         /\ <<Callback(what)>> \o <<>> \in Seq(StepFor("rx"))
  BY <1>3, ConcatProperties
<1>5. CASE Passes
  BY <1>1, <1>5, PassesShape
<1>6. QED
  BY <1>1, <1>2, <1>4, <1>5, HandlesShape

LEMMA UnhandledShape == ASSUME TypeOK, Shape, Unhandled PROVE Shape' /\ Handling'
<1>1. Now("rx", "process") /\ rx_queue' = rx_queue
  BY DEF Unhandled
<1>2. \E a \in {<<>>, <<Reply>>}, b \in {<<>>, <<Ask("bind")>>} : Handles(a \o b)
  BY DEF Unhandled
<1>3. Ask("bind") \in StepFor("rx")
  BY KindNames, AskIsRequest, RequestsAndTexts
<1>4. \A a \in {<<>>, <<Reply>>}, b \in {<<>>, <<Ask("bind")>>} :
         a \in Seq(StepFor("rx")) /\ b \in Seq(StepFor("rx"))
  <2>1. /\ <<>> \in Seq(StepFor("rx")) /\ <<Reply>> \in Seq(StepFor("rx"))
        /\ <<Ask("bind")>> \in Seq(StepFor("rx"))
    BY <1>3, ReplyIsStep
  <2>2. QED
    BY <2>1
<1>5. \A a \in {<<>>, <<Reply>>}, b \in {<<>>, <<Ask("bind")>>} :
         a \o b \in Seq(StepFor("rx"))
  BY <1>4, ConcatProperties
<1>6. QED
  BY <1>1, <1>2, <1>5, HandlesShape

LEMMA RosterShape == ASSUME TypeOK, Shape, Roster PROVE Shape' /\ (Passes \/ Handling')
<1>1. Now("rx", "process") /\ rx_queue' = rx_queue
  BY DEF Roster, Calls
<1>2. Passes \/ \E step \in {Reply, Callback("roster")} : Handles(<<step>>)
  BY DEF Roster
<1>3. CASE Passes
  BY <1>1, <1>3, PassesShape
<1>4. CASE \E step \in {Reply, Callback("roster")} : Handles(<<step>>)
  BY <1>1, <1>4, KindNames, CallbackIsStep, ReplyIsStep, OneHandled
<1>5. QED
  BY <1>2, <1>3, <1>4

-----------------------------------------------------------------------------
(* What is added to the receive queue                                       *)

LEMMA ContactsFinite ==
    ASSUME TypeOK
    PROVE  /\ Contacts(server) \subseteq Item /\ IsFiniteSet(Contacts(server))
           /\ Cardinality(Contacts(server)) = Cardinality(DOMAIN server)
<1> DEFINE g == [j \in DOMAIN server |-> [jid |-> j, sub |-> server[j]]]
<1>1. IsFiniteSet(DOMAIN server)
  BY DEF TypeOK
<1>2. g \in Surjection(DOMAIN server, Contacts(server))
  BY DEF Surjection, Contacts
<1>3. \A i, j \in DOMAIN server : g[i] = g[j] => i = j
  <2>1. \A j \in DOMAIN server : g[j].jid = j
    OBVIOUS
  <2>2. QED
    BY <2>1
<1> HIDE DEF g
<1>4. g \in Injection(DOMAIN server, Contacts(server))
  BY <1>2, <1>3 DEF Surjection, Injection, IsInjective
<1>5. IsFiniteSet(Contacts(server)) /\ Cardinality(Contacts(server)) = Cardinality(DOMAIN server)
  BY <1>1, <1>2, <1>4, FS_Surjection
<1>6. Contacts(server) \subseteq Item
  BY DEF Contacts, Item, TypeOK
<1>7. QED
  BY <1>5, <1>6

LEMMA RosterAsSeq ==
    ASSUME NEW C, IsFiniteSet(C)
    PROVE  /\ SetToSeq(C) \in Seq(C) /\ Range(SetToSeq(C)) = C
           /\ Len(SetToSeq(C)) = Cardinality(C) /\ IsInjective(SetToSeq(C))
<1> DEFINE n == Cardinality(C)
<1>1. n \in Nat /\ \E f : f \in Bijection(1..n, C)
  BY FS_CardinalityType DEF ExistsBijection
<1>2. PICK f : f \in Bijection(1..n, C)
  BY <1>1
<1>3. f \in [1..n -> C] /\ IsInjective(f)
  BY <1>2 DEF Bijection, Injection
<1>4. PICK s : s = SetToSeq(C)
  OBVIOUS
<1>5. s \in [1..n -> C] /\ IsInjective(s)
  BY <1>3, <1>4 DEF SetToSeq
<1>6. s \in Seq(C) /\ Len(s) = n
  BY <1>1, <1>5
<1>7. s \in Injection(1..n, C) /\ Cardinality(1..n) = n
  BY <1>1, <1>5, FS_Interval DEF Injection
<1>8. s \in Surjection(1..n, C)
  BY <1>7, FS_Injection
<1>9. Range(s) = C
  BY <1>5, <1>8 DEF Surjection, Range
<1>10. QED
  BY <1>4, <1>5, <1>6, <1>9

(* What the peer sends.                                                      *)
Heard == {obj \in Object : obj.tag # "timeout"}

LEMMA IqsAreHeard ==
    ASSUME TypeOK, NEW type \in {"get", "set", "result", "error"}, NEW id \in Nat,
           NEW query \in {"none", "bind", "roster"}, NEW items \in Seq(Item),
           NEW re \in Kind \cup {"none"}
    PROVE  AnIq(type, id, query, items, re) \in Heard
  BY DEF AnIq, Heard, Object, TypeOK

LEMMA PushHeard ==
    ASSUME TypeOK, NEW item \in Item PROVE Push(item.jid, item.sub) \in Seq(Heard)
<1>1. [jid |-> item.jid, sub |-> item.sub] \in Item
  BY DEF Item
<1>2. <<[jid |-> item.jid, sub |-> item.sub]>> \in Seq(Item)
  BY <1>1
<1>3. AnIq("set", PushId, "roster", <<[jid |-> item.jid, sub |-> item.sub]>>, "none") \in Heard
  BY <1>2, IqsAreHeard, FixedIds
<1>4. <<AnIq("set", PushId, "roster", <<[jid |-> item.jid, sub |-> item.sub]>>, "none")>> \in Seq(Heard)
  BY <1>3
<1>5. QED
  BY <1>4 DEF Push

LEMMA AnswerHeard ==
    ASSUME TypeOK, Answer
    PROVE  rx_queue' = rx_queue \/ \E q \in Seq(Heard) : Says(q)
<1>1. PICK req \in wire :
         \/ Says(<<AnIq("result", req.id, "bind", <<>>, "none")>>)
         \/ Says(<<AnIq("result", req.id, "roster", SetToSeq(Contacts(server)), "roster")>>)
         \/ Says(<<AnIq("error", req.id, "none", <<>>, "roster")>>)
         \/ Says(<<AnIq("error", req.id, "none", <<>>, "none")>>)
         \/ Says(Push(req.item.jid, req.item.sub)
                  \o <<AnIq("result", req.id, "none", <<>>, "none")>>)
         \/ rx_queue' = rx_queue
         \/ \E type \in {"result", "error"} :
               Says(<<AnIq(type, req.id, "none", <<>>, req.kind)>>)
  BY DEF Answer
<1>2. req.kind \in Kind /\ req.id \in Nat /\ req.item \in Item
  BY DEF TypeOK
<1>3. SetToSeq(Contacts(server)) \in Seq(Item) /\ <<>> \in Seq(Item)
  BY ContactsFinite, RosterAsSeq, SeqMonotonic
<1>4. \A x \in Heard : <<x>> \in Seq(Heard)
  OBVIOUS
<1>5. /\ AnIq("result", req.id, "bind", <<>>, "none") \in Heard
      /\ AnIq("result", req.id, "roster", SetToSeq(Contacts(server)), "roster") \in Heard
      /\ AnIq("error", req.id, "none", <<>>, "roster") \in Heard
      /\ AnIq("error", req.id, "none", <<>>, "none") \in Heard
      /\ AnIq("result", req.id, "none", <<>>, "none") \in Heard
      /\ \A type \in {"result", "error"} : AnIq(type, req.id, "none", <<>>, req.kind) \in Heard
  BY <1>2, <1>3, IqsAreHeard, KindNames
<1>6. Push(req.item.jid, req.item.sub) \in Seq(Heard)
  BY <1>2, PushHeard
<1>7. Push(req.item.jid, req.item.sub) \o <<AnIq("result", req.id, "none", <<>>, "none")>>
        \in Seq(Heard)
  BY <1>4, <1>5, <1>6, ConcatProperties
<1>8. QED
  BY <1>1, <1>4, <1>5, <1>7

LEMMA PeerHeard ==
    ASSUME TypeOK, Change \/ PeerAsks PROVE \E q \in Seq(Heard) : Says(q)
<1>1. CASE Change
  <2>1. PICK item \in Item : Says(Push(item.jid, item.sub))
    BY <1>1 DEF Change
  <2>2. QED
    BY <2>1, PushHeard
<1>2. CASE PeerAsks
  <2>0. PICK mod \in Range(modules) :
           \E obj \in PeerRequests[mod] : Says(<<[obj EXCEPT !.of = session]>>)
    BY <1>2 DEF PeerAsks
  <2>1. PICK obj \in PeerRequests[mod] : Says(<<[obj EXCEPT !.of = session]>>)
    BY <2>0
  <2>2. mod \in Module
    BY <2>0, RangeOfSeq DEF TypeOK
  <2>3. obj \in Object /\ obj.tag # "timeout"
    BY <2>1, <2>2, ModulesAssumption
  <2>4. session \in Nat
    BY DEF TypeOK
  <2>5. PICK said0 : said0 = [obj EXCEPT !.of = session]
    OBVIOUS
  <2>6. said0 \in Heard
    BY <2>3, <2>4, <2>5 DEF Heard, Object
  <2>7. <<said0>> \in Seq(Heard)
    BY <2>6
  <2>8. QED
    BY <2>1, <2>5, <2>7
<1>3. QED
  BY <1>1, <1>2

(* The first two objects of a stream.                                        *)
LEMMA StreamHeard ==
    ASSUME TypeOK, Run
    PROVE  \E q \in Seq(Heard) : rx_queue' = rx_queue \o q /\ Len(q) = 2
<1> DEFINE obj(i) == [tag |-> <<"stream", "features">>[i], type |-> "none", id |-> 0,
               query |-> "none", from |-> "none", items |-> <<>>, re |-> "none", of |-> session + 1]
           q == [i \in 1..2 |-> obj(i)]
<1>1. session \in Nat /\ session + 1 \in Nat
  BY DEF TypeOK
<1>2. \A i \in 1..2 : <<"stream", "features">>[i] \in {"stream", "features"}
  OBVIOUS
<1>3. \A i \in 1..2 : obj(i) \in Heard
  BY <1>1, <1>2 DEF Heard, Object
<1> HIDE DEF obj
<1>4. q \in Seq(Heard) /\ Len(q) = 2
  BY <1>3
<1>5. rx_queue' = rx_queue \o q
  BY DEF Run, obj
<1>6. QED
  BY <1>4, <1>5

(* The timer                                                                *)
Timeout == [tag |-> "timeout", type |-> "none", id |-> 0, query |-> "none", from |-> "none",
            items |-> <<>>, re |-> "none", of |-> session]

LEMMA Received ==
    ASSUME TypeOK, Run \/ Expire \/ Answer \/ Change \/ PeerAsks \/ StopStream
    PROVE  \E q \in Seq(Object) :
              /\ rx_queue' = rx_queue \o q
              /\ q \in Seq(Heard) \/ (Expire /\ running /\ q = <<Timeout>>)
              /\ Run => Len(q) = 2
<1> DEFINE Adds(q) == /\ rx_queue' = rx_queue \o q
                      /\ q \in Seq(Heard) \/ (Expire /\ running /\ q = <<Timeout>>)
                      /\ Run => Len(q) = 2
<1>1. rx_queue \in Seq(Object) /\ Heard \subseteq Object
  BY DEF TypeOK, Heard
<1>2. Timeout \in Object
  BY DEF Timeout, Object, TypeOK
<1>3. rx_queue \o <<>> = rx_queue /\ <<>> \in Seq(Heard)
  BY <1>1, ConcatEmptySeq
<1>4. ~(Run /\ (Expire \/ Answer \/ Change \/ PeerAsks \/ StopStream))
  <2>1. Run => state' = "connecting" /\ state = "closed"
    BY DEF Run
  <2>2. Expire \/ Answer \/ Change \/ PeerAsks \/ StopStream => state' = state
    BY DEF Expire, Answer, Change, PeerAsks, StopStream, sessVars
  <2>3. QED
    BY <2>1, <2>2
<1>5. CASE Run
  <2>1. PICK q \in Seq(Heard) : rx_queue' = rx_queue \o q /\ Len(q) = 2
    BY <1>5, StreamHeard
  <2>2. q \in Seq(Object)
    BY <1>1, SeqMonotonic
  <2>3. QED
    BY <2>1, <2>2
<1>6. CASE Expire
  <2>1. CASE running
    <3>1. rx_queue' = Append(rx_queue, Timeout)
      BY <1>6, <2>1 DEF Expire, Timeout
    <3>2. rx_queue' = rx_queue \o <<Timeout>> /\ <<Timeout>> \in Seq(Object)
      BY <1>1, <1>2, <3>1, AppendIsConcat
    <3>3. QED
      BY <1>4, <1>6, <2>1, <3>2
  <2>2. CASE ~running
    <3>1. rx_queue' = rx_queue
      BY <1>6, <2>2 DEF Expire
    <3>2. Adds(<<>>) /\ <<>> \in Seq(Object)
      BY <1>3, <1>4, <1>6, <3>1
    <3>3. QED
      BY <3>2
  <2>3. QED
    BY <2>1, <2>2
<1>7. CASE Answer \/ Change \/ PeerAsks \/ StopStream
  <2>1. rx_queue' = rx_queue \/ \E q \in Seq(Heard) : Says(q)
    BY <1>7, AnswerHeard, PeerHeard DEF StopStream
  <2>2. \A q \in Seq(Heard) : q \in Seq(Object)
    BY <1>1, SeqMonotonic
  <2>3. QED
    BY <1>3, <1>4, <1>7, <2>1, <2>2 DEF Says
<1>8. QED
  BY <1>5, <1>6, <1>7

LEMMA Grows ==
    ASSUME TypeOK, Run \/ Expire \/ Answer \/ Change \/ PeerAsks \/ StopStream
    PROVE  /\ rx_queue' \in Seq(Object)
           /\ Len(rx_queue') >= Len(rx_queue)
           /\ \A i \in DOMAIN rx_queue : i \in DOMAIN rx_queue' /\ rx_queue'[i] = rx_queue[i]
<1>1. PICK q \in Seq(Object) : rx_queue' = rx_queue \o q
  BY Received
<1>2. rx_queue \in Seq(Object)
  BY DEF TypeOK
<1>3. /\ rx_queue' \in Seq(Object) /\ Len(rx_queue') = Len(rx_queue) + Len(q)
      /\ \A i \in 1..Len(rx_queue) + Len(q) :
            rx_queue'[i] = IF i <= Len(rx_queue) THEN rx_queue[i] ELSE q[i - Len(rx_queue)]
  BY <1>1, <1>2, ConcatProperties
<1>4. /\ Len(rx_queue) \in Nat /\ Len(q) \in Nat /\ DOMAIN rx_queue = 1..Len(rx_queue)
      /\ DOMAIN rx_queue' = 1..(Len(rx_queue) + Len(q))
  BY <1>2, <1>3, LenProperties
<1>5. QED
  BY <1>3, <1>4

(* What is received leaves the threads where they were.                      *)
LEMMA QueueShape ==
    ASSUME TypeOK, Shape, Expire \/ Answer \/ Change \/ PeerAsks \/ StopStream PROVE Shape'
<1>1. todo' = todo
  BY DEF Expire, Answer, Change, PeerAsks, StopStream
<1>2. rx_queue # <<>> => rx_queue' # <<>>
  <2>1. Len(rx_queue') >= Len(rx_queue) /\ rx_queue' \in Seq(Object)
    BY Grows
  <2>2. rx_queue \in Seq(Object)
    BY DEF TypeOK
  <2>3. QED
    BY <2>1, <2>2, EmptySeq
<1>3. QED
  BY <1>1, <1>2 DEF Shape, Handling

LEMMA CallShape ==
    ASSUME TypeOK, Shape, NEW k \in AppKinds, Call(k) PROVE Shape'
<1>1. rx_queue' = rx_queue /\ k \in Kind
  BY ModulesAssumption DEF Call
<1>2. PICK item \in (IF k = "roster_set" THEN [jid : Jids, sub : {"none", "remove"}] ELSE {NoItem}) :
         Starts("app", <<[Ask(k) EXCEPT !.arg = item]>>)
  BY DEF Call
<1>3. item \in Item
  BY <1>2, NoItemIsItem DEF Item, Sub
<1>4. [Ask(k) EXCEPT !.arg = item] \in Request
  BY <1>1, <1>3 DEF Ask, Step, Request
<1>5. <<[Ask(k) EXCEPT !.arg = item]>> \in Seq(StepFor("app"))
  BY <1>4, RequestsAndTexts
<1>6. QED
  BY <1>1, <1>2, <1>5, StartsShape

LEMMA OtherCallShape == ASSUME TypeOK, Shape, OtherCall \/ CallText PROVE Shape'
<1>1. rx_queue' = rx_queue
  BY DEF OtherCall, CallText
<1>2. Texts \subseteq StepFor("app")
  <2>1. Texts \subseteq Text
    BY DEF Texts, Text, TypeOK
  <2>2. QED
    BY <2>1, RequestsAndTexts
<1>3. /\ \A n \in {0, 1} : Step("interval", "none", n) \in StepFor("app")
      /\ Step("state", "closing", 0) \in StepFor("app")
  BY DEF Step, StepFor, StepOK, State
<1>4. \/ \E n \in {0, 1} : Starts("app", <<Step("interval", "none", n)>>)
      \/ Starts("app", <<Step("state", "closing", 0)>>)
      \/ \E step \in Texts : Starts("app", <<step>>)
  BY DEF OtherCall, CallText
<1>5. PICK step \in StepFor("app") : Starts("app", <<step>>)
  BY <1>2, <1>3, <1>4
<1>6. <<step>> \in Seq(StepFor("app"))
  OBVIOUS
<1>7. QED
  BY <1>1, <1>5, <1>6, StartsShape

LEMMA RunShape == ASSUME TypeOK, Shape, Run \/ End PROVE Shape'
<1>1. Step("state", "closed", 0) \in StepFor("run")
  BY DEF Step, StepFor, StepOK, State
<1>2. CASE Run
  <2>1. Starts("run", <<>>) /\ <<>> \in Seq(StepFor("run"))
    BY <1>2 DEF Run
  <2>2. rx_queue # <<>> => rx_queue' # <<>>
    <3>1. Len(rx_queue') >= Len(rx_queue) /\ rx_queue' \in Seq(Object)
      BY <1>2, Grows
    <3>2. rx_queue \in Seq(Object)
      BY DEF TypeOK
    <3>3. QED
      BY <3>1, <3>2, EmptySeq
  <2>3. QED
    BY <2>1, <2>2, StartsShape
<1>3. CASE End
  <2>1. Starts("run", <<Step("state", "closed", 0)>>) /\ rx_queue' = rx_queue
    BY <1>3 DEF End
  <2>2. <<Step("state", "closed", 0)>> \in Seq(StepFor("run"))
    BY <1>1
  <2>3. QED
    BY <2>1, <2>2, StartsShape
<1>4. QED
  BY <1>2, <1>3

(* Every step keeps the steps of the threads in shape.                       *)
LEMMA ShapeStep == ASSUME TypeOK, Shape, [Next]_vars PROVE Shape'
<1>1. ASSUME NEW t \in Thread, Check(t) PROVE Shape'
  BY <1>1, CheckShape
<1>2. ASSUME NEW t \in Thread, Store(t) PROVE Shape'
  BY <1>2, StoreShape
<1>3. ASSUME NEW t \in Thread, Send(t) PROVE Shape'
  BY <1>3, DoneShape
<1>4. ASSUME NEW t \in Thread, ReadInterval(t) PROVE Shape'
  BY <1>4, KeepAliveShape
<1>5. ASSUME NEW t \in Thread, SetTimeout(t) PROVE Shape'
  BY <1>5, DoneShape
<1>6. ASSUME NEW t \in Thread, SetInterval(t) PROVE Shape'
  BY <1>6, KeepAliveShape
<1>7. ASSUME NEW t \in Thread, IfBound(t) PROVE Shape'
  BY <1>7, KeepAliveShape
<1>8. ASSUME NEW t \in Thread, Keep(t) PROVE Shape'
  BY <1>8, TextShape
<1>9. ASSUME NEW t \in Thread, Correct(t) PROVE Shape'
  BY <1>9, TextShape
<1>10. ASSUME NEW t \in Thread, ResetCorrection(t) PROVE Shape'
  BY <1>10, DoneShape
<1>11. ASSUME NEW t \in Thread, WriteMessage(t) PROVE Shape'
  BY <1>11, DoneShape
<1>12. ASSUME NEW t \in Thread, ChangeState(t) PROVE Shape'
  BY <1>12, ChangeStateShape
<1>13. ASSUME NEW t \in Thread, TellListener(t) PROVE Shape'
  BY <1>13, TellListenerShape
<1>14. CASE Rx
  BY <1>14, RxShape
<1>15. CASE Pop
  BY <1>15, PopShape
<1>16. CASE Respond
  BY <1>16, RespondShape
<1>17. CASE RespondText
  BY <1>17, RespondShape
<1>18. CASE Forget
  BY <1>18, RespondShape
<1>19. CASE Unhandled
  BY <1>19, UnhandledShape
<1>20. CASE Core
  BY <1>20, CoreShape
<1>21. CASE KeepAlive
  BY <1>21, CoreShape
<1>22. CASE Register
  BY <1>22, RegisterShape
<1>23. CASE Search
  BY <1>23, RequesterShape
<1>24. CASE Vcard
  BY <1>24, RequesterShape
<1>25. CASE Private
  BY <1>25, RequesterShape
<1>26. CASE Version
  BY <1>26, RequesterShape
<1>27. CASE Ping
  BY <1>27, RequesterShape
<1>28. CASE Disco
  BY <1>28, RequesterShape
<1>29. CASE SessionResult
  BY <1>29, SessionResultShape
<1>30. CASE Message
  BY <1>30, MessageShape
<1>31. CASE Presence
  BY <1>31, CoreShape
<1>32. CASE Roster
  BY <1>32, RosterShape
<1>33. CASE CallText
  BY <1>33, OtherCallShape
<1>34. CASE OtherCall
  BY <1>34, OtherCallShape
<1>35. CASE Run
  BY <1>35, RunShape
<1>36. CASE StopStream
  BY <1>36, QueueShape
<1>37. CASE End
  BY <1>37, RunShape
<1>38. CASE Expire
  BY <1>38, QueueShape
<1>39. CASE Answer
  BY <1>39, QueueShape
<1>40. CASE Change
  BY <1>40, QueueShape
<1>41. CASE PeerAsks
  BY <1>41, QueueShape
<1>42. ASSUME NEW k \in AppKinds, Call(k) PROVE Shape'
  BY <1>42, CallShape
<1>43. CASE UNCHANGED vars
  BY <1>43 DEF vars, Shape, Handling
<1>44. QED
  BY <1>1, <1>2, <1>3, <1>4, <1>5, <1>6, <1>7, <1>8, <1>9, <1>10, <1>11, <1>12, <1>13, <1>14, <1>15, <1>16, <1>17, <1>18, <1>19, <1>20, <1>21, <1>22, <1>23, <1>24, <1>25, <1>26, <1>27, <1>28, <1>29, <1>30, <1>31, <1>32, <1>33, <1>34, <1>35, <1>36, <1>37, <1>38, <1>39, <1>40, <1>41, <1>42, <1>43 DEF Next

-----------------------------------------------------------------------------
(* Types                                                                    *)

LEMMA StateType == ASSUME TypeOK, Shape, [Next]_vars PROVE state' \in State
<1>1. state' = state \/ Run \/ \E t \in Thread : ChangeState(t)
  BY Changes DEF Effects
<1>2. CASE state' = state
  BY <1>2 DEF TypeOK
<1>3. CASE Run
  BY <1>3 DEF Run, State
<1>4. ASSUME NEW t \in Thread, ChangeState(t) PROVE state' \in State
  <2>1. Now(t, "state") /\ (state' = state \/ state' = This(t).what)
    BY <1>4 DEF ChangeState
  <2>2. This(t) \in StepFor(t) /\ This(t).op = "state"
    BY <2>1, FirstStep
  <2>3. This(t).what \in State
    BY <2>2, StepKinds DEF StepFor
  <2>4. QED
    BY <2>1, <2>3 DEF TypeOK
<1>5. QED
  BY <1>1, <1>2, <1>3, <1>4

LEMMA SessionType ==
    ASSUME TypeOK, Shape, [Next]_vars
    PROVE  /\ running' \in BOOLEAN /\ session' \in Nat /\ timer' \in BOOLEAN
           /\ interested' \in BOOLEAN /\ fresh' \in BOOLEAN
<1>1. running' \in BOOLEAN
  <2>1. running' = running \/ Run \/ StopStream
    BY Changes DEF Effects
  <2>2. QED
    BY <2>1 DEF Run, StopStream, TypeOK
<1>2. session' \in Nat
  <2>1. session' = session \/ Run
    BY Changes DEF Effects
  <2>2. QED
    BY <2>1 DEF Run, TypeOK
<1>3. timer' \in BOOLEAN
  <2>1. timer' = timer \/ Expire \/ End \/ \E t \in Thread : SetTimeout(t)
    BY Changes DEF Effects
  <2>2. ASSUME NEW t \in Thread, SetTimeout(t) PROVE timer' \in BOOLEAN
    BY <2>2 DEF SetTimeout, Now
  <2>3. QED
    BY <2>1, <2>2 DEF Expire, End, TypeOK
<1>4. interested' \in BOOLEAN
  <2>1. interested' = interested \/ StopStream \/ Answer
    BY Changes DEF Effects
  <2>2. Answer => interested' = interested \/ interested' = TRUE
    BY DEF Answer
  <2>3. QED
    BY <2>1, <2>2 DEF StopStream, TypeOK
<1>5. fresh' \in BOOLEAN
  <2>1. fresh' = fresh \/ Run \/ Roster
    BY Changes DEF Effects
  <2>2. Roster => fresh' = fresh \/ fresh' = FALSE \/ fresh' = (Object0.of = session)
    BY DEF Roster
  <2>3. QED
    BY <2>1, <2>2 DEF Run, TypeOK
<1>6. QED
  BY <1>1, <1>2, <1>3, <1>4, <1>5

LEMMA CounterType ==
    ASSUME TypeOK, Shape, [Next]_vars
    PROVE  {texts', asks', calls', changes', peers'} \subseteq Nat
<1> USE DEF TypeOK
<1>1. texts' \in Nat
  <2>1. texts' = texts \/ RespondText \/ CallText
    BY Changes DEF Effects
  <2>2. texts \in Nat
    OBVIOUS
  <2>3. texts' \in {texts, texts + 1}
    BY <2>1 DEF RespondText, CallText, MayText
  <2>4. QED
    BY <2>2, <2>3
<1>2. asks' \in Nat
  <2>1. asks' = asks \/ \E t \in Thread : Check(t)
    BY Changes DEF Effects
  <2>2. (\E t \in Thread : Check(t)) => asks' = asks \/ asks' = asks + 1
    BY DEF Check
  <2>3. QED
    BY <2>1, <2>2
<1>3. calls' \in Nat
  <2>1. calls' = calls \/ OtherCall
    BY Changes DEF Effects
  <2>2. OtherCall => calls' = calls \/ calls' = calls + 1
    BY DEF OtherCall
  <2>3. QED
    BY <2>1, <2>2
<1>4. changes' \in Nat
  <2>1. changes' = changes \/ Change
    BY Changes DEF Effects
  <2>2. QED
    BY <2>1 DEF Change
<1>5. peers' \in Nat
  <2>1. peers' = peers \/ PeerAsks
    BY Changes DEF Effects
  <2>2. PeerAsks => peers' = peers + 1
    BY Zenon DEF PeerAsks
  <2>3. QED
    BY <2>1, <2>2
<1>6. QED
  BY <1>1, <1>2, <1>3, <1>4, <1>5

LEMMA ModulesType == ASSUME TypeOK, Shape, [Next]_vars PROVE modules' \in Seq(Module)
<1>1. modules' = modules \/ SessionResult
  BY Changes DEF Effects
<1>2. CASE SessionResult
  <2>1. modules' = modules \/ modules' = RemoveAt(modules, This("rx").n)
    BY <1>2 DEF SessionResult
  <2>2. Now("rx", "process") /\ This("rx").n <= Len(modules)
    BY <1>2 DEF SessionResult, Calls
  <2>3. modules \in Seq(Module) /\ Len(modules) \in Nat
    BY LenProperties DEF TypeOK
  <2>4. This("rx").n \in 1..Len(modules)
    BY <2>2, <2>3, CalledAlone
  <2>5. QED
    BY <2>1, <2>3, <2>4, RemovedAt
<1>3. QED
  BY <1>1, <1>2 DEF TypeOK

LEMMA IdsType ==
    ASSUME TypeOK, Shape, [Next]_vars
    PROVE  /\ ids' \in [Kind -> SUBSET Nat]
           /\ \A k \in Single : \E id \in ids'[k] : ids'[k] = {id}
<1> USE DEF TypeOK
<1>1. ids' = ids \/ Forget \/ \E t \in Thread : Store(t)
  BY Changes DEF Effects
<1>2. CASE Forget
  <2> DEFINE k == This("rx").what
  <2>1. Now("rx", "forget")
    BY <1>2 DEF Forget
  <2>2. This("rx") \in StepFor("rx") /\ This("rx").op = "forget"
    BY <2>1, FirstStep DEF Thread
  <2>3. k \in Kind
    BY <2>2, StepKinds DEF StepFor
  <2>4. ids' = [ids EXCEPT ![k] = IF k \in Single THEN {0} ELSE ids[k] \ {This("rx").n}]
    BY <1>2 DEF Forget
  <2> HIDE DEF k
  <2>5. ids' \in [Kind -> SUBSET Nat]
    BY <2>3, <2>4
  <2>6. \A j \in Kind : ids'[j] = ids[j] \/ (j = k /\ (k \in Single => ids'[j] = {0}))
    BY <2>3, <2>4
  <2>7. QED
    BY <2>5, <2>6, SingleKinds
<1>3. ASSUME NEW t \in Thread, Store(t)
      PROVE  /\ ids' \in [Kind -> SUBSET Nat]
             /\ \A k \in Single : \E id \in ids'[k] : ids'[k] = {id}
  <2> DEFINE k == This(t).what
  <2>1. Now(t, "store")
    BY <1>3 DEF Store
  <2>2. This(t) \in StepFor(t) /\ This(t).op = "store"
    BY <2>1, FirstStep
  <2>3. This(t) \in Request
    BY <2>2, StepKinds DEF StepFor
  <2>4. k \in Kind /\ This(t).n \in Nat
    BY <2>3 DEF Request
  <2>5. PICK id \in IdsFor(k, This(t).n) : ids' = ids \/ ids' = Stored(k, id)
    BY <1>3 DEF Store
  <2>6. id \in Nat
    BY <2>4, <2>5, IdsAreNumbers
  <2> HIDE DEF k
  <2>7. ids' = ids \/ ids' = [ids EXCEPT ![k] = IF k \in Single THEN {id} ELSE ids[k] \cup {id}]
    BY <2>5 DEF Stored
  <2>8. ids' \in [Kind -> SUBSET Nat]
    <3>1. (IF k \in Single THEN {id} ELSE ids[k] \cup {id}) \in SUBSET Nat
      BY <2>4, <2>6
    <3>2. \A new \in SUBSET Nat : [ids EXCEPT ![k] = new] \in [Kind -> SUBSET Nat]
      OBVIOUS
    <3>3. QED
      BY <2>7, <3>1, <3>2
  <2>9. \A j \in Kind : ids'[j] = ids[j] \/ (j = k /\ (k \in Single => ids'[j] = {id}))
    BY <2>4, <2>7
  <2>10. QED
    BY <2>8, <2>9, SingleKinds
<1>4. QED
  BY <1>1, <1>2, <1>3

LEMMA IntervalType == ASSUME TypeOK, Shape, [Next]_vars PROVE interval' \in Nat
<1>1. interval' = interval \/ \E t \in Thread : SetInterval(t)
  BY Changes DEF Effects
<1>2. ASSUME NEW t \in Thread, SetInterval(t) PROVE interval' \in Nat
  <2>1. Now(t, "interval") /\ interval' = This(t).n
    BY <1>2 DEF SetInterval
  <2>2. This(t) \in StepFor(t)
    BY <2>1, FirstStep
  <2>3. QED
    BY <2>1, <2>2, StepKinds DEF StepFor
<1>3. QED
  BY <1>1, <1>2 DEF TypeOK

LEMMA FirstObject ==
    ASSUME TypeOK, rx_queue # <<>>
    PROVE  Object0 \in Object /\ Tail(rx_queue) \in Seq(Object)
  BY HeadTailProperties DEF TypeOK, Object0

(* The roster after a push.                                                  *)
LEMMA HandlePushIs ==
    ASSUME NEW r \in Seq(Item), NEW item \in Item
    PROVE  \/ /\ \A i \in 1..Len(r) : r[i].jid # item.jid
              /\ HandlePush(r, item) = Append(r, item)
           \/ \E at \in 1..Len(r) :
                 /\ r[at].jid = item.jid /\ \A i \in 1..(at - 1) : r[i].jid # item.jid
                 /\ HandlePush(r, item) = IF item.sub = "remove" THEN RemoveAt(r, at)
                                          ELSE [r EXCEPT ![at] = item]
<1> DEFINE I == {i \in 1..Len(r) : r[i].jid = item.jid}
           at == SelectInSeq(r, LAMBDA i : i.jid = item.jid)
<1>1. Len(r) \in Nat
  BY LenProperties
<1>2. at = IF I # {} THEN Min(I) ELSE 0
  BY DEF SelectInSeq
<1>3. HandlePush(r, item) = IF at = 0 THEN Append(r, item)
                            ELSE IF item.sub = "remove" THEN RemoveAt(r, at)
                            ELSE [r EXCEPT ![at] = item]
  BY DEF HandlePush
<1>4. I # {} => Min(I) \in I /\ \A i \in I : Min(I) <= i
  BY <1>1, LeastIndex
<1>5. PICK a : a = at
  OBVIOUS
<1>6. HandlePush(r, item) = IF a = 0 THEN Append(r, item)
                            ELSE IF item.sub = "remove" THEN RemoveAt(r, a)
                            ELSE [r EXCEPT ![a] = item]
  BY <1>3, <1>5
<1>7. a = IF I # {} THEN Min(I) ELSE 0
  BY <1>2, <1>5
<1> HIDE DEF at
<1>8. CASE I = {}
  BY <1>6, <1>7, <1>8
<1>9. CASE I # {}
  <2>1. a \in 1..Len(r) /\ r[a].jid = item.jid /\ \A i \in 1..Len(r) : r[i].jid = item.jid => a <= i
    BY <1>4, <1>7, <1>9
  <2>2. \A i \in 1..(a - 1) : r[i].jid # item.jid
    BY <1>1, <2>1
  <2>3. a # 0
    BY <2>1
  <2>4. QED
    BY <1>6, <2>1, <2>2, <2>3
<1>10. QED
  BY <1>8, <1>9

LEMMA RosterType == ASSUME TypeOK, Shape, [Next]_vars PROVE roster' \in Seq(Item)
<1>1. roster' = roster \/ Roster
  BY Changes DEF Effects
<1>2. CASE Roster
  <2>1. Now("rx", "process")
    BY <1>2 DEF Roster, Calls
  <2>2. rx_queue # <<>>
    BY <2>1, CalledAlone
  <2>3. Object0.items \in Seq(Item)
    BY <2>2, FirstObject DEF Object
  <2>4. \/ roster' = Object0.items \/ roster' = <<>> \/ roster' = roster
        \/ Object0.items # <<>> /\ roster' = HandlePush(roster, Object0.items[1])
    BY <1>2 DEF Roster, RosterPush
  <2>5. roster \in Seq(Item)
    BY DEF TypeOK
  <2>6. ASSUME Object0.items # <<>> PROVE HandlePush(roster, Object0.items[1]) \in Seq(Item)
    <3>1. PICK item \in Item : item = Object0.items[1]
      BY <2>3, <2>6, EmptySeq, ElementOfSeq
    <3>2. Append(roster, item) \in Seq(Item)
      BY <2>5
    <3>3. \A at \in 1..Len(roster) : [roster EXCEPT ![at] = item] \in Seq(Item)
      BY <2>5, ExceptSeq
    <3>4. \A at \in 1..Len(roster) : RemoveAt(roster, at) \in Seq(Item)
      BY <2>5, RemovedAt
    <3>5. \/ HandlePush(roster, item) = Append(roster, item)
          \/ \E at \in 1..Len(roster) : \/ HandlePush(roster, item) = RemoveAt(roster, at)
                                       \/ HandlePush(roster, item) = [roster EXCEPT ![at] = item]
      BY <2>5, HandlePushIs
    <3>6. QED
      BY <3>1, <3>2, <3>3, <3>4, <3>5, Zenon
  <2>7. CASE Object0.items # <<>> /\ roster' = HandlePush(roster, Object0.items[1])
    BY <2>6, <2>7
  <2>8. CASE roster' = Object0.items \/ roster' = <<>> \/ roster' = roster
    BY <2>3, <2>5, <2>8, EmptySeq, Zenon
  <2>9. QED
    BY <2>4, <2>7, <2>8
<1>3. QED
  BY <1>1, <1>2 DEF TypeOK

(* A text step of a thread.                                                  *)
LEMMA TextStep ==
    ASSUME TypeOK, Shape, NEW t \in Thread, NEW op \in {"keep", "correct", "reset", "write"}, Now(t, op)
    PROVE  /\ This(t) \in Text
           /\ to_string(Jid(This(t).what)) \in Keys
<1>1. This(t) \in StepFor(t) /\ This(t).op = op
  BY FirstStep
<1>2. This(t) \in Text
  BY <1>1, StepKinds DEF StepFor
<1>3. QED
  BY <1>2 DEF Text, Keys

LEMMA KeptType ==
    ASSUME TypeOK, Shape, [Next]_vars
    PROVE  kept' \in [DOMAIN kept' -> Nat] /\ DOMAIN kept' \subseteq Keys
<1> USE DEF TypeOK
<1>1. kept' = kept \/ \E t \in Thread : Keep(t) \/ Correct(t) \/ ResetCorrection(t)
  BY Changes DEF Effects
<1>2. ASSUME NEW t \in Thread, Keep(t)
      PROVE  kept' \in [DOMAIN kept' -> Nat] /\ DOMAIN kept' \subseteq Keys
  <2>1. PICK to, out : to = to_string(Jid(This(t).what)) /\ kept' = Keeping(to, This(t).n, out)
    BY <1>2 DEF Keep
  <2>2. This(t).n \in Nat /\ to \in Keys
    BY <1>2, <2>1, TextStep DEF Keep, Text
  <2>3. kept' = [key \in (DOMAIN kept \ out) \cup {to} |-> IF key = to THEN This(t).n ELSE kept[key]]
    BY <2>1 DEF Keeping
  <2>4. QED
    BY <2>2, <2>3
<1>3. ASSUME NEW t \in Thread, Correct(t)
      PROVE  kept' \in [DOMAIN kept' -> Nat] /\ DOMAIN kept' \subseteq Keys
  <2>1. PICK key : \/ kept' = kept
                   \/ key \in DOMAIN kept /\ kept' = [kept EXCEPT ![key] = This(t).n]
    BY <1>3 DEF Correct
  <2>2. This(t).n \in Nat
    BY <1>3, TextStep DEF Correct, Text
  <2>3. QED
    BY <2>1, <2>2
<1>4. ASSUME NEW t \in Thread, ResetCorrection(t)
      PROVE  kept' \in [DOMAIN kept' -> Nat] /\ DOMAIN kept' \subseteq Keys
  <2>1. PICK K : K \subseteq DOMAIN kept /\ kept' = [key \in K |-> kept[key]]
    BY <1>4 DEF ResetCorrection
  <2>2. \A key \in K : kept[key] \in Nat
    BY <2>1
  <2>3. DOMAIN kept' = K /\ kept' \in [K -> Nat]
    BY <2>1, <2>2
  <2>4. QED
    BY <2>1, <2>3
<1>5. QED
  BY <1>1, <1>2, <1>3, <1>4

LEMMA SaidType ==
    ASSUME TypeOK, Shape, [Next]_vars
    PROVE  said' \in Seq([to : Keys, id : Nat, replaces : Nat])
<1> USE DEF TypeOK
<1>1. said' = said \/ \E t \in Thread : WriteMessage(t)
  BY Changes DEF Effects
<1>2. ASSUME NEW t \in Thread, WriteMessage(t)
      PROVE  said' \in Seq([to : Keys, id : Nat, replaces : Nat])
  <2>1. PICK m : /\ m = [to |-> to_string(Jid(This(t).what)), id |-> This(t).n, replaces |-> This(t).arg]
                 /\ said' = said \/ said' = Append(said, m)
    BY <1>2 DEF WriteMessage
  <2>2. m \in [to : Keys, id : Nat, replaces : Nat]
    BY <1>2, <2>1, TextStep DEF WriteMessage, Text
  <2>3. PICK S : S = [to : Keys, id : Nat, replaces : Nat]
    OBVIOUS
  <2>4. Append(said, m) \in Seq(S)
    BY <2>2, <2>3, AppendProperties
  <2>5. QED
    BY <2>1, <2>3, <2>4
<1>3. QED
  BY <1>1, <1>2

LEMMA QueueType ==
    ASSUME TypeOK, Shape, [Next]_vars
    PROVE  rx_queue' \in Seq(Object)
<1>1. rx_queue' = rx_queue \/ Pop \/ Run \/ Expire \/ Answer \/ Change \/ PeerAsks
  BY Changes DEF Effects
<1>2. CASE Pop
  <2>1. rx_queue # <<>>
    <3>1. todo["rx"] # <<>>
      BY <1>2 DEF Pop, Now
    <3>2. QED
      BY <3>1 DEF Shape
  <2>2. QED
    BY <1>2, <2>1, FirstObject DEF Pop
<1>3. CASE Run \/ Expire \/ Answer \/ Change \/ PeerAsks
  BY <1>3, Grows
<1>4. QED
  BY <1>1, <1>2, <1>3 DEF TypeOK

LEMMA DidType ==
    ASSUME TypeOK, Shape, [Next]_vars
    PROVE  did' \in Seq(Kind \cup {"message", "receipt", "presence", "reply"})
<1> DEFINE S == Kind \cup {"message", "receipt", "presence", "reply"}
<1>1. did' = did \/ Pop \/ Respond \/ RespondText
  BY Changes DEF Effects
<1>2. did \in Seq(S)
  BY DEF TypeOK
<1>3. CASE Respond \/ RespondText
  <2>1. \/ did' = Append(did, "reply")
        \/ Now("rx", "callback") /\ did' = Append(did, This("rx").what)
    BY <1>3 DEF Respond, RespondText
  <2>2. Now("rx", "callback") => This("rx").what \in S
    <3>1. SUFFICES ASSUME Now("rx", "callback") PROVE This("rx").what \in S
      OBVIOUS
    <3>2. This("rx") \in StepFor("rx") /\ This("rx").op = "callback"
      BY <3>1, FirstStep DEF Thread
    <3>3. QED
      BY <3>2, StepKinds DEF StepFor
  <2>3. "reply" \in S
    OBVIOUS
  <2> HIDE DEF S
  <2>4. did' \in Seq(S)
    BY <1>2, <2>1, <2>2, <2>3, AppendProperties
  <2>5. QED
    BY <2>4 DEF S
<1>4. CASE Pop
  BY <1>4, EmptySeq DEF Pop
<1>5. QED
  BY <1>1, <1>2, <1>3, <1>4

LEMMA WireType ==
    ASSUME TypeOK, Shape, [Next]_vars
    PROVE  wire' \subseteq [kind : Kind, id : Nat, item : Item]
<1>1. wire' = wire \/ StopStream \/ Answer \/ \E t \in Thread : Send(t)
  BY Changes DEF Effects
<1>2. wire \subseteq [kind : Kind, id : Nat, item : Item]
  BY DEF TypeOK
<1>3. CASE StopStream
  BY <1>3 DEF StopStream
<1>4. CASE Answer
  <2>1. \E req \in wire : wire' = wire \ {req}
    BY <1>4 DEF Answer
  <2>2. QED
    BY <1>2, <2>1
<1>5. ASSUME NEW t \in Thread, Send(t) PROVE wire' \subseteq [kind : Kind, id : Nat, item : Item]
  <2>1. Now(t, "send")
    BY <1>5 DEF Send
  <2>2. This(t) \in StepFor(t) /\ This(t).op = "send"
    BY <2>1, FirstStep
  <2>3. This(t) \in Request
    BY <2>2, StepKinds DEF StepFor
  <2>4. [kind |-> This(t).what, id |-> This(t).n, item |-> This(t).arg]
           \in [kind : Kind, id : Nat, item : Item]
    BY <2>3 DEF Request
  <2>5. QED
    BY <1>2, <1>5, <2>4 DEF Send
<1>6. QED
  BY <1>1, <1>2, <1>3, <1>4, <1>5

LEMMA ChangedType ==
    ASSUME TypeOK, NEW item \in Item, Changed(item)
    PROVE  /\ server' \in [DOMAIN server' -> Sub] /\ DOMAIN server' \subseteq Jids
           /\ IsFiniteSet(DOMAIN server')
<1>1. server \in [DOMAIN server -> Sub] /\ DOMAIN server \subseteq Jids /\ IsFiniteSet(DOMAIN server)
  BY DEF TypeOK
<1>2. item.jid \in Jids /\ item.sub \in Sub \cup {"remove"}
  BY DEF Item
<1>3. CASE item.sub = "remove"
  <2> DEFINE K == DOMAIN server \ {item.jid}
  <2>1. server' = [j \in K |-> server[j]]
    BY <1>3 DEF Changed
  <2>2. IsFiniteSet(K)
    BY <1>1, FS_RemoveElement
  <2>3. \A j \in K : server[j] \in Sub
    BY <1>1
  <2>4. DOMAIN server' = K /\ server' \in [K -> Sub]
    BY <2>1, <2>3
  <2>5. QED
    BY <1>1, <2>2, <2>4
<1>4. CASE item.sub # "remove"
  <2> DEFINE K == DOMAIN server \cup {item.jid}
  <2>1. server' = [j \in K |-> IF j = item.jid THEN item.sub ELSE server[j]]
    BY <1>4 DEF Changed
  <2>2. IsFiniteSet(K)
    BY <1>1, FS_AddElement
  <2>3. \A j \in K : (IF j = item.jid THEN item.sub ELSE server[j]) \in Sub
    BY <1>1, <1>2, <1>4
  <2>4. DOMAIN server' = K /\ server' \in [K -> Sub]
    BY <2>1, <2>3
  <2>5. QED
    BY <1>1, <1>2, <2>2, <2>4
<1>5. QED
  BY <1>3, <1>4

LEMMA ServerType ==
    ASSUME TypeOK, Shape, [Next]_vars
    PROVE  /\ server' \in [DOMAIN server' -> Sub] /\ DOMAIN server' \subseteq Jids
           /\ IsFiniteSet(DOMAIN server')
<1>1. server' = server \/ Answer \/ Change
  BY Changes DEF Effects
<1>2. Answer => server' = server \/ \E req \in wire : Changed(req.item)
  BY Zenon DEF Answer
<1>3. \A req \in wire : req.item \in Item
  BY DEF TypeOK
<1>4. Change => \E item \in Item : Changed(item)
  BY DEF Change
<1>5. server' = server \/ \E item \in Item : Changed(item)
  BY <1>1, <1>2, <1>3, <1>4
<1>6. CASE server' = server
  BY <1>6 DEF TypeOK
<1>7. QED
  BY <1>5, <1>6, ChangedType

LEMMA TypeStep == ASSUME TypeOK, Shape, [Next]_vars PROVE TypeOK'
<1>1. todo' \in [Thread -> Seq(StepOK)]
  BY ShapeStep DEF Shape
<1>2. QED
  BY <1>1, StateType, SessionType, CounterType, ModulesType, IdsType, IntervalType, RosterType,
     KeptType, SaidType, QueueType, DidType, WireType, ServerType DEF TypeOK

LEMMA TypeInit == Init => TypeOK /\ Shape
<1> SUFFICES ASSUME Init PROVE TypeOK /\ Shape
  OBVIOUS
<1> USE DEF Init
<1>1. modules \in Seq(Module) /\ roster \in Seq(Item) /\ rx_queue \in Seq(Object)
  BY ModulesAssumption, EmptySeq
<1>2. /\ ids \in [Kind -> SUBSET Nat]
      /\ \A k \in Single : \E id \in ids[k] : ids[k] = {id}
  BY SingleKinds
<1>3. kept \in [DOMAIN kept -> Nat] /\ DOMAIN kept \subseteq Keys
  OBVIOUS
<1>4. /\ said \in Seq([to : Keys, id : Nat, replaces : Nat])
      /\ did \in Seq(Kind \cup {"message", "receipt", "presence", "reply"})
  BY EmptySeq
<1>5. todo \in [Thread -> Seq(StepOK)] /\ \A t \in Thread : todo[t] = <<>>
  BY EmptySeq
<1>6. /\ server \in [DOMAIN server -> Sub] /\ DOMAIN server \subseteq Jids
      /\ IsFiniteSet(DOMAIN server)
  <2>1. CASE Registered("roster")
    <3>1. PICK js \in Rosters : server \in [js -> {"none"}]
      BY <2>1
    <3>2. DOMAIN server = js /\ server \in [js -> Sub]
      BY <3>1 DEF Sub
    <3>3. QED
      BY <3>1, <3>2, ModulesAssumption
  <2>2. CASE ~Registered("roster")
    <3>1. server = [j \in {} |-> "none"] /\ DOMAIN server = {}
      BY <2>2
    <3>2. server \in [{} -> Sub] /\ IsFiniteSet({})
      BY <3>1, FS_EmptySet
    <3>3. QED
      BY <3>1, <3>2
  <2>3. QED
    BY <2>1, <2>2
<1>7. state \in State /\ interval \in Nat
  BY DEF State
<1>8. TypeOK
  <2>1. /\ running \in BOOLEAN /\ timer \in BOOLEAN /\ interested \in BOOLEAN /\ fresh \in BOOLEAN
    OBVIOUS
  <2>2. session \in Nat /\ {texts, asks, calls, changes, peers} \subseteq Nat
    OBVIOUS
  <2>3. wire \subseteq [kind : Kind, id : Nat, item : Item]
    OBVIOUS
  <2> HIDE DEF Init
  <2>4. QED
    BY <1>1, <1>2, <1>3, <1>4, <1>5, <1>6, <1>7, <2>1, <2>2, <2>3 DEF TypeOK
<1>9. Shape
  BY <1>5, EmptySeq DEF Shape, Thread
<1>10. QED
  BY <1>8, <1>9

LEMMA TypesInvariant == Spec => [](TypeOK /\ Shape)
<1>1. Init => TypeOK /\ Shape
  BY TypeInit
<1>2. TypeOK /\ Shape /\ [Next]_vars => (TypeOK /\ Shape)'
  BY TypeStep, ShapeStep
<1>3. QED
  BY <1>1, <1>2, PTL DEF Spec

(* Every variable has its type, and every step a thread has left is one that  *)
(* it knows how to take, with arguments of the right kind.                    *)
THEOREM TypeCorrect == Spec => []TypeOK
  BY TypesInvariant, PTL

-----------------------------------------------------------------------------
(* The keep-alive timer                                                     *)

(* The timer is only cancelled once there is no interval, or no session left.*)
Cancels ==
    /\ \A step \in Range(todo["app"]) :
           /\ step.op = "cancel" => interval = 0 \/ state \in {"closing", "closed"}
           /\ step.op = "told" => state \in {"closing", "closed"}
           /\ step.op = "interval" => Len(todo["app"]) = 1
    /\ \A step \in Range(todo["run"]) : step.op \in {"told", "cancel"} => state = "closed"

(* No module but KeepAliveModule takes an expired timeout for something else. *)
Plains == \A i \in DOMAIN rx_queue : rx_queue[i].tag = "timeout" => rx_queue[i].query = "none"

(* Someone is to set the timer.                                              *)
Arms(step) ==
    \/ step.op \in {"arm", "timeout", "ifbound"}
    \/ step.what = "bound" /\ TellsKeepAlive(step)

Rearms == \E t \in Thread : \E step \in Range(todo[t]) : Arms(step)

Expired == \E i \in DOMAIN rx_queue : rx_queue[i].tag = "timeout" /\ ~(i = 1 /\ Handling)

Needed == Registered("keepalive") /\ running /\ state = "bound" /\ interval # 0

Lives == Needed => timer \/ Rearms \/ Expired

LEMMA ThenRange ==
    ASSUME Shape, NEW t \in Thread, todo[t] # <<>>, NEW S, NEW steps \in Seq(S), Then(t, steps)
    PROVE  /\ Range(todo'[t]) = Range(steps) \cup Range(Tail(todo[t]))
           /\ Range(todo[t]) = {This(t)} \cup Range(Tail(todo[t]))
           /\ \A u \in Thread \ {t} : todo'[u] = todo[u]
<1>1. todo \in [Thread -> Seq(StepOK)] /\ todo[t] \in Seq(StepOK)
  BY DEF Shape
<1>2. Tail(todo[t]) \in Seq(StepOK) /\ Range(todo[t]) = {This(t)} \cup Range(Tail(todo[t]))
  BY <1>1, HeadAndTail DEF This
<1>3. todo'[t] = steps \o Tail(todo[t]) /\ \A u \in Thread \ {t} : todo'[u] = todo[u]
  BY <1>1 DEF Then
<1>4. PICK U : U = S \cup StepOK
  OBVIOUS
<1>5. steps \in Seq(U) /\ Tail(todo[t]) \in Seq(U)
  BY <1>2, <1>4, SeqMonotonic
<1>6. Range(steps \o Tail(todo[t])) = Range(steps) \cup Range(Tail(todo[t]))
  BY <1>5, RangeConcatenation, ZenonT(30)
<1>7. QED
  BY <1>2, <1>3, <1>6

(* These steps are not about the timer or the state.                         *)
LEMMA Plain ==
    ASSUME Shape, NEW t \in Thread,
           \/ Check(t) \/ Store(t) \/ Send(t)
           \/ Keep(t) \/ Correct(t) \/ ResetCorrection(t) \/ WriteMessage(t)
    PROVE  /\ todo[t] # <<>>
           /\ This(t).op \in {"check", "store", "send", "keep", "correct", "reset", "write"}
           /\ \E S : \E steps \in Seq(S) :
                 /\ Then(t, steps)
                 /\ \A step \in Range(steps) : step.op \in {"store", "send", "write"}
           /\ UNCHANGED <<sessVars, interval, timer, modules, rx_queue>>
<1>1. /\ todo[t] # <<>>
      /\ This(t).op \in {"check", "store", "send", "keep", "correct", "reset", "write"}
  BY DEF Check, Store, Send, Keep, Correct, ResetCorrection, WriteMessage, Now, This
<1>2. UNCHANGED <<sessVars, interval, timer, modules, rx_queue>>
  BY DEF Check, Store, Send, Keep, Correct, ResetCorrection, WriteMessage, sessVars, modVars
<1>3. \/ Then(t, <<>>)
      \/ \E step : Then(t, <<step>>) /\ step.op \in {"store", "send", "write"}
  <2>1. \/ Then(t, <<>>)
        \/ \E op \in {"store", "send", "write"} : \E n :
             \/ Then(t, <<[This(t) EXCEPT !.op = op]>>)
             \/ Then(t, <<[This(t) EXCEPT !.op = op, !.n = n]>>)
             \/ Then(t, <<[This(t) EXCEPT !.op = op, !.arg = n]>>)
    BY DEF Check, Store, Send, Keep, Correct, ResetCorrection, WriteMessage
  <2>2. This(t) \in StepOK
    BY <1>1, HeadTailProperties DEF This, Shape
  <2>3. "op" \in DOMAIN This(t) /\ "n" \in DOMAIN This(t) /\ "arg" \in DOMAIN This(t)
    BY <2>2 DEF StepOK
  <2>4. \A op : [This(t) EXCEPT !.op = op].op = op
    BY <2>3
  <2>5. \A op, n : [This(t) EXCEPT !.op = op, !.n = n].op = op
    BY <2>3
  <2>6. \A op, n : [This(t) EXCEPT !.op = op, !.arg = n].op = op
    BY <2>3
  <2>7. CASE Then(t, <<>>)
    BY <2>7
  <2>8. ASSUME NEW op \in {"store", "send", "write"}, NEW n,
               \/ Then(t, <<[This(t) EXCEPT !.op = op]>>)
               \/ Then(t, <<[This(t) EXCEPT !.op = op, !.n = n]>>)
               \/ Then(t, <<[This(t) EXCEPT !.op = op, !.arg = n]>>)
        PROVE  \E step : Then(t, <<step>>) /\ step.op \in {"store", "send", "write"}
    <3>1. CASE Then(t, <<[This(t) EXCEPT !.op = op]>>)
      BY <2>4, <3>1
    <3>2. CASE Then(t, <<[This(t) EXCEPT !.op = op, !.n = n]>>)
      <4>1. PICK x : x = [This(t) EXCEPT !.op = op, !.n = n]
        OBVIOUS
      <4>2. x.op = op /\ Then(t, <<x>>)
        BY <2>5, <3>2, <4>1
      <4>3. QED
        BY <4>2
    <3>3. CASE Then(t, <<[This(t) EXCEPT !.op = op, !.arg = n]>>)
      <4>1. PICK x : x = [This(t) EXCEPT !.op = op, !.arg = n]
        OBVIOUS
      <4>2. x.op = op /\ Then(t, <<x>>)
        BY <2>6, <3>3, <4>1
      <4>3. QED
        BY <4>2
    <3>4. QED
      BY <2>8, <3>1, <3>2, <3>3
  <2>9. QED
    BY <2>1, <2>7, <2>8, Zenon
<1>4. /\ \A x : <<x>> \in Seq({x}) /\ Range(<<x>>) = {x}
      /\ <<>> \in Seq({}) /\ Range(<<>>) = {}
  <2>1. \A x : <<x>> \in Seq({x})
    OBVIOUS
  <2>2. QED
    BY <2>1, EmptySeq, OneElement
<1>5. CASE Then(t, <<>>)
  BY <1>1, <1>2, <1>4, <1>5
<1>6. CASE \E step : Then(t, <<step>>) /\ step.op \in {"store", "send", "write"}
  <2>1. PICK step : Then(t, <<step>>) /\ step.op \in {"store", "send", "write"}
    BY <1>6
  <2>2. <<step>> \in Seq({step}) /\ \A x \in Range(<<step>>) : x.op \in {"store", "send", "write"}
    BY <1>4, <2>1
  <2>3. QED
    BY <1>1, <1>2, <2>1, <2>2
<1>7. QED
  BY <1>3, <1>5, <1>6

LEMMA CancelsKept ==
    ASSUME Shape, Cancels, state' = state, interval' = interval, NEW t \in Thread,
           todo[t] # <<>>, NEW S, NEW steps \in Seq(S), Then(t, steps),
           t # "rx" => \A step \in Range(steps) :
               /\ step.op # "interval"
               /\ step.op \in {"cancel", "told"} =>
                     state = "closed" \/ (t = "app" /\ state = "closing")
    PROVE  Cancels'
<1>1. /\ Range(todo'[t]) = Range(steps) \cup Range(Tail(todo[t]))
      /\ Range(todo[t]) = {This(t)} \cup Range(Tail(todo[t]))
      /\ \A u \in Thread \ {t} : todo'[u] = todo[u]
  BY ThenRange
<1>2. CASE t = "rx"
  BY <1>1, <1>2 DEF Cancels, Thread
<1>3. CASE t = "run"
  BY <1>1, <1>3 DEF Cancels, Thread
<1>4. CASE t = "app"
  <2>1. todo'["run"] = todo["run"]
    BY <1>1, <1>4 DEF Thread
  <2>2. \A step \in Range(Tail(todo["app"])) : step.op # "interval"
    <3>1. SUFFICES ASSUME NEW step \in Range(Tail(todo["app"])), step.op = "interval" PROVE FALSE
      OBVIOUS
    <3>2. Len(todo["app"]) = 1
      BY <1>1, <1>4, <3>1 DEF Cancels
    <3>3. todo["app"] \in Seq(StepOK)
      BY DEF Shape, Thread
    <3>4. Tail(todo["app"]) \in Seq(StepOK) /\ Len(Tail(todo["app"])) = 0
      BY <1>4, <3>2, <3>3, HeadTailProperties
    <3>5. Tail(todo["app"]) = <<>>
      BY <3>4, EmptySeq
    <3>6. QED
      BY <3>1, <3>5, OneElement
  <2>3. QED
    BY <1>1, <1>4, <2>1, <2>2 DEF Cancels
<1>5. QED
  BY <1>2, <1>3, <1>4 DEF Thread

LEMMA ThisInRange ==
    ASSUME Shape, NEW t \in Thread, todo[t] # <<>> PROVE This(t) \in Range(todo[t])
  BY HeadAndTail DEF This, Shape

LEMMA SingleInterval ==
    ASSUME Shape, Cancels, todo["app"] # <<>>
    PROVE  \A step \in Range(Tail(todo["app"])) : step.op # "interval"
<1>1. SUFFICES ASSUME NEW step \in Range(Tail(todo["app"])), step.op = "interval" PROVE FALSE
  OBVIOUS
<1>2. todo["app"] \in Seq(StepOK)
  BY DEF Shape, Thread
<1>3. Len(todo["app"]) = 1
  BY <1>1, <1>2, HeadAndTail DEF Cancels
<1>4. Tail(todo["app"]) \in Seq(StepOK) /\ Len(Tail(todo["app"])) = 0
  BY <1>2, <1>3, HeadTailProperties
<1>5. Tail(todo["app"]) = <<>>
  BY <1>4, EmptySeq
<1>6. QED
  BY <1>1, <1>5, OneElement

(* The next listener that has something to do is told of the new state.      *)
LEMMA Told ==
    ASSUME TypeOK, Shape, NEW t \in Thread, TellListener(t)
    PROVE  \/ /\ Then(t, <<>>)
              /\ \A j \in DOMAIN modules : j >= This(t).n =>
                    OnStateChange(modules[j], This(t).what, This(t).arg) = <<>>
           \/ \E i \in DOMAIN modules : \E x, next : \E steps \in Seq({x, next}) :
                 /\ i >= This(t).n
                 /\ \A j \in DOMAIN modules : j >= This(t).n =>
                       \/ OnStateChange(modules[j], This(t).what, This(t).arg) = <<>>
                       \/ i <= j
                 /\ OnStateChange(modules[i], This(t).what, This(t).arg) = <<x>>
                 /\ x.op \in {"arm", "check", "cancel"}
                 /\ next = [op |-> "told", what |-> This(t).what, n |-> i + 1, arg |-> This(t).arg]
                 /\ Then(t, steps) /\ Range(steps) = {x, next}
<1>1. Now(t, "told")
  BY DEF TellListener
<1>2. This(t) \in StepFor(t) /\ This(t).op = "told"
  BY <1>1, FirstStep
<1>3. This(t) \in [op : {"told"}, what : State, n : Nat, arg : State]
  BY <1>2, StepKinds DEF StepFor
<1> DEFINE does(i) == OnStateChange(modules[i], This(t).what, This(t).arg)
<1>4. \/ /\ Then(t, <<>>)
         /\ \A j \in DOMAIN modules : j >= This(t).n => does(j) = <<>>
      \/ \E i \in DOMAIN modules :
            /\ i >= This(t).n /\ does(i) # <<>>
            /\ \A j \in DOMAIN modules : j >= This(t).n => does(j) = <<>> \/ i <= j
            /\ Then(t, does(i) \o <<[This(t) EXCEPT !.n = i + 1]>>)
  BY DEF TellListener
<1>5. ASSUME NEW i \in DOMAIN modules, does(i) # <<>>,
             Then(t, does(i) \o <<[This(t) EXCEPT !.n = i + 1]>>)
      PROVE  \E x, next : \E steps \in Seq({x, next}) :
                 /\ does(i) = <<x>> /\ x.op \in {"arm", "check", "cancel"}
                 /\ next = [op |-> "told", what |-> This(t).what, n |-> i + 1, arg |-> This(t).arg]
                 /\ Then(t, steps) /\ Range(steps) = {x, next}
  <2>1. modules[i] \in Module /\ i \in Nat
    BY ElementOfSeq, LenProperties DEF TypeOK
  <2>2. \A mod : Arm.op = "arm" /\ Ask(mod).op = "check" /\ Step("cancel", "none", 0).op = "cancel"
    BY DEF Arm, Ask, Step
  <2>3. PICK x : /\ does(i) = <<x>>
                 /\ x = Arm \/ (\E mod : x = Ask(mod)) \/ x = Step("cancel", "none", 0)
    <3>1. \E new \in StepFor(t) :
             /\ does(i) = <<new>>
             /\ \/ This(t).what = "bound" /\ modules[i] = "keepalive" /\ new = Arm
                \/ This(t).what = "bound" /\ modules[i] \in {"session", "disco"} /\ new = Ask(modules[i])
                \/ This(t).what # "bound" /\ new = Step("cancel", "none", 0)
      <4>1. PICK mod \in Module : mod = modules[i]
        BY <2>1
      <4>2. \/ OnStateChange(mod, This(t).what, This(t).arg) = <<>>
            \/ \E new \in StepFor(t) :
                 /\ OnStateChange(mod, This(t).what, This(t).arg) = <<new>>
                 /\ \/ This(t).what = "bound" /\ mod = "keepalive" /\ new = Arm
                    \/ This(t).what = "bound" /\ mod \in {"session", "disco"} /\ new = Ask(mod)
                    \/ This(t).what # "bound" /\ new = Step("cancel", "none", 0)
        BY <1>2, ListenerSteps
      <4>3. QED
        BY <1>5, <4>1, <4>2
    <3>2. QED
      BY <3>1
  <2>4. x.op \in {"arm", "check", "cancel"}
    BY <2>2, <2>3
  <2>5. PICK next : next = [This(t) EXCEPT !.n = i + 1]
    OBVIOUS
  <2>6. next = [op |-> "told", what |-> This(t).what, n |-> i + 1, arg |-> This(t).arg]
    BY <1>3, <2>5
  <2>7. PICK S : S = {x, next}
    OBVIOUS
  <2>8. <<x>> \in Seq(S) /\ <<next>> \in Seq(S)
    BY <2>7
  <2>9. PICK steps : steps = <<x>> \o <<next>>
    OBVIOUS
  <2>10. steps \in Seq(S)
    BY <2>8, <2>9, ConcatProperties
  <2>11. Range(steps) = {x, next}
    <3>1. Range(steps) = Range(<<x>>) \cup Range(<<next>>)
      BY <2>8, <2>9, RangeConcatenation, ZenonT(30)
    <3>2. QED
      BY <3>1, OneElement
  <2>12. Then(t, steps)
    BY <1>5, <2>3, <2>5, <2>9
  <2>13. QED
    BY <2>3, <2>4, <2>6, <2>7, <2>10, <2>11, <2>12
<1> HIDE DEF does
<1>6. CASE \E i \in DOMAIN modules :
             /\ i >= This(t).n /\ does(i) # <<>>
             /\ \A j \in DOMAIN modules : j >= This(t).n => does(j) = <<>> \/ i <= j
             /\ Then(t, does(i) \o <<[This(t) EXCEPT !.n = i + 1]>>)
  <2>1. PICK i \in DOMAIN modules :
             /\ i >= This(t).n /\ does(i) # <<>>
             /\ \A j \in DOMAIN modules : j >= This(t).n => does(j) = <<>> \/ i <= j
             /\ Then(t, does(i) \o <<[This(t) EXCEPT !.n = i + 1]>>)
    BY <1>6
  <2>2. PICK x, next : \E steps \in Seq({x, next}) :
                 /\ does(i) = <<x>> /\ x.op \in {"arm", "check", "cancel"}
                 /\ next = [op |-> "told", what |-> This(t).what, n |-> i + 1, arg |-> This(t).arg]
                 /\ Then(t, steps) /\ Range(steps) = {x, next}
    BY <1>5, <2>1
  <2>3. QED
    BY <2>1, <2>2 DEF does
<1>7. QED
  BY <1>4, <1>6 DEF does

LEMMA CallOps ==
    ASSUME CallText \/ OtherCall \/ \E k \in AppKinds : Call(k)
    PROVE  \E x : Starts("app", <<x>>)
              /\ x.op \in {"check", "interval", "state", "keep", "correct", "reset"}
<1>1. CASE CallText
  BY <1>1 DEF CallText, Texts
<1>2. CASE OtherCall
  BY <1>2 DEF OtherCall, Step
<1>3. CASE \E k \in AppKinds : Call(k)
  <2>1. \E k, item : Starts("app", <<[Ask(k) EXCEPT !.arg = item]>>)
    BY <1>3 DEF Call
  <2>2. \A k, item : [Ask(k) EXCEPT !.arg = item].op = "check"
    BY DEF Ask, Step
  <2>3. QED
    BY <2>1, <2>2
<1>4. QED
  BY <1>1, <1>2, <1>3

LEMMA CancelsKeptByOne ==
    ASSUME Shape, Cancels, state' = state, interval' = interval, NEW t \in Thread,
           todo[t] # <<>>, NEW x, Then(t, <<>>) \/ Then(t, <<x>>),
           t # "rx" => /\ x.op # "interval"
                       /\ x.op \in {"cancel", "told"} =>
                             state = "closed" \/ (t = "app" /\ state = "closing")
    PROVE  Cancels'
<1>1. <<x>> \in Seq({x}) /\ <<>> \in Seq({x})
  OBVIOUS
<1>2. Range(<<x>>) = {x} /\ Range(<<>>) = {}
  BY OneElement
<1>3. CASE Then(t, <<>>)
  BY <1>1, <1>2, <1>3, CancelsKept
<1>4. CASE Then(t, <<x>>)
  BY <1>1, <1>2, <1>4, CancelsKept
<1>5. QED
  BY <1>3, <1>4

(* What the steps of the rx thread leave to it.                              *)
LEMMA RxMoves ==
    ASSUME Shape,
           \/ Rx \/ Pop \/ Respond \/ RespondText \/ Forget \/ Unhandled
           \/ Core \/ KeepAlive \/ Register \/ Search \/ Vcard \/ Private
           \/ Version \/ Ping \/ Disco \/ SessionResult \/ Message \/ Presence \/ Roster
    PROVE  /\ UNCHANGED <<sessVars, interval, timer>>
           /\ todo'["app"] = todo["app"] /\ todo'["run"] = todo["run"]
<1>1. UNCHANGED <<sessVars, interval, timer>>
  BY DEF Rx, Pop, Respond, RespondText, Forget, Unhandled, Core, KeepAlive, Register, Search,
         Vcard, Private, Version, Ping, Disco, SessionResult, Message, Presence, Roster,
         Others, modVars
<1>2. \E steps : Then("rx", steps) \/ Starts("rx", steps)
  BY Zenon DEF Rx, Pop, Respond, RespondText, Forget, Unhandled, Core, KeepAlive, Register, Search,
         Vcard, Private, Version, Ping, Disco, SessionResult, Message, Presence, Roster,
         Takes, Handles, Passes
<1>3. \E steps : todo' = [todo EXCEPT !["rx"] = steps]
  BY <1>2 DEF Then, Starts
<1>4. QED
  BY <1>1, <1>3 DEF Shape, Thread

LEMMA CancelsStep ==
    ASSUME ~Overlap, TypeOK, Shape, Cancels, [Next]_vars PROVE Cancels'
<1>1. ASSUME NEW t \in Thread,
             \/ Check(t) \/ Store(t) \/ Send(t)
             \/ Keep(t) \/ Correct(t) \/ ResetCorrection(t) \/ WriteMessage(t)
      PROVE  Cancels'
  <2>1. todo[t] # <<>> /\ state' = state /\ interval' = interval
    BY <1>1, Plain DEF sessVars
  <2>2. PICK S : \E steps \in Seq(S) :
           /\ Then(t, steps)
           /\ \A step \in Range(steps) : step.op \in {"store", "send", "write"}
    BY <1>1, Plain
  <2>3. PICK steps \in Seq(S) :
           /\ Then(t, steps)
           /\ \A step \in Range(steps) : step.op \in {"store", "send", "write"}
    BY <2>2
  <2>4. \A step \in Range(steps) : step.op \notin {"interval", "cancel", "told"}
    BY <2>3
  <2>5. QED
    BY <2>1, <2>3, <2>4, CancelsKept
<1>2. ASSUME NEW t \in Thread, ReadInterval(t) \/ SetTimeout(t) \/ IfBound(t) PROVE Cancels'
  <2>1. todo[t] # <<>> /\ state' = state /\ interval' = interval
    BY <1>2 DEF ReadInterval, SetTimeout, IfBound, Now, sessVars, modVars
  <2>2. Then(t, <<>>) \/ Then(t, <<Step("timeout", "none", 0)>>)
    BY <1>2 DEF ReadInterval, SetTimeout, IfBound
  <2>3. Step("timeout", "none", 0).op = "timeout"
    BY DEF Step
  <2>4. QED
    BY <2>1, <2>2, <2>3, CancelsKeptByOne
<1>3. ASSUME NEW t \in Thread, SetInterval(t) PROVE Cancels'
  <2>1. Now(t, "interval") /\ state' = state /\ todo[t] # <<>>
    BY <1>3 DEF SetInterval, Now, sessVars
  <2>2. This(t) \in StepFor(t) /\ This(t).op = "interval"
    BY <2>1, FirstStep
  <2>3. t = "app"
    BY <2>2 DEF StepFor, Thread
  <2>4. PICK x : Then(t, <<x>>) /\ (x.op = "ifbound" \/ (x.op = "cancel" /\ interval' = 0))
    BY <1>3 DEF SetInterval, Step
  <2>5. <<x>> \in Seq({x}) /\ Range(<<x>>) = {x} /\ todo[t] # <<>>
    BY <2>1, OneElement
  <2>6. /\ Range(todo'["app"]) = {x} \cup Range(Tail(todo["app"]))
        /\ Range(todo["app"]) = {This("app")} \cup Range(Tail(todo["app"]))
        /\ todo'["run"] = todo["run"]
    <3>1. Then(t, <<x>>)
      BY <2>4
    <3>2. /\ Range(todo'[t]) = Range(<<x>>) \cup Range(Tail(todo[t]))
          /\ Range(todo[t]) = {This(t)} \cup Range(Tail(todo[t]))
          /\ \A u \in Thread \ {t} : todo'[u] = todo[u]
      BY <2>5, <3>1, ThenRange
    <3>3. QED
      BY <2>3, <2>5, <3>2 DEF Thread
  <2>7. Tail(todo["app"]) = <<>>
    <3>1. Len(todo["app"]) = 1
      BY <2>2, <2>3, <2>6 DEF Cancels
    <3>2. todo["app"] \in Seq(StepOK)
      BY DEF Shape, Thread
    <3>3. Tail(todo["app"]) \in Seq(StepOK) /\ Len(Tail(todo["app"])) = 0
      BY <2>1, <2>3, <3>1, <3>2, HeadTailProperties
    <3>4. QED
      BY <3>3, EmptySeq
  <2>8. Range(todo'["app"]) = {x}
    BY <2>6, <2>7, OneElement
  <2>9. QED
    BY <2>1, <2>4, <2>6, <2>8 DEF Cancels
<1>4. ASSUME NEW t \in Thread, ChangeState(t) PROVE Cancels'
  <2>1. Now(t, "state") /\ todo[t] # <<>> /\ interval' = interval
    BY <1>4 DEF ChangeState, Now, modVars
  <2>2. This(t) \in StepFor(t) /\ This(t).op = "state"
    BY <2>1, FirstStep
  <2>3. CASE state' = state /\ Then(t, <<>>)
    <3>1. <<>> \in Seq({}) /\ Range(<<>>) = {}
      BY EmptySeq, OneElement
    <3>2. QED
      BY <2>1, <2>3, <3>1, CancelsKept
  <2>4. CASE /\ Accepted(state, This(t).what) /\ state' = This(t).what
             /\ Then(t, <<[Step("told", This(t).what, 1) EXCEPT !.arg = state]>>)
    <3>1. PICK x : x = [Step("told", This(t).what, 1) EXCEPT !.arg = state]
      OBVIOUS
    <3>2. x.op = "told" /\ Then(t, <<x>>) /\ <<x>> \in Seq({x}) /\ Range(<<x>>) = {x}
      BY <2>4, <3>1, OneElement DEF Step
    <3>3. /\ Range(todo'[t]) = {x} \cup Range(Tail(todo[t]))
          /\ Range(todo[t]) = {This(t)} \cup Range(Tail(todo[t]))
          /\ \A u \in Thread \ {t} : todo'[u] = todo[u]
      BY <2>1, <3>2, ThenRange
    <3>4. CASE t = "rx"
      <4>1. This(t).what \in {"negotiating", "bound"}
        BY <2>2, <3>4 DEF StepFor
      <4>2. state \notin {"closing", "closed"}
        BY <2>4, <4>1 DEF Accepted
      <4>3. todo'["app"] = todo["app"] /\ todo'["run"] = todo["run"]
        BY <3>3, <3>4 DEF Thread
      <4>4. QED
        BY <2>1, <4>2, <4>3 DEF Cancels
    <3>5. CASE t = "app"
      <4>1. This(t).what = "closing"
        BY <2>2, <3>5 DEF StepFor
      <4>2. state # "closed" /\ state' = "closing"
        BY <2>4, <4>1 DEF Accepted
      <4>3. todo'["run"] = todo["run"]
        BY <3>3, <3>5 DEF Thread
      <4>4. \A step \in Range(Tail(todo["app"])) : step.op # "interval"
        BY <2>1, <3>3, <3>5, SingleInterval
      <4>5. QED
        BY <3>2, <3>3, <3>5, <4>2, <4>3, <4>4 DEF Cancels
    <3>6. CASE t = "run"
      <4>1. This(t).what = "closed"
        BY <2>2, <3>6 DEF StepFor
      <4>2. state' = "closed" /\ todo'["app"] = todo["app"]
        BY <2>4, <3>3, <3>6, <4>1 DEF Thread
      <4>3. QED
        BY <2>1, <4>2 DEF Cancels
    <3>7. QED
      BY <3>4, <3>5, <3>6 DEF Thread
  <2>5. QED
    BY <1>4, <2>3, <2>4 DEF ChangeState
<1>5. ASSUME NEW t \in Thread, TellListener(t) PROVE Cancels'
  <2>1. Now(t, "told") /\ todo[t] # <<>> /\ state' = state /\ interval' = interval
    BY <1>5 DEF TellListener, Now, sessVars, modVars
  <2>2. This(t) \in StepFor(t) /\ This(t).op = "told" /\ This(t) \in Range(todo[t])
    BY <2>1, FirstStep, ThisInRange
  <2>3. t # "rx" => state = "closed" \/ (t = "app" /\ state = "closing")
    BY <2>2 DEF Cancels, Thread
  <2>4. CASE Then(t, <<>>)
    <3>1. <<>> \in Seq({}) /\ Range(<<>>) = {}
      BY EmptySeq, OneElement
    <3>2. QED
      BY <2>1, <2>4, <3>1, CancelsKept
  <2>5. CASE \E x, next : \E steps \in Seq({x, next}) :
               /\ x.op \in {"arm", "check", "cancel"} /\ next.op = "told"
               /\ Then(t, steps) /\ Range(steps) = {x, next}
    <3>1. PICK x, next : \E steps \in Seq({x, next}) :
               /\ x.op \in {"arm", "check", "cancel"} /\ next.op = "told"
               /\ Then(t, steps) /\ Range(steps) = {x, next}
      BY <2>5
    <3>2. PICK steps \in Seq({x, next}) : Then(t, steps) /\ Range(steps) = {x, next}
      BY <3>1
    <3>3. \A step \in Range(steps) : step.op # "interval"
      BY <3>1, <3>2
    <3>4. QED
      BY <2>1, <2>3, <3>2, <3>3, CancelsKept
  <2>6. QED
    BY <1>5, <2>4, <2>5, Told
<1>6. CASE \/ Rx \/ Pop \/ Respond \/ RespondText \/ Forget \/ Unhandled
           \/ Core \/ KeepAlive \/ Register \/ Search \/ Vcard \/ Private
           \/ Version \/ Ping \/ Disco \/ SessionResult \/ Message \/ Presence \/ Roster
  BY <1>6, RxMoves DEF Cancels, sessVars
<1>7. CASE CallText \/ OtherCall \/ \E k \in AppKinds : Call(k)
  <2>1. state' = state /\ interval' = interval
    BY <1>7 DEF CallText, OtherCall, Call, sessVars, modVars
  <2>2. PICK x : Starts("app", <<x>>) /\ x.op \notin {"cancel", "told"}
    BY <1>7, CallOps
  <2>3. todo'["app"] = <<x>> /\ todo'["run"] = todo["run"]
    BY <2>2 DEF Starts, Shape, Thread
  <2>4. Range(todo'["app"]) = {x} /\ Len(todo'["app"]) = 1
    BY <2>3, OneElement
  <2>5. QED
    BY <2>1, <2>2, <2>3, <2>4 DEF Cancels
<1>8. CASE Run
  <2>1. todo["app"] = <<>> /\ todo' = [todo EXCEPT !["run"] = <<>>]
    BY <1>8 DEF Run, Starts
  <2>2. todo'["app"] = <<>> /\ todo'["run"] = <<>>
    BY <2>1 DEF Shape, Thread
  <2>3. QED
    BY <2>2, OneElement DEF Cancels
<1>9. CASE End
  <2>1. state' = state /\ interval' = interval
    BY <1>9 DEF End, sessVars
  <2>2. PICK x : x.op = "state" /\ todo' = [todo EXCEPT !["run"] = <<x>>]
    BY <1>9 DEF End, Starts, Step
  <2>3. todo'["app"] = todo["app"] /\ todo'["run"] = <<x>>
    BY <2>2 DEF Shape, Thread
  <2>4. QED
    BY <2>1, <2>2, <2>3, OneElement DEF Cancels
<1>10. CASE \/ StopStream \/ Expire \/ Answer \/ Change \/ PeerAsks \/ UNCHANGED vars
  <2>1. state' = state /\ interval' = interval /\ todo' = todo
    BY <1>10 DEF StopStream, Expire, Answer, Change, PeerAsks, vars, sessVars, modVars
  <2>2. QED
    BY <2>1 DEF Cancels
<1>11. QED
  BY <1>1, <1>2, <1>3, <1>4, <1>5, <1>6, <1>7, <1>8, <1>9, <1>10 DEF Next
-----------------------------------------------------------------------------
(* The timeouts that have expired                                           *)

LEMMA HandlingIsNotProcess == ASSUME Handling PROVE ~Now("rx", "process")
<1>1. PICK s \in Seq(StepFor("rx")) : todo["rx"] = Append(s, Popping)
  BY DEF Handling
<1>2. CASE s = <<>>
  BY <1>1, <1>2, HeadTailAppend DEF Popping, Step, Now
<1>3. CASE s # <<>>
  BY <1>1, <1>3, HeadTailAppend, HeadTailProperties DEF StepFor, Now
<1>4. QED
  BY <1>2, <1>3

(* A thread other than rx does not touch what the rx thread looks at.        *)
LEMMA ThreadMoves ==
    ASSUME TypeOK, Shape, NEW t \in Thread,
           \/ Check(t) \/ Store(t) \/ Send(t)
           \/ ReadInterval(t) \/ SetTimeout(t) \/ SetInterval(t) \/ IfBound(t)
           \/ Keep(t) \/ Correct(t) \/ ResetCorrection(t) \/ WriteMessage(t)
           \/ ChangeState(t) \/ TellListener(t)
    PROVE  /\ rx_queue' = rx_queue /\ modules' = modules
           /\ \A u \in Thread \ {t} : todo'[u] = todo[u]
           /\ t = "rx" => Handling'
<1>1. rx_queue' = rx_queue /\ modules' = modules
  BY DEF Check, Store, Send, ReadInterval, SetTimeout, SetInterval, IfBound, Keep, Correct,
         ResetCorrection, WriteMessage, ChangeState, TellListener, modVars
<1>2. \E steps : Then(t, steps)
  BY Zenon DEF Check, Store, Send, ReadInterval, SetTimeout, SetInterval, IfBound, Keep, Correct,
         ResetCorrection, WriteMessage, ChangeState, TellListener
<1>3. \A u \in Thread \ {t} : todo'[u] = todo[u]
  BY <1>2 DEF Then, Shape
<1>4. t = "rx" => Handling'
  BY CheckShape, StoreShape, DoneShape, KeepAliveShape, TextShape, ChangeStateShape,
     TellListenerShape
<1>5. QED
  BY <1>1, <1>3, <1>4

(* A module passes the object on, or has handled it.                         *)
LEMMA HandlerMoves ==
    ASSUME TypeOK, Shape, NEW mod \in Module,
           \/ (mod = "core" /\ Core) \/ (mod = "register" /\ Register)
           \/ (mod = "search" /\ Search) \/ (mod = "vcard" /\ Vcard) \/ (mod = "private" /\ Private)
           \/ (mod = "version" /\ Version) \/ (mod = "ping" /\ Ping) \/ (mod = "disco" /\ Disco)
           \/ (mod = "session" /\ SessionResult) \/ (mod = "message" /\ Message)
           \/ (mod = "presence" /\ Presence) \/ (mod = "roster" /\ Roster)
           \/ (mod = "keepalive" /\ KeepAlive)
    PROVE  /\ Calls(mod) /\ rx_queue' = rx_queue
           /\ ((Passes /\ modules' = modules) \/ Handling')
           /\ mod = "keepalive" => (Object0.tag = "timeout" => Handling')
<1>1. Calls(mod) /\ rx_queue' = rx_queue
  BY DEF Core, KeepAlive, Register, Search, Vcard, Private, Version, Ping, Disco,
         SessionResult, Message, Presence, Roster, Others
<1>2. Passes \/ Handling'
  BY RequesterShape, RegisterShape, SessionResultShape, CoreShape, MessageShape, RosterShape
<1>3. modules' = modules \/ (SessionResult /\ Takes("session"))
  BY DEF Core, KeepAlive, Register, Search, Vcard, Private, Version, Ping, Disco,
         SessionResult, Message, Presence, Roster, Others, modVars
<1>4. SessionResult /\ Takes("session") => Handling'
  BY <1>1, KindNames, TakesShape DEF Calls
<1>5. mod = "keepalive" /\ Object0.tag = "timeout" => Handling'
  <2>1. SUFFICES ASSUME KeepAlive, Object0.tag = "timeout" PROVE Handling'
    OBVIOUS
  <2>2. Handles(<<Arm>>) /\ Now("rx", "process")
    BY <2>1 DEF KeepAlive, Calls
  <2>3. Arm \in StepFor("rx")
    BY DEF Arm, Step, StepFor, StepOK
  <2>4. QED
    BY <1>1, <2>2, <2>3, OneHandled
<1>6. QED
  BY <1>1, <1>2, <1>3, <1>4, <1>5

LEMMA QueueHead ==
    ASSUME TypeOK, rx_queue # <<>>,
           Run \/ Expire \/ Answer \/ Change \/ PeerAsks \/ StopStream
    PROVE  Object0' = Object0
<1>1. rx_queue \in Seq(Object) /\ rx_queue' \in Seq(Object) /\ Len(rx_queue') >= Len(rx_queue)
      /\ \A i \in DOMAIN rx_queue : i \in DOMAIN rx_queue' /\ rx_queue'[i] = rx_queue[i]
  BY Grows DEF TypeOK
<1>2. 1 \in DOMAIN rx_queue /\ rx_queue' # <<>>
  <2>1. Len(rx_queue) \in Nat \ {0} /\ DOMAIN rx_queue = 1..Len(rx_queue)
    BY <1>1, EmptySeq, LenProperties
  <2>2. QED
    BY <1>1, <2>1, EmptySeq
<1>3. Head(rx_queue) = rx_queue[1] /\ Head(rx_queue') = rx_queue'[1]
  BY <1>1, <1>2, HeadTailProperties
<1>4. QED
  BY <1>1, <1>2, <1>3 DEF Object0

LEMMA PlainsStep ==
    ASSUME TypeOK, Shape, Plains, [Next]_vars
    PROVE  Plains'
<1>1. \A i \in DOMAIN rx_queue : rx_queue[i].tag = "timeout" => rx_queue[i].query = "none"
  BY DEF Plains
<1>2. rx_queue \in Seq(Object) /\ Len(rx_queue) \in Nat /\ DOMAIN rx_queue = 1..Len(rx_queue)
  BY LenProperties DEF TypeOK
<1>3. CASE rx_queue' = rx_queue
  BY <1>1, <1>3 DEF Plains
<1>4. CASE Pop
  <2>1. rx_queue # <<>> /\ rx_queue' = Tail(rx_queue)
    <3>1. todo["rx"] = <<Popping>>
      BY <1>4, PopShape
    <3>2. \A n : <<Popping>> # <<Process(n)>>
      <4>1. \A n : <<Popping>>[1] # <<Process(n)>>[1]
        BY DEF Popping, Process, Step
      <4>2. QED
        BY <4>1
    <3>3. QED
      BY <1>4, <3>1, <3>2 DEF Shape, Pop
  <2>2. /\ rx_queue' \in Seq(Object) /\ Len(rx_queue') = Len(rx_queue) - 1
        /\ \A i \in 1..Len(rx_queue') : rx_queue'[i] = rx_queue[i + 1]
    BY <1>2, <2>1, HeadTailProperties
  <2>3. Len(rx_queue) # 0
    BY <1>2, <2>1, EmptySeq
  <2>4. DOMAIN rx_queue' = 1..(Len(rx_queue) - 1)
    BY <2>2, LenProperties
  <2>5. \A i \in DOMAIN rx_queue' : i + 1 \in DOMAIN rx_queue /\ rx_queue'[i] = rx_queue[i + 1]
    BY <1>2, <2>2, <2>3, <2>4
  <2>6. QED
    BY <1>1, <2>5 DEF Plains
<1>5. CASE Run \/ Expire \/ Answer \/ Change \/ PeerAsks
  <2>1. PICK q \in Seq(Object) :
           /\ rx_queue' = rx_queue \o q
           /\ q \in Seq(Heard) \/ q = <<Timeout>>
    BY <1>5, Received
  <2>2. Len(q) \in Nat /\ DOMAIN q = 1..Len(q)
    BY LenProperties
  <2>3. \A i \in DOMAIN q : q[i].tag = "timeout" => q[i].query = "none"
    <3>1. CASE q \in Seq(Heard)
      <4>1. \A i \in DOMAIN q : q[i] \in Heard
        BY <2>2, <3>1, ElementOfSeq
      <4>2. QED
        BY <4>1 DEF Heard
    <3>2. CASE q = <<Timeout>>
      BY <3>2 DEF Timeout
    <3>3. QED
      BY <2>1, <3>1, <3>2
  <2>4. /\ Len(rx_queue') = Len(rx_queue) + Len(q) /\ rx_queue' \in Seq(Object)
        /\ \A i \in 1..Len(rx_queue) + Len(q) :
              rx_queue'[i] = IF i <= Len(rx_queue) THEN rx_queue[i] ELSE q[i - Len(rx_queue)]
    BY <1>2, <2>1, ConcatProperties
  <2>5. DOMAIN rx_queue' = 1..(Len(rx_queue) + Len(q))
    BY <2>4, LenProperties
  <2>6. \A i \in DOMAIN rx_queue' :
           \/ i \in DOMAIN rx_queue /\ rx_queue'[i] = rx_queue[i]
           \/ i - Len(rx_queue) \in DOMAIN q /\ rx_queue'[i] = q[i - Len(rx_queue)]
    BY <1>2, <2>2, <2>4, <2>5
  <2>7. QED
    BY <1>1, <2>3, <2>6 DEF Plains
<1>6. QED
  BY <1>3, <1>4, <1>5, Changes DEF Effects

(* While a timeout is handed from module to module, KeepAliveModule is yet   *)
(* to come.                                                                  *)
Ahead ==
    Now("rx", "process") /\ Object0.tag = "timeout" /\ Registered("keepalive")
        => \E i \in DOMAIN modules : i >= This("rx").n /\ modules[i] = "keepalive"

LEMMA FirstAhead ==
    ASSUME TypeOK, Registered("keepalive"), todo["rx"] = <<Process(1)>>
    PROVE  Ahead
<1>1. This("rx").n = 1
  BY DEF This, Process, Step
<1>2. modules \in Seq(Module) /\ DOMAIN modules = 1..Len(modules)
  BY LenProperties DEF TypeOK
<1>3. PICK i \in DOMAIN modules : modules[i] = "keepalive"
  BY DEF Registered, Range
<1>4. i >= 1
  BY <1>2
<1>5. QED
  BY <1>1, <1>3, <1>4 DEF Ahead

LEMMA AheadStep ==
    ASSUME TypeOK, Shape, Ahead, [Next]_vars, TypeOK' PROVE Ahead'
<1>1. Handling' => Ahead'
  BY HandlingIsNotProcess, PTL DEF Ahead
<1>2. ASSUME todo'["rx"] = <<Process(1)>> PROVE Ahead'
  <2>1. CASE Registered("keepalive")'
    <3>1. (TypeOK /\ Registered("keepalive") /\ todo["rx"] = <<Process(1)>>)'
      BY <1>2, <2>1
    <3>2. QED
      BY <3>1, FirstAhead, PTL
  <2>2. CASE ~Registered("keepalive")'
    BY <2>2 DEF Ahead
  <2>3. QED
    BY <2>1, <2>2
<1>3. ASSUME NEW t \in Thread,
             \/ Check(t) \/ Store(t) \/ Send(t)
             \/ ReadInterval(t) \/ SetTimeout(t) \/ SetInterval(t) \/ IfBound(t)
             \/ Keep(t) \/ Correct(t) \/ ResetCorrection(t) \/ WriteMessage(t)
             \/ ChangeState(t) \/ TellListener(t)
      PROVE  Ahead'
  <2>1. /\ rx_queue' = rx_queue /\ modules' = modules
        /\ \A u \in Thread \ {t} : todo'[u] = todo[u]
        /\ t = "rx" => Handling'
    BY <1>3, ThreadMoves
  <2>2. CASE t = "rx"
    BY <1>1, <2>1, <2>2
  <2>3. CASE t # "rx"
    BY <2>1, <2>3 DEF Ahead, Now, This, Object0, Registered, Thread
  <2>4. QED
    BY <2>2, <2>3
<1>4. CASE Rx
  BY <1>2, <1>4, RxShape DEF Shape, Thread
<1>5. CASE Pop
  <2>1. todo'["rx"] = IF rx_queue' = <<>> THEN <<>> ELSE <<Process(1)>>
    BY <1>5, PopShape DEF Shape, Thread
  <2>2. CASE todo'["rx"] = <<>>
    BY <2>2 DEF Ahead, Now
  <2>3. QED
    BY <1>2, <2>1, <2>2
<1>6. CASE Respond \/ RespondText \/ Forget
  BY <1>1, <1>6, RespondShape
<1>7. CASE Unhandled
  BY <1>1, <1>7, UnhandledShape
<1>8. ASSUME NEW mod \in Module,
             \/ (mod = "core" /\ Core) \/ (mod = "register" /\ Register)
             \/ (mod = "search" /\ Search) \/ (mod = "vcard" /\ Vcard) \/ (mod = "private" /\ Private)
             \/ (mod = "version" /\ Version) \/ (mod = "ping" /\ Ping) \/ (mod = "disco" /\ Disco)
             \/ (mod = "session" /\ SessionResult) \/ (mod = "message" /\ Message)
             \/ (mod = "presence" /\ Presence) \/ (mod = "roster" /\ Roster)
             \/ (mod = "keepalive" /\ KeepAlive)
      PROVE  Ahead'
  <2>1. /\ Calls(mod) /\ rx_queue' = rx_queue
        /\ ((Passes /\ modules' = modules) \/ Handling')
        /\ mod = "keepalive" => (Object0.tag = "timeout" => Handling')
    BY <1>8, HandlerMoves
  <2>2. CASE Handling'
    BY <1>1, <2>2
  <2>3. CASE Passes /\ modules' = modules /\ ~Handling'
    <3>1. /\ Now("rx", "process") /\ This("rx").n \in Nat \ {0}
          /\ modules[This("rx").n] = mod
      BY <2>1, CalledAlone DEF Calls
    <3>2. todo' = [todo EXCEPT !["rx"] = <<Process(This("rx").n + 1)>>]
      BY <2>1, <2>3, <3>1, PassesShape
    <3>3. todo'["rx"] = <<Process(This("rx").n + 1)>>
      BY <3>2 DEF Shape, Thread
    <3>4. This("rx")'.n = This("rx").n + 1
      BY <3>3 DEF This, Process, Step
    <3>5. SUFFICES ASSUME Object0.tag = "timeout", Registered("keepalive")
                   PROVE \E i \in DOMAIN modules : i >= This("rx").n + 1 /\ modules[i] = "keepalive"
      BY <2>1, <2>3, <3>4 DEF Ahead, Object0, Registered
    <3>6. PICK i \in DOMAIN modules : i >= This("rx").n /\ modules[i] = "keepalive"
      BY <3>1, <3>5 DEF Ahead
    <3>7. i # This("rx").n
      BY <2>1, <2>3, <3>1, <3>5, <3>6
    <3>8. i \in Nat
      <4>1. DOMAIN modules = 1..Len(modules) /\ Len(modules) \in Nat
        BY LenProperties DEF TypeOK
      <4>2. QED
        BY <3>6, <4>1
    <3>9. i >= This("rx").n + 1
      BY <3>1, <3>6, <3>7, <3>8
    <3>10. QED
      BY <3>6, <3>9
  <2>4. QED
    BY <2>1, <2>2, <2>3
<1>9. CASE \/ CallText \/ OtherCall \/ Run \/ StopStream \/ End \/ Expire
           \/ Answer \/ Change \/ PeerAsks \/ (\E k \in AppKinds : Call(k)) \/ UNCHANGED vars
  <2>1. modules' = modules
    BY <1>9 DEF CallText, OtherCall, Run, StopStream, End, Expire, Answer, Change, PeerAsks,
                Call, vars, modVars
  <2>2. todo'["rx"] = todo["rx"]
    <3>1. todo' = todo \/ \E t \in {"app", "run"} : \E steps : todo' = [todo EXCEPT ![t] = steps]
      BY <1>9 DEF CallText, OtherCall, Run, StopStream, End, Expire, Answer, Change, PeerAsks,
                  Call, vars, Starts
    <3>2. QED
      BY <3>1 DEF Shape, Thread
  <2>3. Now("rx", "process") => Object0' = Object0
    <3>1. SUFFICES ASSUME Now("rx", "process") PROVE Object0' = Object0
      OBVIOUS
    <3>2. rx_queue # <<>>
      BY <3>1, CalledAlone
    <3>3. \/ rx_queue' = rx_queue
          \/ Run \/ StopStream \/ Expire \/ Answer \/ Change \/ PeerAsks
      BY <1>9 DEF CallText, OtherCall, End, Call, vars
    <3>4. QED
      BY <3>2, <3>3, QueueHead DEF Object0
  <2>4. QED
    BY <2>1, <2>2, <2>3 DEF Ahead, Now, This, Registered
<1>10. {"core", "keepalive", "register", "search", "vcard", "private", "version", "ping", "disco",
        "session", "message", "presence", "roster"} \subseteq Module
  BY DEF Module
<1>11. CASE Core
  BY <1>8, <1>10, <1>11, Zenon
<1>12. CASE KeepAlive
  BY <1>8, <1>10, <1>12, Zenon
<1>13. CASE Register
  BY <1>8, <1>10, <1>13, Zenon
<1>14. CASE Search
  BY <1>8, <1>10, <1>14, Zenon
<1>15. CASE Vcard
  BY <1>8, <1>10, <1>15, Zenon
<1>16. CASE Private
  BY <1>8, <1>10, <1>16, Zenon
<1>17. CASE Version
  BY <1>8, <1>10, <1>17, Zenon
<1>18. CASE Ping
  BY <1>8, <1>10, <1>18, Zenon
<1>19. CASE Disco
  BY <1>8, <1>10, <1>19, Zenon
<1>20. CASE SessionResult
  BY <1>8, <1>10, <1>20, Zenon
<1>21. CASE Message
  BY <1>8, <1>10, <1>21, Zenon
<1>22. CASE Presence
  BY <1>8, <1>10, <1>22, Zenon
<1>23. CASE Roster
  BY <1>8, <1>10, <1>23, Zenon
<1>24. QED
  BY <1>3, <1>4, <1>5, <1>6, <1>7, <1>9, <1>11, <1>12, <1>13, <1>14, <1>15, <1>16, <1>17, <1>18, <1>19, <1>20, <1>21, <1>22, <1>23 DEF Next

-----------------------------------------------------------------------------
(* The keep-alive lives                                                     *)

LEMMA ArmsSame ==
    ASSUME modules' = modules, NEW step PROVE Arms(step)' <=> Arms(step)
  BY DEF Arms, TellsKeepAlive

(* A thread does its first step: what was to set the timer still is.         *)
LEMMA RearmsThen ==
    ASSUME Shape, modules' = modules, NEW t \in Thread, todo[t] # <<>>,
           NEW S, NEW steps \in Seq(S), Then(t, steps),
           \/ Rearms /\ (Arms(This(t)) => \E step \in Range(steps) : Arms(step))
           \/ \E step \in Range(steps) : Arms(step)
    PROVE  Rearms'
<1>1. /\ Range(todo'[t]) = Range(steps) \cup Range(Tail(todo[t]))
      /\ Range(todo[t]) = {This(t)} \cup Range(Tail(todo[t]))
      /\ \A u \in Thread \ {t} : todo'[u] = todo[u]
  BY ThenRange
<1>2. SUFFICES \E u \in Thread : \E step \in Range(todo'[u]) : Arms(step)
  BY ArmsSame DEF Rearms
<1>3. CASE \E step \in Range(steps) : Arms(step)
  BY <1>1, <1>3
<1>4. CASE Rearms /\ ~Arms(This(t))
  <2>1. PICK u \in Thread : \E step \in Range(todo[u]) : Arms(step)
    BY <1>4 DEF Rearms
  <2>2. PICK step \in Range(todo[u]) : Arms(step)
    BY <2>1
  <2>3. step \in Range(todo'[u])
    BY <1>1, <1>4, <2>2
  <2>4. QED
    BY <2>2, <2>3
<1>5. QED
  BY <1>3, <1>4

(* The rx thread does nothing that was to set the timer.                     *)
LEMMA RearmsOfOthers ==
    ASSUME Shape, Rearms, NEW t \in Thread, \A step \in Range(todo[t]) : ~Arms(step),
           \A u \in Thread \ {t} : todo'[u] = todo[u],
           modules' = modules \/ t = "rx"
    PROVE  Rearms'
<1>1. PICK u \in Thread : \E step \in Range(todo[u]) : Arms(step)
  BY DEF Rearms
<1>2. PICK step \in Range(todo[u]) : Arms(step)
  BY <1>1
<1>3. u # t /\ todo'[u] = todo[u]
  BY <1>2
<1>4. Arms(step)'
  <2>1. CASE modules' = modules
    BY <1>2, <2>1, ArmsSame
  <2>2. CASE t = "rx"
    <3>1. todo[u] \in Seq(StepFor(u))
      BY <1>3, <2>2 DEF Shape, Thread
    <3>2. step \in StepFor(u)
      BY <3>1, RangeOfSeq
    <3>3. step.op = "told" => step.what # "bound"
      BY <1>3, <2>2, <3>2 DEF StepFor, Thread
    <3>4. step.op \in {"arm", "timeout", "ifbound"}
      BY <1>2, <3>3 DEF Arms, TellsKeepAlive
    <3>5. QED
      BY <3>4 DEF Arms
  <2>3. QED
    BY <2>1, <2>2
<1>5. QED
  BY <1>2, <1>3, <1>4 DEF Rearms

LEMMA ExpiredKept ==
    ASSUME rx_queue' = rx_queue, Handling' => Handling, Expired PROVE Expired'
  BY DEF Expired

LEMMA HandlingBefore ==
    ASSUME TypeOK, Shape, NEW t \in Thread,
           \/ Check(t) \/ Store(t) \/ Send(t)
           \/ ReadInterval(t) \/ SetTimeout(t) \/ SetInterval(t) \/ IfBound(t)
           \/ Keep(t) \/ Correct(t) \/ ResetCorrection(t) \/ WriteMessage(t)
           \/ ChangeState(t) \/ TellListener(t)
    PROVE  Handling' => Handling
<1>1. CASE t = "rx"
  <2>1. PICK op \in {"check", "store", "send", "arm", "timeout", "cancel", "interval", "ifbound",
                     "keep", "correct", "reset", "write", "state", "told"} : Now(t, op)
    BY DEF Check, Store, Send, ReadInterval, SetTimeout, SetInterval, IfBound, Keep, Correct,
           ResetCorrection, WriteMessage, ChangeState, TellListener
  <2>2. QED
    BY <1>1, <2>1, FirstStep DEF Handling
<1>2. CASE t # "rx"
  <2>1. todo'["rx"] = todo["rx"]
    BY <1>2, ThreadMoves DEF Thread
  <2>2. QED
    BY <2>1 DEF Handling
<1>3. QED
  BY <1>1, <1>2

LEMMA NotArming ==
    ASSUME NEW step, step.op \notin {"arm", "timeout", "ifbound", "told"} PROVE ~Arms(step)
  BY DEF Arms, TellsKeepAlive

(* The steps of the threads keep it alive.                                   *)
LEMMA LivesInThread ==
    ASSUME TypeOK, Shape, Cancels, Lives, Needed', NEW t \in Thread,
           \/ Check(t) \/ Store(t) \/ Send(t)
           \/ ReadInterval(t) \/ SetTimeout(t) \/ SetInterval(t) \/ IfBound(t)
           \/ Keep(t) \/ Correct(t) \/ ResetCorrection(t) \/ WriteMessage(t)
           \/ ChangeState(t) \/ TellListener(t)
    PROVE  timer' \/ Rearms' \/ Expired'
<1>1. rx_queue' = rx_queue /\ modules' = modules
  BY ThreadMoves
<1>2. Expired => Expired'
  BY <1>1, HandlingBefore, ExpiredKept
<1>3. \A op : Now(t, op) => /\ todo[t] # <<>> /\ This(t).op = op
                            /\ op \notin {"process", "pop"} => This(t) \in StepFor(t)
                            /\ This(t) \in Range(todo[t])
  <2>1. ASSUME NEW op, Now(t, op)
        PROVE  /\ todo[t] # <<>> /\ This(t).op = op
               /\ op \notin {"process", "pop"} => This(t) \in StepFor(t)
               /\ This(t) \in Range(todo[t])
    BY <2>1, FirstStep, ThisInRange DEF Now, This
  <2>2. QED
    BY <2>1
<1>4. <<>> \in Seq({}) /\ Range(<<>>) = {}
  BY EmptySeq, OneElement
<1>5. ASSUME NEW x, todo[t] # <<>>, Then(t, <<x>>), Arms(x) PROVE Rearms'
  <2>1. <<x>> \in Seq({x}) /\ Range(<<x>>) = {x}
    BY OneElement
  <2>2. QED
    BY <1>1, <1>5, <2>1, RearmsThen
<1>6. CASE \/ Check(t) \/ Store(t) \/ Send(t)
           \/ Keep(t) \/ Correct(t) \/ ResetCorrection(t) \/ WriteMessage(t)
  <2>1. /\ todo[t] # <<>> /\ ~Arms(This(t))
        /\ UNCHANGED <<sessVars, interval, timer, modules, rx_queue>>
    BY <1>6, Plain, NotArming
  <2>2. PICK S : \E steps \in Seq(S) : Then(t, steps)
    BY <1>6, Plain
  <2>3. PICK steps \in Seq(S) : Then(t, steps)
    BY <2>2
  <2>4. Rearms => Rearms'
    BY <2>1, <2>3, RearmsThen
  <2>5. Needed
    BY <2>1 DEF Needed, Registered, sessVars
  <2>6. QED
    BY <1>2, <2>1, <2>4, <2>5 DEF Lives
<1>7. CASE ReadInterval(t)
  <2>1. Now(t, "arm") /\ interval' = interval
    BY <1>7 DEF ReadInterval, modVars
  <2>2. Then(t, <<Step("timeout", "none", 0)>>)
    BY <1>7, <2>1 DEF ReadInterval, Needed
  <2>3. Arms(Step("timeout", "none", 0))
    BY DEF Arms, Step
  <2>4. QED
    BY <1>3, <1>5, <2>1, <2>2, <2>3
<1>8. CASE SetTimeout(t)
  <2>1. CASE Now(t, "timeout")
    BY <1>8, <2>1 DEF SetTimeout
  <2>2. CASE Now(t, "cancel")
    <3>1. state' = state /\ interval' = interval
      BY <1>8 DEF SetTimeout, sessVars
    <3>2. state = "bound" /\ interval # 0
      BY <3>1 DEF Needed
    <3>3. t # "rx"
      BY <1>3, <2>2 DEF StepFor
    <3>4. QED
      BY <1>3, <2>2, <3>2, <3>3 DEF Cancels, Thread
  <2>3. QED
    BY <1>8, <2>1, <2>2 DEF SetTimeout
<1>9. CASE SetInterval(t)
  <2>1. Now(t, "interval") /\ interval' # 0
    BY <1>9 DEF SetInterval, Needed
  <2>2. Then(t, <<Step("ifbound", "none", 0)>>)
    BY <1>9, <2>1 DEF SetInterval
  <2>3. Arms(Step("ifbound", "none", 0))
    BY DEF Arms, Step
  <2>4. QED
    BY <1>3, <1>5, <2>1, <2>2, <2>3
<1>10. CASE IfBound(t)
  <2>1. Now(t, "ifbound") /\ state' = state
    BY <1>10 DEF IfBound, sessVars
  <2>2. Then(t, <<Step("timeout", "none", 0)>>)
    BY <1>10, <2>1 DEF IfBound, Needed
  <2>3. Arms(Step("timeout", "none", 0))
    BY DEF Arms, Step
  <2>4. QED
    BY <1>3, <1>5, <2>1, <2>2, <2>3
<1>11. CASE ChangeState(t)
  <2>1. Now(t, "state") /\ UNCHANGED <<running, interval, timer>>
    BY <1>11 DEF ChangeState, modVars
  <2>2. CASE state' = state /\ Then(t, <<>>)
    <3>1. ~Arms(This(t))
      BY <1>3, <2>1, NotArming
    <3>2. Rearms => Rearms'
      BY <1>1, <1>3, <1>4, <2>1, <2>2, <3>1, RearmsThen
    <3>3. Needed
      BY <1>1, <2>1, <2>2 DEF Needed, Registered
    <3>4. QED
      BY <1>2, <2>1, <3>2, <3>3 DEF Lives
  <2>3. CASE state' = This(t).what /\ Then(t, <<[Step("told", This(t).what, 1) EXCEPT !.arg = state]>>)
    <3>1. PICK x : x = [Step("told", This(t).what, 1) EXCEPT !.arg = state]
      OBVIOUS
    <3>2. x.op = "told" /\ x.what = "bound" /\ x.n = 1
      BY <2>3, <3>1 DEF Needed, Step
    <3>3. PICK i \in DOMAIN modules : modules[i] = "keepalive"
      BY <1>1 DEF Needed, Registered, Range
    <3>4. i >= 1
      <4>1. DOMAIN modules = 1..Len(modules) /\ Len(modules) \in Nat
        BY LenProperties DEF TypeOK
      <4>2. QED
        BY <4>1
    <3>5. Arms(x)
      BY <3>2, <3>3, <3>4 DEF Arms, TellsKeepAlive
    <3>6. QED
      BY <1>3, <1>5, <2>1, <2>3, <3>1, <3>5
  <2>4. QED
    BY <1>11, <2>2, <2>3 DEF ChangeState
<1>12. CASE TellListener(t)
  <2>1. Now(t, "told") /\ UNCHANGED <<sessVars, interval, timer>>
    BY <1>12 DEF TellListener, modVars
  <2>2. Needed
    BY <1>1, <2>1 DEF Needed, Registered, sessVars
  <2>3. modules \in Seq(Module) /\ DOMAIN modules \subseteq Nat
    <3>1. DOMAIN modules = 1..Len(modules) /\ Len(modules) \in Nat
      BY LenProperties DEF TypeOK
    <3>2. QED
      BY <3>1 DEF TypeOK
  <2>4. ASSUME Arms(This(t))
        PROVE  /\ This(t).what = "bound"
               /\ \E k \in DOMAIN modules : /\ k >= This(t).n /\ modules[k] = "keepalive"
                     /\ OnStateChange(modules[k], This(t).what, This(t).arg) = <<Arm>>
    <3>1. This(t).op = "told"
      BY <1>3, <2>1
    <3>2. This(t).what = "bound" /\ TellsKeepAlive(This(t))
      BY <2>4, <3>1 DEF Arms
    <3>3. PICK k \in DOMAIN modules : k >= This(t).n /\ modules[k] = "keepalive"
      BY <3>2 DEF TellsKeepAlive
    <3>4. OnStateChange(modules[k], This(t).what, This(t).arg) = <<Arm>>
      BY <3>2, <3>3 DEF OnStateChange
    <3>5. QED
      BY <3>2, <3>3, <3>4
  <2>5. CASE /\ Then(t, <<>>)
             /\ \A j \in DOMAIN modules : j >= This(t).n =>
                   OnStateChange(modules[j], This(t).what, This(t).arg) = <<>>
    <3>1. ~Arms(This(t))
      BY <2>4, <2>5
    <3>2. Rearms => Rearms'
      BY <1>1, <1>3, <1>4, <2>1, <2>5, <3>1, RearmsThen
    <3>3. QED
      BY <1>2, <2>1, <2>2, <3>2 DEF Lives
  <2>6. CASE \E i \in DOMAIN modules : \E x, next : \E steps \in Seq({x, next}) :
                 /\ i >= This(t).n
                 /\ \A j \in DOMAIN modules : j >= This(t).n =>
                       \/ OnStateChange(modules[j], This(t).what, This(t).arg) = <<>>
                       \/ i <= j
                 /\ OnStateChange(modules[i], This(t).what, This(t).arg) = <<x>>
                 /\ x.op \in {"arm", "check", "cancel"}
                 /\ next = [op |-> "told", what |-> This(t).what, n |-> i + 1, arg |-> This(t).arg]
                 /\ Then(t, steps) /\ Range(steps) = {x, next}
    <3>1. PICK i \in DOMAIN modules : \E x, next : \E steps \in Seq({x, next}) :
                 /\ i >= This(t).n
                 /\ \A j \in DOMAIN modules : j >= This(t).n =>
                       \/ OnStateChange(modules[j], This(t).what, This(t).arg) = <<>>
                       \/ i <= j
                 /\ OnStateChange(modules[i], This(t).what, This(t).arg) = <<x>>
                 /\ next = [op |-> "told", what |-> This(t).what, n |-> i + 1, arg |-> This(t).arg]
                 /\ Then(t, steps) /\ Range(steps) = {x, next}
      BY <2>6
    <3>2. PICK x, next : \E steps \in Seq({x, next}) :
                 /\ i >= This(t).n
                 /\ \A j \in DOMAIN modules : j >= This(t).n =>
                       \/ OnStateChange(modules[j], This(t).what, This(t).arg) = <<>>
                       \/ i <= j
                 /\ OnStateChange(modules[i], This(t).what, This(t).arg) = <<x>>
                 /\ next = [op |-> "told", what |-> This(t).what, n |-> i + 1, arg |-> This(t).arg]
                 /\ Then(t, steps) /\ Range(steps) = {x, next}
      BY <3>1
    <3>3. PICK steps \in Seq({x, next}) : Then(t, steps) /\ Range(steps) = {x, next}
      BY <3>2
    <3>4. Arms(This(t)) => Arms(x) \/ Arms(next)
      <4>1. SUFFICES ASSUME Arms(This(t)) PROVE Arms(x) \/ Arms(next)
        OBVIOUS
      <4>2. PICK k \in DOMAIN modules :
               /\ This(t).what = "bound" /\ k >= This(t).n /\ modules[k] = "keepalive"
               /\ OnStateChange(modules[k], This(t).what, This(t).arg) = <<Arm>>
        BY <2>4, <4>1
      <4>3. i <= k
        <5>1. OnStateChange(modules[k], This(t).what, This(t).arg) # <<>>
          <6>1. <<Arm>> # <<>>
            OBVIOUS
          <6>2. QED
            BY <4>2, <6>1
        <5>2. QED
          BY <3>2, <4>2, <5>1
      <4>4. CASE i = k
        <5>1. <<x>> = <<Arm>>
          BY <3>2, <4>2, <4>4
        <5>2. x = Arm
          BY <5>1
        <5>3. QED
          BY <5>2 DEF Arm, Step, Arms
      <4>5. CASE i # k
        <5>1. k >= i + 1
          BY <2>3, <4>3, <4>5
        <5>2. next.op = "told" /\ next.what = "bound" /\ next.n = i + 1
          BY <3>2, <4>2
        <5>3. QED
          BY <4>2, <5>1, <5>2 DEF Arms, TellsKeepAlive
      <4>6. QED
        BY <4>4, <4>5
    <3>5. Rearms => Rearms'
      BY <1>1, <1>3, <2>1, <3>3, <3>4, RearmsThen
    <3>6. QED
      BY <1>2, <2>1, <2>2, <3>5 DEF Lives
  <2>7. QED
    BY <1>12, <2>5, <2>6, Told
<1>13. QED
  BY <1>6, <1>7, <1>8, <1>9, <1>10, <1>11, <1>12

(* Only KeepAliveModule takes a timeout.                                     *)
LEMMA TimeoutPasses ==
    ASSUME Object0.tag = "timeout", Object0.query = "none",
           \/ Core \/ Register \/ Search \/ Vcard \/ Private \/ Version \/ Ping \/ Disco
           \/ SessionResult \/ Message \/ Presence \/ Roster
    PROVE  Passes
<1>1. ~Iq /\ \A k : ~Waits(k)
  BY DEF Iq, Waits
<1>2. ~RosterPush
  BY <1>1 DEF RosterPush
<1>3. CASE Core
  BY <1>3 DEF Core
<1>4. CASE Register \/ Search \/ Vcard \/ Private \/ Version \/ Ping \/ Disco
  BY <1>1, <1>4 DEF Register, Search, Vcard, Private, Version, Ping, Disco
<1>5. CASE SessionResult \/ Message \/ Presence \/ Roster
  BY <1>1, <1>2, <1>5 DEF SessionResult, Message, Presence, Roster
<1>6. QED
  BY <1>3, <1>4, <1>5

LEMMA PassesIsProcess ==
    ASSUME TypeOK, Shape, Now("rx", "process"), Passes, rx_queue' = rx_queue PROVE ~Handling'
<1>1. todo' = [todo EXCEPT !["rx"] = <<Process(This("rx").n + 1)>>]
  BY PassesShape
<1>2. todo'["rx"] = <<Process(This("rx").n + 1)>>
  BY <1>1 DEF Shape, Thread
<1>3. Now("rx", "process")'
  BY <1>2 DEF Now, Process, Step
<1>4. QED
  BY <1>3, HandlingIsNotProcess, PTL

(* The handling of a received object keeps it alive.                         *)
LEMMA LivesInModule ==
    ASSUME TypeOK, Shape, Plains, Lives, Needed', NEW mod \in Module,
           \/ (mod = "core" /\ Core) \/ (mod = "register" /\ Register)
           \/ (mod = "search" /\ Search) \/ (mod = "vcard" /\ Vcard) \/ (mod = "private" /\ Private)
           \/ (mod = "version" /\ Version) \/ (mod = "ping" /\ Ping) \/ (mod = "disco" /\ Disco)
           \/ (mod = "session" /\ SessionResult) \/ (mod = "message" /\ Message)
           \/ (mod = "presence" /\ Presence) \/ (mod = "roster" /\ Roster)
           \/ (mod = "keepalive" /\ KeepAlive)
    PROVE  timer' \/ Rearms' \/ Expired'
<1>1. /\ Calls(mod) /\ rx_queue' = rx_queue
      /\ ((Passes /\ modules' = modules) \/ Handling')
  BY HandlerMoves
<1>2. /\ Now("rx", "process") /\ todo["rx"] = <<This("rx")>> /\ This("rx").n \in Nat \ {0}
      /\ This("rx") = Process(This("rx").n) /\ rx_queue # <<>>
  BY <1>1, CalledAlone DEF Calls
<1>3. \A step \in Range(todo["rx"]) : ~Arms(step)
  <2>1. Range(todo["rx"]) = {This("rx")}
    BY <1>2, OneElement
  <2>2. This("rx").op = "process"
    BY <1>2 DEF Process, Step
  <2>3. QED
    BY <2>1, <2>2, NotArming
<1>4. UNCHANGED <<sessVars, interval, timer>> /\ \A u \in Thread \ {"rx"} : todo'[u] = todo[u]
  BY RxMoves DEF Thread
<1>5. Rearms => Rearms'
  BY <1>3, <1>4, RearmsOfOthers DEF Thread
<1>6. Needed
  <2>1. modules' = modules \/ SessionResult
    BY <1>1 DEF Core, KeepAlive, Register, Search, Vcard, Private, Version, Ping, Disco,
                Message, Presence, Roster, Others, modVars
  <2>2. SessionResult => Range(modules') \subseteq Range(modules)
    <3>1. SUFFICES ASSUME SessionResult, modules' # modules
                   PROVE Range(modules') \subseteq Range(modules)
      OBVIOUS
    <3>2. modules' = RemoveAt(modules, This("rx").n) /\ This("rx").n <= Len(modules)
      BY <3>1 DEF SessionResult, Calls
    <3>3. modules \in Seq(Module) /\ Len(modules) \in Nat
      BY LenProperties DEF TypeOK
    <3>4. This("rx").n \in 1..Len(modules)
      BY <1>2, <3>2, <3>3
    <3>5. QED
      BY <3>2, <3>3, <3>4, RemovedAt
  <2>3. Registered("keepalive")
    BY <2>1, <2>2 DEF Needed, Registered
  <2>4. QED
    BY <1>4, <2>3 DEF Needed, sessVars
<1>7. ~Handling
  BY <1>2, HandlingIsNotProcess
<1>8. CASE mod # "keepalive"
  <2>1. SUFFICES ASSUME Expired PROVE Expired'
    BY <1>4, <1>5, <1>6 DEF Lives
  <2>2. PICK i \in DOMAIN rx_queue : rx_queue[i].tag = "timeout"
    BY <2>1 DEF Expired
  <2>3. CASE i # 1
    BY <1>1, <2>2, <2>3 DEF Expired
  <2>4. CASE i = 1
    <3>1. rx_queue[1] = Object0
      BY <1>2, HeadTailProperties DEF TypeOK, Object0
    <3>2. Object0.tag = "timeout" /\ Object0.query = "none"
      BY <2>2, <2>4, <3>1 DEF Plains
    <3>3. Passes
      BY <1>8, <3>2, TimeoutPasses
    <3>4. ~Handling'
      BY <1>1, <1>2, <3>3, PassesIsProcess
    <3>5. QED
      BY <1>1, <2>2, <3>4 DEF Expired
  <2>5. QED
    BY <2>3, <2>4
<1>9. CASE mod = "keepalive"
  <2>1. KeepAlive /\ modules' = modules
    BY <1>9 DEF KeepAlive, modVars
  <2>2. CASE Object0.tag = "timeout"
    <3>1. Handles(<<Arm>>)
      BY <2>1, <2>2 DEF KeepAlive
    <3>2. Arm \in StepFor("rx")
      BY DEF Arm, Step, StepFor, StepOK
    <3>3. <<Arm>> \in Seq(StepFor("rx")) /\ <<Popping>> \in Seq(StepOK) /\ <<Arm>> \in Seq(StepOK)
      BY <3>2, EndsAreSteps DEF StepFor
    <3>4. Append(<<Arm>>, Popping) = <<Arm>> \o <<Popping>>
      BY <3>3, EndsAreSteps, AppendIsConcat
    <3>5. todo'["rx"] = <<Arm>> \o <<Popping>>
      BY <1>1, <1>2, <3>1, <3>3, <3>4, HandlesShape DEF Shape, Thread
    <3>6. Arm \in Range(todo'["rx"])
      <4>1. Range(<<Arm>> \o <<Popping>>) = Range(<<Arm>>) \cup Range(<<Popping>>)
        BY <3>3, RangeConcatenation, ZenonT(30)
      <4>2. QED
        BY <3>5, <4>1, OneElement
    <3>7. Arms(Arm)'
      BY DEF Arms, Arm, Step
    <3>8. Rearms'
      BY <3>6, <3>7 DEF Rearms, Thread
    <3>9. QED
      BY <3>8
  <2>3. CASE Object0.tag # "timeout"
    <3>1. Passes
      BY <2>1, <2>3 DEF KeepAlive
    <3>2. ~Handling'
      BY <1>1, <1>2, <3>1, PassesIsProcess
    <3>3. Expired => Expired'
      BY <1>1, <3>2 DEF Expired
    <3>4. QED
      BY <1>4, <1>5, <1>6, <3>3 DEF Lives
  <2>4. QED
    BY <2>2, <2>3
<1>10. QED
  BY <1>8, <1>9

LEMMA LivesAtTheEnds ==
    ASSUME TypeOK, Shape, Plains, Ahead, Lives, Needed',
           Rx \/ Pop \/ Respond \/ RespondText \/ Forget \/ Unhandled
    PROVE  timer' \/ Rearms' \/ Expired'
<1>1. UNCHANGED <<sessVars, interval, timer>> /\ \A u \in Thread \ {"rx"} : todo'[u] = todo[u]
  BY RxMoves DEF Thread
<1>2. modules' = modules
  BY DEF Rx, Pop, Respond, RespondText, Forget, Unhandled, modVars
<1>3. Needed
  BY <1>1, <1>2 DEF Needed, Registered, sessVars
<1>4. ASSUME \A step \in Range(todo["rx"]) : ~Arms(step) PROVE Rearms => Rearms'
  BY <1>1, <1>4, RearmsOfOthers DEF Thread
<1>5. \A n : <<Process(n)>>[1].op = "process" /\ Head(<<Process(n)>>) = Process(n)
  BY DEF Process, Step
<1>6. ASSUME todo'["rx"] = <<Process(1)>> PROVE ~Handling'
  <2>1. Now("rx", "process")'
    BY <1>6 DEF Now, Process, Step
  <2>2. QED
    BY <2>1, HandlingIsNotProcess, PTL
<1>7. CASE Rx
  <2>1. todo["rx"] = <<>> /\ rx_queue' = rx_queue
    BY <1>7, RxShape DEF Rx
  <2>2. todo'["rx"] = <<Process(1)>>
    BY <1>7, RxShape DEF Shape, Thread
  <2>3. Expired => Expired'
    BY <1>6, <2>1, <2>2 DEF Expired
  <2>4. \A step \in Range(todo["rx"]) : ~Arms(step)
    BY <2>1, OneElement
  <2>5. QED
    BY <1>1, <1>3, <1>4, <2>3, <2>4 DEF Lives
<1>8. CASE Pop
  <2>1. todo["rx"] = <<Popping>>
    BY <1>8, PopShape
  <2>2. todo'["rx"] = IF rx_queue' = <<>> THEN <<>> ELSE <<Process(1)>>
    BY <1>8, PopShape DEF Shape, Thread
  <2>3. \A step \in Range(todo["rx"]) : ~Arms(step)
    BY <2>1, OneElement, NotArming DEF Popping, Step
  <2>4. Handling /\ rx_queue # <<>> /\ rx_queue \in Seq(Object)
    <3>1. \A n : <<Popping>> # <<Process(n)>>
      <4>1. \A n : <<Popping>>[1] # <<Process(n)>>[1]
        BY DEF Popping, Process, Step
      <4>2. QED
        BY <4>1
    <3>2. QED
      BY <2>1, <3>1 DEF Shape, TypeOK
  <2>5. rx_queue' = Tail(rx_queue)
    BY <1>8 DEF Pop
  <2>6. /\ rx_queue' \in Seq(Object) /\ Len(rx_queue') = Len(rx_queue) - 1
        /\ \A i \in 1..Len(rx_queue') : rx_queue'[i] = rx_queue[i + 1]
    BY <2>4, <2>5, HeadTailProperties
  <2>7. /\ Len(rx_queue) \in Nat \ {0} /\ DOMAIN rx_queue = 1..Len(rx_queue)
        /\ DOMAIN rx_queue' = 1..Len(rx_queue')
    BY <2>4, <2>6, EmptySeq, LenProperties
  <2>8. Expired => Expired'
    <3>1. SUFFICES ASSUME Expired PROVE Expired'
      OBVIOUS
    <3>2. PICK i \in DOMAIN rx_queue : rx_queue[i].tag = "timeout" /\ i # 1
      BY <2>4, <3>1 DEF Expired
    <3>3. i - 1 \in DOMAIN rx_queue' /\ rx_queue'[i - 1] = rx_queue[i]
      BY <2>6, <2>7, <3>2
    <3>4. rx_queue' # <<>>
      BY <3>3
    <3>5. ~Handling'
      BY <1>6, <2>2, <3>4
    <3>6. QED
      BY <3>2, <3>3, <3>5 DEF Expired
  <2>9. QED
    BY <1>1, <1>3, <1>4, <2>3, <2>8 DEF Lives
<1>9. CASE Respond \/ RespondText \/ Forget
  <2>1. PICK op \in {"reply", "callback", "forget"} : Now("rx", op)
    BY <1>9 DEF Respond, RespondText, Forget
  <2>2. todo["rx"] # <<>> /\ This("rx").op = op
    BY <2>1 DEF Now, This
  <2>3. ~Arms(This("rx"))
    BY <2>2, NotArming
  <2>4. Handling /\ rx_queue' = rx_queue
    <3>1. Handling
      BY <2>1, FirstStep DEF Handling, Thread
    <3>2. rx_queue' = rx_queue
      BY <1>9 DEF Respond, RespondText, Forget
    <3>3. QED
      BY <3>1, <3>2
  <2>5. Expired => Expired'
    BY <2>4, ExpiredKept
  <2>6. PICK S : \E steps \in Seq(S) : Then("rx", steps)
    <3>1. Then("rx", <<>>) \/ \E x : Then("rx", <<x>>)
      BY <1>9 DEF Respond, RespondText, Forget
    <3>2. <<>> \in Seq({}) /\ \A x : <<x>> \in Seq({x})
      BY EmptySeq
    <3>3. QED
      BY <3>1, <3>2
  <2>7. PICK steps \in Seq(S) : Then("rx", steps)
    BY <2>6
  <2>8. Rearms => Rearms'
    BY <1>2, <2>2, <2>3, <2>7, RearmsThen DEF Thread
  <2>9. QED
    BY <1>1, <1>3, <2>5, <2>8 DEF Lives
<1>10. CASE Unhandled
  <2>1. Now("rx", "process") /\ This("rx").n > Len(modules) /\ rx_queue' = rx_queue
    BY <1>10 DEF Unhandled
  <2>2. /\ todo["rx"] = <<This("rx")>> /\ This("rx").n \in Nat \ {0} /\ rx_queue # <<>>
        /\ This("rx") = Process(This("rx").n)
    BY <2>1, CalledAlone
  <2>3. \A step \in Range(todo["rx"]) : ~Arms(step)
    <3>1. Range(todo["rx"]) = {This("rx")} /\ This("rx").op = "process"
      BY <2>2, OneElement DEF Process, Step
    <3>2. QED
      BY <3>1, NotArming
  <2>4. Object0.tag # "timeout"
    <3>1. SUFFICES ASSUME Object0.tag = "timeout" PROVE FALSE
      OBVIOUS
    <3>2. PICK i \in DOMAIN modules : i >= This("rx").n
      BY <1>3, <2>1, <3>1 DEF Ahead, Needed
    <3>3. DOMAIN modules = 1..Len(modules) /\ Len(modules) \in Nat
      BY LenProperties DEF TypeOK
    <3>4. QED
      BY <2>1, <2>2, <3>2, <3>3
  <2>5. Expired => Expired'
    <3>1. rx_queue[1] = Object0
      BY <2>2, HeadTailProperties DEF TypeOK, Object0
    <3>2. QED
      BY <2>1, <2>4, <3>1 DEF Expired
  <2>6. QED
    BY <1>1, <1>3, <1>4, <2>3, <2>5 DEF Lives
<1>11. QED
  BY <1>7, <1>8, <1>9, <1>10

(* What the application, the peer and the timer do keeps it alive.           *)
LEMMA LivesOutside ==
    ASSUME TypeOK, Shape, Lives, Needed',
           \/ CallText \/ OtherCall \/ Run \/ StopStream \/ End \/ Expire
           \/ Answer \/ Change \/ PeerAsks \/ (\E k \in AppKinds : Call(k)) \/ UNCHANGED vars
    PROVE  timer' \/ Rearms' \/ Expired'
<1>1. modules' = modules /\ interval' = interval
  BY DEF CallText, OtherCall, Run, StopStream, End, Expire, Answer, Change, PeerAsks,
         Call, vars, modVars
<1>2. CASE Run \/ StopStream \/ End
  BY <1>2 DEF Run, StopStream, End, Needed, sessVars
<1>3. CASE CallText \/ OtherCall \/ \E k \in AppKinds : Call(k)
  <2>1. UNCHANGED <<sessVars, timer, rx_queue>>
    BY <1>3 DEF CallText, OtherCall, Call, modVars
  <2>2. Needed
    BY <1>1, <2>1 DEF Needed, Registered, sessVars
  <2>3. PICK x : todo["app"] = <<>> /\ todo' = [todo EXCEPT !["app"] = <<x>>]
    BY <1>3, CallOps DEF Starts
  <2>4. \A u \in Thread \ {"app"} : todo'[u] = todo[u]
    BY <2>3 DEF Shape
  <2>5. \A step \in Range(todo["app"]) : ~Arms(step)
    BY <2>3, OneElement
  <2>6. Rearms => Rearms'
    BY <1>1, <2>4, <2>5, RearmsOfOthers DEF Thread
  <2>7. todo'["rx"] = todo["rx"]
    BY <2>4 DEF Thread
  <2>8. Expired => Expired'
    BY <2>1, <2>7 DEF Expired, Handling
  <2>9. QED
    BY <2>1, <2>2, <2>6, <2>8 DEF Lives
<1>4. CASE Expire \/ Answer \/ Change \/ PeerAsks \/ UNCHANGED vars
  <2>1. UNCHANGED <<sessVars, todo>>
    BY <1>4 DEF Expire, Answer, Change, PeerAsks, vars
  <2>2. Needed
    BY <1>1, <2>1 DEF Needed, Registered, sessVars
  <2>3. Rearms => Rearms'
    BY <1>1, <2>1, ArmsSame DEF Rearms
  <2>4. Handling' <=> Handling
    BY <2>1 DEF Handling
  <2>5. Expired => Expired'
    <3>1. CASE UNCHANGED vars
      BY <2>4, <3>1 DEF vars, Expired
    <3>2. CASE Expire \/ Answer \/ Change \/ PeerAsks
      <4>1. \A i \in DOMAIN rx_queue : i \in DOMAIN rx_queue' /\ rx_queue'[i] = rx_queue[i]
        BY <3>2, Grows
      <4>2. QED
        BY <2>4, <4>1 DEF Expired
    <3>3. QED
      BY <1>4, <3>1, <3>2
  <2>6. timer => timer' \/ Expired'
    <3>1. CASE Expire
      <4>1. rx_queue' = Append(rx_queue, Timeout) /\ rx_queue \in Seq(Object) /\ Timeout \in Object
        <5>1. running
          BY <2>2 DEF Needed
        <5>2. QED
          BY <3>1, <5>1 DEF Expire, Timeout, TypeOK, Object
      <4>2. PICK i : i = Len(rx_queue) + 1
        OBVIOUS
      <4>3. /\ rx_queue' \in Seq(Object) /\ Len(rx_queue') = i /\ rx_queue'[i] = Timeout
            /\ Len(rx_queue) \in Nat
        BY <4>1, <4>2, AppendProperties, LenProperties
      <4>4. i \in DOMAIN rx_queue' /\ rx_queue'[i].tag = "timeout"
        BY <4>2, <4>3, LenProperties DEF Timeout
      <4>5. i = 1 => rx_queue = <<>>
        BY <4>1, <4>2, <4>3, EmptySeq
      <4>6. Handling => rx_queue # <<>>
        <5>1. Handling => todo["rx"] # <<>>
          BY HeadTailAppend, EndsAreSteps DEF Handling
        <5>2. QED
          BY <5>1 DEF Shape
      <4>7. QED
        BY <2>4, <4>4, <4>5, <4>6 DEF Expired
    <3>2. CASE ~Expire
      BY <1>4, <3>2 DEF Answer, Change, PeerAsks, vars, modVars
    <3>3. QED
      BY <3>1, <3>2
  <2>7. QED
    BY <2>2, <2>3, <2>5, <2>6 DEF Lives
<1>5. QED
  BY <1>2, <1>3, <1>4

LEMMA LivesStep ==
    ASSUME TypeOK, Shape, Cancels, Plains, Ahead, Lives, [Next]_vars PROVE Lives'
<1> SUFFICES ASSUME Needed' PROVE timer' \/ Rearms' \/ Expired'
  BY DEF Lives
<1>1. ASSUME NEW t \in Thread,
             \/ Check(t) \/ Store(t) \/ Send(t)
             \/ ReadInterval(t) \/ SetTimeout(t) \/ SetInterval(t) \/ IfBound(t)
             \/ Keep(t) \/ Correct(t) \/ ResetCorrection(t) \/ WriteMessage(t)
             \/ ChangeState(t) \/ TellListener(t)
      PROVE  timer' \/ Rearms' \/ Expired'
  BY <1>1, LivesInThread
<1>2. CASE Rx \/ Pop \/ Respond \/ RespondText \/ Forget \/ Unhandled
  BY <1>2, LivesAtTheEnds
<1>3. ASSUME NEW mod \in Module,
             \/ (mod = "core" /\ Core) \/ (mod = "register" /\ Register)
             \/ (mod = "search" /\ Search) \/ (mod = "vcard" /\ Vcard) \/ (mod = "private" /\ Private)
             \/ (mod = "version" /\ Version) \/ (mod = "ping" /\ Ping) \/ (mod = "disco" /\ Disco)
             \/ (mod = "session" /\ SessionResult) \/ (mod = "message" /\ Message)
             \/ (mod = "presence" /\ Presence) \/ (mod = "roster" /\ Roster)
             \/ (mod = "keepalive" /\ KeepAlive)
      PROVE  timer' \/ Rearms' \/ Expired'
  BY <1>3, LivesInModule
<1>4. CASE \/ CallText \/ OtherCall \/ Run \/ StopStream \/ End \/ Expire
           \/ Answer \/ Change \/ PeerAsks \/ (\E k \in AppKinds : Call(k)) \/ UNCHANGED vars
  BY <1>4, LivesOutside
<1>5. CASE \/ Core \/ KeepAlive \/ Register \/ Search \/ Vcard \/ Private
           \/ Version \/ Ping \/ Disco \/ SessionResult \/ Message \/ Presence \/ Roster
  <2>1. {"core", "keepalive", "register", "search", "vcard", "private", "version", "ping", "disco",
         "session", "message", "presence", "roster"} \subseteq Module
    BY DEF Module
  <2>2. CASE Core \/ KeepAlive \/ Register \/ Search \/ Vcard \/ Private
    BY <1>3, <2>1, <2>2
  <2>3. CASE Version \/ Ping \/ Disco
    BY <1>3, <2>1, <2>3
  <2>4. CASE SessionResult \/ Message \/ Presence \/ Roster
    BY <1>3, <2>1, <2>4
  <2>5. QED
    BY <1>5, <2>2, <2>3, <2>4
<1>6. QED
  BY <1>1, <1>2, <1>4, <1>5 DEF Next

KeepAliveInv == TypeOK /\ Shape /\ Cancels /\ Plains /\ Ahead /\ Lives

LEMMA KeepAliveInvInit == Init => KeepAliveInv
<1> SUFFICES ASSUME Init PROVE Cancels /\ Plains /\ Ahead /\ Lives
  BY TypeInit DEF KeepAliveInv
<1>1. \A t \in Thread : todo[t] = <<>>
  BY DEF Init
<1>2. todo["app"] = <<>> /\ todo["run"] = <<>> /\ todo["rx"] = <<>>
  BY <1>1 DEF Thread
<1>3. Cancels
  BY <1>2, OneElement DEF Cancels
<1>4. Plains
  BY DEF Init, Plains
<1>5. Ahead
  BY <1>2 DEF Ahead, Now
<1>6. Lives
  BY DEF Init, Lives, Needed
<1>7. QED
  BY <1>3, <1>4, <1>5, <1>6

(* The keep-alive never falls asleep: while the session is bound and there is *)
(* an interval, the timeout is set, or has expired and is to be handled, or a *)
(* thread is about to set it, however the one thread of the application that   *)
(* calls set_interval, the rx thread and the session thread interleave, unless *)
(* a call to a module outlives its session.                                  *)
THEOREM KeepAliveCorrect == ASSUME ~Overlap PROVE Spec => []KeepAliveLives
<1>1. Init => KeepAliveInv
  BY KeepAliveInvInit
<1>2. KeepAliveInv /\ [Next]_vars => KeepAliveInv'
  <2> SUFFICES ASSUME KeepAliveInv, [Next]_vars PROVE KeepAliveInv'
    OBVIOUS
  <2> USE DEF KeepAliveInv
  <2>1. TypeOK' /\ Shape'
    BY TypeStep, ShapeStep
  <2>2. Cancels'
    BY CancelsStep
  <2>3. Plains'
    BY PlainsStep
  <2>4. Ahead'
    BY <2>1, AheadStep
  <2>5. Lives'
    BY LivesStep
  <2>6. QED
    BY <2>1, <2>2, <2>3, <2>4, <2>5
<1>3. KeepAliveInv => KeepAliveLives
  <2> SUFFICES ASSUME KeepAliveInv,
                      Needed, ~(\E t \in Thread : AboutKeepAlive(t)),
                      ~(\E i \in DOMAIN rx_queue : rx_queue[i].tag = "timeout")
               PROVE  timer
    BY DEF KeepAliveLives, Needed
  <2>1. timer \/ Rearms \/ Expired
    BY DEF KeepAliveInv, Lives
  <2>2. ~Expired
    BY DEF Expired
  <2>3. ~Rearms
    BY DEF Rearms, Arms, AboutKeepAlive
  <2>4. QED
    BY <2>1, <2>2, <2>3
<1>4. QED
  BY <1>1, <1>2, <1>3, PTL DEF Spec

-----------------------------------------------------------------------------
(* Messages and corrections                                                 *)

Key(to) == to_string(Jid(to))
BareKey(to) == to_string(bare(Jid(to)))

(* An address whose text is another's, a "/" and more is full, and the other  *)
(* is its bare JID. It is not so without an "@" (Jid::Jid).                   *)
Regular ==
    \A to, a \in Addresses :
        Covers(Key(to), Key(a)) => ~is_bare(Jid(a)) /\ BareKey(a) = Key(to)

TextOps == {"keep", "correct", "reset", "write"}

(* A thread begins with the message it is to send; one of them sends one.     *)
TextFirst ==
    \A t \in Thread : todo[t] # <<>> => \A step \in Range(Tail(todo[t])) : step.op \notin TextOps

OneText == \A t, u \in Thread : Texting(t) /\ Texting(u) => t = u

(* The messages a correction of the last one to key may be about.             *)
Before(key) == {k \in DOMAIN said : \/ said[k].to = key
                                    \/ said[k].replaces = 0 /\ Covers(key, said[k].to)}

IsLast(key, id) ==
    \/ \A k \in DOMAIN said : said[k].id # id
    \/ \E m \in Before(key) : said[m].id = id /\ \A k \in Before(key) : k <= m

KeptLast == \A key \in DOMAIN kept : IsLast(key, kept[key])

Numbers ==
    /\ \A k \in DOMAIN said : said[k].id <= texts
    /\ \A key \in DOMAIN kept : kept[key] \in 1..texts

Keyed == DOMAIN kept \subseteq {Key(a) : a \in Addresses}

(* The id of a message is new. One about to be written is the one to correct  *)
(* next, and at its address the only one; it replaces the last one.           *)
TextOK(step) ==
    /\ step.n \in 1..texts
    /\ \A k \in DOMAIN said : said[k].id # step.n
    /\ step.op # "write" => step.arg = 0 /\ \A key \in DOMAIN kept : kept[key] # step.n
    /\ step.op = "write" =>
          /\ Key(step.what) \in DOMAIN kept /\ kept[Key(step.what)] = step.n
          /\ \A key \in DOMAIN kept \ {Key(step.what)} :
                /\ kept[key] # step.n
                /\ step.arg = 0 => ~Covers(key, Key(step.what))
          /\ step.arg # 0 => IsLast(Key(step.what), step.arg)

TextsOK == \A t \in Thread : Texting(t) => TextOK(This(t))

TextInv ==
    /\ TextFirst /\ OneText /\ Numbers /\ KeptLast /\ Keyed /\ TextsOK
    /\ CorrectsTheLast

(* Nothing of thread t is about a message.                                   *)
Silent(t) == \A step \in Range(todo[t]) : step.op \notin TextOps

LEMMA SilentIsNotTexting ==
    ASSUME Shape, NEW t \in Thread, Silent(t)
    PROVE  ~Texting(t) /\ (todo[t] # <<>> => \A step \in Range(Tail(todo[t])) : step.op \notin TextOps)
<1>1. todo[t] \in Seq(StepOK)
  BY DEF Shape
<1>2. todo[t] # <<>> => Range(todo[t]) = {Head(todo[t])} \cup Range(Tail(todo[t]))
  BY <1>1, HeadAndTail
<1> QED BY <1>2 DEF Silent, Texting, TextOps

LEMMA NotTextingIsSilent ==
    ASSUME Shape, TextFirst, NEW t \in Thread, ~Texting(t)
    PROVE  Silent(t)
<1>1. todo[t] \in Seq(StepOK)
  BY DEF Shape
<1>2. todo[t] # <<>> => Range(todo[t]) = {Head(todo[t])} \cup Range(Tail(todo[t]))
  BY <1>1, HeadAndTail
<1>3. todo[t] = <<>> => Range(todo[t]) = {}
  BY OneElement
<1> QED BY <1>2, <1>3 DEF Silent, Texting, TextOps, TextFirst

(* A step that leaves nothing to send leaves a thread silent.                *)
LEMMA SilentThen ==
    ASSUME Shape, TextFirst, NEW t \in Thread, todo[t] # <<>>, NEW S, NEW steps \in Seq(S),
           Then(t, steps), \A step \in Range(steps) : step.op \notin TextOps
    PROVE  Silent(t)' /\ \A u \in Thread \ {t} : todo'[u] = todo[u]
  BY ThenRange DEF Silent, TextFirst

LEMMA SilentThenOne ==
    ASSUME Shape, TextFirst, NEW t \in Thread, todo[t] # <<>>, NEW x,
           Then(t, <<>>) \/ (Then(t, <<x>>) /\ x.op \notin TextOps)
    PROVE  Silent(t)' /\ \A u \in Thread \ {t} : todo'[u] = todo[u]
<1>1. <<x>> \in Seq({x}) /\ <<>> \in Seq({x})
  OBVIOUS
<1>2. Range(<<x>>) = {x} /\ Range(<<>>) = {}
  BY OneElement
<1>3. CASE Then(t, <<>>)
  BY <1>1, <1>2, <1>3, SilentThen
<1>4. CASE Then(t, <<x>>) /\ x.op \notin TextOps
  BY <1>1, <1>2, <1>4, SilentThen
<1> QED BY <1>3, <1>4

(* The invariant only looks at the heads of the threads that send.           *)
LEMMA TextsElsewhere ==
    ASSUME Shape, Shape', TextInv, UNCHANGED textVars,
           \A t \in Thread : todo'[t] = todo[t] \/ Silent(t)'
    PROVE  TextInv'
<1>1. ASSUME NEW t \in Thread, Silent(t)'
      PROVE  (~Texting(t) /\ (todo[t] # <<>> => \A step \in Range(Tail(todo[t])) : step.op \notin TextOps))'
  BY <1>1, SilentIsNotTexting, PTL
<1>2. \A t \in Thread : Texting(t)' => todo'[t] = todo[t] /\ Texting(t)
  BY <1>1 DEF Texting
<1>3. TextFirst' /\ OneText'
  BY <1>1, <1>2 DEF TextInv, TextFirst, OneText
<1>4. said' = said /\ kept' = kept /\ texts' = texts
  BY DEF textVars
<1>5. Numbers' /\ KeptLast' /\ Keyed' /\ CorrectsTheLast'
  BY <1>4 DEF TextInv, Numbers, KeptLast, IsLast, Before, Keyed, CorrectsTheLast
<1>6. TextsOK'
  <2>1. SUFFICES ASSUME NEW t \in Thread, Texting(t)' PROVE TextOK(This(t))'
    BY DEF TextsOK
  <2>2. TextOK(This(t)) /\ This(t)' = This(t)
    BY <1>2, <2>1 DEF TextInv, TextsOK, This
  <2> QED BY <1>4, <2>2 DEF TextOK, IsLast, Before
<1> QED BY <1>3, <1>5, <1>6 DEF TextInv

LEMMA RequestSteps ==
    ASSUME Shape, NEW t \in Thread, Check(t) \/ Store(t) \/ Send(t)
    PROVE  /\ todo[t] # <<>>
           /\ \E x : Then(t, <<>>) \/ (Then(t, <<x>>) /\ x.op \notin TextOps)
<1>1. todo[t] # <<>>
  BY DEF Check, Store, Send, Now
<1>2. This(t) \in StepOK
  BY <1>1, HeadTailProperties DEF This, Shape
<1>3. "op" \in DOMAIN This(t) /\ "n" \in DOMAIN This(t)
  BY <1>2 DEF StepOK
<1>4. \/ Then(t, <<>>)
      \/ \E op \in {"store", "send"} : \E n :
             \/ Then(t, <<[This(t) EXCEPT !.op = op]>>)
             \/ Then(t, <<[This(t) EXCEPT !.op = op, !.n = n]>>)
  BY DEF Check, Store, Send
<1>5. /\ \A op : [This(t) EXCEPT !.op = op].op = op
      /\ \A op, n : [This(t) EXCEPT !.op = op, !.n = n].op = op
  BY <1>3
<1>6. ASSUME NEW op \in {"store", "send"}, NEW n,
             \/ Then(t, <<[This(t) EXCEPT !.op = op]>>)
             \/ Then(t, <<[This(t) EXCEPT !.op = op, !.n = n]>>)
      PROVE  \E x : Then(t, <<x>>) /\ x.op \notin TextOps
  <2>1. CASE Then(t, <<[This(t) EXCEPT !.op = op]>>)
    BY <1>5, <2>1 DEF TextOps
  <2>2. CASE Then(t, <<[This(t) EXCEPT !.op = op, !.n = n]>>)
    <3>1. PICK x : x = [This(t) EXCEPT !.op = op, !.n = n]
      OBVIOUS
    <3>2. Then(t, <<x>>) /\ x.op = op
      BY <1>5, <2>2, <3>1
    <3> QED BY <3>2 DEF TextOps
  <2> QED BY <1>6, <2>1, <2>2
<1>7. \/ Then(t, <<>>)
      \/ \E x : Then(t, <<x>>) /\ x.op \notin TextOps
  BY <1>4, <1>6, Zenon
<1> QED BY <1>1, <1>7

(* A module that has handled an object leaves no message to be sent.         *)
LEMMA SilentHandles ==
    ASSUME Shape, TextFirst, Now("rx", "process"), NEW x, NEW y, NEW steps \in Seq({x, y}),
           Handles(steps), x.op \notin TextOps, y.op \notin TextOps
    PROVE  Silent("rx")'
<1>1. PICK S : S = {x, y, Popping}
  OBVIOUS
<1>2. \A step \in S : step.op \notin TextOps
  BY <1>1 DEF Popping, Step, TextOps
<1>3. steps \in Seq(S)
  BY <1>1, SeqMonotonic
<1>4. Append(steps, Popping) \in Seq(S)
  BY <1>1, <1>3, AppendProperties
<1>5. Range(Append(steps, Popping)) \subseteq S
  BY <1>4, RangeOfSeq
<1> QED BY <1>2, <1>4, <1>5, SilentThen DEF Handles, Now, Thread

LEMMA SilentPasses ==
    ASSUME Shape, TextFirst, Now("rx", "process"), Passes PROVE Silent("rx")'
<1>1. PICK x : x = Step("process", "none", This("rx").n + 1)
  OBVIOUS
<1>2. Then("rx", <<x>>) /\ x.op \notin TextOps
  BY <1>1 DEF Passes, Step, TextOps
<1> QED BY <1>2, SilentThenOne DEF Now, Thread

LEMMA ModuleSteps ==
    ASSUME \/ Unhandled \/ Core \/ KeepAlive \/ Register \/ Search \/ Vcard \/ Private
           \/ Version \/ Ping \/ Disco \/ SessionResult \/ Message \/ Presence \/ Roster
    PROVE  /\ Now("rx", "process")
           /\ \/ Passes
              \/ \E x, y : \E steps \in Seq({x, y}) :
                    Handles(steps) /\ x.op \notin TextOps /\ y.op \notin TextOps
<1>1. Now("rx", "process")
  BY DEF Unhandled, Core, KeepAlive, Register, Search, Vcard, Private, Version, Ping, Disco,
         SessionResult, Message, Presence, Roster, Calls
<1>2. /\ Arm.op \notin TextOps /\ Reply.op \notin TextOps
      /\ \A op, what, n : Step(op, what, n).op = op
      /\ \A k : Callback(k).op \notin TextOps /\ Forgetting(k).op \notin TextOps /\ Ask(k).op \notin TextOps
  BY DEF Arm, Reply, Callback, Forgetting, Ask, Step, TextOps
<1>3. \A x : Handles(<<x>>) /\ x.op \notin TextOps =>
         \E y, z : \E steps \in Seq({y, z}) :
             Handles(steps) /\ y.op \notin TextOps /\ z.op \notin TextOps
  <2>1. \A x : <<x>> \in Seq({x, x})
    OBVIOUS
  <2> QED BY <2>1
<1>4. \A k : Takes(k) =>
         \E y, z : \E steps \in Seq({y, z}) :
             Handles(steps) /\ y.op \notin TextOps /\ z.op \notin TextOps
  <2>1. \A x, y : <<x, y>> \in Seq({x, y})
    OBVIOUS
  <2> QED BY <1>2, <2>1 DEF Takes
<1>5. CASE KeepAlive \/ Presence \/ Roster
  <2>1. Passes \/ Handles(<<Arm>>) \/ Handles(<<Reply>>) \/ \E k : Handles(<<Callback(k)>>)
    BY <1>5 DEF KeepAlive, Presence, Roster
  <2> QED BY <1>1, <1>2, <1>3, <2>1
<1>6. CASE Core
  <2>1. Passes \/ \E what : Handles(<<Step("state", what, 0)>>)
    BY <1>6 DEF Core
  <2>2. CASE \E what : Handles(<<Step("state", what, 0)>>)
    <3>1. PICK what : Handles(<<Step("state", what, 0)>>)
      BY <2>2
    <3>2. PICK x : x = Step("state", what, 0)
      OBVIOUS
    <3>3. Handles(<<x>>) /\ x.op \notin TextOps
      BY <1>2, <3>1, <3>2 DEF TextOps
    <3> QED BY <1>1, <1>3, <3>3
  <2> QED BY <1>1, <2>1, <2>2
<1>7. CASE Register \/ SessionResult \/ Search \/ Vcard \/ Private \/ Version \/ Ping \/ Disco
  <2>1. Passes \/ Handles(<<Reply>>) \/ \E k : Takes(k) \/ Handles(<<Callback(k)>>)
    BY <1>7 DEF Register, SessionResult, Search, Vcard, Private, Version, Ping, Disco
  <2> QED BY <1>1, <1>2, <1>3, <1>4, <2>1
<1>8. \A x, y : \A a \in {<<>>, <<x>>}, b \in {<<>>, <<y>>} :
         Handles(a \o b) /\ x.op \notin TextOps /\ y.op \notin TextOps =>
             \E steps \in Seq({x, y}) :
                 Handles(steps) /\ x.op \notin TextOps /\ y.op \notin TextOps
  <2>1. SUFFICES ASSUME NEW x, NEW y, NEW a \in {<<>>, <<x>>}, NEW b \in {<<>>, <<y>>},
                        Handles(a \o b), x.op \notin TextOps, y.op \notin TextOps
                 PROVE  \E steps \in Seq({x, y}) : Handles(steps)
    OBVIOUS
  <2>2. a \in Seq({x, y}) /\ b \in Seq({x, y})
    <3>1. <<>> \in Seq({x, y}) /\ <<x>> \in Seq({x, y}) /\ <<y>> \in Seq({x, y})
      OBVIOUS
    <3> QED BY <3>1
  <2>3. a \o b \in Seq({x, y})
    BY <2>2, ConcatProperties
  <2> QED BY <2>1, <2>3
<1>9. CASE Message
  <2>1. \/ Passes
        \/ \E k : \E b \in {<<>>, <<Reply>>} : Handles(<<Callback(k)>> \o b)
    BY <1>9 DEF Message
  <2>2. \A k, b : b \in {<<>>, <<Reply>>} /\ Handles(<<Callback(k)>> \o b) =>
           \E steps \in Seq({Callback(k), Reply}) :
               Handles(steps) /\ Callback(k).op \notin TextOps /\ Reply.op \notin TextOps
    BY <1>2, <1>8
  <2> QED BY <1>1, <2>1, <2>2
<1>10. CASE Unhandled
  <2>1. \E a \in {<<>>, <<Reply>>}, b \in {<<>>, <<Ask("bind")>>} : Handles(a \o b)
    BY <1>10 DEF Unhandled
  <2> QED BY <1>1, <1>2, <1>8, <2>1
<1> QED BY <1>5, <1>6, <1>7, <1>9, <1>10

LEMMA ThreadSilent ==
    ASSUME TypeOK, Shape, TextFirst, NEW t \in Thread,
           \/ Check(t) \/ Store(t) \/ Send(t)
           \/ ReadInterval(t) \/ SetTimeout(t) \/ SetInterval(t) \/ IfBound(t)
           \/ ChangeState(t) \/ TellListener(t)
    PROVE  /\ UNCHANGED textVars
           /\ \A u \in Thread : todo'[u] = todo[u] \/ Silent(u)'
<1>1. UNCHANGED textVars
  BY DEF Check, Store, Send, ReadInterval, SetTimeout, SetInterval, IfBound, ChangeState, TellListener,
         textVars
<1>2. todo[t] # <<>>
  BY DEF Check, Store, Send, ReadInterval, SetTimeout, SetInterval, IfBound, ChangeState, TellListener, Now
<1>3. CASE Check(t) \/ Store(t) \/ Send(t)
  BY <1>1, <1>2, <1>3, RequestSteps, SilentThenOne
<1>4. CASE ReadInterval(t) \/ SetTimeout(t) \/ IfBound(t) \/ SetInterval(t)
  <2>1. Then(t, <<>>) \/ \E op \in {"timeout", "cancel", "ifbound"} : Then(t, <<Step(op, "none", 0)>>)
    BY <1>4 DEF ReadInterval, SetTimeout, IfBound, SetInterval
  <2>2. \A op \in {"timeout", "cancel", "ifbound"} : Step(op, "none", 0).op \notin TextOps
    BY DEF Step, TextOps
  <2> QED BY <1>1, <1>2, <2>1, <2>2, SilentThenOne
<1>5. CASE ChangeState(t)
  <2>1. PICK x : x = [Step("told", This(t).what, 1) EXCEPT !.arg = state]
    OBVIOUS
  <2>2. Then(t, <<>>) \/ Then(t, <<x>>)
    BY <1>5, <2>1 DEF ChangeState
  <2>3. x.op \notin TextOps
    BY <2>1 DEF Step, TextOps
  <2> QED BY <1>1, <1>2, <2>2, <2>3, SilentThenOne
<1>6. CASE TellListener(t)
  <2>1. CASE Then(t, <<>>)
    BY <1>1, <1>2, <2>1, SilentThenOne
  <2>2. CASE \E x, next : \E steps \in Seq({x, next}) :
               /\ x.op \in {"arm", "check", "cancel"} /\ next.op = "told"
               /\ Then(t, steps) /\ Range(steps) = {x, next}
    <3>1. PICK x, next : \E steps \in Seq({x, next}) :
               /\ x.op \in {"arm", "check", "cancel"} /\ next.op = "told"
               /\ Then(t, steps) /\ Range(steps) = {x, next}
      BY <2>2
    <3>2. PICK steps \in Seq({x, next}) : Then(t, steps) /\ Range(steps) = {x, next}
      BY <3>1
    <3>3. \A step \in Range(steps) : step.op \notin TextOps
      BY <3>1, <3>2 DEF TextOps
    <3> QED BY <1>1, <1>2, <3>2, <3>3, SilentThen
  <2> QED BY <1>6, <2>1, <2>2, Told
<1> QED BY <1>3, <1>4, <1>5, <1>6

LEMMA RxSilent ==
    ASSUME TypeOK, Shape, TextFirst,
           \/ Rx \/ Pop \/ Respond \/ Forget \/ Unhandled
           \/ Core \/ KeepAlive \/ Register \/ Search \/ Vcard \/ Private
           \/ Version \/ Ping \/ Disco \/ SessionResult \/ Message \/ Presence \/ Roster
    PROVE  /\ UNCHANGED textVars
           /\ \A u \in Thread : todo'[u] = todo[u] \/ Silent(u)'
<1>1. UNCHANGED textVars
  BY DEF Rx, Pop, Respond, Forget, Unhandled, Core, KeepAlive, Register, Search, Vcard, Private,
         Version, Ping, Disco, SessionResult, Message, Presence, Roster, Others, textVars
<1>2. \A u \in Thread \ {"rx"} : todo'[u] = todo[u]
  BY RxMoves DEF Thread
<1>3. CASE Rx
  <2>1. PICK x : x = Step("process", "none", 1)
    OBVIOUS
  <2>2. todo'["rx"] = <<x>>
    BY <1>3, <2>1 DEF Rx, Starts, Shape, Thread
  <2>3. x.op \notin TextOps /\ Range(<<x>>) = {x}
    BY <2>1, OneElement DEF Step, TextOps
  <2> QED BY <1>1, <1>2, <2>2, <2>3 DEF Silent
<1>4. CASE Pop \/ Respond \/ Forget
  <2>1. todo["rx"] # <<>>
    BY <1>4 DEF Pop, Respond, Forget, Now
  <2>2. \/ Then("rx", <<>>) \/ Then("rx", <<Step("process", "none", 1)>>)
        \/ \E k : Then("rx", <<Ask(k)>>)
    BY <1>4 DEF Pop, Respond, Forget
  <2>3. Step("process", "none", 1).op \notin TextOps /\ \A k : Ask(k).op \notin TextOps
    BY DEF Ask, Step, TextOps
  <2>4. \E x : Then("rx", <<>>) \/ (Then("rx", <<x>>) /\ x.op \notin TextOps)
    BY <2>2, <2>3
  <2> QED BY <1>1, <1>2, <2>1, <2>4, SilentThenOne DEF Thread
<1>5. CASE \/ Unhandled \/ Core \/ KeepAlive \/ Register \/ Search \/ Vcard \/ Private
           \/ Version \/ Ping \/ Disco \/ SessionResult \/ Message \/ Presence \/ Roster
  <2>1. Silent("rx")'
    BY <1>5, ModuleSteps, SilentPasses, SilentHandles
  <2> QED BY <1>1, <1>2, <2>1
<1> QED BY <1>3, <1>4, <1>5

LEMMA OthersSilent ==
    ASSUME TypeOK, Shape, TextFirst,
           \/ OtherCall \/ Run \/ StopStream \/ End \/ Expire \/ Answer \/ Change \/ PeerAsks
           \/ \E k \in AppKinds : Call(k)
    PROVE  /\ UNCHANGED textVars
           /\ \A u \in Thread : todo'[u] = todo[u] \/ Silent(u)'
<1>1. UNCHANGED textVars
  BY DEF OtherCall, Run, StopStream, End, Expire, Answer, Change, PeerAsks, Call, textVars
<1>2. ASSUME NEW t \in Thread, NEW x, x.op \notin TextOps, Starts(t, <<>>) \/ Starts(t, <<x>>)
      PROVE  \A u \in Thread : todo'[u] = todo[u] \/ Silent(u)'
  <2>1. todo'[t] \in {<<>>, <<x>>} /\ \A u \in Thread \ {t} : todo'[u] = todo[u]
    BY <1>2 DEF Starts, Shape
  <2>2. Range(<<x>>) = {x} /\ Range(<<>>) = {}
    BY OneElement
  <2> QED BY <1>2, <2>1, <2>2 DEF Silent
<1>3. CASE OtherCall
  <2>1. PICK x : Starts("app", <<x>>) /\ x.op \notin TextOps
    BY <1>3 DEF OtherCall, Step, TextOps
  <2> QED BY <1>1, <1>2, <2>1 DEF Thread
<1>4. CASE \E k \in AppKinds : Call(k)
  <2>1. PICK k, item : Starts("app", <<[Ask(k) EXCEPT !.arg = item]>>)
    BY <1>4 DEF Call
  <2>2. PICK x : x = [Ask(k) EXCEPT !.arg = item]
    OBVIOUS
  <2>3. Starts("app", <<x>>) /\ x.op \notin TextOps
    BY <2>1, <2>2 DEF Ask, Step, TextOps
  <2> QED BY <1>1, <1>2, <2>3 DEF Thread
<1>5. CASE Run \/ End
  <2>1. PICK x : x = Step("state", "closed", 0)
    OBVIOUS
  <2>2. x.op \notin TextOps /\ (Starts("run", <<>>) \/ Starts("run", <<x>>))
    BY <1>5, <2>1 DEF Run, End, Step, TextOps
  <2> QED BY <1>1, <1>2, <2>2 DEF Thread
<1>6. CASE StopStream \/ Expire \/ Answer \/ Change \/ PeerAsks
  BY <1>1, <1>6 DEF StopStream, Expire, Answer, Change, PeerAsks
<1> QED BY <1>3, <1>4, <1>5, <1>6

LEMMA FirstOf ==
    ASSUME NEW S, NEW s \in Seq(S), NEW x
    PROVE  /\ <<x>> \o s # <<>> /\ Head(<<x>> \o s) = x /\ Tail(<<x>> \o s) = s
           /\ <<>> \o s = s
<1>1. PICK U : U = S \cup {x}
  OBVIOUS
<1>2. <<x>> \in Seq(U) /\ s \in Seq(U) /\ <<>> \in Seq(U)
  BY <1>1, SeqMonotonic
<1>3. PICK w : w = <<x>> \o s
  OBVIOUS
<1>4. /\ w \in Seq(U) /\ Len(w) = 1 + Len(s) /\ w[1] = x
      /\ \A i \in 1..Len(s) : w[i + 1] = s[i]
  BY <1>2, <1>3, ConcatProperties, LenProperties
<1>5. w # <<>> /\ Len(s) \in Nat
  BY <1>2, <1>4, LenProperties, EmptySeq
<1>6. /\ Head(w) = w[1] /\ Tail(w) \in Seq(U) /\ Len(Tail(w)) = Len(w) - 1
      /\ \A i \in 1..Len(Tail(w)) : Tail(w)[i] = w[i + 1]
  BY <1>4, <1>5, HeadTailProperties
<1>7. Len(Tail(w)) = Len(s) /\ \A i \in 1..Len(s) : Tail(w)[i] = s[i]
  BY <1>4, <1>5, <1>6
<1>8. Tail(w) = s
  BY <1>2, <1>6, <1>7, SeqEqual
<1> QED BY <1>2, <1>3, <1>4, <1>5, <1>6, <1>8, ConcatEmptySeq

(* The one thread that sends a message, or begins to.                        *)
LEMMA OnlyText ==
    ASSUME Shape, Shape', TextFirst, NEW t \in Thread, \A u \in Thread \ {t} : ~Texting(u),
           NEW x,
           \/ todo[t] # <<>> /\ (Then(t, <<>>) \/ Then(t, <<x>>))
           \/ Starts(t, <<x>>)
    PROVE  /\ TextFirst' /\ OneText'
           /\ \A u \in Thread : Texting(u)' => /\ u = t /\ This(u)' = x
                                               /\ Then(t, <<x>>) \/ Starts(t, <<x>>)
<1>1. todo \in [Thread -> Seq(StepOK)] /\ todo[t] \in Seq(StepOK)
  BY DEF Shape
<1>2. \A u \in Thread \ {t} : todo'[u] = todo[u]
  BY <1>1 DEF Then, Starts
<1>3. \A u \in Thread \ {t} : ~Texting(u)'
  BY <1>2 DEF Texting
<1>4. \A u \in Thread \ {t} : todo'[u] # <<>> =>
          \A step \in Range(Tail(todo'[u])) : step.op \notin TextOps
  BY <1>2 DEF TextFirst
<1>5. CASE todo[t] # <<>> /\ Then(t, <<>>)
  <2>1. Silent(t)'
    BY <1>5, SilentThenOne
  <2>2. (~Texting(t) /\ (todo[t] # <<>> => \A step \in Range(Tail(todo[t])) : step.op \notin TextOps))'
    BY <2>1, SilentIsNotTexting, PTL
  <2> QED BY <1>3, <1>4, <2>2 DEF TextFirst, OneText
<1>6. CASE todo[t] # <<>> /\ Then(t, <<x>>)
  <2>1. Tail(todo[t]) \in Seq(StepOK)
    BY <1>1, <1>6, HeadTailProperties
  <2>2. todo'[t] = <<x>> \o Tail(todo[t])
    BY <1>1, <1>6 DEF Then
  <2>3. todo'[t] # <<>> /\ Head(todo'[t]) = x /\ Tail(todo'[t]) = Tail(todo[t])
    BY <2>1, <2>2, FirstOf
  <2>4. \A step \in Range(Tail(todo'[t])) : step.op \notin TextOps
    BY <1>6, <2>3 DEF TextFirst
  <2> QED BY <1>3, <1>4, <1>6, <2>3, <2>4 DEF TextFirst, OneText, This
<1>7. CASE Starts(t, <<x>>)
  <2>1. todo'[t] = <<x>>
    BY <1>1, <1>7 DEF Starts
  <2>2. todo'[t] # <<>> /\ Head(todo'[t]) = x /\ Tail(todo'[t]) = <<>>
    BY <2>1
  <2>3. Range(<<>>) = {}
    BY OneElement
  <2>4. TextFirst'
    BY <1>4, <2>2, <2>3 DEF TextFirst
  <2>5. OneText'
    BY <1>3 DEF OneText
  <2>6. This(t)' = x
    BY <2>2 DEF This
  <2> QED BY <1>3, <1>7, <2>4, <2>5, <2>6
<1> QED BY <1>5, <1>6, <1>7

LEMMA SaidNumbers ==
    ASSUME TypeOK
    PROVE  /\ Len(said) \in Nat /\ DOMAIN said = 1..Len(said)
           /\ \A k \in DOMAIN said : said[k].id \in Nat
<1>1. PICK S : S = [to : Keys, id : Nat, replaces : Nat]
  OBVIOUS
<1>2. said \in Seq(S)
  BY <1>1 DEF TypeOK
<1>3. Len(said) \in Nat /\ DOMAIN said = 1..Len(said) /\ \A k \in DOMAIN said : said[k] \in S
  BY <1>2, LenProperties, ElementOfSeq
<1> QED BY <1>1, <1>3

(* Nobody sends a message: a thread begins to.                               *)
LEMMA TextBegins ==
    ASSUME TypeOK, Shape, Shape', TextInv, ~Together, CallText \/ RespondText
    PROVE  TextInv'
<1>1. \A u \in Thread : ~Texting(u)
  BY DEF CallText, RespondText, MayText
<1>2. said' = said /\ kept' = kept /\ texts' = texts + 1 /\ texts \in Nat
  BY DEF CallText, RespondText, MayText, TypeOK
<1>3. PICK t \in Thread, x \in Texts :
         (todo[t] # <<>> /\ Then(t, <<x>>)) \/ Starts(t, <<x>>)
  BY DEF CallText, RespondText, Now, Thread
<1>4. /\ TextFirst' /\ OneText'
      /\ \A u \in Thread : Texting(u)' => u = t /\ This(u)' = x
  BY <1>1, <1>3, OnlyText DEF TextInv
<1>5. Numbers' /\ KeptLast' /\ Keyed' /\ CorrectsTheLast'
  <2>1. Numbers'
    <3>1. \A k \in DOMAIN said : said[k].id \in Nat
      BY SaidNumbers
    <3>2. \A k \in DOMAIN said : said[k].id <= texts + 1
      BY <1>2, <3>1 DEF TextInv, Numbers
    <3>3. \A key \in DOMAIN kept : kept[key] \in 1..(texts + 1)
      BY <1>2 DEF TextInv, Numbers
    <3> QED BY <1>2, <3>2, <3>3 DEF Numbers
  <2>2. KeptLast' /\ Keyed'
    BY <1>2 DEF TextInv, KeptLast, IsLast, Before, Keyed
  <2>3. CorrectsTheLast'
    BY <1>2 DEF TextInv, CorrectsTheLast
  <2> QED BY <2>1, <2>2, <2>3
<1>6. TextsOK'
  <2>1. x.n = texts + 1 /\ x.arg = 0 /\ x.op # "write"
    BY <1>3 DEF Texts
  <2>2. \A k \in DOMAIN said : said[k].id # texts + 1
    BY <1>2, SaidNumbers DEF TextInv, Numbers
  <2>3. \A key \in DOMAIN kept : kept[key] # texts + 1
    BY <1>2 DEF TextInv, Numbers
  <2>4. /\ x.n \in 1..texts' /\ \A k \in DOMAIN said' : said'[k].id # x.n
        /\ \A key \in DOMAIN kept' : kept'[key] # x.n
    BY <1>2, <2>1, <2>2, <2>3
  <2>6. TextOK(x)'
    BY <1>2, <2>1, <2>4 DEF TextOK
  <2>5. \A u \in Thread : Texting(u)' => This(u)' = x
    BY <1>4
  <2> QED BY <2>5, <2>6 DEF TextsOK
<1> QED BY <1>4, <1>5, <1>6 DEF TextInv

(* The thread that sends a message, the only one.                            *)
LEMMA TextHead ==
    ASSUME TypeOK, Shape, TextInv, NEW t \in Thread, NEW op \in TextOps, Now(t, op)
    PROVE  /\ todo[t] # <<>> /\ \A u \in Thread \ {t} : ~Texting(u)
           /\ TextOK(This(t)) /\ This(t).op = op /\ This(t) \in Text
           /\ This(t).n \in 1..texts /\ \A k \in DOMAIN said : said[k].id # This(t).n
           /\ This(t).what \in Addresses /\ texts \in Nat
<1>1. Texting(t)
  BY DEF Now, Texting, TextOps
<1>2. \A u \in Thread \ {t} : ~Texting(u)
  BY <1>1 DEF TextInv, OneText
<1>3. TextOK(This(t))
  BY <1>1 DEF TextInv, TextsOK
<1>4. This(t) \in Text
  BY TextStep DEF TextOps
<1> QED BY <1>2, <1>3, <1>4 DEF Now, This, TextOK, Text, TypeOK

LEMMA KeepText ==
    ASSUME TypeOK, Shape, Shape', TextInv, Regular, NEW t \in Thread, Keep(t)
    PROVE  TextInv'
<1>0. PICK to, n : to = This(t).what /\ n = This(t).n
  OBVIOUS
<1>1. PICK x : x = [This(t) EXCEPT !.op = "write"]
  OBVIOUS
<1>2. Now(t, "keep") /\ Then(t, <<x>>) /\ said' = said /\ texts' = texts
  BY <1>1 DEF Keep
<1>3. /\ todo[t] # <<>> /\ \A u \in Thread \ {t} : ~Texting(u)
      /\ TextOK(This(t)) /\ This(t).op = "keep" /\ This(t) \in Text
      /\ n \in 1..texts /\ \A k \in DOMAIN said : said[k].id # n
      /\ to \in Addresses
  BY <1>0, <1>2, TextHead DEF TextOps
<1>4. x.op = "write" /\ x.what = to /\ x.n = n /\ x.arg = 0
  <2>1. This(t).arg = 0
    BY <1>3 DEF TextOK
  <2> QED BY <1>0, <1>1, <1>3, <2>1 DEF Text
<1>5. PICK out : /\ out = IF is_bare(Jid(to)) THEN {} ELSE {BareKey(to)}
                 /\ kept' = Keeping(Key(to), n, out)
  BY <1>0 DEF Keep, Key, BareKey
<1>6. /\ DOMAIN kept' = (DOMAIN kept \ out) \cup {Key(to)}
      /\ kept'[Key(to)] = n
      /\ \A key \in DOMAIN kept' \ {Key(to)} :
            key \in DOMAIN kept /\ key \notin out /\ kept'[key] = kept[key]
  BY <1>5 DEF Keeping
<1>7. /\ TextFirst' /\ OneText'
      /\ \A u \in Thread : Texting(u)' => u = t /\ This(u)' = x
  BY <1>2, <1>3, OnlyText DEF TextInv
<1>8. Numbers'
  BY <1>2, <1>3, <1>6 DEF TextInv, Numbers
<1>9. Keyed'
  BY <1>3, <1>6 DEF TextInv, Keyed
<1>10. \A key, id : IsLast(key, id)' <=> IsLast(key, id)
  BY <1>2 DEF IsLast, Before
<1>11. KeptLast'
  <2>1. IsLast(Key(to), n)
    BY <1>3 DEF IsLast
  <2>2. \A key \in DOMAIN kept : IsLast(key, kept[key])
    BY DEF TextInv, KeptLast
  <2> QED BY <1>6, <1>10, <2>1, <2>2 DEF KeptLast
<1>12. CorrectsTheLast'
  BY <1>2 DEF TextInv, CorrectsTheLast
<1>13. TextOK(x)'
  <2>1. \A key \in DOMAIN kept' \ {Key(to)} : kept'[key] # n
    BY <1>0, <1>3, <1>6 DEF TextOK
  <2>2. \A key \in DOMAIN kept' \ {Key(to)} : ~Covers(key, Key(to))
    <3>1. SUFFICES ASSUME NEW key \in DOMAIN kept' \ {Key(to)}, Covers(key, Key(to)) PROVE FALSE
      OBVIOUS
    <3>2. PICK a \in Addresses : key = Key(a)
      BY <1>6 DEF TextInv, Keyed
    <3>3. ~is_bare(Jid(to)) /\ BareKey(to) = key
      BY <1>3, <3>1, <3>2 DEF Regular
    <3> QED BY <1>5, <1>6, <3>3
  <2> QED BY <1>2, <1>3, <1>4, <1>6, <2>1, <2>2 DEF TextOK
<1>14. TextsOK'
  BY <1>7, <1>13 DEF TextsOK
<1> QED BY <1>7, <1>8, <1>9, <1>11, <1>12, <1>14 DEF TextInv

LEMMA CorrectText ==
    ASSUME TypeOK, Shape, Shape', TextInv, NEW t \in Thread, Correct(t)
    PROVE  TextInv'
<1>0. PICK to, n : to = This(t).what /\ n = This(t).n
  OBVIOUS
<1>1. Now(t, "correct") /\ said' = said /\ texts' = texts
  BY DEF Correct
<1>2. /\ todo[t] # <<>> /\ \A u \in Thread \ {t} : ~Texting(u)
      /\ TextOK(This(t)) /\ This(t).op = "correct" /\ This(t) \in Text
      /\ n \in 1..texts /\ \A k \in DOMAIN said : said[k].id # n
  BY <1>0, <1>1, TextHead DEF TextOps
<1>3. \A key, id : IsLast(key, id)' <=> IsLast(key, id)
  BY <1>1 DEF IsLast, Before
<1>4. CorrectsTheLast'
  BY <1>1 DEF TextInv, CorrectsTheLast
<1>5. \A key \in DOMAIN kept : IsLast(key, kept[key])
  BY DEF TextInv, KeptLast
<1>6. CASE Key(to) \notin DOMAIN kept
  <2>1. kept' = kept /\ Then(t, <<>>)
    BY <1>0, <1>6 DEF Correct, Key
  <2>2. Silent(t)' /\ \A u \in Thread \ {t} : todo'[u] = todo[u]
    BY <1>2, <2>1, SilentThenOne DEF TextInv
  <2>3. UNCHANGED textVars
    BY <1>1, <2>1 DEF textVars
  <2> QED BY <2>2, <2>3, TextsElsewhere
<1>7. CASE Key(to) \in DOMAIN kept
  <2>1. PICK x : x = [This(t) EXCEPT !.op = "write", !.arg = kept[Key(to)]]
    OBVIOUS
  <2>2. Then(t, <<x>>) /\ kept' = [kept EXCEPT ![Key(to)] = n]
    BY <1>0, <1>7, <2>1 DEF Correct, Key
  <2>3. x.op = "write" /\ x.what = to /\ x.n = n /\ x.arg = kept[Key(to)]
    BY <1>0, <1>2, <2>1 DEF Text
  <2>4. /\ DOMAIN kept' = DOMAIN kept /\ kept'[Key(to)] = n
        /\ \A key \in DOMAIN kept \ {Key(to)} : kept'[key] = kept[key]
    BY <1>7, <2>2 DEF TypeOK
  <2>5. /\ TextFirst' /\ OneText'
        /\ \A u \in Thread : Texting(u)' => u = t /\ This(u)' = x
    BY <1>2, <2>2, OnlyText DEF TextInv
  <2>6. Numbers' /\ Keyed'
    BY <1>1, <1>2, <2>4 DEF TextInv, Numbers, Keyed
  <2>7. KeptLast'
    <3>1. IsLast(Key(to), n)
      BY <1>2 DEF IsLast
    <3> QED BY <1>3, <1>5, <2>4, <3>1 DEF KeptLast
  <2>8. TextOK(x)'
    <3>1. \A key \in DOMAIN kept' \ {Key(to)} : kept'[key] # n
      BY <1>0, <1>2, <2>4 DEF TextOK
    <3>2. x.arg # 0 /\ IsLast(Key(to), x.arg)'
      <4>1. kept[Key(to)] \in 1..texts
        BY <1>7 DEF TextInv, Numbers
      <4> QED BY <1>3, <1>5, <1>7, <2>3, <4>1
    <3> QED BY <1>1, <1>2, <1>7, <2>3, <2>4, <3>1, <3>2 DEF TextOK
  <2>9. TextsOK'
    BY <2>5, <2>8 DEF TextsOK
  <2> QED BY <1>4, <2>5, <2>6, <2>7, <2>9 DEF TextInv
<1> QED BY <1>6, <1>7

LEMMA ResetText ==
    ASSUME TypeOK, Shape, Shape', TextInv, NEW t \in Thread, ResetCorrection(t)
    PROVE  TextInv'
<1>1. Now(t, "reset") /\ said' = said /\ texts' = texts /\ Then(t, <<>>)
  BY DEF ResetCorrection
<1>2. todo[t] # <<>> /\ \A u \in Thread \ {t} : ~Texting(u)
  BY <1>1, TextHead DEF TextOps
<1>3. /\ DOMAIN kept' \subseteq DOMAIN kept
      /\ \A key \in DOMAIN kept' : kept'[key] = kept[key]
  BY DEF ResetCorrection
<1>4. /\ TextFirst' /\ OneText' /\ \A u \in Thread : ~Texting(u)'
  <2>1. Silent(t)' /\ \A u \in Thread \ {t} : todo'[u] = todo[u]
    BY <1>1, <1>2, SilentThenOne DEF TextInv
  <2>2. (~Texting(t) /\ (todo[t] # <<>> => \A step \in Range(Tail(todo[t])) : step.op \notin TextOps))'
    BY <2>1, SilentIsNotTexting, PTL
  <2>3. \A u \in Thread : ~Texting(u)'
    BY <1>2, <2>1, <2>2 DEF Texting
  <2> QED BY <2>1, <2>2, <2>3 DEF TextInv, TextFirst, OneText
<1>5. Numbers' /\ Keyed' /\ CorrectsTheLast'
  BY <1>1, <1>3 DEF TextInv, Numbers, Keyed, CorrectsTheLast
<1>6. KeptLast'
  BY <1>1, <1>3 DEF TextInv, KeptLast, IsLast, Before
<1> QED BY <1>4, <1>5, <1>6 DEF TextInv, TextsOK

LEMMA GreatestIs ==
    ASSUME NEW S \in SUBSET Nat, NEW m \in S, \A k \in S : k <= m
    PROVE  Max(S) = m
<1>1. \A x \in S : (\A y \in S : x >= y) => x = m
  OBVIOUS
<1>2. \A y \in S : m >= y
  OBVIOUS
<1> QED BY <1>1, <1>2 DEF Max

LEMMA GreatestIn ==
    ASSUME NEW n \in Nat, NEW I \in SUBSET (1..n), I # {}
    PROVE  Max(I) \in I
<1> DEFINE J == {n + 1 - k : k \in I}
<1>1. J \in SUBSET (1..n) /\ J # {}
  <2>1. \A k \in I : n + 1 - k \in 1..n
    OBVIOUS
  <2> QED BY <2>1
<1>2. Min(J) \in J /\ \A j \in J : Min(J) <= j
  BY <1>1, LeastIndex
<1>3. PICK m \in I : Min(J) = n + 1 - m
  BY <1>2
<1>4. \A k \in I : n + 1 - k \in J
  OBVIOUS
<1> HIDE DEF J
<1>5. I \in SUBSET Nat
  OBVIOUS
<1>6. \A k \in I : k <= m
  <2>1. \A k \in I : n + 1 - m <= n + 1 - k
    BY <1>2, <1>3, <1>4
  <2> QED BY <1>5, <2>1
<1> QED BY <1>5, <1>6, GreatestIs

(* The message that is written becomes the last one at its address, and stays *)
(* out of the way of all others.                                             *)
LEMMA WriteText ==
    ASSUME TypeOK, Shape, Shape', TextInv, NEW t \in Thread, WriteMessage(t)
    PROVE  TextInv'
<1>0. PICK to, n, arg : to = This(t).what /\ n = This(t).n /\ arg = This(t).arg
  OBVIOUS
<1>1. Now(t, "write") /\ kept' = kept /\ texts' = texts /\ Then(t, <<>>)
  BY DEF WriteMessage
<1>2. /\ todo[t] # <<>> /\ \A u \in Thread \ {t} : ~Texting(u)
      /\ TextOK(This(t)) /\ This(t).op = "write"
      /\ n \in 1..texts /\ texts \in Nat
  BY <1>0, <1>1, TextHead DEF TextOps
<1>3. Silent(t)' /\ \A u \in Thread \ {t} : todo'[u] = todo[u]
  BY <1>1, <1>2, SilentThenOne DEF TextInv
<1>4. CASE ~running
  <2>1. UNCHANGED textVars
    BY <1>1, <1>4 DEF WriteMessage, textVars
  <2> QED BY <1>3, <2>1, TextsElsewhere
<1>5. CASE running
  <2>1. PICK m : m = [to |-> Key(to), id |-> n, replaces |-> arg]
    OBVIOUS
  <2>2. said' = Append(said, m)
    BY <1>0, <1>5, <2>1 DEF WriteMessage, Key
  <2>3. m.to = Key(to) /\ m.id = n /\ m.replaces = arg
    BY <2>1
  <2>4. PICK i \in Nat \ {0} : i = Len(said) + 1
    BY SaidNumbers
  <2>5. DOMAIN said = 1..(i - 1) /\ DOMAIN said' = 1..i /\ said'[i] = m
        /\ \A k \in 1..(i - 1) : said'[k] = said[k]
    <3>1. PICK S : S = [to : Keys, id : Nat, replaces : Nat]
      OBVIOUS
    <3>2. PICK U : U = S \cup {m}
      OBVIOUS
    <3>3. said \in Seq(S)
      BY <3>1 DEF TypeOK
    <3>4. said \in Seq(U) /\ m \in U
      BY <3>2, <3>3, SeqMonotonic
    <3>5. /\ said' \in Seq(U) /\ Len(said') = Len(said) + 1
          /\ said'[Len(said) + 1] = m
          /\ \A k \in 1..Len(said) : said'[k] = said[k]
      BY <2>2, <3>4, AppendProperties
    <3> QED BY <2>4, <3>5, SaidNumbers, LenProperties
  <2>6. /\ \A key \in DOMAIN kept \ {Key(to)} : kept[key] # n /\ (arg = 0 => ~Covers(key, Key(to)))
        /\ arg # 0 => IsLast(Key(to), arg)
        /\ Key(to) \in DOMAIN kept /\ kept[Key(to)] = n
    BY <1>0, <1>2 DEF TextOK
  <2>7. /\ TextFirst' /\ OneText' /\ \A u \in Thread : ~Texting(u)'
    <3>1. (~Texting(t) /\ (todo[t] # <<>> => \A step \in Range(Tail(todo[t])) : step.op \notin TextOps))'
      BY <1>3, SilentIsNotTexting, PTL
    <3>2. \A u \in Thread : ~Texting(u)'
      BY <1>2, <1>3, <3>1 DEF Texting
    <3> QED BY <1>3, <3>1, <3>2 DEF TextInv, TextFirst, OneText
  <2>8. Numbers'
    <3>1. \A k \in DOMAIN said' : said'[k].id <= texts
      <4>1. \A k \in 1..(i - 1) : said'[k].id <= texts
        BY <2>5 DEF TextInv, Numbers
      <4>2. said'[i].id <= texts
        BY <1>2, <2>3, <2>5
      <4> QED BY <2>4, <2>5, <4>1, <4>2
    <3> QED BY <1>1, <3>1 DEF TextInv, Numbers
  <2>9. Keyed'
    BY <1>1 DEF TextInv, Keyed
  <2>10. KeptLast'
    <3>1. SUFFICES ASSUME NEW key \in DOMAIN kept PROVE IsLast(key, kept[key])'
      BY <1>1 DEF KeptLast
    <3>2. PICK id : id = kept[key]
      OBVIOUS
    <3>3. CASE key = Key(to)
      <4>1. id = n
        BY <2>6, <3>2, <3>3
      <4>2. i \in Before(key)' /\ said'[i].id = id
        BY <2>3, <2>4, <2>5, <3>3, <4>1 DEF Before
      <4>3. \A k \in Before(key)' : k <= i
        BY <2>4, <2>5 DEF Before
      <4> QED BY <1>1, <3>2, <4>2, <4>3 DEF IsLast
    <3>4. CASE key # Key(to)
      <4>1. id # n /\ IsLast(key, id)
        BY <2>6, <3>2, <3>4 DEF TextInv, KeptLast
      <4>2. \A k \in DOMAIN said' : k \in DOMAIN said \/ k = i
        BY <2>4, <2>5
      <4>3. Before(key)' = Before(key)
        <5>1. i \notin Before(key)'
          BY <2>3, <2>5, <2>6, <3>4 DEF Before
        <5>2. \A k \in DOMAIN said : k \in Before(key)' <=> k \in Before(key)
          BY <2>4, <2>5 DEF Before
        <5> QED BY <4>2, <5>1, <5>2 DEF Before
      <4>4. CASE \A k \in DOMAIN said : said[k].id # id
        <5>1. \A k \in DOMAIN said' : said'[k].id # id
          BY <2>3, <2>5, <4>1, <4>2, <4>4
        <5> QED BY <1>1, <3>2, <5>1 DEF IsLast
      <4>5. CASE \E j \in Before(key) : said[j].id = id /\ \A k \in Before(key) : k <= j
        <5>1. \E j \in Before(key)' : said'[j].id = id /\ \A k \in Before(key)' : k <= j
          BY <2>5, <4>3, <4>5 DEF Before
        <5> QED BY <1>1, <3>2, <5>1 DEF IsLast
      <4> QED BY <4>1, <4>4, <4>5 DEF IsLast
    <3> QED BY <3>3, <3>4
  <2>11. CorrectsTheLast'
    <3> DEFINE before(s, j) == {k \in 1..(j - 1) : \/ s[k].to = s[j].to
                                                   \/ /\ s[k].replaces = 0
                                                      /\ Covers(s[j].to, s[k].to)}
               Right(s, j) == \/ \A k \in 1..(j - 1) : s[k].id # s[j].replaces
                              \/ before(s, j) # {} /\ s[Max(before(s, j))].id = s[j].replaces
    <3>1. \A j \in DOMAIN said : said[j].replaces # 0 => Right(said, j)
      BY DEF TextInv, CorrectsTheLast
    <3>2. ASSUME NEW j \in 1..(i - 1), said'[j].replaces # 0 PROVE Right(said', j)
      <4>1. said'[j] = said[j] /\ \A k \in 1..(j - 1) : said'[k] = said[k]
        BY <2>4, <2>5
      <4>2. before(said', j) = before(said, j)
        BY <4>1
      <4>3. Right(said, j)
        BY <2>5, <3>1, <3>2, <4>1
      <4>4. CASE \A k \in 1..(j - 1) : said[k].id # said[j].replaces
        BY <4>1, <4>4
      <4>5. CASE before(said, j) # {} /\ said[Max(before(said, j))].id = said[j].replaces
        <5>1. Max(before(said, j)) \in before(said, j)
          <6>1. before(said, j) \subseteq 1..(j - 1)
            OBVIOUS
          <6>2. j - 1 \in Nat
            BY <2>4
          <6> HIDE DEF before
          <6> QED BY <4>5, <6>1, <6>2, GreatestIn
        <5>2. said'[Max(before(said, j))] = said[Max(before(said, j))]
          BY <4>1, <5>1
        <5> HIDE DEF before
        <5> QED BY <4>1, <4>2, <4>5, <5>2
      <4> HIDE DEF before
      <4> QED BY <4>3, <4>4, <4>5
    <3>3. ASSUME said'[i].replaces # 0 PROVE Right(said', i)
      <4>1. said'[i].to = Key(to) /\ said'[i].replaces = arg /\ arg # 0
        BY <2>3, <2>5, <3>3
      <4>2. before(said', i) = Before(Key(to))
        BY <2>5, <4>1 DEF Before
      <4>3. CASE \A k \in DOMAIN said : said[k].id # arg
        BY <2>5, <4>1, <4>3
      <4>4. CASE \E j \in Before(Key(to)) : said[j].id = arg /\ \A k \in Before(Key(to)) : k <= j
        <5>1. PICK j \in Before(Key(to)) : said[j].id = arg /\ \A k \in Before(Key(to)) : k <= j
          BY <4>4
        <5>2. Before(Key(to)) \in SUBSET Nat /\ j \in 1..(i - 1)
          BY <2>4, <2>5 DEF Before
        <5>3. Max(Before(Key(to))) = j
          BY <5>1, <5>2, GreatestIs
        <5>4. said'[j].id = arg
          BY <2>5, <5>1, <5>2
        <5> HIDE DEF before
        <5> QED BY <4>1, <4>2, <5>1, <5>3, <5>4
      <4> QED BY <2>6, <4>1, <4>3, <4>4 DEF IsLast
    <3>4. \A j \in DOMAIN said' : said'[j].replaces # 0 => Right(said', j)
      <4> HIDE DEF Right
      <4> QED BY <2>4, <2>5, <3>2, <3>3
    <3> QED BY <3>4 DEF CorrectsTheLast
  <2> QED BY <2>7, <2>8, <2>9, <2>10, <2>11 DEF TextInv, TextsOK
<1> QED BY <1>4, <1>5

LEMMA TextInvStep ==
    ASSUME ~Together, Regular, TypeOK, Shape, Shape', TextInv, [Next]_vars
    PROVE  TextInv'
<1>1. ASSUME NEW t \in Thread,
             \/ Check(t) \/ Store(t) \/ Send(t)
             \/ ReadInterval(t) \/ SetTimeout(t) \/ SetInterval(t) \/ IfBound(t)
             \/ ChangeState(t) \/ TellListener(t)
      PROVE  TextInv'
  BY <1>1, ThreadSilent, TextsElsewhere DEF TextInv
<1>2. ASSUME NEW t \in Thread, Keep(t) \/ Correct(t) \/ ResetCorrection(t) \/ WriteMessage(t)
      PROVE  TextInv'
  BY <1>2, KeepText, CorrectText, ResetText, WriteText
<1>3. CASE \/ Rx \/ Pop \/ Respond \/ Forget \/ Unhandled
           \/ Core \/ KeepAlive \/ Register \/ Search \/ Vcard \/ Private
           \/ Version \/ Ping \/ Disco \/ SessionResult \/ Message \/ Presence \/ Roster
  BY <1>3, RxSilent, TextsElsewhere DEF TextInv
<1>4. CASE \/ OtherCall \/ Run \/ StopStream \/ End \/ Expire \/ Answer \/ Change \/ PeerAsks
           \/ \E k \in AppKinds : Call(k)
  BY <1>4, OthersSilent, TextsElsewhere DEF TextInv
<1>5. CASE CallText \/ RespondText
  BY <1>5, TextBegins
<1>6. CASE UNCHANGED vars
  <2>1. UNCHANGED textVars /\ todo' = todo
    BY <1>6 DEF vars
  <2> QED BY <2>1, TextsElsewhere
<1> QED BY <1>1, <1>2, <1>3, <1>4, <1>5, <1>6 DEF Next

LEMMA TextInvInit == Init => TextInv
<1> SUFFICES ASSUME Init PROVE TextInv
  OBVIOUS
<1>1. /\ \A t \in Thread : todo[t] = <<>>
      /\ DOMAIN said = {} /\ DOMAIN kept = {}
  BY DEF Init
<1> QED BY <1>1 DEF TextInv, TextFirst, OneText, Numbers, KeptLast, Keyed, TextsOK, Texting, CorrectsTheLast

(* A correction replaces the last message that came to its address, whatever  *)
(* other threads, callbacks and sessions send, correct and reset in between,  *)
(* if one thread at a time is in a call to MessageModule, and addresses are   *)
(* what their text says.                                                     *)
THEOREM CorrectionsCorrect ==
    ASSUME ~Together, Regular
    PROVE  Spec => []CorrectsTheLast
<1>1. TypeOK /\ Shape /\ TypeOK' /\ Shape' /\ TextInv /\ [Next]_vars => TextInv'
  BY TextInvStep
<1>2. TextInv => CorrectsTheLast
  BY DEF TextInv
<1> QED BY <1>1, <1>2, TextInvInit, TypesInvariant, PTL DEF Spec

-----------------------------------------------------------------------------
(* The roster of the client follows the server's                            *)

(* The peer's requests are those of others: only the server, whose stanzas    *)
(* have no sender, speaks about the roster.                                  *)
Honest ==
    \A mod \in Module : \A obj \in PeerRequests[mod] :
        obj.query = "roster" => obj.type = "set" /\ obj.from = "other"

(* The id of the server's pushes is none of the client's.                     *)
Apart == \A k \in Kinds("private") : PushId \notin Given[k]

-----------------------------------------------------------------------------
(* The rosters of the server, as the receive queue tells them                *)

ServerRosters == UNION {[js -> Sub] : js \in SUBSET Jids}

(* What the server says of the roster in the n-th session.                    *)
IsPush(n, obj) ==
    /\ obj.tag = "iq" /\ obj.type = "set" /\ obj.query = "roster" /\ obj.items # <<>>
    /\ obj.from # "other" /\ obj.of = n

IsResult(n, obj) == obj.tag = "iq" /\ obj.type = "result" /\ obj.query = "roster" /\ obj.of = n

News(n, obj) == IsPush(n, obj) \/ IsResult(n, obj)

Applied(r, item) ==
    IF item.sub = "remove" THEN [j \in DOMAIN r \ {item.jid} |-> r[j]]
    ELSE [j \in DOMAIN r \cup {item.jid} |-> IF j = item.jid THEN item.sub ELSE r[j]]

(* A list of items is this roster.                                           *)
Represents(items, r) ==
    /\ items \in Seq(Item)
    /\ \A i, k \in DOMAIN items : items[i].jid = items[k].jid => i = k
    /\ Range(items) = Contacts(r)

(* An object that was sent when the server's roster became r2, from r.        *)
Leads(n, obj, r, r2) ==
    /\ IsPush(n, obj) => /\ obj.items[1].sub = "remove" => obj.items[1].jid \in DOMAIN r
                         /\ r2 = Applied(r, obj.items[1])
    /\ ~IsPush(n, obj) => r2 = r
    /\ IsResult(n, obj) => Represents(obj.items, r2)

(* The rosters that the server had between the objects of a queue, the last   *)
(* of which it has now.                                                      *)
Links(n, h, q, s) ==
    /\ Len(h) = Len(q) + 1 /\ h[Len(h)] = s
    /\ \A i \in DOMAIN q : Leads(n, q[i], h[i], h[i + 1])

(* There are such rosters, and the client knows the one at a position.        *)
History(n, q, s, items, at) ==
    \E h \in Seq(ServerRosters) :
        /\ Links(n, h, q, s)
        /\ at # 0 => Represents(items, h[at])

(* How far the client has come.                                               *)
Seen == IF ~fresh THEN 0 ELSE IF Handling THEN 2 ELSE 1

(* The roster of the client is one that the server had; what it is to know of *)
(* the changes since then is in the queue, in their order.                    *)
Follows == interested => History(session, rx_queue, server, roster, Seen)

(* The objects in the queue are those of one session after the other.         *)
InOrder(n, q) ==
    /\ \A i \in DOMAIN q : q[i].of <= n
    /\ \A i, k \in DOMAIN q : i <= k => q[i].of <= q[k].of

AllOf(n, q) == \A i \in DOMAIN q : q[i].of = n

Sessions ==
    /\ InOrder(session, rx_queue)
    /\ fresh => AllOf(session, rx_queue) /\ Registered("roster")

(* The server says nothing of the roster unless it has been asked.            *)
Unasked ==
    running /\ ~interested =>
        ~fresh /\ \A i \in DOMAIN rx_queue : ~News(session, rx_queue[i])

(* The ids of requests; that of bind is not looked at.                        *)
Apt(step) == step.op = "store" => step.n # PushId \/ step.what = "bind"

(* No module takes a push for an answer.                                     *)
PushIds ==
    /\ \A i \in DOMAIN rx_queue : IsPush(session, rx_queue[i]) => rx_queue[i].id = PushId
    /\ \A k \in Kind \ {"roster"} : PushId \notin ids[k]
    /\ \A t \in Thread : \A step \in Range(todo[t]) : Apt(step)

(* While a push is handed from module to module, RosterModule is yet to come. *)
PushAhead ==
    Now("rx", "process") /\ IsPush(session, Object0) /\ Registered("roster")
        => \E i \in DOMAIN modules : i >= This("rx").n /\ modules[i] = "roster"

-----------------------------------------------------------------------------
(* Sequences                                                                *)

LEMMA RemovedAtIs ==
    ASSUME NEW S, NEW s \in Seq(S), NEW n \in 1..Len(s)
    PROVE  /\ RemoveAt(s, n) \in Seq(S) /\ Len(RemoveAt(s, n)) = Len(s) - 1
           /\ \A i \in 1..(Len(s) - 1) : RemoveAt(s, n)[i] = IF i < n THEN s[i] ELSE s[i + 1]
<1>1. Len(s) \in Nat /\ n \in Nat /\ 1 <= n /\ n <= Len(s) /\ \A i \in 1..Len(s) : s[i] \in S
  BY LenProperties, ElementOfSeq
<1>2. PICK a, b : a = SubSeq(s, 1, n - 1) /\ b = SubSeq(s, n + 1, Len(s))
  OBVIOUS
<1>3. a \in Seq(S) /\ Len(a) = n - 1 /\ \A i \in 1..(n - 1) : a[i] = s[i]
  <2>1. 1 \in Int /\ n - 1 \in Int /\ \A i \in 1..(n - 1) : s[i] \in S
    BY <1>1
  <2>2. /\ a \in Seq(S) /\ Len(a) = IF 1 <= n - 1 THEN (n - 1) - 1 + 1 ELSE 0
        /\ \A i \in 1..((n - 1) - 1 + 1) : a[i] = s[1 + i - 1]
    BY <1>2, <2>1, SubSeqProperties
  <2>3. \A i \in 1..(n - 1) : 1 + i - 1 = i /\ i \in 1..((n - 1) - 1 + 1)
    BY <1>1
  <2>4. QED
    BY <1>1, <2>2, <2>3
<1>4. b \in Seq(S) /\ Len(b) = Len(s) - n /\ \A i \in 1..(Len(s) - n) : b[i] = s[n + i]
  <2>1. n + 1 \in Int /\ Len(s) \in Int /\ \A i \in (n + 1)..Len(s) : s[i] \in S
    BY <1>1
  <2>2. /\ b \in Seq(S) /\ Len(b) = IF n + 1 <= Len(s) THEN Len(s) - (n + 1) + 1 ELSE 0
        /\ \A i \in 1..(Len(s) - (n + 1) + 1) : b[i] = s[(n + 1) + i - 1]
    BY <1>2, <2>1, SubSeqProperties
  <2>3. \A i \in 1..(Len(s) - n) : (n + 1) + i - 1 = n + i /\ i \in 1..(Len(s) - (n + 1) + 1)
    BY <1>1
  <2>4. QED
    BY <1>1, <2>2, <2>3
<1>5. RemoveAt(s, n) = a \o b
  BY <1>2 DEF RemoveAt
<1>6. /\ a \o b \in Seq(S) /\ Len(a \o b) = (n - 1) + (Len(s) - n)
      /\ \A i \in 1..((n - 1) + (Len(s) - n)) : (a \o b)[i] = IF i <= n - 1 THEN a[i] ELSE b[i - (n - 1)]
  <2>1. /\ a \o b \in Seq(S) /\ Len(a \o b) = Len(a) + Len(b)
        /\ \A i \in 1..(Len(a) + Len(b)) : (a \o b)[i] = IF i <= Len(a) THEN a[i] ELSE b[i - Len(a)]
    BY <1>3, <1>4, ConcatProperties
  <2>2. QED
    BY <1>3, <1>4, <2>1
<1>7. (n - 1) + (Len(s) - n) = Len(s) - 1
  BY <1>1
<1>8. ASSUME NEW i \in 1..(Len(s) - 1) PROVE (a \o b)[i] = IF i < n THEN s[i] ELSE s[i + 1]
  <2>1. CASE i < n
    BY <1>1, <1>3, <1>6, <1>7, <2>1
  <2>2. CASE ~(i < n)
    <3>1. i - (n - 1) \in 1..(Len(s) - n) /\ n + (i - (n - 1)) = i + 1 /\ ~(i <= n - 1)
      BY <1>1, <2>2
    <3>2. (a \o b)[i] = b[i - (n - 1)] /\ b[i - (n - 1)] = s[n + (i - (n - 1))]
      BY <1>4, <1>6, <1>7, <3>1
    <3>3. QED
      BY <2>2, <3>1, <3>2
  <2>3. QED
    BY <2>1, <2>2
<1>9. QED
  BY <1>5, <1>6, <1>7, <1>8

(* An element of a sequence without another one.                             *)
LEMMA RemovedRange ==
    ASSUME NEW S, NEW s \in Seq(S), NEW n \in 1..Len(s)
    PROVE  Range(RemoveAt(s, n)) = {s[i] : i \in 1..Len(s) \ {n}}
<1>1. /\ Len(s) \in Nat /\ n \in Nat /\ 1 <= n /\ n <= Len(s)
      /\ RemoveAt(s, n) \in Seq(S) /\ Len(RemoveAt(s, n)) = Len(s) - 1
      /\ \A i \in 1..(Len(s) - 1) : RemoveAt(s, n)[i] = IF i < n THEN s[i] ELSE s[i + 1]
  <2>1. Len(s) \in Nat /\ n \in Nat /\ 1 <= n /\ n <= Len(s)
    BY LenProperties
  <2>2. /\ RemoveAt(s, n) \in Seq(S) /\ Len(RemoveAt(s, n)) = Len(s) - 1
        /\ \A i \in 1..(Len(s) - 1) : RemoveAt(s, n)[i] = IF i < n THEN s[i] ELSE s[i + 1]
    BY RemovedAtIs, Zenon
  <2>3. QED
    BY <2>1, <2>2
<1>2. Range(RemoveAt(s, n)) = {RemoveAt(s, n)[i] : i \in 1..(Len(s) - 1)}
  BY <1>1, RangeEquality
<1>3. ASSUME NEW i \in 1..(Len(s) - 1)
      PROVE  \E k \in 1..Len(s) \ {n} : RemoveAt(s, n)[i] = s[k]
  <2>1. CASE i < n
    <3>1. i \in 1..Len(s) \ {n}
      BY <1>1, <2>1
    <3>2. QED
      BY <1>1, <2>1, <3>1
  <2>2. CASE ~(i < n)
    <3>1. i + 1 \in 1..Len(s) \ {n}
      BY <1>1, <2>2
    <3>2. QED
      BY <1>1, <2>2, <3>1
  <2>3. QED
    BY <2>1, <2>2
<1>4. ASSUME NEW k \in 1..Len(s) \ {n}
      PROVE  \E i \in 1..(Len(s) - 1) : RemoveAt(s, n)[i] = s[k]
  <2>1. CASE k < n
    <3>1. k \in 1..(Len(s) - 1)
      BY <1>1, <2>1
    <3>2. QED
      BY <1>1, <2>1, <3>1
  <2>2. CASE ~(k < n)
    <3>1. k - 1 \in 1..(Len(s) - 1) /\ ~(k - 1 < n) /\ (k - 1) + 1 = k
      BY <1>1, <2>2
    <3>2. QED
      BY <1>1, <3>1
  <2>3. QED
    BY <2>1, <2>2
<1>5. {RemoveAt(s, n)[i] : i \in 1..(Len(s) - 1)} \subseteq {s[i] : i \in 1..Len(s) \ {n}}
  BY <1>3, Zenon
<1>6. {s[i] : i \in 1..Len(s) \ {n}} \subseteq {RemoveAt(s, n)[i] : i \in 1..(Len(s) - 1)}
  BY <1>4, Zenon
<1>7. QED
  BY <1>2, <1>5, <1>6, Zenon

-----------------------------------------------------------------------------
(* Rosters                                                                  *)

LEMMA ContactsAre ==
    ASSUME NEW r \in ServerRosters
    PROVE  /\ DOMAIN r \subseteq Jids /\ \A j \in DOMAIN r : r[j] \in Sub
           /\ Contacts(r) \subseteq Item
           /\ \A x \in Item : x \in Contacts(r) <=> x.jid \in DOMAIN r /\ x.sub = r[x.jid]
<1>1. PICK js \in SUBSET Jids : r \in [js -> Sub]
  BY DEF ServerRosters
<1>2. DOMAIN r = js /\ \A j \in js : r[j] \in Sub
  BY <1>1
<1>3. Contacts(r) \subseteq Item
  BY <1>1, <1>2 DEF Contacts, Item
<1>4. ASSUME NEW x \in Item
      PROVE  x \in Contacts(r) <=> x.jid \in DOMAIN r /\ x.sub = r[x.jid]
  <2>1. x = [jid |-> x.jid, sub |-> x.sub]
    BY DEF Item
  <2>2. ASSUME x \in Contacts(r) PROVE x.jid \in DOMAIN r /\ x.sub = r[x.jid]
    BY <2>2 DEF Contacts
  <2>3. ASSUME x.jid \in DOMAIN r, x.sub = r[x.jid] PROVE x \in Contacts(r)
    <3>1. x = [jid |-> x.jid, sub |-> r[x.jid]]
      BY <2>1, <2>3
    <3>2. QED
      BY <2>3, <3>1 DEF Contacts
  <2>4. QED
    BY <2>2, <2>3
<1>5. QED
  BY <1>1, <1>2, <1>3, <1>4

LEMMA AppliedIs ==
    ASSUME NEW r \in ServerRosters, NEW item \in Item
    PROVE  /\ Applied(r, item) \in ServerRosters
           /\ \A x \in Item : x \in Contacts(Applied(r, item)) <=>
                 \/ x.jid # item.jid /\ x \in Contacts(r)
                 \/ item.sub # "remove" /\ x = item
<1>1. DOMAIN r \subseteq Jids /\ \A j \in DOMAIN r : r[j] \in Sub
  BY ContactsAre
<1>2. /\ item.jid \in Jids /\ item.sub \in Sub \cup {"remove"}
      /\ \A x \in Item : x = item <=> x.jid = item.jid /\ x.sub = item.sub
  BY DEF Item
<1>3. PICK r2 : r2 = Applied(r, item)
  OBVIOUS
<1>4. CASE item.sub = "remove"
  <2>1. /\ DOMAIN r2 = DOMAIN r \ {item.jid}
        /\ \A j \in DOMAIN r2 : r2[j] = r[j]
        /\ r2 = [j \in DOMAIN r \ {item.jid} |-> r[j]]
    BY <1>3, <1>4 DEF Applied
  <2>2. r2 \in [DOMAIN r \ {item.jid} -> Sub] /\ DOMAIN r \ {item.jid} \in SUBSET Jids
    <3>1. \A j \in DOMAIN r \ {item.jid} : r[j] \in Sub
      BY <1>1
    <3>2. r2 \in [DOMAIN r \ {item.jid} -> Sub]
      BY <2>1, <3>1
    <3>3. QED
      BY <1>1, <3>2
  <2>3. r2 \in ServerRosters
    BY <2>2 DEF ServerRosters
  <2>4. \A x \in Item : x \in Contacts(r2) <=> x.jid # item.jid /\ x \in Contacts(r)
    BY <2>1, <2>3, ContactsAre
  <2>5. QED
    BY <1>3, <1>4, <2>3, <2>4
<1>5. CASE item.sub # "remove"
  <2>1. /\ DOMAIN r2 = DOMAIN r \cup {item.jid} /\ r2[item.jid] = item.sub
        /\ \A j \in DOMAIN r \ {item.jid} : r2[j] = r[j]
        /\ r2 = [j \in DOMAIN r \cup {item.jid} |-> IF j = item.jid THEN item.sub ELSE r[j]]
    BY <1>3, <1>5 DEF Applied
  <2>2. r2 \in [DOMAIN r \cup {item.jid} -> Sub] /\ DOMAIN r \cup {item.jid} \in SUBSET Jids
    <3>1. \A j \in DOMAIN r \cup {item.jid} : (IF j = item.jid THEN item.sub ELSE r[j]) \in Sub
      BY <1>1, <1>2, <1>5
    <3>2. r2 \in [DOMAIN r \cup {item.jid} -> Sub]
      BY <2>1, <3>1
    <3>3. QED
      BY <1>1, <1>2, <3>2
  <2>3. r2 \in ServerRosters
    BY <2>2 DEF ServerRosters
  <2>4. ASSUME NEW x \in Item
        PROVE  x \in Contacts(r2) <=> (x.jid # item.jid /\ x \in Contacts(r)) \/ x = item
    <3>1. /\ x \in Contacts(r2) <=> x.jid \in DOMAIN r2 /\ x.sub = r2[x.jid]
          /\ x \in Contacts(r) <=> x.jid \in DOMAIN r /\ x.sub = r[x.jid]
      BY <2>3, ContactsAre
    <3>2. CASE x.jid = item.jid
      BY <1>2, <2>1, <3>1, <3>2
    <3>3. CASE x.jid # item.jid
      BY <1>2, <2>1, <3>1, <3>3
    <3>4. QED
      BY <3>2, <3>3
  <2>5. QED
    BY <1>3, <1>5, <2>3, <2>4
<1>6. QED
  BY <1>4, <1>5

LEMMA ItemsAre ==
    ASSUME NEW items \in Seq(Item)
    PROVE  /\ Len(items) \in Nat /\ DOMAIN items = 1..Len(items)
           /\ \A i \in 1..Len(items) : items[i] \in Item
           /\ Range(items) = {items[i] : i \in 1..Len(items)}
  BY LenProperties, ElementOfSeq, RangeEquality

(* The roster follows a push.                                                *)
LEMMA PushRepresented ==
    ASSUME NEW r \in ServerRosters, NEW items, Represents(items, r), NEW item \in Item,
           item.sub = "remove" => item.jid \in DOMAIN r
    PROVE  Represents(HandlePush(items, item), Applied(r, item))
<1>1. /\ items \in Seq(Item) /\ Range(items) = Contacts(r)
      /\ \A i, k \in DOMAIN items : items[i].jid = items[k].jid => i = k
  BY DEF Represents
<1>2. /\ Len(items) \in Nat /\ DOMAIN items = 1..Len(items)
      /\ \A i \in 1..Len(items) : items[i] \in Item
      /\ Range(items) = {items[i] : i \in 1..Len(items)}
  BY <1>1, ItemsAre
<1>3. PICK new : new = HandlePush(items, item)
  OBVIOUS
<1>4. \A x \in Item : x \in Contacts(Applied(r, item)) <=>
          \/ x.jid # item.jid /\ x \in Range(items)
          \/ item.sub # "remove" /\ x = item
  BY <1>1, AppliedIs
<1>5. Contacts(Applied(r, item)) \subseteq Item
  BY AppliedIs, ContactsAre
<1>6. CASE /\ \A i \in 1..Len(items) : items[i].jid # item.jid
           /\ new = Append(items, item)
  <2>1. item.sub # "remove"
    <3>1. SUFFICES ASSUME item.sub = "remove" PROVE FALSE
      OBVIOUS
    <3>2. PICK x \in Item : x.jid = item.jid /\ x.sub = r[item.jid]
      <4>1. r[item.jid] \in Sub
        BY <3>1, ContactsAre
      <4>2. [jid |-> item.jid, sub |-> r[item.jid]] \in Item
        BY <4>1 DEF Item
      <4>3. QED
        BY <4>2
    <3>3. x \in Contacts(r)
      BY <3>1, <3>2, ContactsAre
    <3>4. QED
      BY <1>1, <1>2, <1>6, <3>2, <3>3
  <2>2. /\ new \in Seq(Item) /\ Len(new) = Len(items) + 1
        /\ \A i \in 1..Len(items) : new[i] = items[i]
        /\ new[Len(items) + 1] = item
    BY <1>1, <1>6, AppendProperties
  <2>3. DOMAIN new = 1..(Len(items) + 1) /\ Range(new) = {new[i] : i \in 1..(Len(items) + 1)}
    BY <2>2, ItemsAre
  <2>4. \A i \in 1..(Len(items) + 1) : i \in 1..Len(items) \/ i = Len(items) + 1
    BY <1>2
  <2>5. \A i, k \in DOMAIN new : new[i].jid = new[k].jid => i = k
    BY <1>1, <1>2, <1>6, <2>2, <2>3, <2>4
  <2>6. Range(new) = Range(items) \cup {item}
    <3>1. \A i \in 1..Len(items) : i \in 1..(Len(items) + 1)
      BY <1>2
    <3>2. Len(items) + 1 \in 1..(Len(items) + 1)
      BY <1>2
    <3>3. QED
      BY <1>2, <2>2, <2>3, <2>4, <3>1, <3>2
  <2>7. \A x \in Range(items) : x.jid # item.jid /\ x \in Item
    BY <1>2, <1>6
  <2>8. Range(new) = Contacts(Applied(r, item))
    BY <1>4, <1>5, <2>1, <2>6, <2>7
  <2>9. QED
    BY <1>3, <2>2, <2>5, <2>8 DEF Represents
<1>7. ASSUME NEW at \in 1..Len(items), items[at].jid = item.jid,
             new = IF item.sub = "remove" THEN RemoveAt(items, at) ELSE [items EXCEPT ![at] = item]
      PROVE  Represents(new, Applied(r, item))
  <2>1. \A i \in 1..Len(items) : items[i].jid = item.jid <=> i = at
    BY <1>1, <1>2, <1>7
  <2> DEFINE others == {items[i] : i \in 1..Len(items) \ {at}}
  <2>2. \A x : x \in others <=> x \in Range(items) /\ x.jid # item.jid
    BY <1>2, <2>1
  <2>3. others \subseteq Item
    BY <1>2
  <2> HIDE DEF others
  <2>4. CASE item.sub = "remove"
    <3>1. /\ new \in Seq(Item) /\ Len(new) = Len(items) - 1
          /\ \A i \in 1..(Len(items) - 1) : new[i] = IF i < at THEN items[i] ELSE items[i + 1]
      BY <1>1, <1>7, <2>4, RemovedAtIs
    <3>2. Range(new) = others
      BY <1>1, <1>7, <2>4, RemovedRange DEF others
    <3>3. DOMAIN new = 1..(Len(items) - 1)
      BY <3>1, ItemsAre
    <3>4. ASSUME NEW i \in DOMAIN new, NEW k \in DOMAIN new, new[i].jid = new[k].jid PROVE i = k
      <4>1. \A j \in DOMAIN new : \E m \in 1..Len(items) :
               new[j] = items[m] /\ ((m = j /\ j < at) \/ (m = j + 1 /\ ~(j < at)))
        BY <1>2, <3>1, <3>3
      <4>2. PICK m \in 1..Len(items) :
               new[i] = items[m] /\ ((m = i /\ i < at) \/ (m = i + 1 /\ ~(i < at)))
        BY <4>1
      <4>3. PICK n \in 1..Len(items) :
               new[k] = items[n] /\ ((n = k /\ k < at) \/ (n = k + 1 /\ ~(k < at)))
        BY <4>1
      <4>4. m = n
        BY <1>1, <1>2, <3>4, <4>2, <4>3
      <4>5. i \in Nat /\ k \in Nat /\ at \in Nat /\ m \in Nat
        BY <1>2, <3>3
      <4>6. (m = i /\ i < at) \/ (m = i + 1 /\ ~(i < at))
        BY <4>2
      <4>7. (m = k /\ k < at) \/ (m = k + 1 /\ ~(k < at))
        BY <4>3, <4>4
      <4>8. QED
        BY <4>5, <4>6, <4>7
    <3>5. Range(new) = Contacts(Applied(r, item))
      BY <1>4, <1>5, <2>2, <2>3, <2>4, <3>2
    <3>6. QED
      BY <3>1, <3>4, <3>5 DEF Represents
  <2>5. CASE item.sub # "remove"
    <3>1. /\ new \in Seq(Item) /\ Len(new) = Len(items)
          /\ \A i \in 1..Len(items) : new[i] = IF i = at THEN item ELSE items[i]
      BY <1>1, <1>7, <2>5, ExceptSeq
    <3>2. DOMAIN new = 1..Len(items) /\ Range(new) = {new[i] : i \in 1..Len(items)}
      BY <3>1, ItemsAre
    <3>3. \A i \in 1..Len(items) : new[i].jid = items[i].jid
      BY <1>7, <3>1
    <3>4. \A i, k \in DOMAIN new : new[i].jid = new[k].jid => i = k
      BY <1>1, <1>2, <3>2, <3>3
    <3>5. Range(new) = others \cup {item}
      BY <3>1, <3>2 DEF others
    <3>6. Range(new) = Contacts(Applied(r, item))
      BY <1>4, <1>5, <2>2, <2>3, <2>5, <3>5
    <3>7. QED
      BY <3>1, <3>4, <3>6 DEF Represents
  <2>6. QED
    BY <2>4, <2>5
<1>8. QED
  <2>1. \/ (\A i \in 1..Len(items) : items[i].jid # item.jid) /\ new = Append(items, item)
        \/ \E at \in 1..Len(items) :
              /\ items[at].jid = item.jid
              /\ new = IF item.sub = "remove" THEN RemoveAt(items, at)
                       ELSE [items EXCEPT ![at] = item]
    BY <1>1, <1>3, HandlePushIs
  <2>2. QED
    BY <1>3, <1>6, <1>7, <2>1

(* A list that represents a roster has as many items.                         *)
LEMMA AsMany ==
    ASSUME NEW r \in ServerRosters, NEW items, Represents(items, r)
    PROVE  Len(items) = Cardinality(DOMAIN r)
<1>1. /\ items \in Seq(Item) /\ Range(items) = Contacts(r)
      /\ \A i, k \in DOMAIN items : items[i].jid = items[k].jid => i = k
  BY DEF Represents
<1>2. /\ Len(items) \in Nat /\ DOMAIN items = 1..Len(items)
      /\ \A i \in 1..Len(items) : items[i] \in Item
      /\ Range(items) = {items[i] : i \in 1..Len(items)}
  BY <1>1, ItemsAre
<1> DEFINE g == [i \in 1..Len(items) |-> items[i].jid]
<1>3. \A i \in 1..Len(items) : g[i] = items[i].jid /\ g[i] \in DOMAIN r
  <2>1. \A x \in Contacts(r) : x.jid \in DOMAIN r
    BY ContactsAre
  <2>2. \A i \in 1..Len(items) : items[i] \in Contacts(r)
    BY <1>1, <1>2
  <2>3. QED
    BY <2>1, <2>2
<1>4. \A j \in DOMAIN r : \E i \in 1..Len(items) : g[i] = j
  <2>1. SUFFICES ASSUME NEW j \in DOMAIN r PROVE \E i \in 1..Len(items) : items[i].jid = j
    OBVIOUS
  <2>2. [jid |-> j, sub |-> r[j]] \in Contacts(r)
    BY DEF Contacts
  <2>3. PICK i \in 1..Len(items) : items[i] = [jid |-> j, sub |-> r[j]]
    BY <1>1, <1>2, <2>2
  <2>4. QED
    BY <2>3
<1>5. \A i, k \in 1..Len(items) : g[i] = g[k] => i = k
  BY <1>1, <1>2
<1>6. g \in [1..Len(items) -> DOMAIN r]
  BY <1>3
<1> HIDE DEF g
<1>7. g \in Bijection(1..Len(items), DOMAIN r)
  BY <1>4, <1>5, <1>6 DEF Bijection, Injection, Surjection, IsInjective
<1>8. ExistsBijection(1..Len(items), DOMAIN r)
  BY <1>7 DEF ExistsBijection
<1>9. IsFiniteSet(1..Len(items)) /\ Cardinality(1..Len(items)) = Len(items)
  <2>1. 1 \in Int /\ Len(items) \in Int
    BY <1>2
  <2>2. /\ IsFiniteSet(1..Len(items))
        /\ Cardinality(1..Len(items)) = IF 1 > Len(items) THEN 0 ELSE Len(items) - 1 + 1
    BY <2>1, FS_Interval
  <2>3. (IF 1 > Len(items) THEN 0 ELSE Len(items) - 1 + 1) = Len(items)
    BY <1>2
  <2>4. QED
    BY <2>2, <2>3
<1>10. QED
  BY <1>8, <1>9, FS_Bijection

(* What the server sends as its roster.                                       *)
LEMMA RosterSent ==
    ASSUME TypeOK
    PROVE  /\ server \in ServerRosters
           /\ Represents(SetToSeq(Contacts(server)), server)
<1>1. server \in [DOMAIN server -> Sub] /\ DOMAIN server \subseteq Jids
  BY DEF TypeOK
<1>2. server \in ServerRosters
  BY <1>1 DEF ServerRosters
<1>3. PICK s : s = SetToSeq(Contacts(server))
  OBVIOUS
<1>4. s \in Seq(Contacts(server)) /\ Range(s) = Contacts(server) /\ IsInjective(s)
  BY <1>3, ContactsFinite, RosterAsSeq
<1>5. s \in Seq(Item)
  BY <1>2, <1>4, ContactsAre, SeqMonotonic
<1>6. /\ DOMAIN s = 1..Len(s) /\ \A i \in 1..Len(s) : s[i] \in Item /\ s[i] \in Contacts(server)
  BY <1>4, <1>5, ItemsAre, ElementOfSeq
<1>7. ASSUME NEW i \in DOMAIN s, NEW k \in DOMAIN s, s[i].jid = s[k].jid PROVE i = k
  <2>1. s[i].sub = s[k].sub
    BY <1>2, <1>6, <1>7, ContactsAre
  <2>2. s[i] = s[k]
    BY <1>6, <1>7, <2>1 DEF Item
  <2>3. QED
    BY <1>4, <2>2 DEF IsInjective
<1>8. QED
  BY <1>2, <1>3, <1>4, <1>5, <1>7 DEF Represents

-----------------------------------------------------------------------------
(* The rosters that the server had                                          *)

LEMMA HistoryParts ==
    ASSUME NEW n, NEW q \in Seq(Object), NEW h \in Seq(ServerRosters), NEW s, Links(n, h, q, s)
    PROVE  /\ Len(q) \in Nat /\ DOMAIN q = 1..Len(q) /\ Len(h) = Len(q) + 1 /\ h[Len(q) + 1] = s
           /\ \A i \in 1..Len(q) : q[i] \in Object /\ Leads(n, q[i], h[i], h[i + 1])
           /\ \A i \in 1..(Len(q) + 1) : h[i] \in ServerRosters
<1>1. Len(q) \in Nat /\ DOMAIN q = 1..Len(q) /\ \A i \in 1..Len(q) : q[i] \in Object
  BY LenProperties, ElementOfSeq
<1>2. Len(h) = Len(q) + 1 /\ h[Len(h)] = s /\ \A i \in DOMAIN q : Leads(n, q[i], h[i], h[i + 1])
  BY DEF Links
<1>3. \A i \in 1..Len(h) : h[i] \in ServerRosters
  BY ElementOfSeq
<1>4. QED
  BY <1>1, <1>2, <1>3

LEMMA Unchanging ==
    ASSUME NEW n, NEW q \in Seq(Object), NEW s \in ServerRosters, NEW items,
           \A i \in DOMAIN q : ~News(n, q[i])
    PROVE  History(n, q, s, items, 0)
<1>1. Len(q) \in Nat /\ DOMAIN q = 1..Len(q)
  BY LenProperties
<1> DEFINE h == [i \in 1..(Len(q) + 1) |-> s]
<1>2. h \in Seq(ServerRosters) /\ Len(h) = Len(q) + 1 /\ \A i \in 1..(Len(q) + 1) : h[i] = s
  BY <1>1
<1> HIDE DEF h
<1>3. h[Len(h)] = s
  <2>1. Len(q) + 1 \in 1..(Len(q) + 1)
    BY <1>1
  <2>2. QED
    BY <1>2, <2>1
<1>4. ASSUME NEW i \in DOMAIN q PROVE Leads(n, q[i], h[i], h[i + 1])
  <2>1. i \in 1..(Len(q) + 1) /\ i + 1 \in 1..(Len(q) + 1)
    BY <1>1
  <2>2. h[i] = s /\ h[i + 1] = s
    BY <1>2, <2>1
  <2>3. QED
    BY <2>2 DEF Leads, News
<1>5. Links(n, h, q, s)
  BY <1>2, <1>3, <1>4 DEF Links
<1>6. QED
  BY <1>2, <1>5 DEF History

(* One object more.                                                          *)
LEMMA Continued ==
    ASSUME NEW n, NEW q \in Seq(Object), NEW s, NEW items, NEW at \in {0, 1, 2},
           History(n, q, s, items, at), at = 2 => q # <<>>,
           NEW obj \in Object, NEW s2 \in ServerRosters, Leads(n, obj, s, s2)
    PROVE  History(n, Append(q, obj), s2, items, at)
<1>1. PICK h \in Seq(ServerRosters) : Links(n, h, q, s) /\ (at # 0 => Represents(items, h[at]))
  BY DEF History
<1>2. /\ Len(q) \in Nat /\ DOMAIN q = 1..Len(q) /\ Len(h) = Len(q) + 1 /\ h[Len(q) + 1] = s
      /\ \A i \in 1..Len(q) : q[i] \in Object /\ Leads(n, q[i], h[i], h[i + 1])
  BY <1>1, HistoryParts
<1>3. PICK q2, h2 : q2 = Append(q, obj) /\ h2 = Append(h, s2)
  OBVIOUS
<1>4. /\ q2 \in Seq(Object) /\ Len(q2) = Len(q) + 1 /\ q2[Len(q) + 1] = obj
      /\ \A i \in 1..Len(q) : q2[i] = q[i]
  BY <1>3, AppendProperties
<1>5. /\ h2 \in Seq(ServerRosters) /\ Len(h2) = Len(q) + 2 /\ h2[Len(q) + 2] = s2
      /\ \A i \in 1..(Len(q) + 1) : h2[i] = h[i]
  <2>1. /\ h2 \in Seq(ServerRosters) /\ Len(h2) = Len(h) + 1 /\ h2[Len(h) + 1] = s2
        /\ \A i \in 1..Len(h) : h2[i] = h[i]
    BY <1>3, AppendProperties
  <2>2. Len(q) + 1 + 1 = Len(q) + 2
    BY <1>2
  <2>3. QED
    BY <1>2, <2>1, <2>2
<1>6. DOMAIN q2 = 1..(Len(q) + 1)
  BY <1>4, LenProperties
<1>7. ASSUME NEW i \in 1..(Len(q) + 1) PROVE Leads(n, q2[i], h2[i], h2[i + 1])
  <2>1. CASE i = Len(q) + 1
    <3>1. h2[i] = s /\ h2[i + 1] = s2 /\ q2[i] = obj
      BY <1>2, <1>4, <1>5, <2>1
    <3>2. QED
      BY <3>1
  <2>2. CASE i # Len(q) + 1
    <3>1. i \in 1..Len(q) /\ i + 1 \in 1..(Len(q) + 1)
      BY <1>2, <2>2
    <3>2. QED
      BY <1>2, <1>4, <1>5, <3>1
  <2>3. QED
    BY <2>1, <2>2
<1>8. Links(n, h2, q2, s2)
  <2>1. Len(h2) = Len(q2) + 1 /\ h2[Len(h2)] = s2
    BY <1>2, <1>4, <1>5
  <2>2. QED
    BY <1>6, <1>7, <2>1 DEF Links
<1>9. at # 0 => h2[at] = h[at]
  <2>1. at = 2 => Len(q) # 0
    BY EmptySeq
  <2>2. at # 0 => at \in 1..(Len(q) + 1)
    BY <1>2, <2>1
  <2>3. QED
    BY <1>5, <2>2
<1>10. QED
  BY <1>1, <1>3, <1>5, <1>8, <1>9 DEF History

(* The first object has been handled, and is taken away.                      *)
LEMMA TakenAway ==
    ASSUME NEW n, NEW q \in Seq(Object), q # <<>>, NEW s, NEW items, NEW at \in {0, 2},
           History(n, q, s, items, at)
    PROVE  History(n, Tail(q), s, items, IF at = 0 THEN 0 ELSE 1)
<1>1. PICK h \in Seq(ServerRosters) : Links(n, h, q, s) /\ (at # 0 => Represents(items, h[at]))
  BY DEF History
<1>2. /\ Len(q) \in Nat /\ DOMAIN q = 1..Len(q) /\ Len(h) = Len(q) + 1 /\ h[Len(q) + 1] = s
      /\ \A i \in 1..Len(q) : q[i] \in Object /\ Leads(n, q[i], h[i], h[i + 1])
  BY <1>1, HistoryParts
<1>3. Len(q) # 0 /\ h # <<>>
  BY <1>2, EmptySeq
<1>4. PICK q2, h2 : q2 = Tail(q) /\ h2 = Tail(h)
  OBVIOUS
<1>5. /\ q2 \in Seq(Object) /\ Len(q2) = Len(q) - 1
      /\ \A i \in 1..(Len(q) - 1) : q2[i] = q[i + 1]
  <2>1. /\ q2 \in Seq(Object) /\ Len(q2) = Len(q) - 1
        /\ \A i \in 1..Len(q2) : q2[i] = q[i + 1]
    BY <1>4, HeadTailProperties
  <2>2. QED
    BY <2>1
<1>6. /\ h2 \in Seq(ServerRosters) /\ Len(h2) = Len(q)
      /\ \A i \in 1..Len(q) : h2[i] = h[i + 1]
  <2>1. /\ h2 \in Seq(ServerRosters) /\ Len(h2) = Len(h) - 1
        /\ \A i \in 1..Len(h2) : h2[i] = h[i + 1]
    BY <1>3, <1>4, HeadTailProperties
  <2>2. Len(h) - 1 = Len(q)
    BY <1>2
  <2>3. QED
    BY <2>1, <2>2
<1>7. DOMAIN q2 = 1..(Len(q) - 1)
  BY <1>5, LenProperties
<1>8. ASSUME NEW i \in 1..(Len(q) - 1) PROVE Leads(n, q2[i], h2[i], h2[i + 1])
  <2>1. i \in 1..Len(q) /\ i + 1 \in 1..Len(q)
    BY <1>2, <1>3
  <2>2. Leads(n, q[i + 1], h[i + 1], h[(i + 1) + 1])
    BY <1>2, <2>1
  <2>3. h2[i] = h[i + 1] /\ h2[i + 1] = h[(i + 1) + 1] /\ q2[i] = q[i + 1]
    BY <1>5, <1>6, <2>1
  <2>4. QED
    BY <2>2, <2>3
<1>9. Links(n, h2, q2, s)
  <2>1. Len(q) - 1 + 1 = Len(q) /\ Len(q) \in 1..Len(q)
    BY <1>2, <1>3
  <2>2. Len(h2) = Len(q2) + 1 /\ h2[Len(h2)] = s
    BY <1>2, <1>5, <1>6, <2>1
  <2>3. QED
    BY <1>7, <1>8, <2>2 DEF Links
<1>10. at = 2 => h2[1] = h[at]
  BY <1>2, <1>3, <1>6
<1>11. QED
  BY <1>1, <1>4, <1>6, <1>9, <1>10 DEF History

LEMMA FirstLeads ==
    ASSUME NEW n, NEW q \in Seq(Object), q # <<>>, NEW h \in Seq(ServerRosters), NEW s,
           Links(n, h, q, s)
    PROVE  /\ Leads(n, Head(q), h[1], h[2]) /\ h[1] \in ServerRosters /\ h[2] \in ServerRosters
           /\ Head(q) \in Object
<1>1. /\ Len(q) \in Nat
      /\ \A i \in 1..Len(q) : q[i] \in Object /\ Leads(n, q[i], h[i], h[i + 1])
      /\ \A i \in 1..(Len(q) + 1) : h[i] \in ServerRosters
  BY HistoryParts
<1>2. Len(q) # 0 /\ Head(q) = q[1]
  BY <1>1, EmptySeq, HeadTailProperties
<1>3. 1 \in 1..Len(q) /\ 1 \in 1..(Len(q) + 1) /\ 2 \in 1..(Len(q) + 1) /\ 1 + 1 = 2
  BY <1>1, <1>2
<1>4. QED
  BY <1>1, <1>2, <1>3

(* The first object has been handled, by whoever.                            *)
LEMMA OtherHandled ==
    ASSUME NEW n, NEW q \in Seq(Object), q # <<>>, NEW s, NEW items,
           History(n, q, s, items, 1), ~IsPush(n, Head(q))
    PROVE  History(n, q, s, items, 2)
<1>1. PICK h \in Seq(ServerRosters) : Links(n, h, q, s) /\ Represents(items, h[1])
  BY DEF History
<1>2. h[2] = h[1]
  BY <1>1, FirstLeads DEF Leads
<1>3. QED
  BY <1>1, <1>2 DEF History

LEMMA PushHandled ==
    ASSUME NEW n, NEW q \in Seq(Object), q # <<>>, NEW s, NEW items,
           History(n, q, s, items, 1), IsPush(n, Head(q))
    PROVE  History(n, q, s, HandlePush(items, Head(q).items[1]), 2)
<1>1. PICK h \in Seq(ServerRosters) : Links(n, h, q, s) /\ Represents(items, h[1])
  BY DEF History
<1>2. PICK item : item = Head(q).items[1]
  OBVIOUS
<1>3. /\ item.sub = "remove" => item.jid \in DOMAIN h[1]
      /\ h[2] = Applied(h[1], item) /\ h[1] \in ServerRosters
  BY <1>1, <1>2, FirstLeads DEF Leads
<1>4. item \in Item
  <2>1. Head(q).items \in Seq(Item) /\ Head(q).items # <<>>
    BY <1>1, FirstLeads DEF Object, IsPush
  <2>2. QED
    BY <1>2, <2>1, EmptySeq, ElementOfSeq
<1>5. Represents(HandlePush(items, item), h[2])
  BY <1>1, <1>3, <1>4, PushRepresented
<1>6. QED
  BY <1>1, <1>2, <1>5 DEF History

LEMMA ResultHandled ==
    ASSUME NEW n, NEW q \in Seq(Object), q # <<>>, NEW s, NEW items, NEW at,
           History(n, q, s, items, at), IsResult(n, Head(q))
    PROVE  History(n, q, s, Head(q).items, 2)
<1>1. PICK h \in Seq(ServerRosters) : Links(n, h, q, s)
  BY DEF History
<1>2. Represents(Head(q).items, h[2])
  BY <1>1, FirstLeads DEF Leads
<1>3. QED
  BY <1>1, <1>2 DEF History

LEMMA Forgotten ==
    ASSUME NEW n, NEW q, NEW s, NEW items, NEW at, History(n, q, s, items, at), NEW any
    PROVE  History(n, q, s, any, 0)
  BY DEF History

(* When there is no news left, the client's roster is the server's.           *)
LEMMA CaughtUp ==
    ASSUME NEW n, NEW q \in Seq(Object), NEW s, NEW items, NEW at \in {1, 2},
           History(n, q, s, items, at), at = 2 => q # <<>>,
           \A i \in DOMAIN q : ~IsPush(n, q[i])
    PROVE  s \in ServerRosters /\ Represents(items, s)
<1>1. PICK h \in Seq(ServerRosters) : Links(n, h, q, s) /\ Represents(items, h[at])
  BY DEF History
<1>2. /\ Len(q) \in Nat /\ DOMAIN q = 1..Len(q) /\ Len(h) = Len(q) + 1 /\ h[Len(q) + 1] = s
      /\ \A i \in 1..Len(q) : q[i] \in Object /\ Leads(n, q[i], h[i], h[i + 1])
      /\ \A i \in 1..(Len(q) + 1) : h[i] \in ServerRosters
  BY <1>1, HistoryParts
<1>3. \A i \in 1..Len(q) : h[i + 1] = h[i]
  BY <1>2 DEF Leads
<1> DEFINE I == {i \in 1..(Len(q) + 1) : h[i] = s}
<1>4. Len(q) + 1 \in I /\ I \in SUBSET (1..(Len(q) + 1)) /\ Len(q) + 1 \in Nat
  BY <1>2
<1>5. PICK m \in I : \A i \in I : m <= i
  BY <1>4, LeastIndex
<1>6. m = 1
  <2>1. SUFFICES ASSUME m # 1 PROVE FALSE
    OBVIOUS
  <2>2. m - 1 \in 1..Len(q) /\ (m - 1) + 1 = m /\ m - 1 \in 1..(Len(q) + 1) /\ ~(m <= m - 1)
    BY <1>2, <1>5, <2>1
  <2>3. h[m - 1] = s
    BY <1>3, <1>5, <2>2
  <2>4. QED
    BY <1>5, <2>2, <2>3
<1>7. h[1] = s
  BY <1>5, <1>6
<1>8. at = 2 => h[2] = h[1]
  BY <1>1, FirstLeads, <1>2, EmptySeq, <1>3
<1>9. Len(q) + 1 \in 1..(Len(q) + 1)
  BY <1>2
<1>10. QED
  BY <1>1, <1>2, <1>7, <1>8, <1>9

-----------------------------------------------------------------------------
(* The sessions of the objects in the queue                                 *)

LEMMA Longer ==
    ASSUME NEW q \in Seq(Object), NEW obj \in Object
    PROVE  /\ Append(q, obj) \in Seq(Object) /\ Append(q, obj) # <<>>
           /\ Len(q) \in Nat /\ DOMAIN q = 1..Len(q)
           /\ DOMAIN Append(q, obj) = 1..(Len(q) + 1)
           /\ \A i \in 1..Len(q) : Append(q, obj)[i] = q[i]
           /\ Append(q, obj)[Len(q) + 1] = obj
           /\ \A i \in DOMAIN Append(q, obj) : i \in DOMAIN q \/ i = Len(q) + 1
<1>1. /\ Append(q, obj) \in Seq(Object) /\ Len(Append(q, obj)) = Len(q) + 1
      /\ Append(q, obj)[Len(q) + 1] = obj
      /\ \A i \in 1..Len(q) : Append(q, obj)[i] = q[i]
  BY AppendProperties
<1>2. Len(q) \in Nat /\ DOMAIN q = 1..Len(q)
  BY LenProperties
<1>3. DOMAIN Append(q, obj) = 1..(Len(q) + 1)
  BY <1>1, LenProperties
<1>4. Append(q, obj) # <<>>
  BY <1>1, <1>2, EmptySeq
<1>5. \A i \in 1..(Len(q) + 1) : i \in 1..Len(q) \/ i = Len(q) + 1
  BY <1>2
<1>6. QED
  BY <1>1, <1>2, <1>3, <1>4, <1>5

LEMMA Shorter ==
    ASSUME NEW q \in Seq(Object), q # <<>>
    PROVE  /\ Tail(q) \in Seq(Object)
           /\ \A i \in DOMAIN Tail(q) : i + 1 \in DOMAIN q /\ Tail(q)[i] = q[i + 1] /\ i \in Nat
           /\ Head(q) = q[1] /\ 1 \in DOMAIN q /\ \A i \in DOMAIN q : 1 <= i
<1>1. /\ Tail(q) \in Seq(Object) /\ Len(Tail(q)) = Len(q) - 1 /\ Head(q) = q[1]
      /\ \A i \in 1..Len(Tail(q)) : Tail(q)[i] = q[i + 1]
  BY HeadTailProperties
<1>2. Len(q) \in Nat /\ DOMAIN q = 1..Len(q) /\ Len(q) # 0
  BY LenProperties, EmptySeq
<1>3. DOMAIN Tail(q) = 1..(Len(q) - 1)
  BY <1>1, LenProperties
<1>4. QED
  BY <1>1, <1>2, <1>3

LEMMA OrderAppended ==
    ASSUME NEW n \in Nat, NEW q \in Seq(Object), NEW obj \in Object, obj.of = n, InOrder(n, q)
    PROVE  InOrder(n, Append(q, obj))
<1>1. PICK new : new = Append(q, obj)
  OBVIOUS
<1>2. /\ Len(q) \in Nat /\ DOMAIN q = 1..Len(q) /\ DOMAIN new = 1..(Len(q) + 1)
      /\ \A i \in 1..Len(q) : new[i] = q[i]
      /\ new[Len(q) + 1] = obj
      /\ \A i \in DOMAIN new : i \in DOMAIN q \/ i = Len(q) + 1
  BY <1>1, Longer
<1>3. /\ \A i \in DOMAIN q : q[i].of <= n
      /\ \A i, k \in DOMAIN q : i <= k => q[i].of <= q[k].of
  BY DEF InOrder
<1>4. \A i \in DOMAIN new : new[i].of <= n
  BY <1>2, <1>3
<1>5. ASSUME NEW i \in DOMAIN new, NEW k \in DOMAIN new, i <= k PROVE new[i].of <= new[k].of
  <2>1. CASE k = Len(q) + 1
    BY <1>2, <1>4, <2>1
  <2>2. CASE k # Len(q) + 1
    <3>1. i \in DOMAIN q /\ k \in DOMAIN q
      BY <1>2, <1>5, <2>2
    <3>2. QED
      BY <1>2, <1>3, <1>5, <3>1
  <2>3. QED
    BY <2>1, <2>2
<1>6. InOrder(n, new)
  BY <1>4, <1>5 DEF InOrder
<1>7. QED
  BY <1>1, <1>6

LEMMA OrderOfTail ==
    ASSUME NEW n, NEW q \in Seq(Object), q # <<>>, InOrder(n, q)
    PROVE  InOrder(n, Tail(q)) /\ (Head(q).of = n => AllOf(n, q))
<1>1. /\ \A i \in DOMAIN Tail(q) : i + 1 \in DOMAIN q /\ Tail(q)[i] = q[i + 1] /\ i \in Nat
      /\ Head(q) = q[1] /\ 1 \in DOMAIN q /\ \A i \in DOMAIN q : 1 <= i
  BY Shorter
<1>2. /\ \A i \in DOMAIN q : q[i].of <= n
      /\ \A i, k \in DOMAIN q : i <= k => q[i].of <= q[k].of
  BY DEF InOrder
<1>3. \A i \in DOMAIN Tail(q) : Tail(q)[i].of <= n
  BY <1>1, <1>2
<1>4. ASSUME NEW i \in DOMAIN Tail(q), NEW k \in DOMAIN Tail(q), i <= k
      PROVE  Tail(q)[i].of <= Tail(q)[k].of
  <2>1. i + 1 <= k + 1 /\ i + 1 \in DOMAIN q /\ k + 1 \in DOMAIN q
    BY <1>1, <1>4
  <2>2. QED
    BY <1>1, <1>2, <2>1
<1>5. ASSUME Head(q).of = n, NEW i \in DOMAIN q PROVE q[i].of = n
  <2>1. q[i].of <= n /\ n <= q[i].of
    BY <1>1, <1>2, <1>5
  <2>2. q[i].of \in Nat /\ n \in Nat
    <3>1. q[i] \in Object /\ q[1] \in Object
      BY <1>1, ElementOfSeq, LenProperties
    <3>2. QED
      BY <1>1, <1>5, <3>1 DEF Object
  <2>3. QED
    BY <2>1, <2>2
<1>6. QED
  BY <1>3, <1>4, <1>5 DEF InOrder, AllOf

LEMMA OrderNext ==
    ASSUME NEW n \in Nat, NEW q \in Seq(Object), InOrder(n, q) PROVE InOrder(n + 1, q)
<1>1. ASSUME NEW i \in DOMAIN q PROVE q[i].of <= n + 1
  <2>1. q[i] \in Object /\ q[i].of <= n
    BY ElementOfSeq, LenProperties DEF InOrder
  <2>2. QED
    BY <2>1 DEF Object
<1>2. QED
  BY <1>1 DEF InOrder

LEMMA AllAppended ==
    ASSUME NEW n, NEW q \in Seq(Object), NEW obj \in Object, obj.of = n, AllOf(n, q)
    PROVE  AllOf(n, Append(q, obj))
  BY Longer DEF AllOf

LEMMA AllOfTail ==
    ASSUME NEW n, NEW q \in Seq(Object), q # <<>>, AllOf(n, q) PROVE AllOf(n, Tail(q))
  BY Shorter DEF AllOf

-----------------------------------------------------------------------------
(* What the server and the others say                                       *)

(* One object that is sent in this session.                                  *)
Sent(obj) ==
    /\ running /\ obj \in Object /\ obj.of = session
    /\ IsPush(session, obj) => obj.id = PushId

(* Nothing new of the roster, or the roster, or a change.                     *)
Spoken ==
    /\ \/ rx_queue' = rx_queue /\ interested' = interested
          /\ (interested => server' = server)
       \/ \E obj : /\ Sent(obj) /\ rx_queue' = Append(rx_queue, obj)
                   /\ IF interested' THEN Leads(session, obj, server, server') ELSE ~News(session, obj)
       \/ \E obj, obj2 :
             /\ Sent(obj) /\ Sent(obj2) /\ rx_queue' = Append(Append(rx_queue, obj), obj2)
             /\ interested'
             /\ Leads(session, obj, server, server') /\ Leads(session, obj2, server', server')
    /\ interested => interested'

LEMMA NotNews ==
    ASSUME NEW n, NEW obj, obj.query # "roster", NEW r
    PROVE  ~News(n, obj) /\ Leads(n, obj, r, r)
  BY DEF News, Leads, IsPush, IsResult

(* The answers that are about something else.                                *)
LEMMA OtherAnswers ==
    ASSUME TypeOK, running, NEW type \in {"result", "error"}, NEW id \in Nat,
           NEW query \in {"none", "bind"}, NEW re \in Kind \cup {"none"}
    PROVE  /\ Sent(AnIq(type, id, query, <<>>, re))
           /\ ~News(session, AnIq(type, id, query, <<>>, re))
           /\ \A r : Leads(session, AnIq(type, id, query, <<>>, re), r, r)
<1>1. PICK obj : obj = AnIq(type, id, query, <<>>, re)
  OBVIOUS
<1>2. obj \in Object /\ obj.query = query /\ obj.of = session /\ obj.query # "roster"
  <2>1. <<>> \in Seq(Item)
    BY EmptySeq
  <2>2. obj \in Heard
    BY <1>1, <2>1, IqsAreHeard
  <2>3. QED
    BY <1>1, <2>2 DEF Heard, AnIq
<1>3. ~News(session, obj) /\ ~IsPush(session, obj) /\ \A r : Leads(session, obj, r, r)
  BY <1>2, NotNews DEF News
<1>4. Sent(obj)
  BY <1>2, <1>3 DEF Sent
<1>5. QED
  BY <1>1, <1>3, <1>4

(* A change of the roster, and the push of it.                               *)
LEMMA ChangePushed ==
    ASSUME TypeOK, running, NEW item \in Item, Changed(item),
           item.sub = "remove" => item.jid \in DOMAIN server
    PROVE  /\ server' = Applied(server, item)
           /\ interested => \E obj : /\ Push(item.jid, item.sub) = <<obj>> /\ Sent(obj)
                                     /\ Leads(session, obj, server, server')
           /\ ~interested => Push(item.jid, item.sub) = <<>>
<1>1. server' = Applied(server, item)
  BY DEF Changed, Applied
<1>2. PICK obj : obj = AnIq("set", PushId, "roster", <<[jid |-> item.jid, sub |-> item.sub]>>, "none")
  OBVIOUS
<1>3. item = [jid |-> item.jid, sub |-> item.sub]
  BY DEF Item
<1>4. <<item>> \in Seq(Item) /\ <<item>> # <<>> /\ <<item>>[1] = item
  OBVIOUS
<1>5. obj = AnIq("set", PushId, "roster", <<item>>, "none")
  BY <1>2, <1>3
<1>6. obj \in Object
  BY <1>4, <1>5, FixedIds DEF AnIq, Object, TypeOK
<1>7. obj.of = session /\ obj.id = PushId /\ obj.items = <<item>> /\ obj.type = "set"
  BY <1>5 DEF AnIq
<1>8. Sent(obj)
  BY <1>6, <1>7 DEF Sent
<1>9. Leads(session, obj, server, server')
  <2>1. IsPush(session, obj) /\ ~IsResult(session, obj)
    BY <1>4, <1>5 DEF IsPush, IsResult, AnIq
  <2>2. QED
    BY <1>1, <1>4, <1>7, <2>1 DEF Leads
<1>10. QED
  BY <1>1, <1>2, <1>8, <1>9 DEF Push

LEMMA SaidOne ==
    ASSUME TypeOK, NEW obj \in Object, Says(<<obj>>) PROVE running /\ rx_queue' = Append(rx_queue, obj)
  BY AppendIsConcat DEF Says, TypeOK

-----------------------------------------------------------------------------
LEMMA AnswerSpoken == ASSUME TypeOK, Answer PROVE Spoken
<1>1. PICK req \in wire :
       CASE req.kind = "bind" ->
                 /\ Says(<<AnIq("result", req.id, "bind", <<>>, "none")>>)
                 /\ UNCHANGED <<server, interested>>
            [] req.kind = "roster" ->
                 /\ interested' = TRUE
                 /\ \/ Says(<<AnIq("result", req.id, "roster", SetToSeq(Contacts(server)), "roster")>>)
                    \/ Says(<<AnIq("error", req.id, "none", <<>>, "roster")>>)
                 /\ UNCHANGED server
            [] req.kind = "roster_set" ->
                 /\ IF req.item.sub = "remove" /\ req.item.jid \notin DOMAIN server
                    THEN UNCHANGED server /\ Says(<<AnIq("error", req.id, "none", <<>>, "none")>>)
                    ELSE /\ Changed(req.item)
                         /\ Says(Push(req.item.jid, req.item.sub)
                                 \o <<AnIq("result", req.id, "none", <<>>, "none")>>)
                 /\ UNCHANGED interested
            [] req.kind \in Kinds("presence") -> UNCHANGED <<rx_queue, server, interested>>
            [] OTHER ->
                 /\ \E type \in {"result", "error"} :
                        Says(<<AnIq(type, req.id, "none", <<>>, req.kind)>>)
                 /\ UNCHANGED <<server, interested>>
  BY DEF Answer
<1>2. req.id \in Nat /\ req.kind \in Kind /\ req.item \in Item
  BY DEF TypeOK
<1>3. /\ "roster" \in Kind /\ "roster" \notin Kinds("presence") /\ "roster_set" \notin Kinds("presence")
      /\ "bind" \notin Kinds("presence")
  BY KindNames, KindsOf
(* An answer that tells nothing of the roster.                               *)
<1>4. ASSUME NEW type \in {"result", "error"}, NEW query \in {"none", "bind"},
             NEW re \in Kind \cup {"none"},
             Says(<<AnIq(type, req.id, query, <<>>, re)>>), server' = server, interested => interested'
      PROVE  Spoken
  <2>1. PICK obj : obj = AnIq(type, req.id, query, <<>>, re)
    OBVIOUS
  <2>2. running
    BY <1>4 DEF Says
  <2>3. Sent(obj) /\ ~News(session, obj) /\ \A r : Leads(session, obj, r, r)
    BY <1>2, <2>1, <2>2, OtherAnswers
  <2>4. rx_queue' = Append(rx_queue, obj)
    BY <1>4, <2>1, <2>3, SaidOne DEF Sent
  <2>5. QED
    BY <1>4, <2>3, <2>4 DEF Spoken
<1>5. CASE req.kind = "bind"
  <2>1. Says(<<AnIq("result", req.id, "bind", <<>>, "none")>>) /\ UNCHANGED <<server, interested>>
    BY <1>1, <1>3, <1>5
  <2>2. QED
    BY <1>4, <2>1
<1>6. CASE req.kind = "roster"
  <2>1. /\ interested' = TRUE /\ server' = server
        /\ \/ Says(<<AnIq("result", req.id, "roster", SetToSeq(Contacts(server)), "roster")>>)
           \/ Says(<<AnIq("error", req.id, "none", <<>>, "roster")>>)
    BY <1>1, <1>3, <1>6
  <2>2. CASE Says(<<AnIq("error", req.id, "none", <<>>, "roster")>>)
    BY <1>3, <1>4, <2>1, <2>2
  <2>3. CASE Says(<<AnIq("result", req.id, "roster", SetToSeq(Contacts(server)), "roster")>>)
    <3>1. PICK items : items = SetToSeq(Contacts(server))
      OBVIOUS
    <3>2. Represents(items, server) /\ items \in Seq(Item)
      BY <3>1, RosterSent DEF Represents
    <3>3. PICK obj : obj = AnIq("result", req.id, "roster", items, "roster")
      OBVIOUS
    <3>4. obj \in Object
      BY <1>2, <1>3, <3>2, <3>3, IqsAreHeard DEF Heard
    <3>5. running /\ rx_queue' = Append(rx_queue, obj)
      BY <2>3, <3>1, <3>3, <3>4, SaidOne
    <3>6. ~IsPush(session, obj) /\ obj.items = items /\ obj.of = session
      BY <3>3 DEF IsPush, AnIq
    <3>7. Sent(obj)
      BY <3>4, <3>5, <3>6 DEF Sent
    <3>8. Leads(session, obj, server, server')
      BY <2>1, <3>2, <3>6 DEF Leads
    <3>9. QED
      BY <2>1, <3>5, <3>7, <3>8 DEF Spoken
  <2>4. QED
    BY <2>1, <2>2, <2>3
<1>7. CASE req.kind = "roster_set"
  <2>1. /\ interested' = interested
        /\ IF req.item.sub = "remove" /\ req.item.jid \notin DOMAIN server
           THEN UNCHANGED server /\ Says(<<AnIq("error", req.id, "none", <<>>, "none")>>)
           ELSE /\ Changed(req.item)
                /\ Says(Push(req.item.jid, req.item.sub)
                         \o <<AnIq("result", req.id, "none", <<>>, "none")>>)
    BY <1>1, <1>3, <1>7
  <2>2. CASE req.item.sub = "remove" /\ req.item.jid \notin DOMAIN server
    BY <1>4, <2>1, <2>2
  <2>3. CASE req.item.sub = "remove" => req.item.jid \in DOMAIN server
    <3>1. PICK done : done = AnIq("result", req.id, "none", <<>>, "none")
      OBVIOUS
    <3>2. /\ Changed(req.item) /\ Says(Push(req.item.jid, req.item.sub) \o <<done>>)
          /\ running
      BY <2>1, <2>3, <3>1 DEF Says
    <3>3. Sent(done) /\ ~News(session, done) /\ \A r : Leads(session, done, r, r)
      BY <1>2, <3>1, <3>2, OtherAnswers
    <3>4. /\ interested => \E obj : /\ Push(req.item.jid, req.item.sub) = <<obj>> /\ Sent(obj)
                                    /\ Leads(session, obj, server, server')
          /\ ~interested => Push(req.item.jid, req.item.sub) = <<>>
      BY <1>2, <2>3, <3>2, ChangePushed
    <3>5. CASE ~interested
      <4>1. <<>> \o <<done>> = <<done>> /\ done \in Object
        BY <3>3 DEF Sent
      <4>2. Says(<<done>>)
        BY <3>2, <3>4, <3>5, <4>1
      <4>3. rx_queue' = Append(rx_queue, done)
        BY <4>1, <4>2, SaidOne
      <4>4. QED
        BY <2>1, <3>3, <3>5, <4>3 DEF Spoken
    <3>6. CASE interested
      <4>1. PICK obj : /\ Push(req.item.jid, req.item.sub) = <<obj>> /\ Sent(obj)
                       /\ Leads(session, obj, server, server')
        BY <3>4, <3>6
      <4>2. rx_queue' = rx_queue \o (<<obj>> \o <<done>>)
        BY <3>2, <4>1 DEF Says
      <4>3. obj \in Object /\ done \in Object /\ rx_queue \in Seq(Object)
        BY <3>3, <4>1 DEF Sent, TypeOK
      <4>4. rx_queue \o (<<obj>> \o <<done>>) = Append(Append(rx_queue, obj), done)
        <5>1. <<obj>> \in Seq(Object) /\ <<done>> \in Seq(Object)
          BY <4>3
        <5>2. rx_queue \o (<<obj>> \o <<done>>) = (rx_queue \o <<obj>>) \o <<done>>
          BY <4>3, <5>1, ConcatAssociative
        <5>3. rx_queue \o <<obj>> = Append(rx_queue, obj)
          BY <4>3, AppendIsConcat
        <5>4. Append(rx_queue, obj) \o <<done>> = Append(Append(rx_queue, obj), done)
          BY <4>3, AppendProperties, AppendIsConcat
        <5>5. QED
          BY <5>2, <5>3, <5>4
      <4>5. interested'
        BY <2>1, <3>6
      <4>6. QED
        BY <3>3, <4>1, <4>2, <4>4, <4>5 DEF Spoken
    <3>7. QED
      BY <3>5, <3>6
  <2>4. QED
    BY <2>2, <2>3
<1>8. CASE req.kind \in Kinds("presence")
  <2>1. UNCHANGED <<rx_queue, server, interested>>
    BY <1>1, <1>3, <1>8
  <2>2. QED
    BY <2>1 DEF Spoken
<1>9. CASE req.kind \notin {"bind", "roster", "roster_set"} \cup Kinds("presence")
  BY <1>1, <1>2, <1>4, <1>9
<1>10. QED
  BY <1>5, <1>6, <1>7, <1>8, <1>9

LEMMA ChangeSpoken == ASSUME TypeOK, Change PROVE Spoken
<1>1. PICK item \in Item :
         /\ item.sub = "remove" => item.jid \in DOMAIN server
         /\ Changed(item)
         /\ Says(Push(item.jid, item.sub))
  BY DEF Change
<1>2. running /\ interested' = interested
  BY <1>1 DEF Says, Change
<1>3. /\ interested => \E obj : /\ Push(item.jid, item.sub) = <<obj>> /\ Sent(obj)
                                /\ Leads(session, obj, server, server')
      /\ ~interested => Push(item.jid, item.sub) = <<>>
  BY <1>1, <1>2, ChangePushed
<1>4. CASE ~interested
  <2>1. rx_queue' = rx_queue \o <<>> /\ rx_queue \in Seq(Object)
    BY <1>1, <1>3, <1>4 DEF Says, TypeOK
  <2>2. rx_queue' = rx_queue
    BY <2>1, ConcatEmptySeq
  <2>3. QED
    BY <1>2, <1>4, <2>2 DEF Spoken
<1>5. CASE interested
  <2>1. PICK obj : /\ Push(item.jid, item.sub) = <<obj>> /\ Sent(obj)
                   /\ Leads(session, obj, server, server')
    BY <1>3, <1>5
  <2>2. rx_queue' = Append(rx_queue, obj)
    BY <1>1, <2>1, SaidOne DEF Sent
  <2>3. QED
    BY <1>2, <1>5, <2>1, <2>2 DEF Spoken
<1>6. QED
  BY <1>4, <1>5

LEMMA OtherSpoken == ASSUME TypeOK, Honest, PeerAsks \/ Expire PROVE Spoken
<1>1. server' = server /\ interested' = interested
  BY DEF PeerAsks, Expire, peerVars
<1>2. ASSUME NEW obj \in Object, obj.of = session, running, rx_queue' = Append(rx_queue, obj),
             ~News(session, obj)
      PROVE  Spoken
  <2>1. Sent(obj) /\ Leads(session, obj, server, server')
    BY <1>1, <1>2 DEF Sent, Leads, News
  <2>2. QED
    BY <1>1, <1>2, <2>1 DEF Spoken
<1>3. CASE Expire
  <2>1. CASE running
    <3>1. rx_queue' = Append(rx_queue, Timeout)
      BY <1>3, <2>1 DEF Expire, Timeout
    <3>2. Timeout \in Object
      <4>1. <<>> \in Seq(Item)
        BY EmptySeq
      <4>2. QED
        BY <4>1 DEF Timeout, Object, TypeOK
    <3>3. Timeout.of = session /\ ~News(session, Timeout)
      BY DEF Timeout, News, IsPush, IsResult
    <3>4. QED
      BY <1>2, <2>1, <3>1, <3>2, <3>3
  <2>2. CASE ~running
    BY <1>1, <1>3, <2>2 DEF Expire, Spoken
  <2>3. QED
    BY <2>1, <2>2
<1>4. CASE PeerAsks
  <2>0. PICK mod \in Range(modules) :
           \E obj \in PeerRequests[mod] : Says(<<[obj EXCEPT !.of = session]>>)
    BY <1>4 DEF PeerAsks
  <2>1. PICK obj \in PeerRequests[mod] : Says(<<[obj EXCEPT !.of = session]>>)
    BY <2>0
  <2>2. mod \in Module
    BY <2>0, RangeOfSeq DEF TypeOK
  <2>3. obj \in Object /\ (obj.query = "roster" => obj.type = "set" /\ obj.from = "other")
    BY <2>1, <2>2, ModulesAssumption DEF Honest
  <2>4. session \in Nat
    BY DEF TypeOK
  <2>5. PICK asked : asked = [obj EXCEPT !.of = session]
    OBVIOUS
  <2>6. asked \in Object /\ asked.of = session
    BY <2>3, <2>4, <2>5 DEF Object
  <2>7. asked.query = obj.query /\ asked.type = obj.type /\ asked.from = obj.from
    BY <2>3, <2>5 DEF Object
  <2>8. ~News(session, asked)
    BY <2>3, <2>7 DEF News, IsPush, IsResult
  <2>9. running /\ rx_queue' = Append(rx_queue, asked)
    BY <2>1, <2>5, <2>6, SaidOne
  <2>10. QED
    BY <1>2, <2>6, <2>8, <2>9
<1>5. QED
  BY <1>3, <1>4

(* What a stream begins with.                                                *)
LEMMA StreamBegins ==
    ASSUME TypeOK, Run
    PROVE  \E obj, obj2 \in Object :
              /\ obj.of = session' /\ obj2.of = session' /\ obj.tag # "iq" /\ obj2.tag # "iq"
              /\ rx_queue' = Append(Append(rx_queue, obj), obj2)
<1> DEFINE obj(i) == [tag |-> <<"stream", "features">>[i], type |-> "none", id |-> 0,
               query |-> "none", from |-> "none", items |-> <<>>, re |-> "none", of |-> session + 1]
<1>1. session' = session + 1 /\ rx_queue' = rx_queue \o [i \in 1..2 |-> obj(i)]
  BY DEF Run
<1>2. /\ session + 1 \in Nat /\ rx_queue \in Seq(Object) /\ <<>> \in Seq(Item)
  BY EmptySeq DEF TypeOK
<1>3. \A i \in 1..2 : <<"stream", "features">>[i] \in {"stream", "features"}
  OBVIOUS
<1>4. \A i \in 1..2 : obj(i) \in Object /\ obj(i).of = session + 1 /\ obj(i).tag # "iq"
  BY <1>2, <1>3 DEF Object
<1> HIDE DEF obj
<1>5. PICK a, b : a = obj(1) /\ b = obj(2)
  OBVIOUS
<1>6. /\ a \in Object /\ a.of = session + 1 /\ a.tag # "iq"
      /\ b \in Object /\ b.of = session + 1 /\ b.tag # "iq"
  BY <1>4, <1>5
<1>7. [i \in 1..2 |-> obj(i)] = <<a>> \o <<b>>
  BY <1>5
<1>8. rx_queue \o (<<a>> \o <<b>>) = Append(Append(rx_queue, a), b)
  <2>1. <<a>> \in Seq(Object) /\ <<b>> \in Seq(Object)
    BY <1>6
  <2>2. rx_queue \o (<<a>> \o <<b>>) = (rx_queue \o <<a>>) \o <<b>>
    BY <1>2, <2>1, ConcatAssociative
  <2>3. rx_queue \o <<a>> = Append(rx_queue, a)
    BY <1>2, <1>6, AppendIsConcat
  <2>4. Append(rx_queue, a) \o <<b>> = Append(Append(rx_queue, a), b)
    BY <1>2, <1>6, AppendProperties, AppendIsConcat
  <2>5. QED
    BY <2>2, <2>3, <2>4
<1>9. QED
  BY <1>1, <1>6, <1>7, <1>8

-----------------------------------------------------------------------------
(* The objects in the queue are those of one session after the other         *)

LEMMA WhatIsSaid ==
    ASSUME TypeOK, Honest, Expire \/ Answer \/ Change \/ PeerAsks
    PROVE  Spoken /\ UNCHANGED <<state, running, session, modules, ids, roster, todo, fresh>>
<1>1. Spoken
  BY AnswerSpoken, ChangeSpoken, OtherSpoken
<1>2. UNCHANGED <<state, running, session, modules, ids, roster, todo, fresh>>
  BY DEF Expire, Answer, Change, PeerAsks, sessVars, modVars, peerVars
<1>3. QED
  BY <1>1, <1>2

(* What the rx thread takes away.                                            *)
LEMMA PopTakes ==
    ASSUME TypeOK, Shape, Pop
    PROVE  /\ rx_queue # <<>> /\ rx_queue' = Tail(rx_queue) /\ Handling /\ ~Handling'
           /\ UNCHANGED <<sessVars, modVars, peerVars>>
<1>1. /\ todo["rx"] = <<Popping>>
      /\ todo' = [todo EXCEPT !["rx"] = IF rx_queue' = <<>> THEN <<>> ELSE <<Process(1)>>]
  BY PopShape
<1>2. \A n : <<Popping>> # <<Process(n)>>
  <2>1. \A n : <<Popping>>[1] # <<Process(n)>>[1]
    BY DEF Popping, Process, Step
  <2>2. QED
    BY <2>1
<1>3. rx_queue # <<>> /\ Handling
  BY <1>1, <1>2 DEF Shape
<1>4. todo'["rx"] = IF rx_queue' = <<>> THEN <<>> ELSE <<Process(1)>>
  BY <1>1 DEF Shape, Thread
<1>5. ~Handling'
  <2>1. SUFFICES ASSUME Handling' PROVE FALSE
    OBVIOUS
  <2>2. PICK s \in Seq(StepFor("rx")) : todo'["rx"] = Append(s, Popping)
    BY <2>1 DEF Handling
  <2>3. todo'["rx"] # <<>> /\ ~Now("rx", "process")'
    <3>1. todo'["rx"] # <<>>
      BY <2>2, HeadTailAppend, EndsAreSteps
    <3>2. ~Now("rx", "process")'
      BY <2>1, HandlingIsNotProcess, PTL
    <3>3. QED
      BY <3>1, <3>2
  <2>4. todo'["rx"] = <<Process(1)>>
    BY <1>4, <2>3
  <2>5. QED
    BY <2>3, <2>4 DEF Now, Process, Step
<1>6. QED
  BY <1>3, <1>5 DEF Pop

LEMMA SessionsSaid ==
    ASSUME NEW n \in Nat, NEW q \in Seq(Object), InOrder(n, q), NEW obj \in Object, obj.of = n
    PROVE  /\ Append(q, obj) \in Seq(Object) /\ InOrder(n, Append(q, obj))
           /\ AllOf(n, q) => AllOf(n, Append(q, obj))
  BY OrderAppended, AllAppended, Longer

LEMMA SessionsStep == ASSUME TypeOK, Shape, Honest, Sessions, [Next]_vars PROVE Sessions'
<1>1. /\ rx_queue \in Seq(Object) /\ session \in Nat /\ InOrder(session, rx_queue)
      /\ fresh => AllOf(session, rx_queue) /\ Registered("roster")
      /\ modules \in Seq(Module) /\ DOMAIN modules = 1..Len(modules) /\ Len(modules) \in Nat
  BY LenProperties DEF Sessions, TypeOK
<1>2. CASE Run
  <2>1. PICK obj, obj2 \in Object :
           /\ obj.of = session' /\ obj2.of = session'
           /\ rx_queue' = Append(Append(rx_queue, obj), obj2)
    BY <1>2, StreamBegins
  <2>2. session' = session + 1 /\ session' \in Nat /\ fresh' = FALSE
    BY <1>1, <1>2 DEF Run
  <2>3. InOrder(session', rx_queue)
    BY <1>1, <2>2, OrderNext
  <2>4. InOrder(session', Append(rx_queue, obj)) /\ Append(rx_queue, obj) \in Seq(Object)
    BY <1>1, <2>1, <2>2, <2>3, SessionsSaid
  <2>5. InOrder(session', rx_queue')
    BY <2>1, <2>2, <2>4, SessionsSaid
  <2>6. QED
    BY <2>2, <2>5 DEF Sessions
<1>3. CASE Expire \/ Answer \/ Change \/ PeerAsks
  <2>1. Spoken /\ UNCHANGED <<session, modules, fresh>>
    BY <1>3, WhatIsSaid
  <2>2. \/ rx_queue' = rx_queue
        \/ \E obj \in Object : obj.of = session /\ rx_queue' = Append(rx_queue, obj)
        \/ \E obj, obj2 \in Object :
              /\ obj.of = session /\ obj2.of = session
              /\ rx_queue' = Append(Append(rx_queue, obj), obj2)
    BY <2>1 DEF Spoken, Sent
  <2>3. InOrder(session, rx_queue') /\ (AllOf(session, rx_queue) => AllOf(session, rx_queue'))
    <3>1. CASE \E obj \in Object : obj.of = session /\ rx_queue' = Append(rx_queue, obj)
      BY <1>1, <3>1, SessionsSaid
    <3>2. CASE \E obj, obj2 \in Object :
                  /\ obj.of = session /\ obj2.of = session
                  /\ rx_queue' = Append(Append(rx_queue, obj), obj2)
      BY <1>1, <3>2, SessionsSaid
    <3>3. QED
      BY <1>1, <2>2, <3>1, <3>2
  <2>4. QED
    BY <1>1, <2>1, <2>3 DEF Sessions, Registered
<1>4. CASE Pop
  <2>1. rx_queue # <<>> /\ rx_queue' = Tail(rx_queue) /\ UNCHANGED <<session, modules, fresh>>
    BY <1>4, PopTakes DEF sessVars, modVars, peerVars
  <2>2. InOrder(session, rx_queue') /\ (AllOf(session, rx_queue) => AllOf(session, rx_queue'))
    BY <1>1, <2>1, OrderOfTail, AllOfTail
  <2>3. QED
    BY <1>1, <2>1, <2>2 DEF Sessions, Registered
<1>5. CASE Roster
  <2>1. /\ Now("rx", "process") /\ This("rx").n <= Len(modules) /\ modules[This("rx").n] = "roster"
        /\ UNCHANGED <<session, modules, rx_queue>>
        /\ fresh' = fresh \/ fresh' = FALSE \/ fresh' = (Object0.of = session)
    BY <1>5 DEF Roster, Calls, sessVars
  <2>2. rx_queue # <<>> /\ This("rx").n \in Nat \ {0}
    BY <2>1, CalledAlone
  <2>3. Object0.of = session => AllOf(session, rx_queue)
    BY <1>1, <2>2, OrderOfTail DEF Object0
  <2>4. Registered("roster")
    <3>1. This("rx").n \in 1..Len(modules)
      BY <1>1, <2>1, <2>2
    <3>2. QED
      BY <1>1, <2>1, <3>1 DEF Registered, Range
  <2>5. fresh' => AllOf(session, rx_queue)
    BY <1>1, <2>1, <2>3
  <2>6. QED
    BY <1>1, <2>1, <2>4, <2>5 DEF Sessions, Registered
<1>6. CASE SessionResult
  <2>1. /\ Now("rx", "process") /\ This("rx").n <= Len(modules) /\ modules[This("rx").n] = "session"
        /\ UNCHANGED <<session, rx_queue, fresh>>
        /\ modules' = modules \/ modules' = RemoveAt(modules, This("rx").n)
    BY <1>6 DEF SessionResult, Calls, sessVars, peerVars
  <2>2. This("rx").n \in Nat \ {0}
    BY <2>1, CalledAlone
  <2>3. This("rx").n \in 1..Len(modules)
    BY <1>1, <2>1, <2>2
  <2>4. Registered("roster") => Registered("roster")'
    <3>1. SUFFICES ASSUME Registered("roster"), modules' = RemoveAt(modules, This("rx").n)
                   PROVE  "roster" \in Range(modules')
      BY <2>1 DEF Registered
    <3>2. PICK i \in 1..Len(modules) : modules[i] = "roster"
      BY <1>1, <3>1 DEF Registered, Range
    <3>3. i # This("rx").n
      BY <2>1, <3>2
    <3>4. Range(modules') = {modules[j] : j \in 1..Len(modules) \ {This("rx").n}}
      BY <1>1, <2>3, <3>1, RemovedRange
    <3>5. i \in 1..Len(modules) \ {This("rx").n}
      BY <3>3
    <3>6. QED
      BY <3>2, <3>4, <3>5
  <2>5. QED
    BY <1>1, <2>1, <2>4 DEF Sessions
<1>7. CASE UNCHANGED <<session, rx_queue, fresh, modules>>
  BY <1>1, <1>7 DEF Sessions, Registered
<1>8. QED
  BY <1>2, <1>3, <1>4, <1>5, <1>6, <1>7, Changes DEF Effects

-----------------------------------------------------------------------------
(* The server says nothing of the roster unless it has been asked            *)

LEMMA NewsAppended ==
    ASSUME NEW n, NEW q \in Seq(Object), \A i \in DOMAIN q : ~News(n, q[i]),
           NEW obj \in Object, ~News(n, obj)
    PROVE  Append(q, obj) \in Seq(Object) /\ \A i \in DOMAIN Append(q, obj) : ~News(n, Append(q, obj)[i])
<1>1. PICK new : new = Append(q, obj)
  OBVIOUS
<1>2. /\ new \in Seq(Object) /\ DOMAIN q = 1..Len(q)
      /\ \A i \in 1..Len(q) : new[i] = q[i]
      /\ new[Len(q) + 1] = obj
      /\ \A i \in DOMAIN new : i \in DOMAIN q \/ i = Len(q) + 1
  BY <1>1, Longer
<1>3. \A i \in DOMAIN new : ~News(n, new[i])
  BY <1>2
<1>4. QED
  BY <1>1, <1>2, <1>3

(* A new stream has said nothing of the roster.                              *)
LEMMA NothingYet ==
    ASSUME TypeOK, Sessions, Run
    PROVE  rx_queue' \in Seq(Object) /\ \A i \in DOMAIN rx_queue' : ~News(session', rx_queue'[i])
<1>1. rx_queue \in Seq(Object) /\ session \in Nat /\ \A i \in DOMAIN rx_queue : rx_queue[i].of <= session
  BY DEF TypeOK, Sessions, InOrder
<1>2. session' = session + 1
  BY DEF Run
<1>3. ASSUME NEW i \in DOMAIN rx_queue PROVE ~News(session', rx_queue[i])
  <2>1. rx_queue[i].of # session + 1
    <3>1. rx_queue[i] \in Object
      BY <1>1, ElementOfSeq, LenProperties
    <3>2. rx_queue[i].of \in Nat /\ rx_queue[i].of <= session
      BY <1>1, <3>1 DEF Object
    <3>3. QED
      BY <1>1, <3>2
  <2>2. QED
    BY <1>2, <2>1 DEF News, IsPush, IsResult
<1>4. PICK obj, obj2 \in Object :
         /\ obj.tag # "iq" /\ obj2.tag # "iq"
         /\ rx_queue' = Append(Append(rx_queue, obj), obj2)
  BY StreamBegins
<1>5. ~News(session', obj) /\ ~News(session', obj2)
  BY <1>4 DEF News, IsPush, IsResult
<1>6. /\ Append(rx_queue, obj) \in Seq(Object)
      /\ \A i \in DOMAIN Append(rx_queue, obj) : ~News(session', Append(rx_queue, obj)[i])
  BY <1>1, <1>3, <1>5, NewsAppended
<1>7. QED
  BY <1>4, <1>5, <1>6, NewsAppended

LEMMA UnaskedStep == ASSUME TypeOK, Shape, Honest, Sessions, Unasked, [Next]_vars PROVE Unasked'
<1> SUFFICES ASSUME running', ~interested'
             PROVE  ~fresh' /\ \A i \in DOMAIN rx_queue' : ~News(session', rx_queue'[i])
  BY DEF Unasked
<1>1. rx_queue \in Seq(Object)
  BY DEF TypeOK
<1>2. CASE Run
  BY <1>2, NothingYet DEF Run
<1>3. CASE Expire \/ Answer \/ Change \/ PeerAsks
  <2>1. Spoken /\ UNCHANGED <<running, session, fresh>>
    BY <1>3, WhatIsSaid
  <2>2. /\ ~fresh /\ \A i \in DOMAIN rx_queue : ~News(session, rx_queue[i])
        /\ rx_queue' = rx_queue
           \/ \E obj \in Object : ~News(session, obj) /\ rx_queue' = Append(rx_queue, obj)
    BY <2>1 DEF Spoken, Sent, Unasked
  <2>3. CASE \E obj \in Object : ~News(session, obj) /\ rx_queue' = Append(rx_queue, obj)
    BY <1>1, <2>1, <2>2, <2>3, NewsAppended
  <2>4. QED
    BY <2>1, <2>2, <2>3
<1>4. CASE Pop
  <2>1. rx_queue # <<>> /\ rx_queue' = Tail(rx_queue)
        /\ UNCHANGED <<running, session, fresh, interested>>
    BY <1>4, PopTakes DEF sessVars, peerVars
  <2>2. \A i \in DOMAIN rx_queue' : i + 1 \in DOMAIN rx_queue /\ rx_queue'[i] = rx_queue[i + 1]
    BY <1>1, <2>1, Shorter
  <2>3. QED
    BY <2>1, <2>2 DEF Unasked
<1>5. CASE Roster
  <2>1. /\ Now("rx", "process")
        /\ UNCHANGED <<running, session, interested, rx_queue>>
        /\ \/ fresh' = fresh \/ fresh' = FALSE
           \/ /\ fresh' = (Object0.of = session)
              /\ Iq /\ Object0.type = "result" /\ Object0.query = "roster"
    BY <1>5 DEF Roster, Calls, sessVars, Waits
  <2>2. rx_queue # <<>>
    BY <2>1, CalledAlone
  <2>3. ~fresh /\ \A i \in DOMAIN rx_queue : ~News(session, rx_queue[i])
    BY <2>1 DEF Unasked
  <2>4. ~News(session, Object0)
    BY <1>1, <2>2, <2>3, Shorter DEF Object0
  <2>5. ~fresh'
    BY <2>1, <2>3, <2>4 DEF News, IsResult, Iq
  <2>6. QED
    BY <2>1, <2>3, <2>5
<1>6. CASE StopStream
  BY <1>6 DEF StopStream
<1>7. CASE UNCHANGED <<running, interested, session, rx_queue, fresh>>
  BY <1>7 DEF Unasked
<1>8. QED
  BY <1>2, <1>3, <1>4, <1>5, <1>6, <1>7, Changes DEF Effects

-----------------------------------------------------------------------------
(* No module takes a push for an answer                                     *)

LEMMA OneMore ==
    ASSUME NEW S, NEW s \in Seq(S), NEW x \in S PROVE Range(Append(s, x)) = Range(s) \cup {x}
<1>1. <<x>> \in Seq(S) /\ Append(s, x) = s \o <<x>>
  BY AppendIsConcat
<1>2. Range(s \o <<x>>) = Range(s) \cup Range(<<x>>)
  BY <1>1, RangeConcatenation, SMTT(20)
<1>3. QED
  BY <1>1, <1>2, OneElement

LEMMA NoSteps == Range(<<>>) = {} /\ \A x : Range(<<x>>) = {x} /\ <<x>> \in Seq({x})
<1>1. \A x : <<x>> \in Seq({x})
  OBVIOUS
<1>2. QED
  BY <1>1, OneElement

(* These steps do not store an id.                                           *)
LEMMA HandledSteps ==
    ASSUME TypeOK, Shape,
           \/ Core \/ KeepAlive \/ Register \/ Search \/ Vcard \/ Private
           \/ Version \/ Ping \/ Disco \/ SessionResult \/ Message \/ Presence \/ Roster
           \/ Unhandled
    PROVE  /\ Now("rx", "process")
           /\ \/ Passes
              \/ \E S : \E steps \in Seq(S) :
                    Handles(steps) /\ \A step \in Range(steps) : step.op # "store"
<1> DEFINE Fine == \E S : \E steps \in Seq(S) :
                      Handles(steps) /\ \A step \in Range(steps) : step.op # "store"
<1>1. Now("rx", "process")
  BY DEF Core, KeepAlive, Register, Search, Vcard, Private, Version, Ping, Disco,
         SessionResult, Message, Presence, Roster, Unhandled, Calls
<1>2. /\ \A k : Callback(k).op # "store" /\ Forgetting(k).op # "store" /\ Ask(k).op # "store"
      /\ Reply.op # "store" /\ Arm.op # "store"
      /\ \A what : Step("state", what, 0).op # "store"
  BY DEF Callback, Forgetting, Ask, Reply, Arm, Step
<1>3. ASSUME NEW a, a.op # "store", NEW b, b.op # "store",
             Handles(<<a>>) \/ Handles(<<a, b>>) \/ Handles(<<a>> \o <<>>) \/ Handles(<<a>> \o <<b>>)
             \/ Handles(<<>> \o <<>>) \/ Handles(<<>> \o <<b>>)
      PROVE  Fine
  <2>1. PICK S : S = {a, b}
    OBVIOUS
  <2>2. <<a>> \in Seq(S) /\ <<b>> \in Seq(S) /\ <<>> \in Seq(S)
    BY <2>1
  <2>3. /\ <<a, b>> = <<a>> \o <<b>> /\ <<a>> \o <<>> = <<a>> /\ <<>> \o <<b>> = <<b>>
        /\ <<>> \o <<>> = <<>> /\ <<a>> \o <<b>> \in Seq(S)
    BY <2>2, ConcatProperties, ConcatEmptySeq
  <2>4. \A step \in Range(<<a, b>>) : step = a \/ step = b
    BY DEF Range
  <2>5. /\ \A step \in Range(<<a>> \o <<b>>) : step.op # "store"
        /\ \A step \in Range(<<a>>) : step.op # "store"
        /\ \A step \in Range(<<b>>) : step.op # "store"
        /\ \A step \in Range(<<>>) : step.op # "store"
    BY <1>3, <2>3, <2>4, OneElement
  <2>6. Handles(<<a>>) \/ Handles(<<a>> \o <<b>>) \/ Handles(<<>>) \/ Handles(<<b>>)
    BY <1>3, <2>3
  <2>7. QED
    BY <2>2, <2>3, <2>5, <2>6
<1>4. ASSUME NEW k, Takes(k) PROVE Fine
  BY <1>2, <1>3, <1>4 DEF Takes
<1> HIDE DEF Fine
<1>5. CASE Core \/ KeepAlive \/ Presence
  <2>1. Passes \/ Handles(<<Arm>>) \/ \E x : Handles(<<Step("state", x, 0)>>) \/ Handles(<<Callback(x)>>)
    BY <1>5 DEF Core, KeepAlive, Presence
  <2>2. QED
    BY <1>1, <1>2, <1>3, <2>1 DEF Fine
<1>6. CASE Register \/ Search \/ Vcard \/ Private \/ Disco \/ SessionResult
  <2>1. Passes \/ \E k : Takes(k) \/ Handles(<<Callback(k)>>)
    BY <1>6 DEF Register, Search, Vcard, Private, Disco, SessionResult
  <2>2. QED
    BY <1>1, <1>2, <1>3, <1>4, <2>1 DEF Fine
<1>7. CASE Version \/ Ping \/ Roster
  <2>1. Passes \/ Handles(<<Reply>>) \/ \E k : Takes(k) \/ Handles(<<Callback(k)>>)
    BY <1>7 DEF Version, Ping, Roster
  <2>2. QED
    BY <1>1, <1>2, <1>3, <1>4, <2>1 DEF Fine
<1>8. CASE Message
  <2>1. Passes \/ \E k : Handles(<<Callback(k)>> \o <<>>) \/ Handles(<<Callback(k)>> \o <<Reply>>)
    BY <1>8 DEF Message
  <2>2. QED
    BY <1>1, <1>2, <1>3, <2>1 DEF Fine
<1>9. CASE Unhandled
  <2>1. \/ Handles(<<Reply>> \o <<>>) \/ Handles(<<Reply>> \o <<Ask("bind")>>)
        \/ Handles(<<>> \o <<>>) \/ Handles(<<>> \o <<Ask("bind")>>)
    BY <1>9 DEF Unhandled
  <2>2. QED
    BY <1>1, <1>2, <1>3, <2>1 DEF Fine
<1>10. QED
  BY <1>5, <1>6, <1>7, <1>8, <1>9 DEF Fine

-----------------------------------------------------------------------------
LEMMA AptThen ==
    ASSUME Shape, \A u \in Thread : \A step \in Range(todo[u]) : Apt(step),
           NEW t \in Thread, todo[t] # <<>>, NEW S, NEW steps \in Seq(S), Then(t, steps),
           \A step \in Range(steps) : Apt(step)
    PROVE  \A u \in Thread : \A step \in Range(todo'[u]) : Apt(step)
<1>1. /\ Range(todo'[t]) = Range(steps) \cup Range(Tail(todo[t]))
      /\ Range(todo[t]) = {This(t)} \cup Range(Tail(todo[t]))
      /\ \A u \in Thread \ {t} : todo'[u] = todo[u]
  BY ThenRange
<1>2. QED
  BY <1>1

LEMMA AptThenOne ==
    ASSUME Shape, \A u \in Thread : \A step \in Range(todo[u]) : Apt(step),
           NEW t \in Thread, todo[t] # <<>>, Then(t, <<>>) \/ \E x : Apt(x) /\ Then(t, <<x>>)
    PROVE  \A u \in Thread : \A step \in Range(todo'[u]) : Apt(step)
<1>1. CASE Then(t, <<>>)
  <2>1. <<>> \in Seq({}) /\ \A step \in Range(<<>>) : Apt(step)
    BY NoSteps, EmptySeq
  <2>2. QED
    BY <1>1, <2>1, AptThen
<1>2. CASE \E x : Apt(x) /\ Then(t, <<x>>)
  <2>1. PICK x : Apt(x) /\ Then(t, <<x>>)
    BY <1>2
  <2>2. <<x>> \in Seq({x}) /\ \A step \in Range(<<x>>) : Apt(step)
    BY <2>1, NoSteps
  <2>3. QED
    BY <2>1, <2>2, AptThen
<1>3. QED
  BY <1>1, <1>2

(* A step of another thread.                                                 *)
LEMMA AptInThread ==
    ASSUME TypeOK, Shape, Apart, \A u \in Thread : \A step \in Range(todo[u]) : Apt(step),
           NEW t \in Thread,
           \/ Check(t) \/ Store(t) \/ Send(t)
           \/ ReadInterval(t) \/ SetTimeout(t) \/ SetInterval(t) \/ IfBound(t)
           \/ Keep(t) \/ Correct(t) \/ ResetCorrection(t) \/ WriteMessage(t)
           \/ ChangeState(t) \/ TellListener(t)
    PROVE  \A u \in Thread : \A step \in Range(todo'[u]) : Apt(step)
<1>1. PICK op \in {"check", "store", "send", "arm", "timeout", "cancel", "interval", "ifbound",
                   "keep", "correct", "reset", "write", "state", "told"} : Now(t, op)
  BY DEF Check, Store, Send, ReadInterval, SetTimeout, SetInterval, IfBound, Keep, Correct,
         ResetCorrection, WriteMessage, ChangeState, TellListener
<1>2. todo[t] # <<>> /\ This(t) \in StepFor(t) /\ This(t).op = op
  BY <1>1, FirstStep DEF Now
<1>3. This(t) \in StepOK /\ "op" \in DOMAIN This(t) /\ "n" \in DOMAIN This(t) /\ "arg" \in DOMAIN This(t)
  BY <1>2 DEF StepFor, StepOK
<1>4. \A x : x.op # "store" => Apt(x)
  BY DEF Apt
<1>5. CASE Check(t)
  <2>1. op = "check"
    BY <1>1, <1>5 DEF Check, Now
  <2>2. This(t) \in Request
    BY <1>2, <2>1, StepKinds DEF StepFor
  <2>3. \/ Then(t, <<>>)
        \/ This(t).what = "bind" /\ Then(t, <<[This(t) EXCEPT !.op = "store"]>>)
        \/ asks < MaxAsk /\ Then(t, <<[This(t) EXCEPT !.op = "store", !.n = asks + 1]>>)
    BY <1>5 DEF Check
  <2>4. CASE This(t).what = "bind" /\ Then(t, <<[This(t) EXCEPT !.op = "store"]>>)
    <3>1. PICK x : x = [This(t) EXCEPT !.op = "store"]
      OBVIOUS
    <3>2. x.what = "bind"
      BY <2>2, <2>4, <3>1 DEF Request
    <3>3. Apt(x) /\ Then(t, <<x>>)
      BY <2>4, <3>1, <3>2 DEF Apt
    <3>4. QED
      BY <1>2, <3>3, AptThenOne
  <2>5. CASE asks < MaxAsk /\ Then(t, <<[This(t) EXCEPT !.op = "store", !.n = asks + 1]>>)
    <3>1. PICK x : x = [This(t) EXCEPT !.op = "store", !.n = asks + 1]
      OBVIOUS
    <3>2. x.n = asks + 1
      BY <2>2, <3>1 DEF Request
    <3>3. asks + 1 # PushId
      <4>1. asks \in Nat /\ MaxAsk \in Nat /\ MaxAsk < PushId
        BY FixedIds DEF TypeOK
      <4>2. asks < MaxAsk
        BY <2>5
      <4>3. QED
        BY <4>1, <4>2
    <3>4. Apt(x) /\ Then(t, <<x>>)
      BY <2>5, <3>1, <3>2, <3>3 DEF Apt
    <3>5. QED
      BY <1>2, <3>4, AptThenOne
  <2>6. QED
    BY <1>2, <2>3, <2>4, <2>5, AptThenOne
<1>6. CASE Store(t) \/ Keep(t) \/ Correct(t)
  <2>1. \/ Then(t, <<>>)
        \/ \E op2 \in {"send", "write"} : \E n :
             \/ Then(t, <<[This(t) EXCEPT !.op = op2]>>)
             \/ Then(t, <<[This(t) EXCEPT !.op = op2, !.n = n]>>)
             \/ Then(t, <<[This(t) EXCEPT !.op = op2, !.arg = n]>>)
    BY <1>6 DEF Store, Keep, Correct
  <2>2. ASSUME NEW op2 \in {"send", "write"}, NEW n,
               \/ Then(t, <<[This(t) EXCEPT !.op = op2]>>)
               \/ Then(t, <<[This(t) EXCEPT !.op = op2, !.n = n]>>)
               \/ Then(t, <<[This(t) EXCEPT !.op = op2, !.arg = n]>>)
        PROVE  \E x : Apt(x) /\ Then(t, <<x>>)
    <3>1. PICK x : /\ \/ x = [This(t) EXCEPT !.op = op2]
                      \/ x = [This(t) EXCEPT !.op = op2, !.n = n]
                      \/ x = [This(t) EXCEPT !.op = op2, !.arg = n]
                   /\ Then(t, <<x>>)
      BY <2>2
    <3>2. x.op = op2
      BY <1>3, <3>1
    <3>3. QED
      BY <1>4, <3>1, <3>2
  <2>3. QED
    BY <1>2, <2>1, <2>2, AptThenOne
<1>7. CASE \/ Send(t) \/ ReadInterval(t) \/ SetTimeout(t) \/ SetInterval(t) \/ IfBound(t)
           \/ ResetCorrection(t) \/ WriteMessage(t)
  <2>1. \/ Then(t, <<>>)
        \/ \E op2 \in {"timeout", "cancel", "ifbound"} : Then(t, <<Step(op2, "none", 0)>>)
    BY <1>7 DEF Send, ReadInterval, SetTimeout, SetInterval, IfBound, ResetCorrection, WriteMessage
  <2>2. \A op2 \in {"timeout", "cancel", "ifbound"} : Apt(Step(op2, "none", 0))
    BY DEF Apt, Step
  <2>3. QED
    BY <1>2, <2>1, <2>2, AptThenOne
<1>8. CASE ChangeState(t)
  <2>1. \/ Then(t, <<>>)
        \/ Then(t, <<[Step("told", This(t).what, 1) EXCEPT !.arg = state]>>)
    BY <1>8 DEF ChangeState
  <2>2. Apt([Step("told", This(t).what, 1) EXCEPT !.arg = state])
    BY DEF Apt, Step
  <2>3. QED
    BY <1>2, <2>1, <2>2, AptThenOne
<1>9. CASE TellListener(t)
  <2>1. CASE Then(t, <<>>)
    BY <1>2, <2>1, AptThenOne
  <2>2. CASE \E x, next : \E steps \in Seq({x, next}) :
                /\ x.op \in {"arm", "check", "cancel"} /\ next.op = "told"
                /\ Then(t, steps) /\ Range(steps) = {x, next}
    <3>1. PICK x, next : \E steps \in Seq({x, next}) :
                /\ x.op \in {"arm", "check", "cancel"} /\ next.op = "told"
                /\ Then(t, steps) /\ Range(steps) = {x, next}
      BY <2>2
    <3>2. PICK steps \in Seq({x, next}) :
                /\ x.op \in {"arm", "check", "cancel"} /\ next.op = "told"
                /\ Then(t, steps) /\ Range(steps) = {x, next}
      BY <3>1
    <3>3. \A step \in Range(steps) : Apt(step)
      BY <1>4, <3>2
    <3>4. PICK S : S = {x, next}
      OBVIOUS
    <3>5. steps \in Seq(S)
      BY <3>4
    <3>6. QED
      BY <1>2, <3>2, <3>3, <3>5, AptThen
  <2>3. Then(t, <<>>) \/ \E x, next : \E steps \in Seq({x, next}) :
                /\ x.op \in {"arm", "check", "cancel"} /\ next.op = "told"
                /\ Then(t, steps) /\ Range(steps) = {x, next}
    <3>1. \A what, i, arg : [op |-> "told", what |-> what, n |-> i, arg |-> arg].op = "told"
      OBVIOUS
    <3>2. CASE Then(t, <<>>)
      BY <3>2
    <3>3. CASE \E i \in DOMAIN modules : \E x, next : \E steps \in Seq({x, next}) :
                 /\ x.op \in {"arm", "check", "cancel"}
                 /\ next = [op |-> "told", what |-> This(t).what, n |-> i + 1, arg |-> This(t).arg]
                 /\ Then(t, steps) /\ Range(steps) = {x, next}
      BY <3>1, <3>3
    <3>4. QED
      BY <1>9, <3>2, <3>3, Told
  <2>4. QED
    BY <2>1, <2>2, <2>3
<1>10. QED
  BY <1>5, <1>6, <1>7, <1>8, <1>9

-----------------------------------------------------------------------------
LEMMA AptStep ==
    ASSUME TypeOK, Shape, Apart, \A u \in Thread : \A step \in Range(todo[u]) : Apt(step),
           [Next]_vars
    PROVE  \A u \in Thread : \A step \in Range(todo'[u]) : Apt(step)
<1> DEFINE Ok == \A u \in Thread : \A step \in Range(todo'[u]) : Apt(step)
<1>1. \A x : x.op # "store" => Apt(x)
  BY DEF Apt
<1>2. ASSUME NEW t \in Thread,
             \/ Check(t) \/ Store(t) \/ Send(t)
             \/ ReadInterval(t) \/ SetTimeout(t) \/ SetInterval(t) \/ IfBound(t)
             \/ Keep(t) \/ Correct(t) \/ ResetCorrection(t) \/ WriteMessage(t)
             \/ ChangeState(t) \/ TellListener(t)
      PROVE  Ok
  BY <1>2, AptInThread
<1>3. "rx" \in Thread /\ "app" \in Thread /\ "run" \in Thread
  BY DEF Thread
(* A thread that had nothing to do has this to do.                           *)
<1>4. ASSUME NEW t \in Thread, NEW steps, todo' = [todo EXCEPT ![t] = steps],
             steps = <<>> \/ \E x : x.op # "store" /\ steps = <<x>>
      PROVE  Ok
  <2>1. todo'[t] = steps /\ \A u \in Thread \ {t} : todo'[u] = todo[u]
    BY <1>4 DEF Shape
  <2>2. \A step \in Range(steps) : Apt(step)
    BY <1>1, <1>4, NoSteps
  <2>3. QED
    BY <2>1, <2>2
<1>5. CASE Rx \/ Pop
  <2>1. todo' = [todo EXCEPT !["rx"] = <<>>] \/ todo' = [todo EXCEPT !["rx"] = <<Process(1)>>]
    BY <1>5, RxShape, PopShape
  <2>2. Process(1).op # "store"
    BY DEF Process, Step
  <2>3. QED
    BY <1>3, <1>4, <2>1, <2>2
<1>6. CASE Respond \/ RespondText \/ Forget
  <2>1. todo["rx"] # <<>>
    BY <1>6 DEF Respond, RespondText, Forget, Now
  <2>2. \/ Then("rx", <<>>) \/ \E k : Then("rx", <<Ask(k)>>)
        \/ \E x \in Texts : Then("rx", <<x>>)
    BY <1>6 DEF Respond, RespondText, Forget
  <2>3. (\A k : Ask(k).op # "store") /\ \A x \in Texts : x.op # "store"
    BY DEF Ask, Step, Texts
  <2>4. Then("rx", <<>>) \/ \E x : Apt(x) /\ Then("rx", <<x>>)
    BY <1>1, <2>2, <2>3
  <2>5. QED
    BY <1>3, <2>1, <2>4, AptThenOne
<1>7. CASE \/ Core \/ KeepAlive \/ Register \/ Search \/ Vcard \/ Private
           \/ Version \/ Ping \/ Disco \/ SessionResult \/ Message \/ Presence \/ Roster
           \/ Unhandled
  <2>1. /\ Now("rx", "process")
        /\ \/ Passes
           \/ \E S : \E steps \in Seq(S) :
                 Handles(steps) /\ \A step \in Range(steps) : step.op # "store"
    BY <1>7, HandledSteps
  <2>2. todo["rx"] # <<>>
    BY <2>1 DEF Now
  <2>3. CASE Passes
    <3>1. Then("rx", <<Step("process", "none", This("rx").n + 1)>>)
      BY <2>3 DEF Passes
    <3>2. Step("process", "none", This("rx").n + 1).op # "store"
      BY DEF Step
    <3>3. QED
      BY <1>1, <1>3, <2>2, <3>1, <3>2, AptThenOne
  <2>4. CASE \E S : \E steps \in Seq(S) :
                 Handles(steps) /\ \A step \in Range(steps) : step.op # "store"
    <3>1. PICK S : \E steps \in Seq(S) :
                 Handles(steps) /\ \A step \in Range(steps) : step.op # "store"
      BY <2>4
    <3>2. PICK steps \in Seq(S) : Handles(steps) /\ \A step \in Range(steps) : step.op # "store"
      BY <3>1
    <3>3. PICK S2, all : S2 = S \cup {Popping} /\ all = Append(steps, Popping)
      OBVIOUS
    <3>4. steps \in Seq(S2) /\ Popping \in S2
      BY <3>3, SeqMonotonic
    <3>5. all \in Seq(S2) /\ Range(all) = Range(steps) \cup {Popping}
      BY <3>3, <3>4, OneMore, AppendProperties
    <3>6. Popping.op # "store"
      BY DEF Popping, Step
    <3>7. Then("rx", all) /\ \A step \in Range(all) : Apt(step)
      BY <1>1, <3>2, <3>3, <3>5, <3>6 DEF Handles
    <3>8. QED
      BY <1>3, <2>2, <3>5, <3>7, AptThen
  <2>5. QED
    BY <2>1, <2>3, <2>4
<1>8. CASE CallText \/ OtherCall \/ (\E k \in AppKinds : Call(k))
  <2>1. PICK x : todo' = [todo EXCEPT !["app"] = <<x>>] /\ x.op # "store"
    BY <1>8, CallOps DEF Starts
  <2>2. QED
    BY <1>3, <1>4, <2>1
<1>9. CASE Run
  <2>1. todo' = [todo EXCEPT !["run"] = <<>>]
    BY <1>9 DEF Run, Starts
  <2>2. QED
    BY <1>3, <1>4, <2>1
<1>10. CASE End
  <2>1. todo' = [todo EXCEPT !["run"] = <<Step("state", "closed", 0)>>]
    BY <1>10 DEF End, Starts
  <2>2. Step("state", "closed", 0).op # "store"
    BY DEF Step
  <2>3. QED
    BY <1>3, <1>4, <2>1, <2>2
<1>11. CASE StopStream \/ Expire \/ Answer \/ Change \/ PeerAsks \/ UNCHANGED vars
  BY <1>11 DEF StopStream, Expire, Answer, Change, PeerAsks, vars
<1>12. QED
  BY <1>2, <1>5, <1>6, <1>7, <1>8, <1>9, <1>10, <1>11 DEF Next

(* The ids that the modules wait for.                                        *)
LEMMA AptIds ==
    ASSUME TypeOK, Shape, Apart, PushIds, [Next]_vars
    PROVE  \A k \in Kind \ {"roster"} : PushId \notin ids'[k]
<1>1. (\A k \in Kind \ {"roster"} : PushId \notin ids[k]) /\ ids \in [Kind -> SUBSET Nat]
  BY DEF PushIds, TypeOK
<1>2. CASE Forget
  <2>1. PICK k, n : ids' = [ids EXCEPT ![k] = IF k \in Single THEN {0} ELSE ids[k] \ {n}]
    BY <1>2 DEF Forget
  <2>2. \A j \in Kind : ids'[j] = ids[j] \/ ids'[j] = {0} \/ ids'[j] = ids[j] \ {n}
    BY <1>1, <2>1
  <2>3. QED
    BY <1>1, <2>2, FixedIds
<1>3. ASSUME NEW t \in Thread, Store(t) PROVE \A k \in Kind \ {"roster"} : PushId \notin ids'[k]
  <2>1. Now(t, "store")
    BY <1>3 DEF Store
  <2>2. This(t) \in StepFor(t) /\ This(t).op = "store" /\ todo[t] # <<>>
    BY <2>1, FirstStep DEF Now
  <2>3. This(t) \in Request
    BY <2>2, StepKinds DEF StepFor
  <2>4. This(t).n # PushId \/ This(t).what = "bind"
    <3>1. Apt(This(t))
      BY <2>2, ThisInRange DEF PushIds
    <3>2. QED
      BY <2>2, <3>1 DEF Apt
  <2>5. PICK k, n : k = This(t).what /\ n = This(t).n
    OBVIOUS
  <2>6. PICK id \in IdsFor(k, n) : ids' = ids \/ ids' = Stored(k, id)
    BY <1>3, <2>5 DEF Store
  <2>7. k \in Kind /\ (n # PushId \/ k = "bind")
    BY <2>3, <2>4, <2>5 DEF Request
  <2>8. id = PushId => k \in {"bind", "roster_set", "roster"}
    <3>1. k \in Kinds("private") => PushId \notin Given[k]
      BY DEF Apart
    <3>2. SUFFICES ASSUME k \notin {"bind", "roster_set", "roster"} PROVE id # PushId
      OBVIOUS
    <3>3. IF k \in Kinds("private") THEN id \in {n} \cup Given[k] ELSE id = n
      BY <2>6, <3>2 DEF IdsFor
    <3>4. QED
      BY <2>7, <3>1, <3>2, <3>3
  <2>9. \/ ids' = ids
        \/ /\ k \notin {"bind", "roster_set"}
           /\ ids' = [ids EXCEPT ![k] = IF k \in Single THEN {id} ELSE ids[k] \cup {id}]
    BY <2>6 DEF Stored
  <2>10. \A j \in Kind : \/ ids'[j] = ids[j]
                         \/ /\ j = k /\ k \notin {"bind", "roster_set"}
                            /\ ids'[j] = {id} \/ ids'[j] = ids[j] \cup {id}
    BY <1>1, <2>9
  <2>11. QED
    BY <1>1, <2>8, <2>10
<1>4. QED
  BY <1>1, <1>2, <1>3, Changes DEF Effects

LEMMA PushIdsStep ==
    ASSUME TypeOK, Shape, Honest, Apart, Sessions, PushIds, [Next]_vars PROVE PushIds'
<1>1. /\ \A k \in Kind \ {"roster"} : PushId \notin ids'[k]
      /\ \A u \in Thread : \A step \in Range(todo'[u]) : Apt(step)
  BY AptIds, AptStep DEF PushIds
<1>2. rx_queue \in Seq(Object) /\ \A i \in DOMAIN rx_queue : IsPush(session, rx_queue[i]) => rx_queue[i].id = PushId
  BY DEF TypeOK, PushIds
<1>3. ASSUME NEW q \in Seq(Object), \A i \in DOMAIN q : IsPush(session, q[i]) => q[i].id = PushId,
             NEW obj, Sent(obj)
      PROVE  /\ Append(q, obj) \in Seq(Object)
             /\ \A i \in DOMAIN Append(q, obj) :
                   IsPush(session, Append(q, obj)[i]) => Append(q, obj)[i].id = PushId
  <2>1. PICK new : new = Append(q, obj)
    OBVIOUS
  <2>2. obj \in Object /\ (IsPush(session, obj) => obj.id = PushId)
    BY <1>3 DEF Sent
  <2>3. /\ new \in Seq(Object) /\ DOMAIN q = 1..Len(q)
        /\ \A i \in 1..Len(q) : new[i] = q[i]
        /\ new[Len(q) + 1] = obj
        /\ \A i \in DOMAIN new : i \in DOMAIN q \/ i = Len(q) + 1
    BY <2>1, <2>2, Longer
  <2>4. \A i \in DOMAIN new : IsPush(session, new[i]) => new[i].id = PushId
    BY <1>3, <2>2, <2>3
  <2>5. QED
    BY <2>1, <2>3, <2>4
<1>4. CASE Run
  <2>1. \A i \in DOMAIN rx_queue' : ~IsPush(session', rx_queue'[i])
    BY <1>4, NothingYet DEF News
  <2>2. QED
    BY <1>1, <2>1 DEF PushIds
<1>5. CASE Expire \/ Answer \/ Change \/ PeerAsks
  <2>1. Spoken /\ session' = session
    BY <1>5, WhatIsSaid
  <2>2. \/ rx_queue' = rx_queue
        \/ \E obj : Sent(obj) /\ rx_queue' = Append(rx_queue, obj)
        \/ \E obj, obj2 : /\ Sent(obj) /\ Sent(obj2)
                          /\ rx_queue' = Append(Append(rx_queue, obj), obj2)
    BY <2>1 DEF Spoken
  <2>3. \A i \in DOMAIN rx_queue' : IsPush(session, rx_queue'[i]) => rx_queue'[i].id = PushId
    <3>1. CASE \E obj : Sent(obj) /\ rx_queue' = Append(rx_queue, obj)
      BY <1>2, <1>3, <3>1
    <3>2. CASE \E obj, obj2 : /\ Sent(obj) /\ Sent(obj2)
                              /\ rx_queue' = Append(Append(rx_queue, obj), obj2)
      <4>1. PICK obj, obj2 : /\ Sent(obj) /\ Sent(obj2)
                             /\ rx_queue' = Append(Append(rx_queue, obj), obj2)
        BY <3>2
      <4>2. PICK q : q = Append(rx_queue, obj)
        OBVIOUS
      <4>3. q \in Seq(Object) /\ \A i \in DOMAIN q : IsPush(session, q[i]) => q[i].id = PushId
        BY <1>2, <1>3, <4>1, <4>2
      <4>4. QED
        BY <1>3, <4>1, <4>2, <4>3
    <3>3. QED
      BY <1>2, <2>2, <3>1, <3>2
  <2>4. QED
    BY <1>1, <2>1, <2>3 DEF PushIds
<1>6. CASE Pop
  <2>1. rx_queue # <<>> /\ rx_queue' = Tail(rx_queue) /\ session' = session
    BY <1>6, PopTakes DEF sessVars
  <2>2. \A i \in DOMAIN rx_queue' : i + 1 \in DOMAIN rx_queue /\ rx_queue'[i] = rx_queue[i + 1]
    BY <1>2, <2>1, Shorter
  <2>3. QED
    BY <1>1, <1>2, <2>1, <2>2 DEF PushIds
<1>7. CASE UNCHANGED <<session, rx_queue>>
  BY <1>1, <1>2, <1>7 DEF PushIds
<1>8. QED
  BY <1>4, <1>5, <1>6, <1>7, Changes DEF Effects

-----------------------------------------------------------------------------
(* While a push is handed from module to module, RosterModule is yet to come *)

LEMMA RosterOnPush ==
    ASSUME TypeOK, Shape, Roster, IsPush(session, Object0)
    PROVE  Handling' /\ roster' = HandlePush(roster, Object0.items[1]) /\ fresh' = fresh
<1>1. /\ RosterPush /\ Object0.type = "set" /\ Object0.from # "other"
      /\ Object0.type # "result" /\ Object0.type # "error"
  BY DEF RosterPush, IsPush, Iq
<1>2. /\ Handles(<<Reply>>) /\ fresh' = fresh
      /\ roster' = HandlePush(roster, Object0.items[1])
  BY <1>1 DEF Roster
<1>3. Now("rx", "process") /\ rx_queue' = rx_queue
  BY DEF Roster, Calls
<1>4. QED
  BY <1>2, <1>3, ReplyIsStep, OneHandled

LEMMA FirstPushAhead ==
    ASSUME TypeOK, Registered("roster"), todo["rx"] = <<Process(1)>>
    PROVE  PushAhead
<1>1. This("rx").n = 1
  BY DEF This, Process, Step
<1>2. modules \in Seq(Module) /\ DOMAIN modules = 1..Len(modules)
  BY LenProperties DEF TypeOK
<1>3. PICK i \in DOMAIN modules : modules[i] = "roster"
  BY DEF Registered, Range
<1>4. i >= 1
  BY <1>2
<1>5. QED
  BY <1>1, <1>3, <1>4 DEF PushAhead

(* One of the modules has been called.                                       *)
ModuleStep(mod) ==
    \/ (mod = "core" /\ Core) \/ (mod = "register" /\ Register)
    \/ (mod = "search" /\ Search) \/ (mod = "vcard" /\ Vcard) \/ (mod = "private" /\ Private)
    \/ (mod = "version" /\ Version) \/ (mod = "ping" /\ Ping) \/ (mod = "disco" /\ Disco)
    \/ (mod = "session" /\ SessionResult) \/ (mod = "message" /\ Message)
    \/ (mod = "presence" /\ Presence) \/ (mod = "roster" /\ Roster)
    \/ (mod = "keepalive" /\ KeepAlive)

(* A thread has done a step that is not about the receive queue.              *)
ThreadStep(t) ==
    \/ Check(t) \/ Store(t) \/ Send(t)
    \/ ReadInterval(t) \/ SetTimeout(t) \/ SetInterval(t) \/ IfBound(t)
    \/ Keep(t) \/ Correct(t) \/ ResetCorrection(t) \/ WriteMessage(t)
    \/ ChangeState(t) \/ TellListener(t)

(* Calls of the application, what Session::run does, and the server.          *)
Outside ==
    \/ CallText \/ OtherCall \/ Run \/ StopStream \/ End \/ Expire
    \/ Answer \/ Change \/ PeerAsks \/ (\E k \in AppKinds : Call(k)) \/ UNCHANGED vars

LEMMA StepClasses ==
    ASSUME [Next]_vars
    PROVE  \/ \E t \in Thread : ThreadStep(t)
           \/ \E mod \in Module : ModuleStep(mod)
           \/ Rx \/ Pop \/ Respond \/ RespondText \/ Forget \/ Unhandled
           \/ Outside
<1>1. CASE \/ Core \/ KeepAlive \/ Register \/ Search \/ Vcard \/ Private
           \/ Version \/ Ping \/ Disco \/ SessionResult \/ Message \/ Presence \/ Roster
  <2>1. {"core", "keepalive", "register", "search", "vcard", "private", "version", "ping", "disco",
         "session", "message", "presence", "roster"} \subseteq Module
    BY DEF Module
  <2>2. CASE Core \/ KeepAlive \/ Register \/ Search \/ Vcard \/ Private
    BY <2>1, <2>2 DEF ModuleStep
  <2>3. CASE Version \/ Ping \/ Disco
    BY <2>1, <2>3 DEF ModuleStep
  <2>4. CASE SessionResult \/ Message \/ Presence \/ Roster
    BY <2>1, <2>4 DEF ModuleStep
  <2>5. QED
    BY <1>1, <2>2, <2>3, <2>4
<1>2. CASE \E t \in Thread : ThreadStep(t)
  BY <1>2
<1>3. QED
  BY <1>1, <1>2 DEF Next, ThreadStep, Outside

(* What happens outside leaves the rx thread with what it was handling.       *)
LEMMA OutsideMoves ==
    ASSUME TypeOK, Shape, Outside
    PROVE  /\ modules' = modules /\ roster' = roster /\ todo'["rx"] = todo["rx"]
           /\ rx_queue # <<>> => Object0' = Object0
<1>1. modules' = modules /\ roster' = roster
  BY DEF Outside, CallText, OtherCall, Run, StopStream, End, Expire, Answer, Change, PeerAsks,
         Call, vars, modVars
<1>2. todo'["rx"] = todo["rx"]
  <2>1. todo' = todo \/ \E t \in {"app", "run"} : \E steps : todo' = [todo EXCEPT ![t] = steps]
    BY DEF Outside, CallText, OtherCall, Run, StopStream, End, Expire, Answer, Change, PeerAsks,
           Call, vars, Starts
  <2>2. QED
    BY <2>1 DEF Shape, Thread
<1>3. ASSUME rx_queue # <<>> PROVE Object0' = Object0
  <2>1. rx_queue' = rx_queue \/ Run \/ StopStream \/ Expire \/ Answer \/ Change \/ PeerAsks
    BY DEF Outside, CallText, OtherCall, End, Call, vars
  <2>2. QED
    BY <1>3, <2>1, QueueHead DEF Object0
<1>4. QED
  BY <1>1, <1>2, <1>3

LEMMA PushAheadStep ==
    ASSUME TypeOK, Shape, Sessions, PushAhead, [Next]_vars, TypeOK' PROVE PushAhead'
<1>1. Handling' => PushAhead'
  BY HandlingIsNotProcess, PTL DEF PushAhead
<1>2. ASSUME todo'["rx"] = <<Process(1)>> PROVE PushAhead'
  <2>1. CASE Registered("roster")'
    <3>1. (TypeOK /\ Registered("roster") /\ todo["rx"] = <<Process(1)>>)'
      BY <1>2, <2>1
    <3>2. QED
      BY <3>1, FirstPushAhead, PTL
  <2>2. CASE ~Registered("roster")'
    BY <2>2 DEF PushAhead
  <2>3. QED
    BY <2>1, <2>2
<1>3. ASSUME NEW t \in Thread, ThreadStep(t) PROVE PushAhead'
  <2>1. /\ rx_queue' = rx_queue /\ modules' = modules
        /\ \A u \in Thread \ {t} : todo'[u] = todo[u]
        /\ t = "rx" => Handling'
    BY <1>3, ThreadMoves DEF ThreadStep
  <2>2. session' = session
    BY <1>3 DEF ThreadStep, Check, Store, Send, ReadInterval, SetTimeout, SetInterval, IfBound,
                Keep, Correct, ResetCorrection, WriteMessage, ChangeState, TellListener, sessVars
  <2>3. CASE t = "rx"
    BY <1>1, <2>1, <2>3
  <2>4. CASE t # "rx"
    BY <2>1, <2>2, <2>4 DEF PushAhead, Now, This, Object0, Registered, Thread
  <2>5. QED
    BY <2>3, <2>4
<1>4. CASE Rx
  BY <1>2, <1>4, RxShape DEF Shape, Thread
<1>5. CASE Pop
  <2>1. todo'["rx"] = IF rx_queue' = <<>> THEN <<>> ELSE <<Process(1)>>
    BY <1>5, PopShape DEF Shape, Thread
  <2>2. CASE todo'["rx"] = <<>>
    BY <2>2 DEF PushAhead, Now
  <2>3. QED
    BY <1>2, <2>1, <2>2
<1>6. CASE Respond \/ RespondText \/ Forget
  BY <1>1, <1>6, RespondShape
<1>7. CASE Unhandled
  BY <1>1, <1>7, UnhandledShape
<1>8. ASSUME NEW mod \in Module, ModuleStep(mod) PROVE PushAhead'
  <2>1. /\ Calls(mod) /\ rx_queue' = rx_queue
        /\ ((Passes /\ modules' = modules) \/ Handling')
    BY <1>8, HandlerMoves DEF ModuleStep
  <2>2. CASE Handling'
    BY <1>1, <2>2
  <2>3. CASE Passes /\ modules' = modules /\ ~Handling'
    <3>1. /\ Now("rx", "process") /\ This("rx").n \in Nat \ {0}
          /\ modules[This("rx").n] = mod
      BY <2>1, CalledAlone DEF Calls
    <3>2. todo' = [todo EXCEPT !["rx"] = <<Process(This("rx").n + 1)>>]
      BY <2>1, <2>3, <3>1, PassesShape
    <3>3. todo'["rx"] = <<Process(This("rx").n + 1)>>
      BY <3>2 DEF Shape, Thread
    <3>4. This("rx")'.n = This("rx").n + 1
      BY <3>3 DEF This, Process, Step
    <3>5. session' = session
      BY <1>8, RxMoves DEF ModuleStep, sessVars
    <3>6. SUFFICES ASSUME IsPush(session, Object0), Registered("roster")
                   PROVE \E i \in DOMAIN modules : i >= This("rx").n + 1 /\ modules[i] = "roster"
      BY <2>1, <2>3, <3>4, <3>5 DEF PushAhead, Object0, Registered
    <3>7. PICK i \in DOMAIN modules : i >= This("rx").n /\ modules[i] = "roster"
      BY <3>1, <3>6 DEF PushAhead
    <3>8. i # This("rx").n
      <4>1. SUFFICES ASSUME mod = "roster" PROVE FALSE
        BY <3>1, <3>7
      <4>2. Roster
        BY <1>8, <4>1 DEF ModuleStep
      <4>3. QED
        BY <2>3, <3>6, <4>2, RosterOnPush
    <3>9. i \in Nat
      <4>1. DOMAIN modules = 1..Len(modules) /\ Len(modules) \in Nat
        BY LenProperties DEF TypeOK
      <4>2. QED
        BY <3>7, <4>1
    <3>10. i >= This("rx").n + 1
      BY <3>1, <3>7, <3>8, <3>9
    <3>11. QED
      BY <3>7, <3>10
  <2>4. QED
    BY <2>1, <2>2, <2>3
<1>9. CASE Outside
  <2>1. modules' = modules /\ todo'["rx"] = todo["rx"]
    BY <1>9, OutsideMoves
  <2>2. ASSUME Now("rx", "process"), IsPush(session', Object0')
        PROVE  IsPush(session, Object0)
    <3>1. rx_queue # <<>>
      BY <2>2, CalledAlone
    <3>2. Object0' = Object0
      BY <1>9, <3>1, OutsideMoves
    <3>3. session' = session \/ session' = session + 1
      BY <1>9 DEF Outside, CallText, OtherCall, Run, StopStream, End, Expire, Answer, Change,
                  PeerAsks, Call, vars, sessVars
    <3>4. Object0.of # session + 1
      <4>1. rx_queue \in Seq(Object) /\ session \in Nat
        BY DEF TypeOK
      <4>2. Object0 = rx_queue[1] /\ 1 \in DOMAIN rx_queue /\ Object0 \in Object
        BY <3>1, <4>1, Shorter, FirstObject DEF Object0
      <4>3. Object0.of <= session /\ Object0.of \in Nat
        BY <4>2 DEF Sessions, InOrder, Object
      <4>4. QED
        BY <4>1, <4>3
    <3>5. QED
      BY <2>2, <3>2, <3>3, <3>4 DEF IsPush
  <2>3. SUFFICES ASSUME Now("rx", "process")', IsPush(session', Object0'), Registered("roster")'
                 PROVE  (\E i \in DOMAIN modules : i >= This("rx").n /\ modules[i] = "roster")'
    BY DEF PushAhead
  <2>4. Now("rx", "process") /\ Registered("roster")
    BY <2>1, <2>3 DEF Now, Registered
  <2>5. \E i \in DOMAIN modules : i >= This("rx").n /\ modules[i] = "roster"
    BY <2>2, <2>3, <2>4 DEF PushAhead
  <2>6. QED
    BY <2>1, <2>5 DEF This
<1>10. QED
  BY <1>3, <1>4, <1>5, <1>6, <1>7, <1>8, <1>9, StepClasses

-----------------------------------------------------------------------------
(* The roster of the client follows the server's                            *)

(* Every module but RosterModule hands a push on.                             *)
LEMMA PushPasses ==
    ASSUME TypeOK, PushIds, rx_queue # <<>>, IsPush(session, Object0),
           NEW mod \in Module, mod # "roster", ModuleStep(mod)
    PROVE  Passes
<1>1. Object0.id = PushId
  <2>1. Object0 = rx_queue[1] /\ 1 \in DOMAIN rx_queue
    BY Shorter DEF TypeOK, Object0
  <2>2. QED
    BY <2>1 DEF PushIds
<1>2. Iq /\ Object0.type = "set" /\ Object0.query = "roster" /\ Object0.tag = "iq"
  BY DEF IsPush, Iq
<1>3. \A k \in Kind \ {"roster"} : ~Waits(k)
  BY <1>1 DEF PushIds, Waits
<1>4. {"session", "disco", "query_info", "info", "register", "unregister", "password", "fields",
       "vcard", "set_vcard", "private_set", "private_get", "version", "ping"} \subseteq Kind \ {"roster"}
  BY KindNames
<1>5. Kinds("register") \subseteq Kind \ {"roster"}
  BY <1>4, KindsOf
<1>6. CASE Core \/ KeepAlive \/ Message \/ Presence
  BY <1>2, <1>6 DEF Core, KeepAlive, Message, Presence
<1>7. CASE Register
  BY <1>3, <1>4, <1>5, <1>7 DEF Register
<1>8. CASE Search \/ Vcard \/ Private
  BY <1>3, <1>4, <1>8 DEF Search, Vcard, Private
<1>9. CASE Version \/ Ping \/ Disco \/ SessionResult
  BY <1>2, <1>3, <1>4, <1>9 DEF Version, Ping, Disco, SessionResult
<1>10. QED
  BY <1>6, <1>7, <1>8, <1>9 DEF ModuleStep

LEMMA HandlingHasObject == ASSUME Shape, Handling PROVE rx_queue # <<>>
<1>1. todo["rx"] # <<>>
  BY HeadTailAppend, EndsAreSteps, SMTT(20) DEF Handling
<1>2. QED
  BY <1>1 DEF Shape

LEMMA FollowsInThread ==
    ASSUME TypeOK, Shape, Follows, NEW t \in Thread, ThreadStep(t) PROVE Follows'
<1>1. UNCHANGED <<rx_queue, session, server, roster, fresh, interested>>
  BY DEF ThreadStep, Check, Store, Send, ReadInterval, SetTimeout, SetInterval, IfBound,
         Keep, Correct, ResetCorrection, WriteMessage, ChangeState, TellListener, sessVars,
         modVars, peerVars
<1>2. (\A u \in Thread \ {t} : todo'[u] = todo[u]) /\ (t = "rx" => Handling')
  BY ThreadMoves DEF ThreadStep
<1>3. Handling' => Handling
  BY HandlingBefore DEF ThreadStep
<1>4. Handling' <=> Handling
  <2>1. CASE t = "rx"
    BY <1>2, <1>3, <2>1
  <2>2. CASE t # "rx"
    BY <1>2, <2>2 DEF Handling, Thread
  <2>3. QED
    BY <2>1, <2>2
<1>5. Seen' = Seen
  BY <1>1, <1>4 DEF Seen
<1>6. QED
  BY <1>1, <1>5 DEF Follows

(* An object that is no push has been handled, and no roster has come.        *)
LEMMA FollowsOther ==
    ASSUME TypeOK, Follows, rx_queue # <<>>, ~Handling, Handling',
           UNCHANGED <<rx_queue, session, server, roster, fresh, interested>>,
           fresh => ~IsPush(session, Object0)
    PROVE  Follows'
<1> SUFFICES ASSUME interested PROVE History(session, rx_queue, server, roster, Seen')
  BY DEF Follows
<1>1. rx_queue \in Seq(Object) /\ History(session, rx_queue, server, roster, Seen)
  BY DEF TypeOK, Follows
<1>2. CASE fresh
  <2>1. Seen = 1 /\ Seen' = 2
    BY <1>2 DEF Seen
  <2>2. QED
    BY <1>1, <1>2, <2>1, OtherHandled DEF Object0
<1>3. CASE ~fresh
  <2>1. Seen = 0 /\ Seen' = 0
    BY <1>3 DEF Seen
  <2>2. QED
    BY <1>1, <2>1
<1>4. QED
  BY <1>2, <1>3

LEMMA FollowsAtTheEnds ==
    ASSUME TypeOK, Shape, Sessions, PushAhead, Follows,
           Rx \/ Pop \/ Respond \/ RespondText \/ Forget \/ Unhandled
    PROVE  Follows'
<1>1. CASE Rx
  <2>1. UNCHANGED <<rx_queue, session, server, roster, fresh, interested>>
    BY <1>1 DEF Rx, sessVars, modVars, peerVars
  <2>2. todo["rx"] = <<>> /\ todo'["rx"] = <<Process(1)>>
    BY <1>1, RxShape DEF Shape, Thread
  <2>3. ~Handling
    BY <2>2, HeadTailAppend, EndsAreSteps DEF Handling
  <2>4. Now("rx", "process")'
    BY <2>2 DEF Now, Process, Step
  <2>5. ~Handling'
    BY <2>4, HandlingIsNotProcess, PTL
  <2>6. Seen' = Seen
    BY <2>1, <2>3, <2>5 DEF Seen
  <2>7. QED
    BY <2>1, <2>6 DEF Follows
<1>2. CASE Pop
  <2>1. /\ rx_queue # <<>> /\ rx_queue' = Tail(rx_queue) /\ Handling /\ ~Handling'
        /\ UNCHANGED <<session, server, roster, fresh, interested>>
    BY <1>2, PopTakes DEF sessVars, modVars, peerVars
  <2>2. SUFFICES ASSUME interested PROVE History(session, rx_queue', server, roster, Seen')
    BY <2>1 DEF Follows
  <2>3. Seen \in {0, 2} /\ Seen' = IF Seen = 0 THEN 0 ELSE 1
    BY <2>1 DEF Seen
  <2>4. rx_queue \in Seq(Object) /\ History(session, rx_queue, server, roster, Seen)
    BY <2>2 DEF TypeOK, Follows
  <2>5. QED
    BY <2>1, <2>3, <2>4, TakenAway
<1>3. CASE Respond \/ RespondText \/ Forget
  <2>1. UNCHANGED <<rx_queue, session, server, roster, fresh, interested>>
    BY <1>3 DEF Respond, RespondText, Forget, sessVars, modVars, peerVars
  <2>2. PICK op \in {"reply", "callback", "forget"} : Now("rx", op)
    BY <1>3 DEF Respond, RespondText, Forget
  <2>3. Handling /\ Handling'
    BY <1>3, <2>2, FirstStep, RespondShape DEF Handling, Thread
  <2>4. Seen' = Seen
    BY <2>1, <2>3 DEF Seen
  <2>5. QED
    BY <2>1, <2>4 DEF Follows
<1>4. CASE Unhandled
  <2>1. UNCHANGED <<rx_queue, session, server, roster, fresh, interested>>
    BY <1>4 DEF Unhandled, sessVars, modVars, peerVars
  <2>2. Now("rx", "process") /\ This("rx").n > Len(modules)
    BY <1>4 DEF Unhandled
  <2>3. rx_queue # <<>> /\ This("rx").n \in Nat /\ ~Handling /\ Handling'
    BY <1>4, <2>2, CalledAlone, HandlingIsNotProcess, UnhandledShape
  <2>4. fresh => ~IsPush(session, Object0)
    <3>1. SUFFICES ASSUME fresh, IsPush(session, Object0) PROVE FALSE
      OBVIOUS
    <3>2. PICK i \in DOMAIN modules : i >= This("rx").n
      BY <2>2, <3>1 DEF PushAhead, Sessions
    <3>3. DOMAIN modules = 1..Len(modules) /\ Len(modules) \in Nat
      BY LenProperties DEF TypeOK
    <3>4. QED
      BY <2>2, <2>3, <3>2, <3>3
  <2>5. QED
    BY <2>1, <2>3, <2>4, FollowsOther
<1>5. QED
  BY <1>1, <1>2, <1>3, <1>4

LEMMA FollowsSame ==
    ASSUME Follows, ~Handling, ~Handling',
           UNCHANGED <<rx_queue, session, server, roster, fresh, interested>>
    PROVE  Follows'
<1>1. Seen' = Seen
  BY DEF Seen
<1>2. QED
  BY <1>1 DEF Follows

LEMMA FollowsInRoster ==
    ASSUME TypeOK, Shape, Sessions, Follows, Roster PROVE Follows'
<1>1. /\ Now("rx", "process") /\ rx_queue' = rx_queue
      /\ UNCHANGED <<session, server, interested>>
  BY DEF Roster, Calls, sessVars
<1>2. rx_queue # <<>> /\ ~Handling
  BY <1>1, CalledAlone, HandlingIsNotProcess
<1>3. rx_queue \in Seq(Object)
  BY DEF TypeOK
<1>4. ASSUME Handling' PROVE Seen' = IF fresh' THEN 2 ELSE 0
  BY <1>4 DEF Seen
<1>5. ASSUME Handling', interested,
             fresh' => History(session, rx_queue, server, roster', 2)
      PROVE  History(session, rx_queue, server, roster', Seen')
  <2>1. History(session, rx_queue, server, roster', 0)
    BY <1>5, Forgotten DEF Follows
  <2>2. QED
    BY <1>4, <1>5, <2>1
<1>6. CASE IsPush(session, Object0)
  <2>1. Handling' /\ roster' = HandlePush(roster, Object0.items[1]) /\ fresh' = fresh
    BY <1>6, RosterOnPush
  <2>2. ASSUME interested, fresh PROVE History(session, rx_queue, server, roster', 2)
    <3>1. Seen = 1
      BY <1>2, <2>2 DEF Seen
    <3>2. History(session, rx_queue, server, roster, 1)
      BY <2>2, <3>1 DEF Follows
    <3>3. QED
      BY <1>2, <1>3, <1>6, <2>1, <3>2, PushHandled DEF Object0
  <2>3. QED
    BY <1>1, <1>5, <2>1, <2>2 DEF Follows
<1>7. CASE Iq /\ Object0.type = "result" /\ Object0.query = "roster" /\ Handles(<<Callback("roster")>>)
           /\ roster' = Object0.items /\ fresh' = (Object0.of = session)
  <2>1. Handling'
    BY <1>1, <1>7, KindNames, CallbackIsStep, OneHandled
  <2>2. ASSUME interested, fresh' PROVE History(session, rx_queue, server, roster', 2)
    <3>1. IsResult(session, Object0)
      BY <1>7, <2>2 DEF IsResult, Iq
    <3>2. History(session, rx_queue, server, roster, Seen)
      BY <2>2 DEF Follows
    <3>3. QED
      BY <1>2, <1>3, <1>7, <3>1, <3>2, ResultHandled DEF Object0
  <2>3. QED
    BY <1>1, <1>5, <2>1, <2>2 DEF Follows
<1>8. CASE Handles(<<Callback("roster")>>) /\ fresh' = FALSE
  <2>1. Handling'
    BY <1>1, <1>8, KindNames, CallbackIsStep, OneHandled
  <2>2. QED
    BY <1>1, <1>5, <1>8, <2>1 DEF Follows
<1>9. CASE RosterPush /\ ~IsPush(session, Object0) /\ Handles(<<Reply>>) /\ fresh' = fresh
           /\ (Object0.from = "other" => roster' = roster)
  <2>1. Handling'
    BY <1>1, <1>9, ReplyIsStep, OneHandled
  <2>2. CASE fresh
    <3>1. Object0.of = session
      <4>1. Object0 = rx_queue[1] /\ 1 \in DOMAIN rx_queue
        BY <1>2, <1>3, Shorter DEF Object0
      <4>2. QED
        BY <2>2, <4>1 DEF Sessions, AllOf
    <3>2. roster' = roster
      BY <1>9, <3>1 DEF RosterPush, IsPush, Iq
    <3>3. QED
      BY <1>1, <1>2, <1>9, <2>1, <3>2, FollowsOther
  <2>3. CASE ~fresh
    BY <1>1, <1>5, <1>9, <2>1, <2>3 DEF Follows
  <2>4. QED
    BY <2>2, <2>3
<1>10. CASE Passes /\ UNCHANGED <<roster, fresh>>
  <2>1. ~Handling'
    BY <1>1, <1>10, PassesIsProcess
  <2>2. QED
    BY <1>1, <1>2, <1>10, <2>1, FollowsSame
<1>11. QED
  BY <1>6, <1>7, <1>8, <1>9, <1>10 DEF Roster, Waits

LEMMA FollowsInModule ==
    ASSUME TypeOK, Shape, Sessions, PushIds, Follows, NEW mod \in Module, ModuleStep(mod)
    PROVE  Follows'
<1>1. /\ Calls(mod) /\ rx_queue' = rx_queue
      /\ ((Passes /\ modules' = modules) \/ Handling')
  BY HandlerMoves DEF ModuleStep
<1>2. Now("rx", "process") /\ rx_queue # <<>> /\ ~Handling
  BY <1>1, CalledAlone, HandlingIsNotProcess DEF Calls
<1>3. CASE mod = "roster"
  BY <1>3, FollowsInRoster DEF ModuleStep
<1>4. CASE mod # "roster"
  <2>1. UNCHANGED <<rx_queue, session, server, roster, fresh, interested>>
    BY <1>4 DEF ModuleStep, Core, KeepAlive, Register, Search, Vcard, Private, Version, Ping, Disco,
                SessionResult, Message, Presence, Others, sessVars, modVars, peerVars
  <2>2. CASE Passes
    <3>1. ~Handling'
      BY <1>1, <1>2, <2>2, PassesIsProcess
    <3>2. QED
      BY <1>2, <2>1, <3>1, FollowsSame
  <2>3. CASE ~Passes
    <3>1. Handling' /\ ~IsPush(session, Object0)
      BY <1>1, <1>2, <1>4, <2>3, PushPasses
    <3>2. QED
      BY <1>2, <2>1, <3>1, FollowsOther
  <2>4. QED
    BY <2>2, <2>3
<1>5. QED
  BY <1>3, <1>4

-----------------------------------------------------------------------------
(* The server speaks: what it says continues what it has said before.         *)
LEMMA FollowsSpoken ==
    ASSUME TypeOK, Shape, Honest, Unasked, Follows, Expire \/ Answer \/ Change \/ PeerAsks,
           server' \in ServerRosters
    PROVE  Follows'
<1>1. Spoken /\ UNCHANGED <<running, session, roster, todo, fresh>>
  BY WhatIsSaid
<1>2. Seen' = Seen /\ Seen \in {0, 1, 2}
  BY <1>1 DEF Seen, Handling
<1>3. rx_queue \in Seq(Object) /\ server \in ServerRosters
  BY RosterSent DEF TypeOK
<1>4. Seen = 2 => rx_queue # <<>>
  BY HandlingHasObject DEF Seen
<1>5. SUFFICES ASSUME interested' PROVE History(session, rx_queue', server', roster, Seen)
  BY <1>1, <1>2 DEF Follows
<1>6. ASSUME running \/ interested PROVE History(session, rx_queue, server, roster, Seen)
  <2>1. CASE interested
    BY <2>1 DEF Follows
  <2>2. CASE running /\ ~interested
    <3>1. ~fresh /\ \A i \in DOMAIN rx_queue : ~News(session, rx_queue[i])
      BY <2>2 DEF Unasked
    <3>2. Seen = 0
      BY <3>1 DEF Seen
    <3>3. QED
      BY <1>3, <3>1, <3>2, Unchanging
  <2>3. QED
    BY <1>6, <2>1, <2>2
<1>7. CASE rx_queue' = rx_queue /\ interested' = interested /\ (interested => server' = server)
  BY <1>5, <1>6, <1>7
<1>8. ASSUME NEW obj, Sent(obj), rx_queue' = Append(rx_queue, obj),
             Leads(session, obj, server, server')
      PROVE  History(session, rx_queue', server', roster, Seen)
  <2>1. running /\ obj \in Object
    BY <1>8 DEF Sent
  <2>2. QED
    BY <1>2, <1>3, <1>4, <1>6, <1>8, <2>1, Continued
<1>9. ASSUME NEW obj, NEW obj2, Sent(obj), Sent(obj2),
             rx_queue' = Append(Append(rx_queue, obj), obj2),
             Leads(session, obj, server, server'), Leads(session, obj2, server', server')
      PROVE  History(session, rx_queue', server', roster, Seen)
  <2>1. running /\ obj \in Object /\ obj2 \in Object
    BY <1>9 DEF Sent
  <2>2. PICK q : q = Append(rx_queue, obj)
    OBVIOUS
  <2>3. q \in Seq(Object) /\ q # <<>>
    BY <1>3, <2>1, <2>2, Longer
  <2>4. History(session, q, server', roster, Seen)
    BY <1>2, <1>3, <1>4, <1>6, <1>9, <2>1, <2>2, Continued
  <2>5. QED
    BY <1>2, <1>9, <2>1, <2>2, <2>3, <2>4, Continued
<1>10. QED
  BY <1>1, <1>5, <1>7, <1>8, <1>9 DEF Spoken

LEMMA FollowsOutside ==
    ASSUME TypeOK, Shape, Honest, Sessions, Unasked, Follows, Outside, TypeOK' PROVE Follows'
<1>1. server' \in ServerRosters
  <2>1. server' \in [DOMAIN server' -> Sub] /\ DOMAIN server' \subseteq Jids
    BY DEF TypeOK
  <2>2. QED
    BY <2>1 DEF ServerRosters
<1>2. CASE Run
  <2>1. fresh' = FALSE
    BY <1>2 DEF Run
  <2>2. Seen' = 0
    BY <2>1 DEF Seen
  <2>3. rx_queue' \in Seq(Object) /\ \A i \in DOMAIN rx_queue' : ~News(session', rx_queue'[i])
    BY <1>2, NothingYet
  <2>4. History(session', rx_queue', server', roster', 0)
    BY <1>1, <2>3, Unchanging
  <2>5. QED
    BY <2>2, <2>4 DEF Follows
<1>3. CASE StopStream
  BY <1>3 DEF StopStream, Follows
<1>4. CASE Expire \/ Answer \/ Change \/ PeerAsks
  BY <1>1, <1>4, FollowsSpoken
<1>5. CASE CallText \/ OtherCall \/ End \/ (\E k \in AppKinds : Call(k)) \/ UNCHANGED vars
  <2>1. UNCHANGED <<rx_queue, session, server, roster, fresh, interested>>
    BY <1>5 DEF CallText, OtherCall, End, Call, vars, sessVars, modVars, peerVars
  <2>2. todo'["rx"] = todo["rx"]
    BY OutsideMoves
  <2>3. Seen' = Seen
    BY <2>1, <2>2 DEF Seen, Handling
  <2>4. QED
    BY <2>1, <2>3 DEF Follows
<1>6. QED
  BY <1>2, <1>3, <1>4, <1>5 DEF Outside

LEMMA FollowsStep ==
    ASSUME TypeOK, Shape, Honest, Sessions, Unasked, PushIds, PushAhead, Follows, [Next]_vars, TypeOK'
    PROVE  Follows'
<1>1. ASSUME NEW t \in Thread, ThreadStep(t) PROVE Follows'
  BY <1>1, FollowsInThread
<1>2. ASSUME NEW mod \in Module, ModuleStep(mod) PROVE Follows'
  BY <1>2, FollowsInModule
<1>3. CASE Rx \/ Pop \/ Respond \/ RespondText \/ Forget \/ Unhandled
  BY <1>3, FollowsAtTheEnds
<1>4. CASE Outside
  BY <1>4, FollowsOutside
<1>5. QED
  BY <1>1, <1>2, <1>3, <1>4, StepClasses

RosterInv ==
    TypeOK /\ Shape /\ Sessions /\ Unasked /\ PushIds /\ PushAhead /\ Follows

LEMMA RosterInvInit == Apart /\ Init => RosterInv
<1> SUFFICES ASSUME Apart, Init PROVE Sessions /\ Unasked /\ PushIds /\ PushAhead /\ Follows
  BY TypeInit DEF RosterInv
<1>1. \A t \in Thread : todo[t] = <<>>
  BY DEF Init
<1>2. rx_queue = <<>> /\ ~fresh /\ ~running /\ ~interested
  BY DEF Init
<1>3. \A i \in DOMAIN rx_queue : FALSE
  BY <1>2
<1>4. Sessions
  BY <1>2, <1>3 DEF Sessions, InOrder
<1>5. Unasked
  BY <1>2 DEF Unasked
<1>6. PushIds
  <2>1. \A t \in Thread : \A step \in Range(todo[t]) : Apt(step)
    BY <1>1, NoSteps
  <2>2. ids = [k \in Kind |-> IF k \in Single THEN {0} ELSE {}]
    BY DEF Init
  <2>3. \A k \in Kind : PushId \notin ids[k]
    BY <2>2, FixedIds
  <2>4. QED
    BY <1>3, <2>1, <2>3 DEF PushIds
<1>7. PushAhead
  BY <1>1 DEF PushAhead, Now, Thread
<1>8. Follows
  BY <1>2 DEF Follows
<1>9. QED
  BY <1>4, <1>5, <1>6, <1>7, <1>8

(* Once the roster has been received, and while no push of the server is in   *)
(* the queue, the client's roster is the server's, whatever the order of the  *)
(* modules, the threads, the sessions and the answers.                       *)
THEOREM RosterCorrect == ASSUME Honest, Apart PROVE Spec => []RosterFollowsServer
<1>1. Init => RosterInv
  BY RosterInvInit
<1>2. RosterInv /\ [Next]_vars => RosterInv'
  <2> SUFFICES ASSUME RosterInv, [Next]_vars PROVE RosterInv'
    OBVIOUS
  <2> USE DEF RosterInv
  <2>1. TypeOK' /\ Shape'
    BY TypeStep, ShapeStep
  <2>2. Sessions' /\ Unasked' /\ PushIds'
    BY SessionsStep, UnaskedStep, PushIdsStep
  <2>3. PushAhead'
    BY <2>1, PushAheadStep
  <2>4. Follows'
    BY <2>1, FollowsStep
  <2>5. QED
    BY <2>1, <2>2, <2>3, <2>4
<1>3. RosterInv => RosterFollowsServer
  <2> SUFFICES ASSUME RosterInv, fresh, running,
                      ~(\E i \in DOMAIN rx_queue : RosterNews(rx_queue[i]))
               PROVE  /\ Range(roster) = Contacts(server)
                      /\ Len(roster) = Cardinality(DOMAIN server)
    BY DEF RosterFollowsServer
  <2> USE DEF RosterInv
  <2>1. interested
    BY DEF Unasked
  <2>2. History(session, rx_queue, server, roster, Seen) /\ rx_queue \in Seq(Object)
    BY <2>1 DEF Follows, TypeOK
  <2>3. Seen \in {1, 2} /\ (Seen = 2 => rx_queue # <<>>)
    BY HandlingHasObject DEF Seen
  <2>4. \A i \in DOMAIN rx_queue : ~IsPush(session, rx_queue[i])
    BY DEF RosterNews, IsPush
  <2>5. server \in ServerRosters /\ Represents(roster, server)
    BY <2>2, <2>3, <2>4, CaughtUp
  <2>6. QED
    BY <2>5, AsMany DEF Represents
<1>4. QED
  BY <1>1, <1>2, <1>3, PTL DEF Spec
=============================================================================
